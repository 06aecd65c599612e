\* The reject loop hands out a transfer while a cancel is pending.
CONSTANTS
    PortCount = 1
    HubFeatures <- ChurnFeatures
    PortEvents <- NoPortEvents
    u1 = u1
    u2 = u2
    u3 = u3
    Urbs = {u1, u2, u3}
    WorkerStatuses = {"0", "EIO"}
SPECIFICATION Spec
PROPERTIES
    CancelsBeforeTransfers
SYMMETRY UrbSymmetry

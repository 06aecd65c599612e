\* A rejected URB is given back with status 0, not -EPIPE.
CONSTANTS
    PortCount = 1
    HubFeatures <- NoFeatures
    PortEvents <- NoPortEvents
    u1 = u1
    u2 = u2
    u3 = u3
    Urbs = {u1}
    WorkerStatuses = {"0", "EIO"}
SPECIFICATION Spec
PROPERTIES
    RejectedUrbStalls

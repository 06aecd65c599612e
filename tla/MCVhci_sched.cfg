\* Round-robin port reporting under the worker's fairness: three ports kept busy by the hub driver, no URBs.
CONSTANTS
    PortCount = 3
    HubFeatures <- ChurnFeatures
    PortEvents <- NoPortEvents
    u1 = u1
    u2 = u2
    u3 = u3
    Urbs = {}
    WorkerStatuses = {"0", "EIO"}
SPECIFICATION FairSpec
PROPERTIES
    PortUpdatesServed

\* The root hub alone: one port, every hub request and port event.
CONSTANTS
    PortCount = 1
    HubFeatures <- AllFeatures
    PortEvents <- AllPortEvents
    u1 = u1
    u2 = u2
    u3 = u3
    Urbs = {}
    WorkerStatuses = {"0", "EIO"}
SPECIFICATION Spec
INVARIANTS
    TypeOK
    PortStateLegal
    RootHubSuspendedWhenInaccessible
    NoLostWakeup
PROPERTIES
    PortChangeNotified

\* The transfer registry, its refinement of VhciTransfer and its liveness: two URBs, one
\* port whose change bit the hub driver clears, the worker fair.
CONSTANTS
    PortCount = 1
    HubFeatures <- ChangeFeature
    PortEvents <- NoPortEvents
    u1 = u1
    u2 = u2
    u3 = u3
    Urbs = {u1, u2}
    WorkerStatuses = {"0"}
SPECIFICATION FairSpec
INVARIANTS
    RegistryConsistent
    WorkerHoldsOnlyLiveUrbs
    NoLostWakeup
    RemovalLeavesOnlyQueued
PROPERTIES
    TransferRefinement
    UrbsEventuallyGivenBack
    RemoveTerminates

\* An owner resubmitting a rejected URB keeps ioc_fetch_work in its reject loop.
CONSTANTS
    PortCount = 1
    HubFeatures <- NoFeatures
    PortEvents <- NoPortEvents
    u1 = u1
    u2 = u2
    u3 = u3
    Urbs = {u1}
    WorkerStatuses = {"0", "EIO"}
SPECIFICATION FairSpec
PROPERTIES
    FetchWorkReturns

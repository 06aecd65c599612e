\* One URB, killed while user space processes it and resubmitted: the reply
\* user space still owes for the killed transfer reaches the next one.
CONSTANTS
    PortCount = 1
    HubFeatures <- NoFeatures
    PortEvents <- NoPortEvents
    u1 = u1
    u2 = u2
    u3 = u3
    Urbs = {u1}
    WorkerStatuses = {"0", "EIO"}
SPECIFICATION Spec
PROPERTIES
    StaleReplyFindsNothing

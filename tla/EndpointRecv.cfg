SPECIFICATION FairSpec
CONSTANTS
    Task = {t1, t2}
    MaxMsgs = 3
    MaxCancels = 3
    None = None
INVARIANTS
    WaiterIsSuspended
    WaiterTellsQueue
PROPERTIES
    ImplementsMailbox
    ReceiverIsServed

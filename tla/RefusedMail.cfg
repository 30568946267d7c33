SPECIFICATION Spec
CONSTANTS
    None = None
    Rows <- ThreeRows
    Line <- MailLine
    Subscriber <- NoSubscriber
    After <- ReminderLater
    Mail <- Confirmation
    Droppable <- DroppedRows
    Recallable <- Cancellation
    Processes = {"a", "b"}
    Slots = {"s1", "s2"}
    ProcessOf <- OneEach
    LeaseTime = 2
    MaxBackoff = 2
    KeepDelay = 1
    MaxAttempts = 2
    Horizon = 1
    Floors = {0, 3}
    MaxFaults = 1
INVARIANT HeldLine

SPECIFICATION FairSpec
CONSTANTS
    e1 = e1
    e2 = e2
    bad = bad
    w1 = w1
    w2 = w2
    Entries = {e1, bad}
    Schedule <- Schedules
    Workers = {w1, w2}
    Brokers = {"redis", "kafka"}
    MaxRuns = 2
    MaxFaults = 1
    Garbage = Garbage
    MaxLog = 2
PROPERTIES
    ImplementsLifecycle
    StoredEventuallyTaken
    ReturnsAfterCancel
CHECK_DEADLOCK FALSE

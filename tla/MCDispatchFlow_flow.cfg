\* A message sent twice to a driver that may crash, or routes that change
CONSTANTS
    Requests = {r1}
    Partitions = {p1}
    Groups = {driver, fork}
    Baseline = driver
    MaxMessages = 2
    MaxInterrupts = 1
SPECIFICATION FairSpec
INVARIANTS TypeOK InOrder StepsOnce OneGroup
PROPERTIES ReadOnce AllRead
CONSTRAINT DriverAloneOrWithForks
CHECK_DEADLOCK FALSE

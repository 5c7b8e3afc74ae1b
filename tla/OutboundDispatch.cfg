SPECIFICATION Spec
CONSTANTS
    MaxRequests = 2
    Agents = {a1, a2}
    Creators = {c1}
    CallsPerMinute = 1
    BatchLimit = 1
    MaxFaults = 2
INVARIANT TypeOK
PROPERTIES DialsOnce PendingIsTaken

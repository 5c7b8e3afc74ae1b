SPECIFICATION Spec
CONSTANTS
    Nodes = {n1}
    NoNode = none
    Editors = {e1, e2}
    MaxChanges = 3
    MaxRequests = 3
    BatchLimit = 2
    MaxFaults = 2
INVARIANTS StrandedByFaults AppliedOrIgnored
PROPERTIES AppliesOnce PendingIsClaimed ClaimedIsRecorded

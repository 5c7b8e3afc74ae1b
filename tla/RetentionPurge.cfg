SPECIFICATION PurgeSpec
CONSTANTS
    Recordings = {r1}
    Plan <- CategoryPlan
    Media = {"recording", "voicemail"}
    UserDeleted = {"voicemail"}
    Derived = {}
    Holds = {h1}
    Jobs = {j1, j2}
    Actors = {worker}
    UuidActors = {}
    NoActor = NoActor
SYMMETRY Symmetry
INVARIANTS HoldProtects AuditedOnce

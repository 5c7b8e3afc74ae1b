SPECIFICATION Spec
CONSTANTS
    Tenants = {t1}
    Routes = {r1}
    NoRoute = NoRoute
    MaxVersion = 2
    MatchTypes = {"did", "trunk"}
    Numbers = {d1, d2}
    Phones = {d1}
    NoPhone = NoPhone
    Same = Same
    Requests = {p1, p2}
SYMMETRY Symmetry
INVARIANTS
    ActiveNeverStale
    BoundNumberIsValue

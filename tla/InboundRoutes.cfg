SPECIFICATION Spec
CONSTANTS
    Tenants = {t1, t2}
    Routes = {r1, r2}
    NoRoute = NoRoute
    MaxVersion = 1
    MatchTypes = {"did"}
    Numbers = {d1, d2}
    Phones = {d1}
    NoPhone = NoPhone
    Same = Same
    Requests = {p1, p2}
SYMMETRY Symmetry
INVARIANTS
    DidUnambiguous

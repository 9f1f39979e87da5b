\* Three commands, each of which may be repeated before and after its result
\* has expired; the clock goes on for long enough to reach the film's end.
CONSTANTS
    Films = {f1, f2}
    Unmeasured = {f2}
    Length = 4
    Rates = {2, 3}
    Targets = {5}
    Ids = {c1, c2, c3}
    Lead = 1
    Ttl = 2
    MaxTime = 4
    None = None
SPECIFICATION Spec
SYMMETRY Symmetry
INVARIANTS TypeOK  
PROPERTIES FilmDoesNotJump ImplementsLog

\* One member without a microphone, two sessions.
CONSTANTS
    Members = {m1}
    Speakers = {}
    Ids = {x1, x2}
    Leases = {l1, l2}
    MaxKick = 2
    MaxItems = 3
    All = all
    None = None
SPECIFICATION Spec
SYMMETRY Symmetry
INVARIANT KickedMemberIsCutOff

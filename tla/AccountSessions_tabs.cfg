\* Two accounts and two tabs of one browser, sessions for two logins and one
\* rotation; the limits are one failure per name and two per address.
CONSTANTS
    Accounts = {a1, a2}
    Strangers = {}
    Sessions = {s1, s2}
    Tabs = {t1, t2}
    Ip = ip
    PairLimit = 1
    IpLimit = 2
    Stale = stale
    None = None
SPECIFICATION Spec
SYMMETRY Symmetry
INVARIANT FailuresAreLimited
PROPERTIES CutOffForGood PagesActForTheirAccount

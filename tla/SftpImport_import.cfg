\* The worker is killed at any moment, once.
CONSTANTS
    Files = {f1, f2}
    Direct = {f1}
    MaxPause = 3
    MaxFaults = 1
    None = None
SPECIFICATION FairSpec
INVARIANTS NoHalfFilm OneFilmPerFile
PROPERTY EveryFileIsImported

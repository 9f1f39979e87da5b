\* An upload and an SFTP file; the worker is killed once, anywhere, or once takes
\* longer than its lease.
CONSTANTS
    Uploads = {u1}
    SftpFiles = {s1}
    Unreadable = {}
    MaxJobs = 3
    MaxFaults = 1
    None = None
SPECIFICATION FairSpec
INVARIANTS FilmsHaveFiles OneInspection NothingIsLeft RetriesKeepTheFilm
PROPERTIES InspectionEnds ImplementsFilmLife
CHECK_DEADLOCK FALSE

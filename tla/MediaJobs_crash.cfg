\* One upload; the worker is killed once, or once takes longer than its lease.
CONSTANTS
    Uploads = {u1}
    SftpFiles = {}
    Unreadable = {}
    MaxJobs = 2
    MaxFaults = 1
    None = None
SPECIFICATION FairSpec
PROPERTIES CrashesAreRecovered
CHECK_DEADLOCK FALSE

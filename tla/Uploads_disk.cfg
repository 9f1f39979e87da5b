\* Room for two uploads of two blocks and the reserve, not for one of each size.
CONSTANTS
    Ids = {u1, u2}
    Sizes = {2, 3}
    Disk = 5
    Reserve = 1
    Chunk = 1
    MaxHooks = 2
SPECIFICATION UploadSpec
INVARIANTS UploadTypeOK SpaceIsKept OneFilmPerUpload
PROPERTY NoRevival
CHECK_DEADLOCK FALSE

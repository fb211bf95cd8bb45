\* Two versions, two members of each kind, a player name held by two accounts.
CONSTANTS
    Executable = exe
    Properties = properties
    Overridden = {exe, packs}
    Kept = {properties, allowlist}
    MaxVersion = 2
    Names = {steve}
    Uuids = {u1, u2}
    Xuids = {}
    MaxTime = 4
    MaxEvents = 4
SPECIFICATION DeploySpec
INVARIANTS
    ServesSupported
    BansHold
    DiskCurrent
PROPERTIES
    UserFilesKept
    Recovers

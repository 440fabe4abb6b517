SPECIFICATION Spec
CONSTANTS
    Files <- MCFiles
    Quoted = {"'one'"}
    Broken = {"'open", "'long"}
    Long = {"long", "'long"}
    strtol <- MCstrtol
    family <- MCfamily
    Literal = {"239.0.0.1", "0", "1", "4", "5"}
    Direct = 2200000
    ULong = 2000000000
    SapAddress <- MCSapAddress
    PidMax = 8191
    SapPort = 9875
    LongNames = {"longhost"}
    Bytes <- MCBytes
    SapRoom = 600
\* A file may be rejected, and the process may end.
CHECK_DEADLOCK FALSE
INVARIANTS
    TreeOK
    NestingKept
    SettingsLand
    OutputsAddressed
    OnlyKnownCrashes
    TunedToLnb
    AnnouncedTruly

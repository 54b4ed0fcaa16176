\* The control connection byte by byte.
CONSTANTS
    Cap = 6
    CookieLen = 2
    MaxFrame = 16777216
    Configs <- MCConfigs
SPECIFICATION Spec
INVARIANTS
    TypeOK
    ExchangedOnSuccess
PROPERTIES
    KeepsChannels
    Completes
    SessionEnds
CHECK_DEADLOCK FALSE

SPECIFICATION Spec
CONSTANTS
    Chunk = 2048
    Total = 8192
    Allowed = 16777216
    Compression = TRUE
    Version = 46
    Logins <- MCLogins
    Payloads <- MCPayloads
    Bundles <- MCBundles
    Straddlers <- MCStraddlers
    Messages <- MCMessages
    Results <- MCResults
    Ids = 8
    MaxCommands = 3
INVARIANTS PacketsTile CommandsArriveWhole ResultsNumbered ResultsWhole LengthsReadBack
CHECK_DEADLOCK FALSE

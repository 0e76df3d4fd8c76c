SPECIFICATION Spec
CONSTANTS
    Chunk = 2048
    Total = 8192
    Allowed = 16777216
    Compression = TRUE
    Version = 46
    Logins <- MCLogins
    Payloads = {}
    Bundles = {}
    Straddlers <- MCStraddlers
    Messages <- MCMessages
    Results <- MCResults
    Ids = 8
    MaxCommands = 3
INVARIANT CommandsAsSent
CHECK_DEADLOCK FALSE

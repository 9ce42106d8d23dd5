CONSTANTS
    Radix = 4
    Width <- MCWidth
    Depth <- MCDepth
    DiscLen = 1
    NotUtf8 = {3}
    Value <- MCValue
    Entries <- MCEntries
    Messages <- MCMessages
    Pads <- MCPads
    JunkLen = 5
    Digit = 1
    Sign = 2
    Nul = 0
SPECIFICATION Spec
CHECK_DEADLOCK FALSE
INVARIANTS
    TypeOK
    FieldsDecodeExactly
    TailIsBlank
    StoredReadsBack
    RefusalHasCause

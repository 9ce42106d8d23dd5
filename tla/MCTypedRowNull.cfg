CONSTANTS
    Radix = 4
    Width <- MCWidth
    Depth <- MCDepth
    DiscLen = 1
    NotUtf8 = {3}
    Value <- MCValue
    Entries <- MCOptional
    Messages <- MCOptionals
    Pads <- MCPads
    JunkLen = 0
    Digit = 1
    Sign = 2
    Nul = 0
SPECIFICATION Spec
CHECK_DEADLOCK FALSE
INVARIANT AbsentIsNull

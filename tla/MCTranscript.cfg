CONSTANTS
    None = None
    Radix = 3
    Epoch = 2
    Gaps = {0, 1}
    c1 = c1
    Calls = {c1}
    ToolFamilies = {"exec_command", "collab_close"}
    Channels = {"message", "reasoning", "raw"}
    OtherTypes = {"response"}
    EndMsg <- MCEndMsg
    MaxTurns = 2
    MaxItems = 1
    MaxEvents = 4
SPECIFICATION Spec
INVARIANTS EachEventOnce TurnsDoNotMix
PROPERTY KeepsTheStory
CHECK_DEADLOCK FALSE

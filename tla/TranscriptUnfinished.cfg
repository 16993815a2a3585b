CONSTANTS
    None = None
    Radix = 10
    Epoch = 2
    Gaps = {1}
    c1 = c1
    Calls = {}
    ToolFamilies = {"exec_command", "collab_close"}
    Channels = {"message"}
    OtherTypes = {}
    EndMsg <- MCEndMsg
    MaxTurns = 1
    MaxItems = 2
    MaxEvents = 5
SPECIFICATION Spec
INVARIANT UnfinishedStaysVisible
CHECK_DEADLOCK FALSE

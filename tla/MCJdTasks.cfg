SPECIFICATION FairSpec
CONSTANTS
    owner = owner
    other = other
    thread = thread
    Owner = owner
    Others <- MCOthers
    Thread = thread
    TaskSize = 2
    ReplySize = 2
    MaxCalls = 3
INVARIANTS RunsInOrder RepliesInOrder StopDrains
PROPERTY NobodyIsStuck
CHECK_DEADLOCK FALSE

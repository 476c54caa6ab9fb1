SPECIFICATION FairSpec
CONSTANT MaxTimeouts = 3
CHECK_DEADLOCK FALSE
INVARIANTS ReplyIsOwn LinkKept OneSocket
PROPERTY LinkHeals

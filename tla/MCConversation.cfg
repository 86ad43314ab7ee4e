SPECIFICATION Spec
CONSTANTS
    auto = auto
    build = build
    coder = coder
    Agents <- MCAgents
    First = auto
    Child = coder
    Answers <- MCAnswers
    MaxMessages = 2
    MaxSwaps = 1
    MaxCancels = 1
    MaxAsking = 2
    MaxDepth = 2
    MaxFold = 2
    Compacting = TRUE
INVARIANTS AnswersFollowCalls GapsExplained MessagesKept
PROPERTY MessagesSettled
CHECK_DEADLOCK FALSE

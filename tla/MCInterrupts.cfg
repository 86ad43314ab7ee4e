SPECIFICATION Spec
CONSTANTS
    approval = approval
    question = question
    s1 = s1
    s2 = s2
    Questions <- MCQuestions
    Sessions = {s1, s2}
    Clients = {c1}
    Answers = {yes, no}
    OwnerOf <- MCOwnerOf
    Foreground <- MCForeground
    OfPlan <- MCOfPlan
    OutboxCap = 1
    InputCap = 1
    MaxMessages = 2
    MaxLooks = 1
    MaxCrashes = 1
INVARIANTS OneAnswer 
PROPERTIES AnswerResumes
CHECK_DEADLOCK FALSE

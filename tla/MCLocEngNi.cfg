SPECIFICATION FairSpec
CONSTANTS
    MaxReq = 2
    Answers <- MCAnswers
    MaxDown = 2
    MaxSay = 1
INVARIANTS SentOnce ConsumedOnce RequestGuarded AnswerNoticed
PROPERTIES RequestSettled
CHECK_DEADLOCK FALSE

SPECIFICATION FairSpec
CONSTANTS
    Requests = {r1, r2, r3}
    Keys = {i1, i2}
    Types = {t1, t2}
    StatusIsEnum = TRUE
    r1 = r1
    r2 = r2
    r3 = r3
    i1 = i1
    i2 = i2
    t1 = t1
    t2 = t2
INVARIANTS OneCommandPerKey AnswerIsTrue LosesToACommand
PROPERTY RequestsAnswered
CHECK_DEADLOCK FALSE

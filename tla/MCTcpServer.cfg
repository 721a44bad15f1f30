SPECIFICATION FairSpec
CONSTANTS
    k1 = k1
    k2 = k2
    t1 = t1
    t2 = t2
    t3 = t3
    r1 = r1
    r2 = r2
    r3 = r3
    r4 = r4
    r5 = r5
    Conns = {k1, k2}
    Topics = {t1, t2, t3}
    Reqs = {r1, r2, r3, r4, r5}
    ConnOf <- MCConnOf
    TopicOf <- MCTopicOf
    Handled = {t1, t2}
    Suspending = {t1}
    Exclusive = {t1}
    MayClose = TRUE
    None = None
INVARIANTS
    AnswerMatches
    
    NoDangling
PROPERTIES
    EveryRequestAnswered
CHECK_DEADLOCK FALSE

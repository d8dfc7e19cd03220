SPECIFICATION FairSpec
CONSTANTS
    Pool = 1
    Num = 2
    SockBuf = 2
    HeadParts = 2
    BodyParts = 1
    Named = {"n"}
    Clients <- Clients3
    Chained = {2}
    Answers = 2
CHECK_DEADLOCK FALSE
INVARIANTS
    SentInOrder
    ToldInOrder
    SourceAsked
    LostOnlyWhenBroken
    SleepsIdle
PROPERTIES
    Drains

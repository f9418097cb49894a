SPECIFICATION FairSpec
CONSTANTS
    w1 = w1
    w2 = w2
    r1 = r1
    NoReq = NoReq
    t1 = t1
    t2 = t2
    b1 = b1
    b2 = b2
    b3 = b3
    x = x
    one = one
    NoPoolBlock = NoPoolBlock
    NoBid = NoBid
    NoValue = NoValue
    c1 = c1
    c2 = c2
CHECK_DEADLOCK FALSE

    
    
PROPERTIES
    EveryRequestCompletes
    
    NoLostWakeUp

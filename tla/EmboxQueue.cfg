SPECIFICATION FairSpec
CONSTANTS
    Workers = {w1, w2}
    Supp = supp
    Msgs = {m1, m2, m3}
    NoMsg = NoMsg
    Nobody = Nobody
    QueueLen = 3
INVARIANT QueueSound
PROPERTIES ImplementsFifo PassEnds AcceptedIsTaken

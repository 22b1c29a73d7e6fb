SPECIFICATION Spec
CONSTANTS
    c0 = c0
    c1 = c1
    c2 = c2
    node = node
    channel = channel
    Calls = {c0, c1, c2}
    Streams = {t1, t2}
    Signers = {s1}
    Attentive = {s1}
    Keys = {node, channel}
    NodeKeys = {node}
    Heartbeat = Heartbeat
    None = None
    Req <- MCReq
    Touches <- MCTouches
    Canned = {c0}
    Rejectable = {c2}
    BcastCap = 1
    ChanCap = 1
    WriteIsDurable = TRUE
    WritesMayFail = TRUE
    MaxFaults = 2
SYMMETRY MCSymmetry
INVARIANTS TypeOK StreamsCoverStage NeverTwicePerStream AnsweredIsStored CopiesAgree
PROPERTIES SignsOnLatestState StoreNeverRegresses KeepsPromise
CHECK_DEADLOCK FALSE

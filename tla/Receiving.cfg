SPECIFICATION Spec
CONSTANTS
    p1 = p1
    p2 = p2
    PeerOrder <- MCPeerOrder
    Labels = {l1}
    Secret <- MCSecret
    Parts = {h1, h2}
    Listings <- MCListings
    Amounts = {0, 260}
    Forwards = {130, 260}
    MaxMsat = 27000
    Fees = {0, 1}
    Clients = {c1}
    Capacity = 1
    RpcCapacity = 1
    MaxEvents = 2
    None = None
SYMMETRY MCSymmetry
INVARIANTS ReceivingTypeOK GapFree ReducedIsTaken
CHECK_DEADLOCK FALSE

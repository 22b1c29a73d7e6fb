SPECIFICATION FairSpec
CONSTANTS
    Signers = {s1}
    Streams = {t1, t2}
    Peers = {p1}
    Users = {u1}
    Polls = 1
    MaxFaults = 1
    None = None
INVARIANTS PeersTypeOK CountCoversAttached PeersAreListed
PROPERTIES ListedAreTried CallsEnd StopsWhenAsked
CHECK_DEADLOCK FALSE

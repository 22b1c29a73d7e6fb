SPECIFICATION FairSpec
CONSTANTS
    Calls = {lsp, pay, configure1}
    Configures = {configure1}
    RpcUsers = {lsp}
    Garbled = {pay}
    Background = {}
    pay = pay
    lsp = lsp
    configure1 = configure1
    sweep = sweep
    None = None
    Loader = Loader
    MaxFaults = 2
INVARIANTS TypeOK 
PROPERTIES PendingIsShown EveryCallEnds
CHECK_DEADLOCK FALSE

SPECIFICATION FairSpec
CONSTANTS
    first = first
    second = second
    chanA = chanA
    chanB = chanB
    Calls = {first, second}
    Channels = {chanA, chanB}
    Splits <- OneOrTwo
INVARIANTS TypeOK PaidOnce PaidInFull
PROPERTIES PaidIsNotSentAgain KeepsPromise EveryCallAnswers
CHECK_DEADLOCK FALSE

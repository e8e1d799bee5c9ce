\* Two processes race for one consumer; one of them may die.
SPECIFICATION Spec
CONSTANTS
    Consumers = {c1}
    Workers = {w1, w2}
    Tokens = {t1, t2, t3}
    NoToken = NoToken
    NoConsumer = NoConsumer
    StartSequences = {1}
    Lease = 2
    RetryDelays <- Delays
    MaxAttempts = 2
    MaxEvents = 2
    MaxSequence = 3
    MaxTime = 5
    MaxCrashes = 1
SYMMETRY Interchangeable
INVARIANTS
    TypeOK
    NoEventSkipped
    FirstDeliveryInOrder
    LeaseProtects
    ClaimBookkeeping
    RetryAccounting
    ExhaustedIsRecoverable
PROPERTIES
    ExhaustedWaitsForOperator

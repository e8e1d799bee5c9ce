\* Two consumers share the log, registered early or late; retention runs between.
SPECIFICATION Spec
CONSTANTS
    Consumers = {c1, c2}
    Workers = {w1}
    Tokens = {t1, t2, t3}
    NoToken = NoToken
    NoConsumer = NoConsumer
    StartSequences = {1, 2, 4}
    Lease = 1
    RetryDelays <- Delays
    MaxAttempts = 1
    MaxEvents = 2
    MaxSequence = 3
    MaxTime = 2
    MaxCrashes = 1
SYMMETRY Interchangeable
INVARIANTS
    SequenceIntegrity
    AbandonmentAudited
    NeededEventsRetained
PROPERTIES
    DeliversInOrder

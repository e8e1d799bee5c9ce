\* One runner is started again and again; a second one comes and goes.
SPECIFICATION FairSpec
CONSTANTS
    Consumers = {c1}
    Workers = {w1, w2}
    Runners = {w1}
    Tokens = {t1, t2, t3}
    NoToken = NoToken
    NoConsumer = NoConsumer
    StartSequences = {1}
    Lease = 2
    RetryDelays <- Delays
    MaxAttempts = 2
    MaxEvents = 1
    MaxSequence = 2
    MaxTime = 4
    MaxCrashes = 1
PROPERTIES
    EventuallySettled

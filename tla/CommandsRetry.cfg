SPECIFICATION RetrySpec
CONSTANTS
    None = None
    Slots = {s1, s2}
    Keys = {k1, k2}
    Digests = {d1}
    Successes = {ok1}
    Refusals = {no1}
    MaxFaults = 2
PROPERTY EveryClientLearns
CHECK_DEADLOCK FALSE

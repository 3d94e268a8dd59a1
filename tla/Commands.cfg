SPECIFICATION Spec
CONSTANTS
    None = None
    Slots = {s1, s2}
    Keys = {k1, k2}
    Digests = {d1, d2}
    Successes = {ok1, ok2}
    Refusals = {no1}
INVARIANT EngineInv
INVARIANT EffectAtMostOnce
INVARIANT NoHalfDoneCommand
INVARIANT AnswersAreDurable
PROPERTY OnceSpec

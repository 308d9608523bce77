\* Three calls over the default chain of two models.
CONSTANTS
    flashLite = flashLite
    flash = flash
    Calls = {c1, c2, c3}
    Chain <- MCChain
    FailureThreshold = 2
    Cooldown = 2
SPECIFICATION FairSpec
INVARIANTS
    CountMatchesCircuit
    LateFailuresAreBounded
    CircuitIsEarned
    OneVoice
PROPERTIES
    NeverLatches
    CompletesEnd

SPECIFICATION Spec
CONSTANTS
    Checks = {4}
    ErrChecks = {4}
    GlitchChecks = {4}
    DigChecks = {}
    CntMod <- MCCntMod
    LimitValues = {0, 2}
    Setpoints = {0, 1}
    TickDiv = 3
    HeldCap = 4
INVARIANTS TypeOK DebounceExact ClearWindowBounded
PROPERTIES Implements ClearLeavesNothing ErrorOnlyWhenSteady ClearHonoured

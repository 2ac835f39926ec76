SPECIFICATION RetuneSpec
CONSTANTS
    Checks = {0}
    ErrChecks = {}
    GlitchChecks = {}
    DigChecks = {}
    CntMod <- MCCntMod
    LimitValues = {0, 1, 2}
    Setpoints = {0}
    TickDiv = 3
    HeldCap = 3
    UnderCap = 7
INVARIANTS TripsWithinOneWrap
PROPERTIES NoEarlyTrip

SPECIFICATION InterlockSpec
CONSTANTS
    Checks = {10}
    ErrChecks = {}
    GlitchChecks = {}
    DigChecks = {10}
    On = 10
    PERIOD = 15
    CntMod <- MCCntMod
    LimitValues = {1}
    Setpoints = {0}
    TickDiv = 3
    HeldCap = 4
INVARIANT OnSeesOneHalf
PROPERTIES TripHolds OnTrips

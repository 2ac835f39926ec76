SPECIFICATION Spec
CONSTANTS
  Chans = {1, 4}
  SumLen <- MCSumLen
  RamSize = 3
  Depth = 4
  CntRange = 8
  NumRegs = 2
  Old = 5
INVARIANTS TypeOK WindowOfOneTurn SamplesStayFresh
PROPERTY MeanUnlessSwitched

SPECIFICATION Spec
CONSTANTS
  Pi = 11
  Span = 14
  Exact = 4
  Amp = 8
  RaisedCos <- Cosine
  Setpoints <- Both
  Depth = 2
  AddrMod = 4
  Messages <- Tables
  RampLens = {1, 3}
  Rate = 1
  Offset = 1
  Gain = 1048575
  Unit = 1048576
  Half = 32
  MaxCommands = 2
INVARIANTS TypeOK RampBounded
PROPERTIES RampMonotone EndsWithinFour RampEnds PlaysTheMessage TableEnds

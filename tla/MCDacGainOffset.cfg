SPECIFICATION Spec
CONSTANTS
  Half = 8
  Limit = 2
  Unit = 4
  Raws <- AllRaws
  Offsets <- SomeOffsets
  Gains <- SomeGains
  Dly = 1
INVARIANTS TypeOK SaturationExact

SPECIFICATION BootSpec
CONSTANTS
  Chans = {1, 2}
  Asked = {1}
  Clients = {t1, t2, con}
  Console = con
  Bits = {0}
  MaskBits = {0}
  FaultMask = {0}
  Contents = {{}}
  MaxBegun = 2
  MaxLines = 1
  MaxResets = 1
PROPERTIES BootRestoresSaved SaveIsExact CommandEnds BootEnds

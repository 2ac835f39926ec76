SPECIFICATION Spec
CONSTANTS
  Chans = {1, 2}
  Asked = {1, 2}
  Clients = {t1, t2}
  Console = con
  Bits = {0}
  Contents = {{}, {0}}
  MaxBegun = 2
PROPERTY SaveStoresGathered

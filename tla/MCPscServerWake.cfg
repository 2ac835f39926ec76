SPECIFICATION Spec
CONSTANTS
  MaxClients = 1
  Conns = {c1, c2}
  NumFds = 3
  Listener = Listener
  Closed = Closed
  NoConn = NoConn
  Sender = Sender
PROPERTY CloseWakesOwnRx

\* A client resets its connection while it is being answered.
CONSTANTS
  Conn = {c1, c2}
  NoConn = NoConn
  Fd = {4, 5}
  MaxOperators = 2
  MaxCommands = 2
  MaxLogins = 1
  SockBuf = 1
SYMMETRY Symmetry
SPECIFICATION Spec
INVARIANTS ServerSurvives

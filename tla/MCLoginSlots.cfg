\* One slot: it is not handed out again after its operator has left.
CONSTANTS
  Conn = {c1, c2}
  NoConn = NoConn
  Fd = {4, 5}
  MaxOperators = 1
  MaxCommands = 2
  MaxLogins = 1
  SockBuf = 1
SYMMETRY Symmetry
SPECIFICATION Spec
INVARIANTS LoginRegisters

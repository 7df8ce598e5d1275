\* Fair threads, and remote ends that keep reading.
CONSTANTS
  Conn = {c1, c2}
  NoConn = NoConn
  Fd = {4, 5}
  MaxOperators = 2
  MaxCommands = 2
  MaxLogins = 1
  SockBuf = 1
SPECIFICATION FairSpec
PROPERTIES CommandsAnswered GoneClientsReleased

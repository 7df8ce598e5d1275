\* Two operators that also measure: their broadcasts race, each to both, and
\* a connection accepted after the other has ended takes over its descriptor.
CONSTANTS
  Conn = {c1, c2}
  NoConn = NoConn
  Fd = {4, 5}
  MaxOperators = 2
  MaxCommands = 4
  MaxLogins = 1
  SockBuf = 1
SYMMETRY Symmetry
SPECIFICATION Spec
INVARIANTS TypeOK ContextsOutliveUse OneWriterPerSocket AlertsOnlyToOperators OperatorsStayListed NoCircularWait
PROPERTIES BroadcastReachesAll ImplementsLog

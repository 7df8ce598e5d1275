\* Two threads, three commands: two races in a row.
CONSTANTS
  Threads = {t1, t2}
  Kinds = {"register", "status"}
  MaxCommands = 3
  Arity <- MCArity
  MAX_ARGS = 2
SYMMETRY Symmetry
SPECIFICATION ParserSpec
INVARIANTS TypeOK UndisturbedIsOwn AnswersAreRecent AloneIsOwn

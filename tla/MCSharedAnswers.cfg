\* Two clients ask at the same time.
CONSTANTS
  Threads = {t1, t2}
  Kinds = {"register", "status"}
  MaxCommands = 3
SYMMETRY Symmetry
SPECIFICATION Spec
INVARIANTS AnswersAreOwn

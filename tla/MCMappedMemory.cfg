\* Calls of libgetts from three threads, over and over.
CONSTANTS
  t1 = t1
  t2 = t2
  t3 = t3
  Threads = {t1, t2, t3}
  NoThread = NoThread
  NumPages = 5
  PagesOf <- MCPagesOf
SPECIFICATION Spec
SYMMETRY Symmetry
INVARIANTS
  TypeOK
  HarmOnlyBetween
\* A process that has crashed does nothing more.
CHECK_DEADLOCK FALSE

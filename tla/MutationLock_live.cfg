\* Two threads of one process, a death, unlinks that keep failing, everybody keeps running.
SPECIFICATION FairSpec
CONSTANTS
  a = a
  b = b
  c = c
  P = P
  Q = Q
  Threads = {a, b}
  Procs = {P}
  ProcOf <- MCProcOfTwo
  Tokens = {k1, k2, k3}
  Ports = {q1, q2}
  ForeignPorts = {}
  NoThread = NoThread
  Foreign = Foreign
  NoToken = NoToken
  NoPort = NoPort
  Callers = {"wait", "try"}
  MaxDepth = 2
  MaxCrashes = 1
  Faults = TRUE
INVARIANTS NothingLeaked
PROPERTIES MalformedKept EveryRequestEnds

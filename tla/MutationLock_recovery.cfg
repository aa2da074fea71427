\* Two processes, every entry point, two process deaths, an unrelated program that binds a port.
SPECIFICATION Spec
CONSTANTS
  a = a
  b = b
  c = c
  P = P
  Q = Q
  Threads = {a, c}
  Procs = {P, Q}
  ProcOf <- MCProcOfOne
  Tokens = {k1, k2, k3, k4}
  Ports = {q1, q2}
  ForeignPorts = {q2}
  NoThread = NoThread
  Foreign = Foreign
  NoToken = NoToken
  NoPort = NoPort
  Callers = {"wait", "try", "migrate"}
  MaxDepth = 2
  MaxCrashes = 2
  Faults = FALSE
SYMMETRY MCSymmetry
INVARIANTS MutualExclusion CurrentGeneration OwnerKeepsFile
PROPERTIES ImplementsMutex

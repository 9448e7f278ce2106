SPECIFICATION Spec
CONSTANTS
  Agents = {a1}
  Threads = {t1, t2, t3}
  None = None
  MaxVersion = 2
  MaxFaults = 2
  Crashes = TRUE
SYMMETRY Symmetry
INVARIANTS OneLiveThread
PROPERTY NoStaleReplacement

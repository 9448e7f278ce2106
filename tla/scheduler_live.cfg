SPECIFICATION FairSpec
CONSTANTS
  Agents = {a1}
  Threads = {t1, t2, t3}
  None = None
  MaxVersion = 1
  MaxFaults = 0
  Crashes = TRUE
PROPERTIES DeferredRestartReplaces RestartAllHonoured ImplementsLifecycle

SPECIFICATION FairSpec
CONSTANTS
  Tasks = {c1, c2}
  Top = 2
  Levels = {1}
  Threshold = 1
  Boost = 1
  Cooldown = 1
  MaxTime = 2
  Contents = {1, 2}
  MaxFaults = 1
INVARIANTS DecayChargesOnce
PROPERTIES NoResurrection FindableWhileAlive ChaseEnds

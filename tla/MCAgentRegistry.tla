---------------------------- MODULE MCAgentRegistry ----------------------------
EXTENDS AgentRegistry, TLC

\* The names of agents and the requests of the administrators are
\* interchangeable.
Symmetry == Permutations(Names) \cup Permutations(Requests)
=============================================================================

----------------------------- MODULE MCManagement -----------------------------
(***************************************************************************)
(* The scaled clock, the administrators and the models of agents in one    *)
(* instance.  They share no variable: a behaviour is one of a single part, *)
(* chosen in the initial state.                                            *)
(***************************************************************************)
EXTENDS TimeSystem, AdminAccounts, ModelBinding, TLC

VARIABLE part

allVars == <<part, vars, adminVars, modelVars>>

ManagementInit ==
  /\ part \in {"clock", "admins", "models"}
  /\ Init /\ AdminInit /\ ModelInit
  /\ part # "admins" => console = "management"

ManagementNext ==
  \/ part = "clock" /\ Next /\ UNCHANGED <<part, adminVars, modelVars>>
  \/ part = "admins" /\ AdminNext /\ UNCHANGED <<part, vars, modelVars>>
  \/ part = "models" /\ ModelNext /\ UNCHANGED <<part, vars, adminVars>>

ManagementSpec == ManagementInit /\ [][ManagementNext]_allVars

Symmetry == Permutations(Requests) \cup Permutations(Agents)
=============================================================================

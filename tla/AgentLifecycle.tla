--------------------------- MODULE AgentLifecycle ---------------------------
(***************************************************************************)
(* What the scheduler promises about each agent, without threads, locks    *)
(* and workers: an agent is stopped, running or stopping; it is launched   *)
(* only from "stopped" and only while scheduling is switched on; and what  *)
(* was asked to stop does stop.  SchedulerLifecycle implements it.         *)
(***************************************************************************)
CONSTANT Agents

VARIABLES
  on,     (* scheduling is switched on                                     *)
  phase   (* what each agent does                                          *)

vars == <<on, phase>>

Phases == {"stopped", "running", "stopping"}

Init ==
  /\ on = FALSE
  /\ phase = [a \in Agents |-> "stopped"]

Move(a, from, to) ==
  /\ phase[a] = from
  /\ phase' = [phase EXCEPT ![a] = to]
  /\ UNCHANGED on

SwitchOn  == ~on /\ on' = TRUE /\ UNCHANGED phase
SwitchOff == on' = FALSE /\ UNCHANGED phase

Launch(a)    == on /\ Move(a, "stopped", "running")
AskToStop(a) == Move(a, "running", "stopping")
Finish(a)    == Move(a, "stopping", "stopped")
Fail(a)      == Move(a, "running", "stopped")

Next ==
  \/ SwitchOn
  \/ SwitchOff
  \/ \E a \in Agents : Launch(a) \/ AskToStop(a) \/ Finish(a) \/ Fail(a)

Spec == Init /\ [][Next]_vars

\* A thread that was asked to stop leaves its loop.
FairSpec == Spec /\ \A a \in Agents : WF_vars(Finish(a))
=============================================================================

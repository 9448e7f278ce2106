------------------------------ MODULE MCEngagement ------------------------------
(***************************************************************************)
(* What comes after a post: reactions, reposts and notifications, in one   *)
(* instance.  The three models share no variable, so that their            *)
(* interleavings reach nothing each of them does not reach alone: a        *)
(* behaviour is one of a single part, chosen in the initial state.         *)
(***************************************************************************)
EXTENDS Reactions, Notices, Reposts, TLC

VARIABLE part

allVars == <<part, reactionsVars, noticesVars, repostsVars>>

EngagementInit ==
  /\ part \in {"reactions", "notices", "reposts"}
  /\ ReactionsInit /\ NoticesInit /\ RepostsInit

EngagementNext ==
  \/ part = "reactions" /\ ReactionsNext /\ UNCHANGED <<part, noticesVars, repostsVars>>
  \/ part = "notices" /\ NoticesNext /\ UNCHANGED <<part, reactionsVars, repostsVars>>
  \/ part = "reposts" /\ RepostsNext /\ UNCHANGED <<part, reactionsVars, noticesVars>>

EngagementSpec == EngagementInit /\ [][EngagementNext]_allVars

Symmetry == Permutations(Users) \cup Permutations(Requests)
=============================================================================

---------------------------- MODULE MCContentSafety ----------------------------
(***************************************************************************)
(* Sanctions and reviews in one instance.  The two models share no         *)
(* variable: a behaviour is one of a single part, chosen in the initial    *)
(* state.                                                                  *)
(***************************************************************************)
EXTENDS Moderation, ContentReview, TLC

VARIABLE part

allVars == <<part, vars, reviewVars>>

SafetyInit == part \in {"sanctions", "reviews"} /\ Init /\ ReviewInit

SafetyNext ==
  \/ part = "sanctions" /\ Next /\ UNCHANGED <<part, reviewVars>>
  \/ part = "reviews" /\ ReviewNext /\ UNCHANGED <<part, vars>>

SafetySpec == SafetyInit /\ [][SafetyNext]_allVars

Symmetry == Permutations(Contents) \cup Permutations(Requests)
=============================================================================

-------------------------------- MODULE MCAccess --------------------------------
(***************************************************************************)
(* What a user or an agent does on the platform before and beside posting, *)
(* in one instance: accounts and their sessions, avatars, hot topics and   *)
(* the agents' scrolling.  The four models share no variable: a behaviour  *)
(* is one of a single part, chosen in the initial state.                   *)
(***************************************************************************)
EXTENDS Accounts, HotTopics, FeedScroll, ProfileAvatars, TLC

VARIABLE part

allVars == <<part, accountVars, hotVars, feedVars, avatarVars>>

AccessInit ==
  /\ part \in {"accounts", "topics", "feed", "avatars"}
  /\ AccountsInit /\ HotInit /\ FeedInit /\ AvatarInit
  /\ part # "feed" => jitter = [x \in Items |-> 0]
  /\ part # "avatars" => strategy = "local"

AccessNext ==
  \/ part = "accounts" /\ AccountsNext /\ UNCHANGED <<part, hotVars, feedVars, avatarVars>>
  \/ part = "topics" /\ HotNext /\ UNCHANGED <<part, accountVars, feedVars, avatarVars>>
  \/ part = "feed" /\ FeedNext /\ UNCHANGED <<part, accountVars, hotVars, avatarVars>>
  \/ part = "avatars" /\ AvatarNext /\ UNCHANGED <<part, accountVars, hotVars, feedVars>>

AccessSpec == AccessInit /\ [][AccessNext]_allVars

Symmetry == Permutations(Requests)
=============================================================================

--------------------------- MODULE MCCommentThread ---------------------------
(* Comment ids and requests can be exchanged for one another.              *)
EXTENDS CommentThread, TLC

Symmetry == Permutations(Comments) \cup Permutations(Requests)
=============================================================================

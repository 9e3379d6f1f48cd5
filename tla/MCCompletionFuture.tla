------------------------ MODULE MCCompletionFuture ------------------------
(* A small instance of CompletionFuture for TLC. *)
EXTENDS CompletionFuture
CONSTANTS c1, c2, o1, f1
=============================================================================

-------------------------- MODULE MCQueuedAwaiter --------------------------
(* Instance of QueuedAwaiter for TLC. *)
EXTENDS QueuedAwaiter
=============================================================================

----------------------------- MODULE MCExecutor -----------------------------
(* Constants of Executor for TLC. *)
EXTENDS Executor

\* Any script may come with any request.
MCAllowed == [r \in Req |-> Kind]

=============================================================================

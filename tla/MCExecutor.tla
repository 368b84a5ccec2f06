----------------------------- MODULE MCExecutor -----------------------------
(***************************************************************************)
(* Two attempts of a command, each with helpers it may fork.                 *)
(***************************************************************************)
EXTENDS Executor

Codes == {0, 1, 7}
Retryable == {7}
=============================================================================

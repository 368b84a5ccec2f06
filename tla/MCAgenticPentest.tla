-------------------------- MODULE MCAgenticPentest --------------------------
(***************************************************************************)
(* An instance of AgenticPentest: two rounds of two actions, a budget that   *)
(* runs out in the second round, two AI calls per process, one seed.         *)
(***************************************************************************)
EXTENDS AgenticPentest

CONSTANT word

MCSeed == {word}
==============================================================================

---------------------------- MODULE MCMilterAlias ---------------------------
(***************************************************************************)
(* A directory of one list for MilterAlias.                                *)
(***************************************************************************)
EXTENDS MilterAlias

MCListAnswers == [x \in Sender |-> {{1, 2}, {}}]

MCOwnAnswers == [a \in Account |-> {{1}}]
=============================================================================

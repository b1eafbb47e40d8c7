--------------------------- MODULE MCMilterSession ---------------------------
(***************************************************************************)
(* A small directory for MilterSession.  "team" is a mailing list that may *)
(* lose a member or be deleted between queries, "user" an ordinary         *)
(* address.  Account "a" owns addresses 1 and 2, "b" owns 2 or, once its   *)
(* entry is gone, none.                                                    *)
(***************************************************************************)
EXTENDS MilterSession, TLC

MCListAnswers == [x \in Sender |-> IF x = "team" THEN {{1, 2}, {}} ELSE {{}}]

MCOwnAnswers == [a \in Account |-> IF a = "a" THEN {{1, 2}} ELSE {{2}, {}}]

\* Connections and objects are interchangeable.
Symmetry == Permutations(Session) \cup Permutations(Id)
=============================================================================

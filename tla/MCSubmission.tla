---------------------------- MODULE MCSubmission ----------------------------
EXTENDS Submission

CONSTANTS c1, c2, c3, x, y

Three == {c1, c2, c3}
Two == {c1, c2}
Both == {x, y}

(* x has transactions for the local chain, y has none.                     *)
OnlyX == {x}

(* Two calls submit the same transactions, the third others.               *)
MCFp == [c \in Clients |-> IF c = c3 THEN y ELSE x]
=============================================================================

--------------------------- MODULE MCMailboxWait ---------------------------
EXTENDS MailboxWait, TLC

CONSTANTS a, b, k, l

Both == {a, b}
OnlyA == {a}
TwoKeys == {k, l}

(* One XT reads two messages, the other one.                               *)
MCDeps == [x \in Xts |-> IF x = a THEN {k, l} ELSE {k}]

(* Every message comes once, but one comes twice.                          *)
MCCopies == [x \in Xts |-> IF x = a THEN (k :> 2 @@ l :> 1) ELSE (k :> 1 @@ l :> 0)]
=============================================================================

-------------------------- MODULE MCStateOverrides --------------------------
EXTENDS StateOverrides

CONSTANTS a, s, t

(* The mailbox contract keeps an inbox entry in one of the slots.          *)
InboxSlot == {<<a, s>>}
=============================================================================

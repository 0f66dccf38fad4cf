---------------------------- MODULE MCStandalone ----------------------------
EXTENDS Standalone

CONSTANTS s1, s2, x, y

Two == {s1, s2}
Both == {x, y}
OnlyPeers == {s2}

(* All chains, submitted to the first sidecar.                             *)
FromFirst == [z \in Xts |-> s1]
AllChains == [z \in Xts |-> Sidecars]
=============================================================================

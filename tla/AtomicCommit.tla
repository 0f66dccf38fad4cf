---------------------------- MODULE AtomicCommit ----------------------------
(***************************************************************************)
(* What the sidecars promise together for an XT: the sidecar of every      *)
(* chain the XT spans votes at most once; a sidecar records commit only    *)
(* after all of them voted yes and abort only after one of them voted no;  *)
(* and it records one decision only.                                       *)
(***************************************************************************)
CONSTANTS
  Sidecars,     \* the sidecars, one per chain
  Ids,          \* instance ids
  Xts,          \* the XTs clients submit
  Chains        \* the chains (named by their sidecars) each XT spans

VARIABLES
  started,      \* the instances: entries [id, xt]
  cast,         \* the votes: entries [at, id, vote]
  log           \* the decisions: entries [at, id, xt, decision]

vars == <<started, cast, log>>

Init == started = {} /\ cast = {} /\ log = {}

Start(id, x) ==
  /\ \A e \in started : e.id # id
  /\ started' = started \cup {[id |-> id, xt |-> x]}

Vote(s, e, v) ==
  /\ s \in Chains[e.xt]
  /\ \A b \in cast : ~(b.at = s /\ b.id = e.id)
  /\ cast' = cast \cup {[at |-> s, id |-> e.id, vote |-> v]}

(* A sidecar may decide in the step in which it votes.                     *)
Decide(s, e, d) ==
  /\ \A f \in log : ~(f.at = s /\ f.id = e.id)
  /\ d = "commit" => \A c \in Chains[e.xt] :
                       [at |-> c, id |-> e.id, vote |-> "yes"] \in cast'
  /\ d = "abort" => \E c \in Chains[e.xt] :
                       [at |-> c, id |-> e.id, vote |-> "no"] \in cast'
  /\ log' = log \cup {[at |-> s, id |-> e.id, xt |-> e.xt, decision |-> d]}

Next ==
  \/ /\ \E id \in Ids, x \in Xts : Start(id, x)
     /\ UNCHANGED <<cast, log>>
  \/ \E s \in Sidecars, e \in started :
       /\ UNCHANGED started
       /\ \/ \E v \in {"yes", "no"} : Vote(s, e, v)
          \/ UNCHANGED cast
       /\ \/ \E d \in {"commit", "abort"} : Decide(s, e, d)
          \/ UNCHANGED log

Spec == Init /\ [][Next]_vars
-----------------------------------------------------------------------------
(* No two sidecars decide differently about an instance, and they decide   *)
(* about the same transactions: the XT executes on every chain or on none. *)
Agreement ==
  \A e, f \in log : e.id = f.id => e.xt = f.xt /\ e.decision = f.decision
=============================================================================

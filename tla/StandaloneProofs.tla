-------------------------- MODULE StandaloneProofs --------------------------
(***************************************************************************)
(* Standalone mode implements atomic commitment, and agrees; and a sidecar *)
(* registers the same transactions once.                                   *)
(*                                                                         *)
(* The inductive invariant comes first, then the steps that cast and count *)
(* no vote, then arriving forwards, restarts and votes; every vote and     *)
(* decision is a step of AtomicCommit.  This holds for any number of       *)
(* sidecars, XTs, faults and restarts of peers, as long as an XT has       *)
(* transactions for the chain it is submitted to and that sidecar does not *)
(* restart.  Both are needed: without local transactions the origin votes  *)
(* no although nobody counts its vote, and an origin that restarts gives   *)
(* an id twice.                                                            *)
(***************************************************************************)
EXTENDS Standalone, TLAPS

(* A fact about counting: as many voters among those expected as there are *)
(* expected are all of them.  It is proved where it is used last.          *)
EnoughAreAll ==
  \A T \in SUBSET Sidecars : \A U \in SUBSET T :
    Cardinality(U) >= Cardinality(T) => U = T

(* An XT has transactions for the chain it is submitted to, and that       *)
(* sidecar keeps its state.                                                *)
StableOrigins == \A x \in Xts : Origin[x] \in Chains[x] /\ Origin[x] \notin Crashers

(***************************************************************************)
(* The shape of the state, with the sets of tables and of peer votes under *)
(* names of their own.                                                     *)
(***************************************************************************)
PeerVotes == UNION {[S -> {"yes", "no"}] : S \in SUBSET Sidecars}

(* A PendingXt.                                                            *)
Recs == [xt : Xts, seq : Nat, local_vote : Ballots, peer_votes : PeerVotes,
         decision : {"none", "commit", "abort"}]

(* The map of pending XTs of a sidecar.                                    *)
Tables == UNION {[S -> Recs] : S \in SUBSET Ids}

(* Where the task of an instance stands.                                   *)
Steps == {"idle", "submit", "simulate", "command"}

(* The state has its shape.                                                *)
Shape ==
  /\ origin_seq \in [Sidecars -> Nat]
  /\ pending \in [Sidecars -> Tables]
  /\ proc \in [Sidecars -> [Ids -> Steps]]

(***************************************************************************)
(* What there is of an instance at a sidecar.                              *)
(***************************************************************************)
Known(id) == \E e \in started : e.id = id

(* The sidecar has cast a vote on it.                                      *)
Voted(s, id) == \E b \in cast : b.at = s /\ b.id = id

(* The sidecar has decided it.                                             *)
Recorded(s, id) == \E e \in log : e.at = s /\ e.id = id

(* A forward of it is on its way to the sidecar.                           *)
Forwarded(s, id) == \E m \in net : m.type = "forward" /\ m.to = s /\ m.id = id

(* The sidecar has not met it.                                             *)
Untouched(s, id) ==
  /\ ~Voted(s, id) /\ ~Recorded(s, id)
  /\ proc[s][id] = "idle" /\ id \notin DOMAIN pending[s]

(* The votes in a record were cast, by the sidecar they are recorded for.  *)
VotesCast(s, id, r) ==
  /\ r.local_vote # "none" => [at |-> s, id |-> id, vote |-> r.local_vote] \in cast
  /\ \A c \in DOMAIN r.peer_votes :
       c # s /\ [at |-> c, id |-> id, vote |-> r.peer_votes[c]] \in cast

(***************************************************************************)
(* The inductive invariant.  The hard part is that no sidecar votes or     *)
(* decides twice: a sidecar meets an instance once, when it starts it or   *)
(* when the only forward of it arrives, and up to then there is nothing of *)
(* it there.  No forward exists before the origin has passed "submit".     *)
(***************************************************************************)
Held(s, id) ==
  id \in DOMAIN pending[s] =>
    /\ [id |-> id, xt |-> pending[s][id].xt] \in started
    /\ VotesCast(s, id, pending[s][id])
    /\ pending[s][id].decision = "none" => ~Recorded(s, id)

(* A task belongs to a pending instance of the sidecar's chain, and has    *)
(* voted only when it is past the vote.                                    *)
Tasks(s, id) ==
  /\ proc[s][id] # "idle" =>
       id \in DOMAIN pending[s] /\ s \in Chains[pending[s][id].xt]
  /\ proc[s][id] \in {"submit", "simulate"} => ~Voted(s, id)
  /\ proc[s][id] = "command" => pending[s][id].local_vote # "none"

(* A forward finds nothing of its instance, and there is nothing anywhere  *)
(* of an instance that is not started or still being submitted.            *)
Arrival(s, id) ==
  /\ Forwarded(s, id) => s # id[1] /\ Untouched(s, id)
  /\ ~Known(id) => Untouched(s, id) /\ ~Forwarded(s, id)
  /\ s # id[1] /\ proc[id[1]][id] = "submit" => Untouched(s, id) /\ ~Forwarded(s, id)

(* All of it for one sidecar and one instance.                             *)
Local(s, id) == Held(s, id) /\ Tasks(s, id) /\ Arrival(s, id)

(* An id names the origin of its XT and a number already given.            *)
StartedInv ==
  \A e \in started :
    /\ e.id \in Ids /\ e.xt \in Xts
    /\ e.id[1] = Origin[e.xt] /\ e.id[2] <= origin_seq[e.id[1]]

(* Messages speak of started instances and of votes that were cast, and a  *)
(* sidecar is sent at most one forward of an instance.                     *)
NetInv ==
  /\ \A m \in net :
       /\ m.to \in Sidecars /\ m.id \in Ids
       /\ \/ /\ m.type = "forward" /\ m.seq \in Nat
             /\ [id |-> m.id, xt |-> m.xt] \in started
          \/ /\ m.type = "vote" /\ m.from \in Sidecars /\ m.from # m.to
             /\ m.vote \in {"yes", "no"}
             /\ [at |-> m.from, id |-> m.id, vote |-> m.vote] \in cast
  /\ \A m, n \in net :
       m.type = "forward" /\ n.type = "forward" /\ m.to = n.to /\ m.id = n.id => m = n

(* Only the chains of an XT vote on it.                                    *)
CastInv ==
  \A b \in cast : \E e \in started : e.id = b.id /\ b.at \in Chains[e.xt]

(* The inductive invariant.                                                *)
IInv ==
  /\ Shape /\ StartedInv /\ IdNamesOneXt /\ NetInv /\ CastInv
  /\ \A s \in Sidecars, id \in Ids : Local(s, id)
-----------------------------------------------------------------------------
(* Tables and peer votes: what they hold, and adding and removing entries. *)
LEMMA TableEntries ==
  ASSUME NEW T \in Tables
  PROVE  DOMAIN T \subseteq Ids /\ \A id \in DOMAIN T : T[id] \in Recs
BY Zenon DEF Tables

(* Entries added to, removed from and replaced in a table leave a table.   *)
LEMMA TableUpdates ==
  ASSUME NEW T \in Tables, NEW id \in Ids
  PROVE  /\ \A r \in Recs : With(T, id, r) \in Tables
         /\ Without(T, id) \in Tables
         /\ id \in DOMAIN T => \A r \in Recs : [T EXCEPT ![id] = r] \in Tables
<1>1. PICK S \in SUBSET Ids : T \in [S -> Recs]
  BY Zenon DEF Tables
<1>2. ASSUME NEW r \in Recs PROVE With(T, id, r) \in [S \cup {id} -> Recs]
  BY <1>1, <1>2, Zenon DEF With
<1>3. Without(T, id) \in [S \ {id} -> Recs]
  BY <1>1, Zenon DEF Without
<1>4. ASSUME id \in S, NEW r \in Recs PROVE [T EXCEPT ![id] = r] \in [S -> Recs]
  BY <1>1, <1>4, Zenon
<1>5. S \cup {id} \in SUBSET Ids /\ S \ {id} \in SUBSET Ids
  BY Zenon
<1> QED
  BY <1>1, <1>2, <1>3, <1>4, <1>5, Zenon DEF Tables

(* The state of a sidecar that starts has an empty table.                  *)
LEMMA EmptyTable == [id \in {} |-> "none"] \in Tables
<1>1. [id \in {} |-> "none"] \in [{} -> Recs]
  BY Zenon
<1> QED
  BY <1>1, Zenon DEF Tables

(* Peer votes are votes of sidecars.                                       *)
LEMMA PeerVoteEntries ==
  ASSUME NEW f \in PeerVotes
  PROVE  DOMAIN f \subseteq Sidecars /\ \A c \in DOMAIN f : f[c] \in {"yes", "no"}
BY Zenon DEF PeerVotes

(* Recording a vote (handle_peer_vote) leaves peer votes.                  *)
LEMMA PeerVoteUpdates ==
  /\ [c \in {} |-> "none"] \in PeerVotes
  /\ \A f \in PeerVotes, c \in Sidecars, v \in {"yes", "no"} : With(f, c, v) \in PeerVotes
<1>1. [c \in {} |-> "none"] \in [{} -> {"yes", "no"}]
  BY Zenon
<1>2. ASSUME NEW f \in PeerVotes, NEW c \in Sidecars, NEW v \in {"yes", "no"}
      PROVE  With(f, c, v) \in PeerVotes
  <2>1. PICK S \in SUBSET Sidecars : f \in [S -> {"yes", "no"}]
    BY Zenon DEF PeerVotes
  <2>2. With(f, c, v) \in [S \cup {c} -> {"yes", "no"}]
    BY <2>1, Zenon DEF With
  <2>3. S \cup {c} \in SUBSET Sidecars
    BY Zenon
  <2> QED
    BY <2>2, <2>3, Zenon DEF PeerVotes
<1> QED
  BY <1>1, <1>2, Zenon DEF PeerVotes

(* PendingXt::new() is a record with no vote and no decision.              *)
LEMMA NewXtShape ==
  ASSUME NEW x \in Xts, NEW seq \in Nat
  PROVE  /\ NewXt(x, seq) \in Recs /\ NewXt(x, seq).xt = x
         /\ NewXt(x, seq).local_vote = "none" /\ NewXt(x, seq).decision = "none"
         /\ DOMAIN NewXt(x, seq).peer_votes = {}
BY PeerVoteUpdates, Zenon DEF NewXt, Recs, Ballots

(* The decision on a record is backed by the votes in it.  Enough votes to *)
(* commit are those of all chains, because only sidecars of the XT's       *)
(* chains vote.                                                            *)
LEMMA DecisionBacked ==
  ASSUME EnoughAreAll, NEW s \in Sidecars, NEW id, NEW r \in Recs, NEW C,
         r.local_vote # "none" => [at |-> s, id |-> id, vote |-> r.local_vote] \in C,
         \A c \in DOMAIN r.peer_votes :
           c # s /\ [at |-> c, id |-> id, vote |-> r.peer_votes[c]] \in C,
         \A c \in Sidecars, v \in {"yes", "no"} :
           [at |-> c, id |-> id, vote |-> v] \in C => c \in Chains[r.xt],
         r.decision = "none"
  PROVE  /\ StandaloneDecision(s, r) \in {"none", "commit", "abort"}
         /\ StandaloneDecision(s, r) = "commit" =>
              \A c \in Chains[r.xt] : [at |-> c, id |-> id, vote |-> "yes"] \in C
         /\ StandaloneDecision(s, r) = "abort" =>
              \E c \in Chains[r.xt] : [at |-> c, id |-> id, vote |-> "no"] \in C
<1> DEFINE d == StandaloneDecision(s, r)
<1>1. /\ r.local_vote \in Ballots /\ r.xt \in Xts
      /\ DOMAIN r.peer_votes \subseteq Sidecars
      /\ \A c \in DOMAIN r.peer_votes : r.peer_votes[c] \in {"yes", "no"}
  BY PeerVoteEntries, Zenon DEF Recs
<1>2. d \in {"none", "commit", "abort"}
  BY Zenon DEF StandaloneDecision
<1>3. ASSUME d = "abort"
      PROVE  \E c \in Chains[r.xt] : [at |-> c, id |-> id, vote |-> "no"] \in C
  <2>1. HasAbortVote(s, r)
    BY <1>3, Zenon DEF StandaloneDecision
  <2>2. PICK c \in Sidecars : [at |-> c, id |-> id, vote |-> "no"] \in C
    BY <1>1, <2>1, Zenon DEF HasAbortVote
  <2> QED
    BY <2>2, Zenon
<1>4. ASSUME d = "commit", NEW c \in Chains[r.xt]
      PROVE  [at |-> c, id |-> id, vote |-> "yes"] \in C
  <2>1. ~HasAbortVote(s, r) /\ Cardinality(Collected(s, r)) >= Cardinality(Chains[r.xt])
    BY <1>4, Zenon DEF StandaloneDecision, Expected
  <2>2. \A k \in Collected(s, r) : [at |-> k, id |-> id, vote |-> "yes"] \in C
    BY <1>1, <2>1, Zenon DEF Collected, HasAbortVote, Ballots
  <2>3. Collected(s, r) \subseteq Sidecars
    BY <1>1, Zenon DEF Collected
  <2>4. Collected(s, r) \in SUBSET Chains[r.xt]
    BY <2>2, <2>3, Zenon
  <2>5. Chains[r.xt] \in SUBSET Sidecars
    BY <1>1, StandaloneAssumption, Zenon
  <2>6. Chains[r.xt] = Collected(s, r)
    BY <2>1, <2>4, <2>5 DEF EnoughAreAll
  <2> QED
    BY <2>2, <2>6, Zenon
<1> QED
  BY <1>2, <1>3, <1>4, Zenon
-----------------------------------------------------------------------------
(* A step that leaves an instance at a sidecar alone.                      *)
Same(p, i) ==
  /\ i \in DOMAIN pending'[p] <=> i \in DOMAIN pending[p]
  /\ i \in DOMAIN pending[p] => pending'[p][i] = pending[p][i]
  /\ proc'[p][i] = proc[p][i]
  /\ Voted(p, i)' => Voted(p, i)
  /\ Recorded(p, i)' => Recorded(p, i)
  /\ Forwarded(p, i)' => Forwarded(p, i)

(* What a step does not touch of an instance keeps its part of the         *)
(* invariant.                                                              *)
LEMMA SameKeepsLocal ==
  ASSUME NEW p \in Sidecars, NEW i \in Ids, Local(p, i), Same(p, i),
         started \subseteq started', cast \subseteq cast',
         p # i[1] /\ proc'[i[1]][i] = "submit" => proc[i[1]][i] = "submit" \/ ~Known(i)
  PROVE  Local(p, i)'
<1>1. Held(p, i)'
  BY Zenon DEF Local, Held, Same, VotesCast
<1>2. Tasks(p, i)'
  BY Zenon DEF Local, Tasks, Same
<1>3. Untouched(p, i) => Untouched(p, i)'
  BY Zenon DEF Untouched, Same
<1>4. ~Known(i)' => ~Known(i)
  BY Zenon DEF Known
<1>5. Arrival(p, i)'
  BY <1>3, <1>4, Zenon DEF Local, Arrival, Same
<1> QED
  BY <1>1, <1>2, <1>5, Zenon DEF Local

(* Once an instance is at a sidecar, no forward of it will come.           *)
LEMMA ActiveArrival ==
  ASSUME NEW s \in Sidecars, NEW id \in Ids, Local(s, id), ~Untouched(s, id),
         started \subseteq started', Forwarded(s, id)' => Forwarded(s, id),
         s # id[1] => proc'[id[1]][id] = proc[id[1]][id]
  PROVE  Arrival(s, id)'
<1>1. Known(id)' /\ ~Forwarded(s, id)'
  BY Zenon DEF Local, Arrival, Known
<1> QED
  BY <1>1, Zenon DEF Local, Arrival

(* The tables after one entry of one sidecar changed.                      *)
LEMMA OneTable ==
  ASSUME Shape, NEW s \in Sidecars, NEW id \in Ids, NEW T \in Tables,
         pending' = [pending EXCEPT ![s] = T],
         DOMAIN T \ {id} = DOMAIN pending[s] \ {id},
         \A i \in DOMAIN T \ {id} : T[i] = pending[s][i]
  PROVE  /\ pending' \in [Sidecars -> Tables] /\ pending'[s] = T
         /\ \A p \in Sidecars, i \in Ids : p # s \/ i # id =>
              /\ i \in DOMAIN pending'[p] <=> i \in DOMAIN pending[p]
              /\ i \in DOMAIN pending[p] => pending'[p][i] = pending[p][i]
<1>1. pending' \in [Sidecars -> Tables] /\ pending'[s] = T
      /\ \A p \in Sidecars : p # s => pending'[p] = pending[p]
  BY Zenon DEF Shape
<1>2. ASSUME NEW i \in Ids, i # id
      PROVE  /\ i \in DOMAIN T <=> i \in DOMAIN pending[s]
             /\ i \in DOMAIN pending[s] => T[i] = pending[s][i]
  BY <1>2, Zenon
<1> QED
  BY <1>1, <1>2, Zenon

(* A step of one task leaves the other sidecars and instances as they are. *)
LEMMA OneTask ==
  ASSUME Shape, NEW s \in Sidecars, NEW id \in Ids,
         NEW k \in Steps,
         proc' = [proc EXCEPT ![s][id] = k]
  PROVE  /\ proc' \in [Sidecars -> [Ids -> Steps]]
         /\ proc'[s][id] = k
         /\ \A p \in Sidecars, i \in Ids : p # s \/ i # id => proc'[p][i] = proc[p][i]
BY Zenon DEF Shape

(* A step about one instance at one sidecar leaves the rest as it was.     *)
LEMMA OthersSame ==
  ASSUME IInv, NEW s \in Sidecars, NEW id \in Ids,
         started \subseteq started', cast \subseteq cast',
         \A p \in Sidecars, i \in Ids : p # s \/ i # id =>
           /\ Same(p, i)
           /\ proc'[i[1]][i] = "submit" => proc[i[1]][i] = "submit" \/ ~Known(i)
  PROVE  \A p \in Sidecars, i \in Ids : p # s \/ i # id => Local(p, i)'
BY SameKeepsLocal, Zenon DEF IInv
(* Messages that stay on their way keep what is known of them.             *)
LEMMA NetShrinks ==
  ASSUME IInv, net' \subseteq net, started \subseteq started', cast \subseteq cast'
  PROVE  /\ NetInv'
         /\ \A p, i : Forwarded(p, i)' => Forwarded(p, i)
<1>1. NetInv'
  BY Zenon DEF IInv, NetInv
<1>2. \A p, i : Forwarded(p, i)' => Forwarded(p, i)
  BY Zenon DEF Forwarded
<1> QED
  BY <1>1, <1>2, Zenon

(* A step that changes no history variable is a stutter of AtomicCommit.   *)
LEMMA GhostsSame ==
  ASSUME IInv, UNCHANGED ghostVars
  PROVE  /\ IdNamesOneXt' /\ CastInv' /\ started \subseteq started' /\ cast \subseteq cast'
         /\ \A p, i : (Voted(p, i)' => Voted(p, i)) /\ (Recorded(p, i)' => Recorded(p, i))
         /\ UNCHANGED AC!vars
BY Zenon DEF IInv, IdNamesOneXt, CastInv, ghostVars, Voted, Recorded, AC!vars

(* What is shown of every step.                                            *)
IIStep == IInv' /\ [AC!Next]_(AC!vars)

(* The number the origin gives was not given before, because the origin    *)
(* has not restarted: nothing of the new instance is anywhere.             *)
LEMMA SubmitStep ==
  ASSUME StableOrigins, IInv, NEW x \in Xts, SubmitXt(x)
  PROVE  IIStep
<1> DEFINE s == Origin[x]
<1>a. s \in Sidecars /\ origin_seq[s] \in Nat
  BY StandaloneAssumption, Zenon DEF IInv, Shape
<1>b. PICK seq \in Nat : seq = origin_seq[s] + 1
  BY <1>a
<1> DEFINE id == <<s, seq>>
           T == With(pending[s], id, NewXt(x, seq))
<1>1. s \in Sidecars /\ s \in Chains[x] /\ seq \in Nat /\ seq \in 1 .. MaxSeq /\ id \in Ids
  BY <1>a, <1>b, StandaloneAssumption DEF StableOrigins, SubmitXt, Ids
<1>2. ~Known(id)
  <2>1. \A e \in started : e.id[1] = s => e.id[2] <= origin_seq[s]
    BY Zenon DEF IInv, StartedInv
  <2> QED
    BY <1>a, <1>b, <2>1 DEF Known
<1>3. \A p \in Sidecars : Untouched(p, id) /\ ~Forwarded(p, id)
  BY <1>1, <1>2, Zenon DEF IInv, Local, Arrival
<1>4. /\ origin_seq' = [origin_seq EXCEPT ![s] = seq]
      /\ pending' = [pending EXCEPT ![s] = T] /\ proc' = [proc EXCEPT ![s][id] = "submit"]
      /\ started' = started \cup {[id |-> id, xt |-> x]}
      /\ net' = net /\ cast' = cast /\ log' = log
  BY <1>b, Zenon DEF SubmitXt
<1>5. T \in Tables /\ DOMAIN T = DOMAIN pending[s] \cup {id} /\ T[id] = NewXt(x, seq)
      /\ \A i \in DOMAIN T \ {id} : T[i] = pending[s][i]
  <2>1. pending[s] \in Tables
    BY <1>1, Zenon DEF IInv, Shape
  <2>2. T \in Tables
    BY <1>1, <2>1, TableUpdates, NewXtShape, Zenon
  <2> QED
    BY <2>2, Zenon DEF With
<1> HIDE DEF T, id, s
<1>6. /\ pending' \in [Sidecars -> Tables] /\ pending'[s] = T
      /\ \A p \in Sidecars, i \in Ids : p # s \/ i # id =>
           /\ i \in DOMAIN pending'[p] <=> i \in DOMAIN pending[p]
           /\ i \in DOMAIN pending[p] => pending'[p][i] = pending[p][i]
  BY <1>1, <1>4, <1>5, OneTable, ZenonT(60) DEF IInv
<1>7. /\ proc' \in [Sidecars -> [Ids -> Steps]]
      /\ proc'[s][id] = "submit"
      /\ \A p \in Sidecars, i \in Ids : p # s \/ i # id => proc'[p][i] = proc[p][i]
  BY <1>1, <1>4, OneTask, Zenon DEF IInv, Steps
<1>8. Shape'
  BY <1>1, <1>4, <1>6, <1>7, Zenon DEF IInv, Shape
<1>9. StartedInv'
  <2>1. \A p \in Sidecars : origin_seq'[p] \in Nat /\ origin_seq[p] <= origin_seq'[p]
    BY <1>4, <1>8, <1>a, <1>b DEF IInv, Shape
  <2>2. \A e \in started : e.id[1] \in Sidecars /\ e.id[2] \in Nat /\ origin_seq[e.id[1]] \in Nat
    BY StandaloneAssumption DEF IInv, StartedInv, Shape, Ids
  <2>3. id[1] = Origin[x] /\ id[2] = seq /\ origin_seq'[s] = seq
    BY <1>1, <1>4, Zenon DEF IInv, Shape, id, s
  <2>4. ASSUME NEW e \in started'
        PROVE  /\ e.id \in Ids /\ e.xt \in Xts
               /\ e.id[1] = Origin[e.xt] /\ e.id[2] <= origin_seq'[e.id[1]]
    <3>1. CASE e \in started
      BY <2>1, <2>2, <3>1 DEF IInv, StartedInv
    <3>2. CASE e = [id |-> id, xt |-> x]
      BY <1>1, <2>3, <3>2 DEF s
    <3> QED
      BY <1>4, <3>1, <3>2, Zenon
  <2> QED
    BY <2>4, Zenon DEF StartedInv
<1>10. IdNamesOneXt' /\ CastInv'
  BY <1>2, <1>4 DEF IInv, IdNamesOneXt, CastInv, Known
<1>11. /\ NetInv' /\ started \subseteq started' /\ cast \subseteq cast'
       /\ \A p, i : Forwarded(p, i)' => Forwarded(p, i)
  BY <1>4, NetShrinks, Zenon
<1>12. \A p, i : (Voted(p, i)' => Voted(p, i)) /\ (Recorded(p, i)' => Recorded(p, i))
  BY <1>4, Zenon DEF Voted, Recorded
<1>13. Local(s, id)'
  <2>1. Held(s, id)'
    BY <1>1, <1>3, <1>4, <1>5, <1>6, <1>12, NewXtShape DEF Held, VotesCast, Untouched
  <2>2. Tasks(s, id)'
    BY <1>1, <1>3, <1>5, <1>6, <1>7, <1>12, NewXtShape DEF Tasks, Untouched
  <2>3. Arrival(s, id)'
    <3>1. id[1] = s
      BY Zenon DEF id
    <3>2. Known(id)'
      <4>1. [id |-> id, xt |-> x] \in started' /\ [id |-> id, xt |-> x].id = id
        BY <1>4, Zenon
      <4> QED
        BY <4>1, Zenon DEF Known, id, s
    <3>3. ~Forwarded(s, id)'
      BY <1>1, <1>3, <1>11, Zenon
    <3> QED
      BY <3>1, <3>2, <3>3, Zenon DEF Arrival
  <2> QED
    BY <2>1, <2>2, <2>3, Zenon DEF Local
<1>14. \A p \in Sidecars, i \in Ids : p # s \/ i # id => Local(p, i)'
  <2>1. ASSUME NEW p \in Sidecars, NEW i \in Ids, p # s \/ i # id
        PROVE  /\ Same(p, i)
               /\ proc'[i[1]][i] = "submit" => proc[i[1]][i] = "submit" \/ ~Known(i)
    <3>1. i[1] \in Sidecars
      BY Zenon DEF Ids
    <3> QED
      BY <1>2, <1>6, <1>7, <1>11, <1>12, <2>1, <3>1, Zenon DEF Same
  <2> QED
    BY <1>1, <1>11, <2>1, OthersSame
<1>15. AC!Next
  <2>1. \A e \in started : e.id # id
    BY <1>2, Zenon DEF Known
  <2> QED
    BY <1>1, <1>4, <2>1, Zenon DEF AC!Next, AC!Start
<1> QED
  BY <1>8, <1>9, <1>10, <1>11, <1>13, <1>14, <1>15, Zenon DEF IIStep, IInv

(* A step of a task about one instance that changes no ghost and sends no  *)
(* forward: everything else is as it was.                                  *)
LEMMA TaskElsewhere ==
  ASSUME IInv, NEW s \in Sidecars, NEW id \in Ids, UNCHANGED ghostVars,
         \A p, i : Forwarded(p, i)' => Forwarded(p, i),
         \A p \in Sidecars, i \in Ids : p # s \/ i # id =>
           /\ i \in DOMAIN pending'[p] <=> i \in DOMAIN pending[p]
           /\ i \in DOMAIN pending[p] => pending'[p][i] = pending[p][i]
           /\ proc'[p][i] = proc[p][i],
         s = id[1] => proc'[s][id] # "submit"
  PROVE  \A p \in Sidecars, i \in Ids : p # s \/ i # id => Local(p, i)'
<1>1. /\ started \subseteq started' /\ cast \subseteq cast'
      /\ \A p, i : (Voted(p, i)' => Voted(p, i)) /\ (Recorded(p, i)' => Recorded(p, i))
  BY GhostsSame, Zenon
<1>2. ASSUME NEW p \in Sidecars, NEW i \in Ids, p # s \/ i # id
      PROVE  /\ Same(p, i)
             /\ proc'[i[1]][i] = "submit" => proc[i[1]][i] = "submit" \/ ~Known(i)
  <2>1. i[1] \in Sidecars
    BY Zenon DEF Ids
  <2> QED
    BY <1>1, <1>2, <2>1 DEF Same
<1> QED
  BY <1>1, <1>2, OthersSame

(* The origin forwards the XT once, to peers where nothing of it is.       *)
LEMMA SubmittedStep ==
  ASSUME IInv, NEW s \in Sidecars, NEW id \in Ids, SubmittedToBuilder(s, id)
  PROVE  IIStep
<1> DEFINE F == Forwards(s, id, pending[s][id].xt, origin_seq[s])
<1>1. /\ proc[s][id] = "submit" /\ proc' = [proc EXCEPT ![s][id] = "simulate"]
      /\ net' = IF s = id[1] THEN net \cup F ELSE net
      /\ pending' = pending /\ origin_seq' = origin_seq /\ UNCHANGED ghostVars
  BY Zenon DEF SubmittedToBuilder
<1>2. Local(s, id) /\ ~Untouched(s, id) /\ id[1] \in Sidecars /\ id \in DOMAIN pending[s]
  BY <1>1, Zenon DEF IInv, Local, Tasks, Untouched, Ids
<1>3. /\ IdNamesOneXt' /\ CastInv' /\ started \subseteq started' /\ cast \subseteq cast'
      /\ \A p, i : (Voted(p, i)' => Voted(p, i)) /\ (Recorded(p, i)' => Recorded(p, i))
      /\ UNCHANGED AC!vars
  BY <1>1, GhostsSame, Zenon
<1>4. /\ proc' \in [Sidecars -> [Ids -> Steps]]
      /\ proc'[s][id] = "simulate"
      /\ \A p \in Sidecars, i \in Ids : p # s \/ i # id => proc'[p][i] = proc[p][i]
  BY <1>1, OneTask, Zenon DEF IInv, Steps
<1>5. Shape' /\ StartedInv'
  BY <1>1, <1>4, Zenon DEF IInv, Shape, StartedInv, ghostVars
<1>6. \A m \in F : /\ m.type = "forward" /\ m.to \in Sidecars \ {s} /\ m.id = id
                   /\ m.xt = pending[s][id].xt /\ m.seq = origin_seq[s]
  BY DEF Forwards, Peers
<1>7. ~Forwarded(s, id)'
  <2>1. ~Forwarded(s, id)
    BY <1>2, Zenon DEF Local, Arrival
  <2> QED
    BY <1>1, <1>6, <2>1, Zenon DEF Forwarded
<1>8. Local(s, id)'
  <2>1. Held(s, id)'
    BY <1>1, <1>2, <1>3, Zenon DEF Local, Held, VotesCast
  <2>2. Tasks(s, id)'
    BY <1>1, <1>2, <1>3, <1>4, Zenon DEF Local, Tasks
  <2>3. s # id[1] => proc'[id[1]][id] = proc[id[1]][id]
    BY <1>2, <1>4, Zenon
  <2>4. Arrival(s, id)'
    BY <1>2, <1>3, <1>7, <2>3, ActiveArrival, Zenon
  <2> QED
    BY <2>1, <2>2, <2>4, Zenon DEF Local
<1>9. CASE s # id[1]
  <2>1. NetInv' /\ \A p, i : Forwarded(p, i)' => Forwarded(p, i)
    BY <1>1, <1>3, <1>9, NetShrinks, Zenon
  <2>2. \A p \in Sidecars, i \in Ids : p # s \/ i # id => Local(p, i)'
    BY <1>1, <1>4, <1>9, <2>1, TaskElsewhere
  <2> QED
    BY <1>3, <1>5, <1>8, <2>1, <2>2, Zenon DEF IIStep, IInv
<1>10. CASE s = id[1]
  <2>1. \A p \in Sidecars : p # s => Untouched(p, id) /\ ~Forwarded(p, id)
    BY <1>1, <1>10, Zenon DEF IInv, Local, Arrival
  <2>2. NetInv'
    <3>1. ASSUME NEW m \in F
          PROVE  /\ m.to \in Sidecars /\ m.id \in Ids /\ m.type = "forward" /\ m.seq \in Nat
                 /\ [id |-> m.id, xt |-> m.xt] \in started
      BY <1>2, <1>6, Zenon DEF IInv, Shape, Local, Held
    <3>2. \A m, n \in F : m.to = n.to => m = n
      BY SMTT(60) DEF Forwards
    <3>3. ASSUME NEW m \in F, NEW n \in net, n.type = "forward", m.to = n.to, m.id = n.id
          PROVE  FALSE
      BY <1>6, <2>1, <3>3, Zenon DEF Forwarded
    <3>4. net' = net \cup F
      BY <1>1, <1>10, Zenon
    <3> QED
      BY <1>3, <3>1, <3>2, <3>3, <3>4, SMTT(60) DEF IInv, NetInv
  <2>3. ASSUME NEW p \in Sidecars, NEW i \in Ids, i # id PROVE Local(p, i)'
    <3>1. Forwarded(p, i)' => Forwarded(p, i)
      BY <1>1, <1>6, <2>3, Zenon DEF Forwarded
    <3>2. Same(p, i)
      BY <1>1, <1>3, <1>4, <2>3, <3>1, Zenon DEF Same
    <3>3. i[1] \in Sidecars
      BY Zenon DEF Ids
    <3> QED
      BY <1>3, <1>4, <2>3, <3>2, <3>3, SameKeepsLocal, Zenon DEF IInv
  <2>4. ASSUME NEW p \in Sidecars, p # s PROVE Local(p, id)'
    <3>1. Untouched(p, id)'
      BY <1>1, <1>3, <1>4, <2>1, <2>4, Zenon DEF Untouched
    <3>2. Held(p, id)' /\ Tasks(p, id)'
      BY <3>1, Zenon DEF Untouched, Held, Tasks
    <3>3. Known(id)'
      BY <1>2, <1>3, Zenon DEF Local, Held, Known
    <3>4. Arrival(p, id)'
      BY <1>4, <1>10, <2>4, <3>1, <3>3, Zenon DEF Arrival
    <3> QED
      BY <3>2, <3>4, Zenon DEF Local
  <2> QED
    BY <1>3, <1>5, <1>8, <2>2, <2>3, <2>4, Zenon DEF IIStep, IInv
<1> QED
  BY <1>9, <1>10, Zenon

(* An instance that is removed, because the builder refused it or long     *)
(* after its decision, does not come back.                                 *)
LEMMA RemovedStep ==
  ASSUME IInv, NEW s \in Sidecars, NEW id \in Ids, RemovePending(s, id),
         id \in DOMAIN pending[s], proc' = [proc EXCEPT ![s][id] = "idle"],
         UNCHANGED <<origin_seq, net, ghostVars>>
  PROVE  IIStep
<1> DEFINE T == Without(pending[s], id)
<1>1. pending' = [pending EXCEPT ![s] = T]
  BY Zenon DEF RemovePending
<1>2. T \in Tables /\ DOMAIN T = DOMAIN pending[s] \ {id}
      /\ \A i \in DOMAIN T \ {id} : T[i] = pending[s][i]
  <2>1. pending[s] \in Tables
    BY Zenon DEF IInv, Shape
  <2>2. T \in Tables
    BY <2>1, TableUpdates, Zenon
  <2> QED
    BY <2>2, Zenon DEF Without
<1> HIDE DEF T
<1>3. /\ pending' \in [Sidecars -> Tables] /\ pending'[s] = T
      /\ \A p \in Sidecars, i \in Ids : p # s \/ i # id =>
           /\ i \in DOMAIN pending'[p] <=> i \in DOMAIN pending[p]
           /\ i \in DOMAIN pending[p] => pending'[p][i] = pending[p][i]
  <2>1. DOMAIN T \ {id} = DOMAIN pending[s] \ {id}
    BY <1>2, Zenon
  <2> QED
    BY <1>1, <1>2, <2>1, OneTable, ZenonT(60) DEF IInv
<1>4. /\ proc' \in [Sidecars -> [Ids -> Steps]]
      /\ proc'[s][id] = "idle"
      /\ \A p \in Sidecars, i \in Ids : p # s \/ i # id => proc'[p][i] = proc[p][i]
  BY OneTask, Zenon DEF IInv, Steps
<1>5. /\ IdNamesOneXt' /\ CastInv' /\ started \subseteq started' /\ cast \subseteq cast'
      /\ UNCHANGED AC!vars
  BY GhostsSame, Zenon
<1>6. NetInv' /\ \A p, i : Forwarded(p, i)' => Forwarded(p, i)
  BY <1>5, NetShrinks, Zenon
<1>7. Shape' /\ StartedInv'
  BY <1>3, <1>4, Zenon DEF IInv, Shape, StartedInv, ghostVars
<1>8. Local(s, id)'
  <2>1. Held(s, id)' /\ Tasks(s, id)'
    BY <1>2, <1>3, <1>4, Zenon DEF Held, Tasks
  <2>2. s # id[1] => proc'[id[1]][id] = proc[id[1]][id]
    BY <1>4, Zenon DEF Ids
  <2>3. Local(s, id) /\ ~Untouched(s, id)
    BY Zenon DEF IInv, Untouched
  <2>4. Arrival(s, id)'
    BY <1>5, <1>6, <2>2, <2>3, ActiveArrival, Zenon
  <2> QED
    BY <2>1, <2>4, Zenon DEF Local
<1>9. \A p \in Sidecars, i \in Ids : p # s \/ i # id => Local(p, i)'
  BY <1>3, <1>4, <1>6, TaskElsewhere
<1> QED
  BY <1>5, <1>6, <1>7, <1>8, <1>9, Zenon DEF IIStep, IInv

(* A builder that refuses the XT makes the sidecar forget the instance.    *)
LEMMA RefusedStep ==
  ASSUME IInv, NEW s \in Sidecars, NEW id \in Ids, BuilderRefuses(s, id)
  PROVE  IIStep
<1>1. id \in DOMAIN pending[s]
  BY Zenon DEF BuilderRefuses, IInv, Local, Tasks
<1> QED
  BY <1>1, RemovedStep, Zenon DEF BuilderRefuses

(* cleanup() forgets a decided instance; its votes and decision stay in    *)
(* the history.                                                            *)
LEMMA CleanupStep ==
  ASSUME IInv, NEW s \in Sidecars, NEW id \in Ids, Cleanup(s, id)
  PROVE  IIStep
<1>1. proc' = [proc EXCEPT ![s][id] = "idle"]
  BY Zenon DEF Cleanup, IInv, Shape
<1> QED
  BY <1>1, RemovedStep, ZenonT(60) DEF Cleanup

(* The end of the builder command: the vote that leaves, if it does, is    *)
(* the one that was cast.                                                  *)
LEMMA CommandStep ==
  ASSUME IInv, NEW s \in Sidecars, NEW id \in Ids,
         CommandApplied(s, id) \/ CommandFails(s, id)
  PROVE  IIStep
<1> DEFINE V == Votes(s, id, pending[s][id].local_vote)
<1>1. /\ proc[s][id] = "command" /\ proc' = [proc EXCEPT ![s][id] = "idle"]
      /\ net' = net \cup V \/ net' = net
      /\ pending' = pending /\ origin_seq' = origin_seq /\ UNCHANGED ghostVars
  BY Zenon DEF CommandApplied, CommandFails
<1>2. Local(s, id) /\ ~Untouched(s, id) /\ id \in DOMAIN pending[s]
  BY <1>1, Zenon DEF IInv, Local, Tasks, Untouched
<1>3. /\ IdNamesOneXt' /\ CastInv' /\ started \subseteq started' /\ cast \subseteq cast'
      /\ UNCHANGED AC!vars
  BY <1>1, GhostsSame, Zenon
<1>4. /\ proc' \in [Sidecars -> [Ids -> Steps]]
      /\ proc'[s][id] = "idle"
      /\ \A p \in Sidecars, i \in Ids : p # s \/ i # id => proc'[p][i] = proc[p][i]
  BY <1>1, OneTask, Zenon DEF IInv, Steps
<1>5. Shape' /\ StartedInv'
  BY <1>1, <1>4, Zenon DEF IInv, Shape, StartedInv, ghostVars
<1>6. \A m \in V : /\ m.type = "vote" /\ m.to \in Sidecars \ {s} /\ m.id = id
                   /\ m.from = s /\ m.vote = pending[s][id].local_vote
  BY DEF Votes, Peers
<1>7. /\ pending[s][id].local_vote \in {"yes", "no"}
      /\ [at |-> s, id |-> id, vote |-> pending[s][id].local_vote] \in cast
  <2>1. pending[s][id] \in Recs
    BY <1>2, TableEntries, Zenon DEF IInv, Shape
  <2>2. pending[s][id].local_vote \in Ballots
    BY <2>1, Zenon DEF Recs
  <2> QED
    BY <1>1, <1>2, <2>2, Zenon DEF Local, Tasks, Held, VotesCast, Ballots
<1>8. NetInv'
  BY <1>1, <1>3, <1>6, <1>7, Zenon DEF IInv, NetInv
<1>9. \A p, i : Forwarded(p, i)' => Forwarded(p, i)
  BY <1>1, <1>6, Zenon DEF Forwarded
<1>10. Local(s, id)'
  <2>1. Held(s, id)' /\ Tasks(s, id)'
    BY <1>1, <1>2, <1>4, ZenonT(60) DEF Local, Held, Tasks, VotesCast, Recorded, ghostVars
  <2>2. s # id[1] => proc'[id[1]][id] = proc[id[1]][id]
    BY <1>4, Zenon DEF Ids
  <2>3. Arrival(s, id)'
    BY <1>2, <1>3, <1>9, <2>2, ActiveArrival, Zenon
  <2> QED
    BY <2>1, <2>3, Zenon DEF Local
<1>11. \A p \in Sidecars, i \in Ids : p # s \/ i # id => Local(p, i)'
  BY <1>1, <1>4, <1>9, TaskElsewhere
<1> QED
  BY <1>3, <1>5, <1>8, <1>10, <1>11, Zenon DEF IIStep, IInv
-----------------------------------------------------------------------------
(* The one forward of an instance to a sidecar finds nothing of it there.  *)
LEMMA ForwardStep ==
  ASSUME IInv, NEW m \in net, HandleForward(m)
  PROVE  IIStep
<1>0. PICK s \in Sidecars, id \in Ids : s = m.to /\ id = m.id
  BY Zenon DEF IInv, NetInv
<1> DEFINE T == With(pending[s], id, NewXt(m.xt, m.seq))
<1>1. /\ m.type = "forward" /\ net' = net \ {m}
      /\ origin_seq' = origin_seq /\ UNCHANGED ghostVars
  BY Zenon DEF HandleForward
<1>2. /\ IdNamesOneXt' /\ CastInv' /\ started \subseteq started' /\ cast \subseteq cast'
      /\ \A p, i : (Voted(p, i)' => Voted(p, i)) /\ (Recorded(p, i)' => Recorded(p, i))
      /\ UNCHANGED AC!vars
  BY <1>1, GhostsSame, Zenon
<1>3. NetInv' /\ \A p, i : Forwarded(p, i)' => Forwarded(p, i)
  BY <1>1, <1>2, NetShrinks, Zenon
<1>4. /\ Forwarded(s, id) /\ Local(s, id) /\ s # id[1] /\ Untouched(s, id) /\ Known(id)
      /\ proc[id[1]][id] # "submit"
  <2>1. Forwarded(s, id) /\ Local(s, id)
    BY <1>0, <1>1, Zenon DEF Forwarded, IInv
  <2> QED
    BY <2>1, Zenon DEF Local, Arrival
<1>5. m.seq \in Nat /\ m.xt \in Xts /\ [id |-> id, xt |-> m.xt] \in started
  BY <1>0, <1>1, Zenon DEF IInv, NetInv, StartedInv
<1>6. CASE UNCHANGED <<pending, proc>>
  <2>1. Shape' /\ StartedInv'
    BY <1>1, <1>6, Zenon DEF IInv, Shape, StartedInv, ghostVars
  <2>2. \A p \in Sidecars, i \in Ids : Local(p, i)'
    BY <1>2, <1>3, <1>6, SameKeepsLocal, Zenon DEF IInv, Same
  <2> QED
    BY <1>2, <1>3, <2>1, <2>2, Zenon DEF IIStep, IInv
<1>7. ASSUME NEW k \in Steps,
             k = IF s \in Chains[m.xt] THEN "submit" ELSE "idle",
             pending' = [pending EXCEPT ![s] = T], proc' = [proc EXCEPT ![s][id] = k]
      PROVE  IIStep
  <2>1. T \in Tables /\ DOMAIN T = DOMAIN pending[s] \cup {id} /\ T[id] = NewXt(m.xt, m.seq)
        /\ \A i \in DOMAIN T \ {id} : T[i] = pending[s][i]
    <3>1. pending[s] \in Tables
      BY Zenon DEF IInv, Shape
    <3>2. T \in Tables
      BY <1>5, <3>1, TableUpdates, NewXtShape, Zenon
    <3> QED
      BY <3>2, Zenon DEF With
  <2> HIDE DEF T
  <2>2. /\ pending' \in [Sidecars -> Tables] /\ pending'[s] = T
        /\ \A p \in Sidecars, i \in Ids : p # s \/ i # id =>
             /\ i \in DOMAIN pending'[p] <=> i \in DOMAIN pending[p]
             /\ i \in DOMAIN pending[p] => pending'[p][i] = pending[p][i]
    BY <1>7, <2>1, OneTable, ZenonT(60) DEF IInv
  <2>3. /\ proc' \in [Sidecars -> [Ids -> Steps]]
        /\ proc'[s][id] = k
        /\ \A p \in Sidecars, i \in Ids : p # s \/ i # id => proc'[p][i] = proc[p][i]
    BY <1>7, OneTask, ZenonT(60) DEF IInv, Steps
  <2>4. Shape' /\ StartedInv'
    BY <1>1, <2>2, <2>3, Zenon DEF IInv, Shape, StartedInv, ghostVars
  <2>5. Held(s, id)'
    BY <1>2, <1>4, <1>5, <2>1, <2>2, NewXtShape DEF Held, VotesCast, Untouched
  <2>6. Tasks(s, id)'
    BY <1>2, <1>4, <1>5, <1>7, <2>1, <2>2, <2>3, NewXtShape DEF Tasks, Untouched
  <2>7. Arrival(s, id)'
    <3>1. ~Forwarded(s, id)'
      BY <1>0, <1>1, Zenon DEF Forwarded, IInv, NetInv
    <3>2. Known(id)'
      BY <1>2, <1>4, Zenon DEF Known
    <3>3. proc'[id[1]][id] # "submit"
      BY <1>4, <2>3, Zenon DEF Ids
    <3> QED
      BY <3>1, <3>2, <3>3, Zenon DEF Arrival
  <2>8. \A p \in Sidecars, i \in Ids : p # s \/ i # id => Local(p, i)'
    BY <1>1, <1>3, <1>4, <2>2, <2>3, TaskElsewhere
  <2>9. Local(s, id)'
    BY <2>5, <2>6, <2>7, Zenon DEF Local
  <2> QED
    BY <1>2, <1>3, <2>4, <2>8, <2>9, Zenon DEF IIStep, IInv
<1> QED
  BY <1>0, <1>6, <1>7, Zenon DEF HandleForward, Steps

(* A peer that restarts forgets its instances, but their forwards are      *)
(* gone; and no instance starts there.                                     *)
LEMMA RestartStep ==
  ASSUME StableOrigins, IInv, NEW s \in Sidecars, Restart(s)
  PROVE  IIStep
<1>1. /\ s \in Crashers /\ origin_seq' = [origin_seq EXCEPT ![s] = 0]
      /\ pending' = [pending EXCEPT ![s] = [id \in {} |-> "none"]]
      /\ proc' = [proc EXCEPT ![s] = [id \in Ids |-> "idle"]]
      /\ net' = net /\ UNCHANGED ghostVars
  BY Zenon DEF Restart
<1>2. /\ IdNamesOneXt' /\ CastInv' /\ started \subseteq started' /\ cast \subseteq cast'
      /\ \A p, i : (Voted(p, i)' => Voted(p, i)) /\ (Recorded(p, i)' => Recorded(p, i))
      /\ UNCHANGED AC!vars
  BY <1>1, GhostsSame, Zenon
<1>3. NetInv' /\ \A p, i : Forwarded(p, i)' => Forwarded(p, i)
  BY <1>1, <1>2, NetShrinks, Zenon
<1>4. /\ DOMAIN pending'[s] = {} /\ \A i \in Ids : proc'[s][i] = "idle"
      /\ \A p \in Sidecars : p # s => pending'[p] = pending[p] /\ proc'[p] = proc[p]
  BY <1>1, Zenon DEF IInv, Shape
<1>5. Shape'
  BY <1>1, EmptyTable, Zenon DEF IInv, Shape, Steps
<1>6. StartedInv'
  <2>1. \A e \in started : e.id[1] # s
    BY <1>1, Zenon DEF IInv, StartedInv, StableOrigins
  <2> QED
    BY <1>1, <2>1, Zenon DEF IInv, StartedInv, Shape, Ids, ghostVars
<1>7. ASSUME NEW p \in Sidecars, NEW i \in Ids PROVE Local(p, i)'
  <2>1. Local(p, i) /\ i[1] \in Sidecars
    BY Zenon DEF IInv, Ids
  <2>2. CASE p # s
    BY <1>2, <1>3, <1>4, <2>1, <2>2, SameKeepsLocal, Zenon DEF Same
  <2>3. CASE p = s
    <3>1. Held(p, i)' /\ Tasks(p, i)'
      BY <1>4, <2>3, Zenon DEF Held, Tasks
    <3>2. Untouched(p, i) => Untouched(p, i)'
      BY <1>2, <1>4, <2>3, Zenon DEF Untouched
    <3>3. ~Known(i)' => ~Known(i)
      BY <1>2, Zenon DEF Known
    <3>4. Arrival(p, i)'
      BY <1>3, <1>4, <2>1, <2>3, <3>2, <3>3, Zenon DEF Local, Arrival
    <3> QED
      BY <3>1, <3>4, Zenon DEF Local
  <2> QED
    BY <2>2, <2>3, Zenon
<1> QED
  BY <1>2, <1>3, <1>5, <1>6, <1>7, Zenon DEF IIStep, IInv

(* A record whose decision is filled in is a record, with the same votes.  *)
LEMMA DecidedShape ==
  ASSUME NEW s \in Sidecars, NEW r \in Recs
  PROVE  /\ Decided(s, r) \in Recs /\ Decided(s, r).xt = r.xt
         /\ Decided(s, r).local_vote = r.local_vote
         /\ Decided(s, r).peer_votes = r.peer_votes
         /\ Decided(s, r).decision = StandaloneDecision(s, r)
         /\ r.decision # "none" => StandaloneDecision(s, r) = r.decision
<1>1. StandaloneDecision(s, r) \in {"none", "commit", "abort"}
  BY Zenon DEF StandaloneDecision, Recs
<1>2. r.decision # "none" => StandaloneDecision(s, r) = r.decision
  BY Zenon DEF StandaloneDecision
<1> QED
  BY <1>1, <1>2, Zenon DEF Decided, Recs

(* The tables after the record of an instance took a vote.                 *)
Entered(s, id, r) == [pending EXCEPT ![s][id] = Decided(s, r)]

(* A vote in a record may decide its instance, at most once, and then as   *)
(* atomic commitment allows.                                               *)
LEMMA MayDecide ==
  ASSUME EnoughAreAll, IInv, NEW s \in Sidecars, NEW id \in Ids, id \in DOMAIN pending[s],
         NEW r \in Recs, r.xt = pending[s][id].xt, r.decision = pending[s][id].decision,
         CastInv', IdNamesOneXt', VotesCast(s, id, r)', started' = started,
         pending' = Entered(s, id, r),
         Logged(s, id, pending[s][id], Decided(s, r))
  PROVE  /\ \/ UNCHANGED log
            \/ \E d \in {"commit", "abort"} : AC!Decide(s, [id |-> id, xt |-> r.xt], d)
         /\ Held(s, id)'
         /\ pending' \in [Sidecars -> Tables]
         /\ pending'[s][id] = Decided(s, r) /\ id \in DOMAIN pending'[s]
         /\ \A p \in Sidecars, i \in Ids : p # s \/ i # id =>
              /\ i \in DOMAIN pending'[p] <=> i \in DOMAIN pending[p]
              /\ i \in DOMAIN pending[p] => pending'[p][i] = pending[p][i]
              /\ Recorded(p, i)' => Recorded(p, i)
<1> DEFINE new == Decided(s, r)
           e == [id |-> id, xt |-> r.xt]
<1>1. /\ new \in Recs /\ new.xt = r.xt /\ new.decision = StandaloneDecision(s, r)
      /\ new.local_vote = r.local_vote /\ new.peer_votes = r.peer_votes
      /\ r.decision # "none" => new.decision = r.decision
  BY DecidedShape, Zenon
<1>2. e \in started /\ Held(s, id) /\ pending[s] \in Tables
  BY Zenon DEF IInv, Local, Held, Shape
<1> HIDE DEF new
<1>a. PICK T \in Tables : T = [pending[s] EXCEPT ![id] = new]
  BY <1>1, <1>2, TableUpdates, Zenon
<1>3. DOMAIN T = DOMAIN pending[s] /\ T[id] = new
      /\ \A i \in DOMAIN T \ {id} : T[i] = pending[s][i]
  BY <1>2, <1>a, Zenon
<1>4. pending' = [pending EXCEPT ![s] = T]
  BY <1>a, Zenon DEF new, Entered
<1>5. /\ pending' \in [Sidecars -> Tables] /\ pending'[s] = T
      /\ \A p \in Sidecars, i \in Ids : p # s \/ i # id =>
           /\ i \in DOMAIN pending'[p] <=> i \in DOMAIN pending[p]
           /\ i \in DOMAIN pending[p] => pending'[p][i] = pending[p][i]
  <2>1. DOMAIN T \ {id} = DOMAIN pending[s] \ {id}
    BY <1>3, Zenon
  <2>2. Shape /\ \A i \in DOMAIN T \ {id} : T[i] = pending[s][i]
    BY <1>3, Zenon DEF IInv
  <2> QED
    BY <1>4, <2>1, <2>2, Zenon DEF Shape
<1>6. log' = IF r.decision = new.decision THEN log
             ELSE log \cup {[at |-> s, id |-> id, xt |-> r.xt, decision |-> new.decision]}
  BY <1>1, Zenon DEF Logged, new
<1>7. \A p, i : p # s \/ i # id => (Recorded(p, i)' => Recorded(p, i))
  BY <1>6 DEF Recorded
<1>8. Held(s, id)'
  <2>1. VotesCast(s, id, pending[s][id])'
    BY <1>1, <1>3, <1>5, Zenon DEF VotesCast
  <2>2. new.decision = "none" => ~Recorded(s, id)'
    BY <1>1, <1>2, <1>6, Zenon DEF Held, Recorded
  <2> QED
    BY <1>1, <1>2, <1>3, <1>5, <2>1, <2>2, Zenon DEF Held
<1>9. CASE r.decision # new.decision
  <2>1. \A f \in log : ~(f.at = s /\ f.id = id)
    BY <1>1, <1>2, <1>9, Zenon DEF Held, Recorded
  <2>2. \A c \in Sidecars, v \in {"yes", "no"} :
          [at |-> c, id |-> id, vote |-> v] \in cast' => c \in Chains[r.xt]
    BY <1>2, Zenon DEF CastInv, IdNamesOneXt
  <2>3. PICK C : C = cast'
    BY Zenon
  <2>4. /\ r.local_vote # "none" => [at |-> s, id |-> id, vote |-> r.local_vote] \in C
        /\ \A c \in DOMAIN r.peer_votes :
             c # s /\ [at |-> c, id |-> id, vote |-> r.peer_votes[c]] \in C
    BY <2>3, Zenon DEF VotesCast
  <2>5. /\ new.decision \in {"none", "commit", "abort"}
        /\ new.decision = "commit" =>
             \A c \in Chains[r.xt] : [at |-> c, id |-> id, vote |-> "yes"] \in cast'
        /\ new.decision = "abort" =>
             \E c \in Chains[r.xt] : [at |-> c, id |-> id, vote |-> "no"] \in cast'
    <3>1. r.decision = "none"
      BY <1>1, <1>9, Zenon
    <3>2. \A c \in Sidecars, v \in {"yes", "no"} :
            [at |-> c, id |-> id, vote |-> v] \in C => c \in Chains[r.xt]
      BY <2>2, <2>3, ZenonT(60)
    <3> QED
      BY <1>1, <2>3, <2>4, <3>1, <3>2, DecisionBacked
  <2>6. new.decision \in {"commit", "abort"}
    BY <1>1, <1>9, <2>5, Zenon
  <2>7. AC!Decide(s, e, new.decision)
    BY <1>6, <1>9, <2>1, <2>5, Zenon DEF AC!Decide
  <2> QED
    BY <1>3, <1>5, <1>7, <1>8, <2>6, <2>7, Zenon DEF new
<1>10. CASE r.decision = new.decision
  BY <1>3, <1>5, <1>6, <1>7, <1>8, <1>10, Zenon DEF new
<1> QED
  BY <1>9, <1>10, Zenon

(* A sidecar votes once: its task reaches the vote with none cast.         *)
LEMMA CastStep ==
  ASSUME EnoughAreAll, IInv, NEW s \in Sidecars, NEW id \in Ids, NEW v \in {"yes", "no"},
         CastVote(s, id, v)
  PROVE  IIStep
<1>1. Local(s, id) /\ proc[s][id] = "simulate"
  BY Zenon DEF CastVote, IInv
<1>2. /\ id \in DOMAIN pending[s] /\ s \in Chains[pending[s][id].xt]
      /\ ~Voted(s, id) /\ ~Untouched(s, id)
  BY <1>1, Zenon DEF Local, Tasks, Untouched
<1>3. pending[s][id] \in Recs
  BY <1>2, TableEntries, Zenon DEF IInv, Shape
<1>4. PICK old \in Recs : old = pending[s][id]
  BY <1>3, Zenon
<1>5. PICK r \in Recs : r = [old EXCEPT !.local_vote = v]
  BY Zenon DEF Recs, Ballots
<1>6. /\ r.local_vote = v /\ r.xt = old.xt /\ r.decision = old.decision
      /\ r.peer_votes = old.peer_votes
  BY <1>5, Zenon DEF Recs
<1>7. PICK k \in {"idle", "command"} :
        /\ proc' = [proc EXCEPT ![s][id] = k]
        /\ net' = net \/ net' = net \cup Votes(s, id, v)
  BY Zenon DEF CastVote
<1>8. /\ pending' = Entered(s, id, r)
      /\ cast' = cast \cup {[at |-> s, id |-> id, vote |-> v]}
      /\ Logged(s, id, pending[s][id], Decided(s, r))
      /\ origin_seq' = origin_seq /\ started' = started
  BY <1>4, <1>5, Zenon DEF CastVote, Entered
<1>9. [id |-> id, xt |-> r.xt] \in started
  BY <1>1, <1>2, <1>4, <1>6, Zenon DEF Local, Held
<1>10. IdNamesOneXt' /\ CastInv' /\ cast \subseteq cast' /\ started \subseteq started'
  <2>1. IdNamesOneXt'
    BY <1>8, Zenon DEF IInv, IdNamesOneXt
  <2>2. \E e \in started : e.id = id /\ s \in Chains[e.xt]
    BY <1>2, <1>4, <1>6, <1>9, Zenon
  <2>3. CastInv'
    BY <1>8, <2>2 DEF IInv, CastInv
  <2> QED
    BY <1>8, <2>1, <2>3, Zenon
<1>11. VotesCast(s, id, r)'
  <2>1. VotesCast(s, id, old)
    BY <1>1, <1>2, <1>4, Zenon DEF Local, Held
  <2> QED
    BY <1>6, <1>8, <2>1, Zenon DEF VotesCast
<1>12. /\ \/ UNCHANGED log
          \/ \E d \in {"commit", "abort"} : AC!Decide(s, [id |-> id, xt |-> r.xt], d)
       /\ Held(s, id)' /\ pending' \in [Sidecars -> Tables]
       /\ pending'[s][id] = Decided(s, r) /\ id \in DOMAIN pending'[s]
       /\ \A p \in Sidecars, i \in Ids : p # s \/ i # id =>
            /\ i \in DOMAIN pending'[p] <=> i \in DOMAIN pending[p]
            /\ i \in DOMAIN pending[p] => pending'[p][i] = pending[p][i]
            /\ Recorded(p, i)' => Recorded(p, i)
  BY <1>2, <1>4, <1>6, <1>8, <1>10, <1>11, MayDecide, ZenonT(60)
<1>13. /\ proc' \in [Sidecars -> [Ids -> Steps]]
       /\ proc'[s][id] = k
       /\ \A p \in Sidecars, i \in Ids : p # s \/ i # id => proc'[p][i] = proc[p][i]
  <2>1. k \in Steps
    BY Zenon DEF Steps
  <2>2. Shape /\ proc' = [proc EXCEPT ![s][id] = k]
    BY <1>7, Zenon DEF IInv
  <2> QED
    BY <2>1, <2>2, Zenon DEF Shape
<1>14. Shape' /\ StartedInv'
  BY <1>8, <1>12, <1>13, Zenon DEF IInv, Shape, StartedInv
<1>15. \A m \in Votes(s, id, v) : /\ m.type = "vote" /\ m.to \in Sidecars \ {s} /\ m.id = id
                                  /\ m.from = s /\ m.vote = v
  BY DEF Votes, Peers
<1>16. NetInv'
  BY <1>7, <1>8, <1>10, <1>15, Zenon DEF IInv, NetInv
<1>17. \A p, i : Forwarded(p, i)' => Forwarded(p, i)
  BY <1>7, <1>15, Zenon DEF Forwarded
<1>18. Local(s, id)'
  <2>1. Decided(s, r).xt = r.xt /\ Decided(s, r).local_vote = v
    BY <1>6, DecidedShape, Zenon
  <2>2. Tasks(s, id)'
    BY <1>2, <1>4, <1>6, <1>12, <1>13, <2>1, Zenon DEF Tasks
  <2>3. s # id[1] => proc'[id[1]][id] = proc[id[1]][id]
    BY <1>13, Zenon DEF Ids
  <2>4. Arrival(s, id)'
    BY <1>1, <1>2, <1>10, <1>17, <2>3, ActiveArrival, Zenon
  <2> QED
    BY <1>12, <2>2, <2>4, Zenon DEF Local
<1>19. \A p \in Sidecars, i \in Ids : p # s \/ i # id => Local(p, i)'
  <2>1. ASSUME NEW p \in Sidecars, NEW i \in Ids, p # s \/ i # id
        PROVE  /\ Same(p, i)
               /\ proc'[i[1]][i] = "submit" => proc[i[1]][i] = "submit" \/ ~Known(i)
    <3>1. Voted(p, i)' => Voted(p, i)
      BY <1>8, <2>1 DEF Voted
    <3>2. i[1] \in Sidecars
      BY Zenon DEF Ids
    <3> QED
      BY <1>12, <1>13, <1>17, <2>1, <3>1, <3>2, Zenon DEF Same
  <2> QED
    BY <1>10, <2>1, OthersSame, SMTT(60)
<1>20. AC!Next
  <2> DEFINE e == [id |-> id, xt |-> r.xt]
  <2>1. AC!Vote(s, e, v)
    BY <1>2, <1>4, <1>6, <1>8, Zenon DEF AC!Vote, Voted
  <2> HIDE DEF e
  <2>2. e \in started
    BY <1>9, Zenon DEF e
  <2>3. UNCHANGED log \/ \E d \in {"commit", "abort"} : AC!Decide(s, e, d)
    BY <1>12, Zenon DEF e
  <2> QED
    BY <1>8, <2>1, <2>2, <2>3, Zenon DEF AC!Next
<1> QED
  BY <1>10, <1>14, <1>16, <1>18, <1>19, <1>20, Zenon DEF IIStep, IInv

(* A peer's vote counts under the peer's name, and may decide.             *)
LEMMA PeerVoteStep ==
  ASSUME EnoughAreAll, IInv, NEW m \in net, HandlePeerVote(m)
  PROVE  IIStep
<1>0. PICK s \in Sidecars, id \in Ids : s = m.to /\ id = m.id
  BY Zenon DEF IInv, NetInv
<1>1. /\ m.type = "vote" /\ net' = net \ {m} /\ origin_seq' = origin_seq
      /\ proc' = proc /\ started' = started /\ cast' = cast
  BY Zenon DEF HandlePeerVote, taskVars
<1>2. /\ m.from \in Sidecars /\ m.from # s /\ m.vote \in {"yes", "no"}
      /\ [at |-> m.from, id |-> id, vote |-> m.vote] \in cast
  BY <1>0, <1>1, Zenon DEF IInv, NetInv
<1>3. IdNamesOneXt' /\ CastInv' /\ started \subseteq started' /\ cast \subseteq cast'
  BY <1>1, Zenon DEF IInv, IdNamesOneXt, CastInv
<1>4. NetInv' /\ \A p, i : Forwarded(p, i)' => Forwarded(p, i)
  BY <1>1, <1>3, NetShrinks, Zenon
<1>5. \A p, i : Voted(p, i)' => Voted(p, i)
  BY <1>1, Zenon DEF Voted
<1>6. CASE UNCHANGED <<pending, log>>
  <2>1. Shape' /\ StartedInv' /\ UNCHANGED AC!vars
    BY <1>1, <1>6, Zenon DEF IInv, Shape, StartedInv, AC!vars
  <2>2. \A p, i : Recorded(p, i)' => Recorded(p, i)
    BY <1>6, Zenon DEF Recorded
  <2>3. \A p \in Sidecars, i \in Ids : Local(p, i)'
    BY <1>1, <1>3, <1>4, <1>5, <1>6, <2>2, SameKeepsLocal, Zenon DEF IInv, Same
  <2> QED
    BY <1>3, <1>4, <2>1, <2>3, Zenon DEF IIStep, IInv
<1>7. ASSUME id \in Undecided(s),
             pending' = [pending EXCEPT ![s][id] =
               Decided(s, RecordPeerVote(pending[s][id], m.from, m.vote))],
             Logged(s, id, pending[s][id],
                    Decided(s, RecordPeerVote(pending[s][id], m.from, m.vote)))
      PROVE  IIStep
  <2>1. id \in DOMAIN pending[s] /\ Local(s, id) /\ ~Untouched(s, id)
    BY <1>7, Zenon DEF Undecided, IInv, Untouched
  <2>2. PICK old \in Recs : old = pending[s][id]
    BY <2>1, TableEntries, Zenon DEF IInv, Shape
  <2>3. PICK r \in Recs : r = RecordPeerVote(old, m.from, m.vote)
    BY <1>2, PeerVoteUpdates, Zenon DEF RecordPeerVote, Recs
  <2>4. /\ r.local_vote = old.local_vote /\ r.xt = old.xt /\ r.decision = old.decision
        /\ r.peer_votes = With(old.peer_votes, m.from, m.vote)
    BY <2>3, Zenon DEF RecordPeerVote, Recs
  <2>5. VotesCast(s, id, r)'
    <3>1. VotesCast(s, id, old)
      BY <2>1, <2>2, Zenon DEF Local, Held
    <3>2. \A c \in DOMAIN r.peer_votes :
            c # s /\ [at |-> c, id |-> id, vote |-> r.peer_votes[c]] \in cast
      BY <1>2, <2>4, <3>1, Zenon DEF VotesCast, With
    <3> QED
      BY <1>1, <2>4, <3>1, <3>2, Zenon DEF VotesCast
  <2>6. /\ \/ UNCHANGED log
           \/ \E d \in {"commit", "abort"} : AC!Decide(s, [id |-> id, xt |-> r.xt], d)
        /\ Held(s, id)' /\ pending' \in [Sidecars -> Tables]
        /\ pending'[s][id] = Decided(s, r) /\ id \in DOMAIN pending'[s]
        /\ \A p \in Sidecars, i \in Ids : p # s \/ i # id =>
             /\ i \in DOMAIN pending'[p] <=> i \in DOMAIN pending[p]
             /\ i \in DOMAIN pending[p] => pending'[p][i] = pending[p][i]
             /\ Recorded(p, i)' => Recorded(p, i)
    <3>1. /\ pending' = Entered(s, id, r)
          /\ Logged(s, id, pending[s][id], Decided(s, r))
      BY <1>7, <2>2, <2>3, Zenon DEF Entered
    <3>2. r.xt = pending[s][id].xt /\ r.decision = pending[s][id].decision
      BY <2>2, <2>4, Zenon
    <3> QED
      BY <1>1, <1>3, <2>1, <2>5, <3>1, <3>2, MayDecide, Zenon
  <2>7. Shape' /\ StartedInv'
    BY <1>1, <2>6, Zenon DEF IInv, Shape, StartedInv
  <2>8. Local(s, id)'
    <3>1. Decided(s, r).xt = old.xt /\ Decided(s, r).local_vote = old.local_vote
      BY <2>4, DecidedShape, Zenon
    <3>2. Tasks(s, id)'
      BY <1>1, <1>5, <2>1, <2>2, <2>6, <3>1, Zenon DEF Local, Tasks
    <3>3. Arrival(s, id)'
      BY <1>1, <1>3, <1>4, <2>1, ActiveArrival, Zenon
    <3> QED
      BY <2>6, <3>2, <3>3, Zenon DEF Local
  <2>9. \A p \in Sidecars, i \in Ids : p # s \/ i # id => Local(p, i)'
    <3>1. ASSUME NEW p \in Sidecars, NEW i \in Ids, p # s \/ i # id PROVE Same(p, i)
      BY <1>1, <1>4, <1>5, <2>6, <3>1, Zenon DEF Same
    <3>2. \A i \in Ids : proc'[i[1]][i] = "submit" => proc[i[1]][i] = "submit"
      BY <1>1, Zenon
    <3> QED
      BY <1>3, <3>1, <3>2, OthersSame, SMTT(60)
  <2>10. [AC!Next]_(AC!vars)
    <3> DEFINE e == [id |-> id, xt |-> r.xt]
    <3>1. e \in started
      BY <2>1, <2>2, <2>4, Zenon DEF Local, Held
    <3>2. UNCHANGED log \/ \E d \in {"commit", "abort"} : AC!Decide(s, e, d)
      BY <2>6, Zenon
    <3> HIDE DEF e
    <3> QED
      BY <1>1, <3>1, <3>2, Zenon DEF AC!Next, AC!vars
  <2> QED
    BY <1>3, <1>4, <2>7, <2>8, <2>9, <2>10, Zenon DEF IIStep, IInv
<1> QED
  BY <1>0, <1>6, <1>7, Zenon DEF HandlePeerVote
-----------------------------------------------------------------------------
(* An instance names one XT, a sidecar votes once about an instance, and   *)
(* every decision has the votes it needs.                                  *)
OneXt == \A e, f \in started : e.id = f.id => e.xt = f.xt

(* A sidecar votes once on an instance.                                    *)
OneVote == \A a, b \in cast : a.at = b.at /\ a.id = b.id => a.vote = b.vote

(* A decision rests on votes: a commit on a yes of every chain, an abort   *)
(* on a no.                                                                *)
Backed ==
  \A e \in log :
    /\ \E f \in started : f.id = e.id /\ f.xt = e.xt
    /\ \/ /\ e.decision = "commit"
          /\ \A c \in Chains[e.xt] : [at |-> c, id |-> e.id, vote |-> "yes"] \in cast
       \/ /\ e.decision = "abort"
          /\ \E c \in Chains[e.xt] : [at |-> c, id |-> e.id, vote |-> "no"] \in cast

(* The inductive invariant of AtomicCommit.                                *)
VotesBack == OneXt /\ OneVote /\ Backed
-----------------------------------------------------------------------------
(* A yes vote and a no vote of one sidecar exclude each other.             *)
LEMMA BackedAgree == VotesBack => AC!Agreement
<1> SUFFICES ASSUME VotesBack, NEW e \in log, NEW f \in log, e.id = f.id
             PROVE  e.xt = f.xt /\ e.decision = f.decision
  BY Zenon DEF AC!Agreement
<1>1. e.xt = f.xt
  BY DEF VotesBack, OneXt, Backed
<1>2. ASSUME NEW g \in log, NEW h \in log, g.id = h.id, g.xt = h.xt,
             g.decision = "commit", h.decision = "abort"
      PROVE  FALSE
  <2>1. PICK c \in Chains[h.xt] : [at |-> c, id |-> h.id, vote |-> "no"] \in cast
    BY <1>2, Zenon DEF VotesBack, Backed
  <2>2. [at |-> c, id |-> h.id, vote |-> "yes"] \in cast
    BY <1>2, Zenon DEF VotesBack, Backed
  <2>3. [at |-> c, id |-> h.id, vote |-> "no"].vote
          = [at |-> c, id |-> h.id, vote |-> "yes"].vote
    BY <2>1, <2>2, Zenon DEF VotesBack, OneVote
  <2> QED
    BY <2>3, Zenon
<1>3. e.decision \in {"commit", "abort"} /\ f.decision \in {"commit", "abort"}
  BY Zenon DEF VotesBack, Backed
<1> QED
  BY <1>1, <1>2, <1>3, Zenon

(* Starting an instance, voting and deciding keep the invariant.           *)
LEMMA VotesBackStep == VotesBack /\ [AC!Next]_(AC!vars) => VotesBack'
<1> SUFFICES ASSUME VotesBack, [AC!Next]_(AC!vars) PROVE VotesBack'
  BY Zenon
<1>1. ASSUME NEW id \in Ids, NEW x \in Xts, AC!Start(id, x), UNCHANGED <<cast, log>>
      PROVE  VotesBack'
  <2>1. OneXt'
    BY <1>1 DEF VotesBack, OneXt, AC!Start
  <2>2. started \subseteq started'
    BY <1>1, Zenon DEF AC!Start
  <2> QED
    BY <1>1, <2>1, <2>2, Zenon DEF VotesBack, OneVote, Backed
<1>2. ASSUME NEW s \in Sidecars, NEW e \in started, UNCHANGED started,
             (\E v \in {"yes", "no"} : AC!Vote(s, e, v)) \/ UNCHANGED cast,
             (\E d \in {"commit", "abort"} : AC!Decide(s, e, d)) \/ UNCHANGED log
      PROVE  VotesBack'
  <2>1. OneXt'
    BY <1>2, Zenon DEF VotesBack, OneXt
  <2>2. OneVote'
    BY <1>2 DEF VotesBack, OneVote, AC!Vote
  <2>3. cast \subseteq cast'
    BY <1>2, Zenon DEF AC!Vote
  <2>4. CASE UNCHANGED log
    BY <1>2, <2>1, <2>2, <2>3, <2>4, Zenon DEF VotesBack, Backed
  <2>5. ASSUME NEW d \in {"commit", "abort"}, AC!Decide(s, e, d)
        PROVE  Backed'
    <3> DEFINE new == [at |-> s, id |-> e.id, xt |-> e.xt, decision |-> d]
               ok(g) == /\ \E f \in started' : f.id = g.id /\ f.xt = g.xt
                        /\ \/ /\ g.decision = "commit"
                              /\ \A c \in Chains[g.xt] :
                                   [at |-> c, id |-> g.id, vote |-> "yes"] \in cast'
                           \/ /\ g.decision = "abort"
                              /\ \E c \in Chains[g.xt] :
                                   [at |-> c, id |-> g.id, vote |-> "no"] \in cast'
    <3>1. \A g \in log : ok(g)
      BY <1>2, <2>3, Zenon DEF VotesBack, Backed
    <3>2. ok(new)
      BY <1>2, <2>5, Zenon DEF AC!Decide
    <3>3. log' = log \cup {new}
      BY <2>5, Zenon DEF AC!Decide
    <3> QED
      BY <3>1, <3>2, <3>3, Zenon DEF Backed
  <2> QED
    BY <1>2, <2>1, <2>2, <2>4, <2>5, Zenon DEF VotesBack
<1>3. CASE UNCHANGED AC!vars
  BY <1>3, Zenon DEF AC!vars, VotesBack, OneXt, OneVote, Backed
<1> QED
  BY <1>1, <1>2, <1>3, Zenon DEF AC!Next

(* No two sidecars decide differently about an instance, or about          *)
(* different transactions.                                                 *)
THEOREM CommitAgreement == AC!Spec => []AC!Agreement
<1>1. AC!Init => VotesBack
  BY Zenon DEF AC!Init, VotesBack, OneXt, OneVote, Backed
<1> QED
  BY <1>1, VotesBackStep, BackedAgree, PTL DEF AC!Spec
-----------------------------------------------------------------------------
(* The invariant holds at the start.                                       *)
LEMMA InitIInv == Init => IInv
<1> SUFFICES ASSUME Init PROVE IInv
  BY Zenon
<1>1. Shape
  BY EmptyTable, Zenon DEF Init, Shape, Steps
<1>2. StartedInv /\ IdNamesOneXt /\ NetInv /\ CastInv
  BY Zenon DEF Init, StartedInv, IdNamesOneXt, NetInv, CastInv
<1>3. ASSUME NEW s \in Sidecars, NEW id \in Ids PROVE Local(s, id)
  <2>1. proc[s][id] = "idle" /\ DOMAIN pending[s] = {} /\ id[1] \in Sidecars
        /\ proc[id[1]][id] = "idle"
    BY Zenon DEF Init, Ids
  <2>2. Untouched(s, id) /\ ~Forwarded(s, id)
    BY <2>1, Zenon DEF Init, Untouched, Forwarded, Voted, Recorded
  <2> QED
    BY <2>1, <2>2, Zenon DEF Local, Held, Tasks, Arrival
<1> QED
  BY <1>1, <1>2, <1>3, Zenon DEF IInv

(* Every step keeps the invariant and is a step or a stutter of            *)
(* AtomicCommit.                                                           *)
LEMMA NextStep ==
  ASSUME StableOrigins, EnoughAreAll, IInv, [Next]_vars
  PROVE  IIStep
<1>1. ASSUME NEW x \in Xts, SubmitXt(x) PROVE IIStep
  BY <1>1, SubmitStep, Zenon
<1>2. ASSUME NEW m \in net, Deliver(m) PROVE IIStep
  BY <1>2, ForwardStep, PeerVoteStep, Zenon DEF Deliver
<1>3. ASSUME NEW s \in Sidecars, NEW id \in Ids, TaskStep(s, id) PROVE IIStep
  BY <1>3, SubmittedStep, RefusedStep, CastStep, CommandStep, Zenon DEF TaskStep
<1>4. ASSUME NEW s \in Sidecars, NEW id \in Ids, Cleanup(s, id) PROVE IIStep
  BY <1>4, CleanupStep, Zenon
<1>5. ASSUME NEW s \in Sidecars, Restart(s) PROVE IIStep
  BY <1>5, RestartStep, Zenon
<1>6. CASE UNCHANGED vars
  <2>1. /\ UNCHANGED ghostVars /\ UNCHANGED <<pending, proc, net, origin_seq>>
    BY <1>6, Zenon DEF vars, taskVars, ghostVars
  <2>2. IInv'
    <3>1. (Shape /\ StartedInv /\ IdNamesOneXt)'
      BY <2>1, Zenon DEF IInv, Shape, StartedInv, IdNamesOneXt, Known, ghostVars
    <3>2. NetInv'
      BY <2>1, Zenon DEF IInv, NetInv, ghostVars
    <3>3. CastInv'
      BY <2>1, Zenon DEF IInv, CastInv, ghostVars
    <3>4. ASSUME NEW s \in Sidecars, NEW id \in Ids PROVE Local(s, id)'
      <4>1. Local(s, id)
        BY Zenon DEF IInv
      <4> QED
        BY <2>1, <4>1, Zenon
           DEF Local, Held, Tasks, Arrival, Untouched, Known, Voted, Recorded,
               Forwarded, VotesCast, ghostVars
    <3> QED
      BY <3>1, <3>2, <3>3, <3>4, Zenon DEF IInv
  <2> QED
    BY <2>1, <2>2, Zenon DEF IIStep, ghostVars, AC!vars
<1> QED
  BY <1>1, <1>2, <1>3, <1>4, <1>5, <1>6, Zenon DEF Next

(* Deduplication.  The fingerprints of a sidecar lead from an XT to at     *)
(* most one instance, and to every instance the sidecar registered itself  *)
(* and still holds; nobody is sent a forward of their own instance.        *)
Fields == {"xt", "seq", "local_vote", "peer_votes", "decision"}

PendingFields ==
  /\ DOMAIN pending = Sidecars
  /\ \A s \in Sidecars : \A i \in DOMAIN pending[s] :
       DOMAIN pending[s][i] = Fields

OwnFingerprinted ==
  \A s \in Sidecars : \A i \in DOMAIN pending[s] :
    i[1] = s => <<pending[s][i].xt, i>> \in submitted_fingerprints[s]

OneFingerprint ==
  /\ DOMAIN submitted_fingerprints = Sidecars
  /\ \A s \in Sidecars : \A x, i, j :
       /\ <<x, i>> \in submitted_fingerprints[s]
       /\ <<x, j>> \in submitted_fingerprints[s]
       => i = j

ForwardsToPeers ==
  \A m \in net : m.type = "forward" => m.to \in Sidecars /\ m.to # m.id[1]

DedupInv ==
  PendingFields /\ OwnFingerprinted /\ OneFingerprint /\ ForwardsToPeers

(* A step that keeps the fingerprints, adds no forward and changes at most *)
(* one pending XT, whose transactions stay, keeps the invariant.           *)
LEMMA ChangedDedup ==
  ASSUME DedupInv, UNCHANGED submitted_fingerprints,
         \A m \in net' : m.type = "forward" => m \in net,
         \/ UNCHANGED pending
         \/ \E s, i, r :
              /\ pending' = [pending EXCEPT ![s][i] = r]
              /\ s \in Sidecars /\ i \in DOMAIN pending[s] =>
                   DOMAIN r = Fields /\ r.xt = pending[s][i].xt
  PROVE  DedupInv'
<1>1. OneFingerprint' /\ ForwardsToPeers'
  BY Zenon DEF DedupInv, OneFingerprint, ForwardsToPeers
<1>2. CASE UNCHANGED pending
  BY <1>1, <1>2, Zenon DEF DedupInv, PendingFields, OwnFingerprinted
<1>3. ASSUME NEW s, NEW i, NEW r,
             pending' = [pending EXCEPT ![s][i] = r],
             s \in Sidecars /\ i \in DOMAIN pending[s] =>
               DOMAIN r = Fields /\ r.xt = pending[s][i].xt
      PROVE  DedupInv'
  <2>1. /\ DOMAIN pending' = Sidecars
        /\ \A t \in Sidecars : DOMAIN pending'[t] = DOMAIN pending[t]
        /\ \A t \in Sidecars : \A j \in DOMAIN pending[t] :
             pending'[t][j] = IF t = s /\ j = i THEN r ELSE pending[t][j]
    BY <1>3, Zenon DEF DedupInv, PendingFields
  <2>2. PendingFields'
    BY <1>3, <2>1, ZenonT(30) DEF DedupInv, PendingFields
  <2>3. OwnFingerprinted'
    BY <1>3, <2>1 DEF DedupInv, OwnFingerprinted
  <2> QED
    BY <1>1, <2>2, <2>3, Zenon DEF DedupInv
<1> QED
  BY <1>2, <1>3, Zenon

(* remove_pending_xt() and cleanup(): an instance goes with its            *)
(* fingerprint.                                                            *)
LEMMA RemovedDedup ==
  ASSUME DedupInv, NEW s \in Sidecars, NEW id \in Ids, RemovePending(s, id),
         UNCHANGED net
  PROVE  DedupInv'
<1>1. /\ DOMAIN pending' = Sidecars
      /\ \A t \in Sidecars \ {s} : pending'[t] = pending[t]
      /\ DOMAIN pending'[s] = DOMAIN pending[s] \ {id}
      /\ \A j \in DOMAIN pending[s] \ {id} : pending'[s][j] = pending[s][j]
  BY Zenon DEF DedupInv, PendingFields, RemovePending, Without
<1>2. /\ DOMAIN submitted_fingerprints' = Sidecars
      /\ \A t \in Sidecars \ {s} :
           submitted_fingerprints'[t] = submitted_fingerprints[t]
      /\ submitted_fingerprints'[s]
           = {p \in submitted_fingerprints[s] : p[2] # id}
  BY Zenon DEF DedupInv, OneFingerprint, RemovePending
<1>3. PendingFields'
  BY <1>1 DEF DedupInv, PendingFields
<1>4. OwnFingerprinted'
  BY <1>1, <1>2 DEF DedupInv, OwnFingerprinted
<1>5. OneFingerprint'
  BY <1>2, Zenon DEF DedupInv, OneFingerprint
<1>6. ForwardsToPeers'
  BY Zenon DEF DedupInv, ForwardsToPeers
<1> QED
  BY <1>3, <1>4, <1>5, <1>6, Zenon DEF DedupInv

(* A registered XT: a duplicate is not registered, so the fingerprint that *)
(* the new one replaces led to nothing pending.                            *)
LEMMA SubmitDedup ==
  ASSUME DedupInv, NEW x \in Xts, SubmitXt(x)
  PROVE  DedupInv'
<1> DEFINE s == Origin[x]
           id == <<s, origin_seq[s] + 1>>
           r == NewXt(x, origin_seq[s] + 1)
<1>0. s \in Sidecars /\ DOMAIN r = Fields /\ r.xt = x
  BY StandaloneAssumption, Zenon DEF NewXt, Fields
<1>a. /\ ~Duplicate(s, x)
      /\ pending' = [pending EXCEPT ![s] = With(@, id, r)]
      /\ submitted_fingerprints' = [submitted_fingerprints EXCEPT ![s] =
           {p \in @ : p[1] # x} \cup {<<x, id>>}]
      /\ UNCHANGED net
  BY Zenon DEF SubmitXt
<1> HIDE DEF s, id, r
<1>1. /\ DOMAIN pending' = Sidecars
      /\ \A t \in Sidecars \ {s} : pending'[t] = pending[t]
      /\ DOMAIN pending'[s] = DOMAIN pending[s] \cup {id}
      /\ pending'[s][id] = r
      /\ \A j \in DOMAIN pending[s] \ {id} : pending'[s][j] = pending[s][j]
  BY <1>0, <1>a, Zenon DEF DedupInv, PendingFields, With
<1>2. /\ DOMAIN submitted_fingerprints' = Sidecars
      /\ \A t \in Sidecars \ {s} :
           submitted_fingerprints'[t] = submitted_fingerprints[t]
      /\ submitted_fingerprints'[s]
           = {p \in submitted_fingerprints[s] : p[1] # x} \cup {<<x, id>>}
  BY <1>0, <1>a, Zenon DEF DedupInv, OneFingerprint
<1>3. PendingFields'
  BY <1>0, <1>1 DEF DedupInv, PendingFields
<1>4. ASSUME NEW t \in Sidecars, NEW i \in DOMAIN pending'[t], i[1] = t
      PROVE  <<pending'[t][i].xt, i>> \in submitted_fingerprints'[t]
  <2>1. CASE t # s
    BY <1>1, <1>2, <1>4, <2>1, Zenon DEF DedupInv, OwnFingerprinted
  <2>2. CASE t = s /\ i = id
    BY <1>0, <1>1, <1>2, <2>2, Zenon
  <2>3. CASE t = s /\ i # id
    <3>1. /\ i \in DOMAIN pending[s] /\ pending'[s][i] = pending[s][i]
          /\ <<pending[s][i].xt, i>> \in submitted_fingerprints[s]
      BY <1>0, <1>1, <1>4, <2>3, Zenon DEF DedupInv, OwnFingerprinted
    <3>2. pending[s][i].xt # x
      <4>1. <<pending[s][i].xt, i>>[1] = pending[s][i].xt
            /\ <<pending[s][i].xt, i>>[2] = i
        BY Zenon
      <4> QED
        BY <1>a, <3>1, <4>1, Zenon DEF Duplicate
    <3> QED
      BY <1>2, <2>3, <3>1, <3>2, Zenon
  <2> QED
    BY <2>1, <2>2, <2>3, Zenon
<1>5. OneFingerprint'
  <2>1. ASSUME NEW t \in Sidecars, NEW y, NEW i, NEW j,
               <<y, i>> \in submitted_fingerprints'[t],
               <<y, j>> \in submitted_fingerprints'[t]
        PROVE  i = j
    <3>1. CASE t # s
      BY <1>2, <2>1, <3>1, Zenon DEF DedupInv, OneFingerprint
    <3>2. CASE t = s /\ y = x
      BY <1>2, <2>1, <3>2, Zenon
    <3>3. CASE t = s /\ y # x
      BY <1>0, <1>2, <2>1, <3>3, Zenon DEF DedupInv, OneFingerprint
    <3> QED
      BY <3>1, <3>2, <3>3, Zenon
  <2> QED
    BY <1>2, <2>1, Zenon DEF OneFingerprint
<1>6. ForwardsToPeers'
  BY <1>a, Zenon DEF DedupInv, ForwardsToPeers
<1> QED
  BY <1>3, <1>4, <1>5, <1>6, Zenon DEF DedupInv, OwnFingerprinted

(* A forward arrives at a peer of the origin.                              *)
LEMMA ForwardDedup ==
  ASSUME DedupInv, NEW m \in net, HandleForward(m)
  PROVE  DedupInv'
<1> DEFINE s == m.to
           r == NewXt(m.xt, m.seq)
<1>0. /\ s \in Sidecars /\ s # m.id[1] /\ DOMAIN r = Fields
      /\ net' \subseteq net /\ UNCHANGED submitted_fingerprints
  BY Zenon DEF DedupInv, ForwardsToPeers, HandleForward, NewXt, Fields
<1>1. CASE UNCHANGED pending
  BY <1>0, <1>1, ChangedDedup, Zenon
<1>2. CASE pending' = [pending EXCEPT ![s] = With(@, m.id, r)]
  <2> HIDE DEF r, s
  <2>1. /\ DOMAIN pending' = Sidecars
        /\ \A t \in Sidecars \ {s} : pending'[t] = pending[t]
        /\ DOMAIN pending'[s] = DOMAIN pending[s] \cup {m.id}
        /\ pending'[s][m.id] = r
        /\ \A j \in DOMAIN pending[s] \ {m.id} : pending'[s][j] = pending[s][j]
    BY <1>0, <1>2, Zenon DEF DedupInv, PendingFields, With
  <2>2. PendingFields'
    BY <1>0, <2>1 DEF DedupInv, PendingFields
  <2>3. OwnFingerprinted'
    BY <1>0, <2>1 DEF DedupInv, OwnFingerprinted
  <2>4. OneFingerprint' /\ ForwardsToPeers'
    BY <1>0, Zenon DEF DedupInv, OneFingerprint, ForwardsToPeers
  <2> QED
    BY <2>2, <2>3, <2>4, Zenon DEF DedupInv
<1> QED
  BY <1>1, <1>2, Zenon DEF HandleForward

(* Every step keeps the invariant.                                         *)
LEMMA NextDedup == ASSUME DedupInv, [Next]_vars PROVE DedupInv'
<1>1. ASSUME NEW s \in Sidecars, NEW id \in Ids, SubmittedToBuilder(s, id)
      PROVE  DedupInv'
  <2>1. /\ UNCHANGED <<submitted_fingerprints, pending>>
        /\ net' = IF s = id[1]
                  THEN net \cup Forwards(s, id, pending[s][id].xt, origin_seq[s])
                  ELSE net
    BY <1>1, Zenon DEF SubmittedToBuilder
  <2>2. ForwardsToPeers'
    BY <2>1 DEF DedupInv, ForwardsToPeers, Forwards, Peers
  <2> QED
    BY <2>1, <2>2, Zenon
       DEF DedupInv, PendingFields, OwnFingerprinted, OneFingerprint
<1>2. ASSUME NEW s \in Sidecars, NEW id \in Ids,
             BuilderRefuses(s, id) \/ Cleanup(s, id)
      PROVE  DedupInv'
  BY <1>2, RemovedDedup, Zenon DEF BuilderRefuses, Cleanup
<1>3. ASSUME NEW s \in Sidecars, NEW id \in Ids, NEW v \in {"yes", "no"}
      PROVE  \A m \in Votes(s, id, v) \cup Votes(s, id, pending[s][id].local_vote) :
               m.type = "vote"
  BY DEF Votes
<1>4. ASSUME NEW s \in Sidecars, NEW id \in DOMAIN pending[s], NEW r,
             DOMAIN r = Fields, r.xt = pending[s][id].xt
      PROVE  DOMAIN Decided(s, r) = Fields /\ Decided(s, r).xt = pending[s][id].xt
  BY <1>4, Zenon DEF Decided, Fields
<1>5. ASSUME NEW s \in Sidecars, NEW id \in Ids, NEW v \in {"yes", "no"},
             CastVote(s, id, v)
      PROVE  DedupInv'
  <2> DEFINE old == pending[s][id]
             new == Decided(s, [old EXCEPT !.local_vote = v])
  <2>1. /\ UNCHANGED submitted_fingerprints
        /\ pending' = [pending EXCEPT ![s][id] = new]
        /\ net' \subseteq net \cup Votes(s, id, v)
    BY <1>5, Zenon DEF CastVote
  <2>2. ASSUME id \in DOMAIN pending[s]
        PROVE  DOMAIN new = Fields /\ new.xt = old.xt
    <3>1. /\ DOMAIN [old EXCEPT !.local_vote = v] = Fields
          /\ [old EXCEPT !.local_vote = v].xt = old.xt
      BY <2>2, Zenon DEF DedupInv, PendingFields, Fields
    <3> QED
      BY <1>4, <2>2, <3>1, Zenon
  <2>3. \A m \in net' : m.type = "forward" => m \in net
    BY <1>3, <2>1, Zenon
  <2> HIDE DEF new
  <2> QED
    BY <2>1, <2>2, <2>3, ChangedDedup, Zenon
<1>6. ASSUME NEW s \in Sidecars, NEW id \in Ids,
             CommandApplied(s, id) \/ CommandFails(s, id)
      PROVE  DedupInv'
  <2>1. /\ UNCHANGED <<submitted_fingerprints, pending>>
        /\ net' \subseteq net \cup Votes(s, id, pending[s][id].local_vote)
    BY <1>6, Zenon DEF CommandApplied, CommandFails
  <2>2. \A m \in net' : m.type = "forward" => m \in net
    BY <1>3, <2>1, Zenon
  <2> QED
    BY <2>1, <2>2, ChangedDedup, Zenon
<1>7. ASSUME NEW m \in net, HandlePeerVote(m) PROVE DedupInv'
  <2> DEFINE s == m.to
             id == m.id
             old == pending[s][id]
             voted == RecordPeerVote(old, m.from, m.vote)
             new == Decided(s, voted)
  <2>1. /\ UNCHANGED submitted_fingerprints /\ net' \subseteq net
        /\ UNCHANGED pending \/ pending' = [pending EXCEPT ![s][id] = new]
    BY <1>7, Zenon DEF HandlePeerVote, taskVars
  <2>2. ASSUME s \in Sidecars, id \in DOMAIN pending[s]
        PROVE  DOMAIN new = Fields /\ new.xt = old.xt
    <3>1. DOMAIN voted = Fields /\ voted.xt = old.xt
      BY <2>2, Zenon DEF DedupInv, PendingFields, Fields, RecordPeerVote
    <3> HIDE DEF voted
    <3> QED
      BY <1>4, <2>2, <3>1, Zenon
  <2>3. \A n \in net' : n.type = "forward" => n \in net
    BY <2>1, Zenon
  <2> HIDE DEF s, id, old, new
  <2> QED
    BY <2>1, <2>2, <2>3, ChangedDedup, Zenon DEF old
<1>8. ASSUME NEW s \in Sidecars, Restart(s) PROVE DedupInv'
  <2>1. /\ UNCHANGED net /\ DOMAIN pending' = Sidecars
        /\ DOMAIN submitted_fingerprints' = Sidecars
        /\ DOMAIN pending'[s] = {} /\ submitted_fingerprints'[s] = {}
        /\ \A t \in Sidecars \ {s} :
             /\ pending'[t] = pending[t]
             /\ submitted_fingerprints'[t] = submitted_fingerprints[t]
    BY <1>8, Zenon DEF Restart, DedupInv, PendingFields, OneFingerprint
  <2>2. PendingFields' /\ OwnFingerprinted'
    BY <2>1 DEF DedupInv, PendingFields, OwnFingerprinted
  <2>3. OneFingerprint'
    BY <2>1, Zenon DEF DedupInv, OneFingerprint
  <2> QED
    BY <2>1, <2>2, <2>3, Zenon DEF DedupInv, ForwardsToPeers
<1>9. CASE UNCHANGED vars
  BY <1>9, ChangedDedup, Zenon DEF vars, taskVars
<1> QED
  BY <1>1, <1>2, <1>5, <1>6, <1>7, <1>8, <1>9, SubmitDedup, ForwardDedup, Zenon
     DEF Next, Deliver, TaskStep

(* A client that submits the same transactions again gets no second        *)
(* instance while the first is pending: submit_xt_standalone() finds the   *)
(* fingerprint of every XT of its own that it holds, whatever was refused, *)
(* cleaned up or lost in a restart in between.                             *)
THEOREM SubmittedOnce == Spec => []OneInstancePerXt
<1>1. Init => DedupInv
  BY DEF Init, DedupInv, PendingFields, OwnFingerprinted, OneFingerprint,
         ForwardsToPeers
<1>2. DedupInv /\ [Next]_vars => DedupInv'
  BY NextDedup, Zenon
<1>3. DedupInv => OneInstancePerXt
  <2> SUFFICES ASSUME DedupInv, NEW s \in Sidecars, NEW i \in DOMAIN pending[s],
                      NEW j \in DOMAIN pending[s], i[1] = s, j[1] = s,
                      pending[s][i].xt = pending[s][j].xt
               PROVE  i = j
    BY Zenon DEF OneInstancePerXt
  <2>1. /\ <<pending[s][i].xt, i>> \in submitted_fingerprints[s]
        /\ <<pending[s][i].xt, j>> \in submitted_fingerprints[s]
    BY Zenon DEF DedupInv, OwnFingerprinted
  <2> QED
    BY <2>1, Zenon DEF DedupInv, OneFingerprint
<1> QED
  BY <1>1, <1>2, <1>3, PTL DEF Spec
-----------------------------------------------------------------------------
FST == INSTANCE FiniteSetTheorems

(* A subset of a finite set that is no smaller is the set.                 *)
LEMMA Counting == EnoughAreAll
<1> SUFFICES ASSUME NEW T \in SUBSET Sidecars, NEW U \in SUBSET T,
                    Cardinality(U) >= Cardinality(T)
             PROVE  U = T
  BY Zenon DEF EnoughAreAll
<1>0. \A S : /\ FST!IsFiniteSet(S) <=> IsFiniteSet(S)
            /\ FST!Cardinality(S) = Cardinality(S)
  BY Zenon DEF IsFiniteSet, Cardinality, FST!IsFiniteSet, FST!Cardinality
<1>1. IsFiniteSet(T) /\ Cardinality(T) \in Nat
  BY <1>0, FST!FS_Subset, FST!FS_CardinalityType, StandaloneAssumption, Zenon
<1>2. /\ Cardinality(U) \in Nat /\ Cardinality(U) <= Cardinality(T)
      /\ Cardinality(T) = Cardinality(U) => T = U
  BY <1>0, <1>1, FST!FS_Subset, FST!FS_CardinalityType, Zenon
<1> QED
  BY <1>1, <1>2

(* Standalone mode implements atomic commitment: the votes and decisions   *)
(* of the sidecars are those of AtomicCommit, with any messages late or    *)
(* lost, builders failing and peers restarting.                            *)
THEOREM AtomicCommitRefined ==
  ASSUME StableOrigins
  PROVE  Spec => ImplementsAtomicCommit
<1>1. Init => AC!Init
  BY Zenon DEF Init, AC!Init
<1>2. IInv /\ [Next]_vars => IInv' /\ [AC!Next]_(AC!vars)
  BY NextStep, Counting, Zenon DEF IIStep
<1> QED
  BY <1>1, <1>2, InitIInv, PTL DEF Spec, AC!Spec, ImplementsAtomicCommit

(* No two sidecars decide differently about an instance, or about          *)
(* different transactions: the XT executes on every chain or on none.      *)
THEOREM StandaloneAgreement ==
  ASSUME StableOrigins
  PROVE  Spec => []Agreement
<1>1. Spec => AC!Spec
  BY AtomicCommitRefined, Zenon DEF ImplementsAtomicCommit
<1>2. AC!Agreement => Agreement
  BY Zenon DEF Agreement
<1> QED
  BY <1>1, <1>2, CommitAgreement, PTL
=============================================================================

----------------------------- MODULE Standalone -----------------------------
(***************************************************************************)
(* Standalone mode: the sidecars of several chains coordinate XTs without  *)
(* a publisher.  The sidecar a client submits to registers the XT under an *)
(* id of its own and forwards it to its peers; every sidecar with local    *)
(* transactions simulates and sends its vote to all peers; each sidecar    *)
(* decides by itself from the votes it knows.                              *)
(*                                                                         *)
(* Forwards and votes are HTTP posts in tasks of their own, sent once:     *)
(* they arrive in any order, late, or never (a message may stay in `net'). *)
(* A sidecar keeps nothing on disk, so a restart forgets everything.  Here *)
(* the builder appears only where its answer steers the protocol; module   *)
(* Coordinator has the commands to it in detail.                           *)
(***************************************************************************)
EXTENDS Naturals, FiniteSets

CONSTANTS
  Sidecars,     \* the sidecars, one per chain
  Xts,          \* the XTs clients submit
  Origin,       \* the sidecar each XT is submitted to
  Chains,       \* the chains (named by their sidecars) each XT spans
  MaxSeq,       \* bound: XTs registered by one sidecar between restarts
  MaxPending,   \* MAX_PENDING_XTS
  MaxFaults,    \* bound: failing builder RPCs
  Crashers,     \* bound: the sidecars that may restart
  MaxCrashes    \* bound: restarts

ASSUME StandaloneAssumption ==
  /\ IsFiniteSet(Sidecars)
  /\ Origin \in [Xts -> Sidecars]
  /\ Chains \in [Xts -> SUBSET Sidecars]
  /\ \A x \in Xts : Chains[x] # {}
  /\ MaxSeq \in Nat /\ MaxPending \in Nat
  /\ MaxFaults \in Nat /\ MaxCrashes \in Nat
  /\ Crashers \subseteq Sidecars

VARIABLES
  origin_seq,              \* per sidecar: the last sequence number it used
  submitted_fingerprints,  \* per sidecar: pairs of an XT and its id
  pending,                 \* per sidecar: instance id -> PendingXt
  proc,                    \* per sidecar and id: where its task stands
  net,                     \* messages on their way
  started, cast, log,      \* ghosts: see AtomicCommit
  faults, crashes          \* budgets

taskVars  == <<origin_seq, submitted_fingerprints, proc>>
ghostVars == <<started, cast, log>>
vars == <<taskVars, pending, net, ghostVars, faults, crashes>>
-----------------------------------------------------------------------------
(* InstanceId::standalone(): the id names the origin and its counter.      *)
Ids == Sidecars \X (1 .. MaxSeq)

(* The fields of PendingXt that steer this mode.                           *)
NewXt(x, seq) == [xt |-> x, seq |-> seq, local_vote |-> "none",
                  peer_votes |-> [c \in {} |-> "none"], decision |-> "none"]

Undecided(s) == {id \in DOMAIN pending[s] : pending[s][id].decision = "none"}

With(f, k, v) == [j \in DOMAIN f \cup {k} |-> IF j = k THEN v ELSE f[j]]

Without(f, k) == [j \in DOMAIN f \ {k} |-> f[j]]

Peers(s) == Sidecars \ {s}

Forwards(s, id, x, seq) ==
  {[type |-> "forward", to |-> p, id |-> id, xt |-> x, seq |-> seq] : p \in Peers(s)}

Votes(s, id, v) ==
  {[type |-> "vote", to |-> p, id |-> id, from |-> s, vote |-> v] : p \in Peers(s)}

Fault == faults < MaxFaults /\ faults' = faults + 1
-----------------------------------------------------------------------------
(* The votes maybe_make_standalone_decision() counts, and how many it      *)
(* expects: one per chain with transactions.  The mutants expect one less  *)
(* and one more.                                                           *)
MutantExpectedOneLess(x) == Cardinality(Chains[x]) - 1

MutantExpectedOneMore(x) == Cardinality(Chains[x]) + 1

Expected(x) == Cardinality(Chains[x])

Collected(s, r) ==
  {c \in {s} : r.local_vote # "none"} \cup (DOMAIN r.peer_votes \ {s})

(* The mutant asks only the local vote for a veto.                         *)
MutantPeerVetoIgnored(s, r) == r.local_vote = "no"

HasAbortVote(s, r) ==
  \/ r.local_vote = "no"
  \/ \E c \in DOMAIN r.peer_votes \ {s} : r.peer_votes[c] = "no"

StandaloneDecision(s, r) ==
  CASE r.decision # "none"                             -> r.decision
    [] r.decision = "none" /\ HasAbortVote(s, r)       -> "abort"
    [] /\ r.decision = "none" /\ ~HasAbortVote(s, r)
       /\ Cardinality(Collected(s, r)) >= Expected(r.xt) -> "commit"
    [] OTHER                                           -> "none"

(* The record after a vote came in, and what the ghost log notes of it.    *)
Decided(s, r) == [r EXCEPT !.decision = StandaloneDecision(s, r)]

Logged(s, id, old, new) ==
  log' = IF old.decision = new.decision THEN log
         ELSE log \cup {[at |-> s, id |-> id, xt |-> new.xt,
                         decision |-> new.decision]}
-----------------------------------------------------------------------------
Init ==
  /\ origin_seq = [s \in Sidecars |-> 0]
  /\ submitted_fingerprints = [s \in Sidecars |-> {}]
  /\ pending = [s \in Sidecars |-> [id \in {} |-> "none"]]
  /\ proc = [s \in Sidecars |-> [id \in Ids |-> "idle"]]
  /\ net = {}
  /\ started = {} /\ cast = {} /\ log = {}
  /\ faults = 0 /\ crashes = 0

(* A submission of transactions that are still pending returns their id.   *)
(* The mutant registers them again.                                        *)
MutantNoDedup(s, x) == FALSE

Duplicate(s, x) ==
  \E p \in submitted_fingerprints[s] : p[1] = x /\ p[2] \in DOMAIN pending[s]

(* submit_xt_standalone() up to the unlock.                                *)
SubmitXt(x) ==
  LET s == Origin[x]
      seq == origin_seq[s] + 1
      id == <<s, seq>>
  IN  /\ ~Duplicate(s, x)
      /\ Cardinality(Undecided(s)) < MaxPending
      /\ seq <= MaxSeq
      /\ origin_seq' = [origin_seq EXCEPT ![s] = seq]
      /\ pending' = [pending EXCEPT ![s] = With(@, id, NewXt(x, seq))]
      /\ submitted_fingerprints' =
           [submitted_fingerprints EXCEPT ![s] =
              {p \in @ : p[1] # x} \cup {<<x, id>>}]
      /\ proc' = [proc EXCEPT ![s][id] = "submit"]
      /\ started' = started \cup {[id |-> id, xt |-> x]}
      /\ UNCHANGED <<net, cast, log, faults, crashes>>

(* After the builder took the XT (there is nothing to take without local   *)
(* transactions): process_xt() is spawned, and the origin forwards the XT  *)
(* with the sequence number it reads at this moment.                       *)
SubmittedToBuilder(s, id) ==
  /\ proc[s][id] = "submit"
  /\ proc' = [proc EXCEPT ![s][id] = "simulate"]
  /\ net' = IF s = id[1]
            THEN net \cup Forwards(s, id, pending[s][id].xt, origin_seq[s])
            ELSE net
  /\ UNCHANGED <<origin_seq, submitted_fingerprints, pending, ghostVars, faults,
                 crashes>>

(* remove_pending_xt() after the builder refused it.                       *)
RemovePending(s, id) ==
  /\ pending' = [pending EXCEPT ![s] = Without(@, id)]
  /\ submitted_fingerprints' =
       [submitted_fingerprints EXCEPT ![s] = {p \in @ : p[2] # id}]

BuilderRefuses(s, id) ==
  /\ proc[s][id] = "submit" /\ s \in Chains[pending[s][id].xt]
  /\ Fault
  /\ RemovePending(s, id)
  /\ proc' = [proc EXCEPT ![s][id] = "idle"]
  /\ UNCHANGED <<origin_seq, net, ghostVars, crashes>>

(* handle_forwarded_xt() up to the unlock.  A known id is left alone, and  *)
(* one XT too many is refused.                                             *)
HandleForward(m) ==
  LET s == m.to
      refused == m.id \in DOMAIN pending[s] \/ Cardinality(Undecided(s)) >= MaxPending
  IN  /\ m.type = "forward" /\ net' = net \ {m}
      /\ \/ refused /\ UNCHANGED <<pending, proc>>
         \/ /\ ~refused
            /\ pending' = [pending EXCEPT ![s] = With(@, m.id, NewXt(m.xt, m.seq))]
            /\ proc' = [proc EXCEPT ![s][m.id] =
                          IF s \in Chains[m.xt] THEN "submit" ELSE "idle"]
      /\ UNCHANGED <<origin_seq, submitted_fingerprints, ghostVars, faults, crashes>>

(* The end of process_xt() and the locked part of send_vote(): without     *)
(* local transactions the vote is no.  The vote may decide the XT; then    *)
(* the builder is told before the vote leaves.                             *)
CastVote(s, id, v) ==
  LET old == pending[s][id]
      new == Decided(s, [old EXCEPT !.local_vote = v])
      told == old.decision # new.decision /\ s \in Chains[old.xt]
  IN  /\ proc[s][id] = "simulate"
      /\ v = "yes" => s \in Chains[old.xt]
      /\ pending' = [pending EXCEPT ![s][id] = new]
      /\ cast' = cast \cup {[at |-> s, id |-> id, vote |-> v]}
      /\ Logged(s, id, old, new)
      /\ proc' = [proc EXCEPT ![s][id] = IF told THEN "command" ELSE "idle"]
      /\ net' = IF told THEN net ELSE net \cup Votes(s, id, v)
      /\ UNCHANGED <<origin_seq, submitted_fingerprints, started, faults, crashes>>

(* apply_builder_command() between the two halves of send_vote(): its Err  *)
(* ends send_vote() before the vote is sent.                               *)
CommandApplied(s, id) ==
  /\ proc[s][id] = "command"
  /\ proc' = [proc EXCEPT ![s][id] = "idle"]
  /\ net' = net \cup Votes(s, id, pending[s][id].local_vote)
  /\ UNCHANGED <<origin_seq, submitted_fingerprints, pending, ghostVars, faults,
                 crashes>>

CommandFails(s, id) ==
  /\ proc[s][id] = "command"
  /\ Fault
  /\ proc' = [proc EXCEPT ![s][id] = "idle"]
  /\ UNCHANGED <<origin_seq, submitted_fingerprints, pending, net, ghostVars, crashes>>

(* handle_peer_vote(): the first vote of each peer on a pending undecided  *)
(* XT counts; any other is dropped.                                        *)
RecordPeerVote(r, c, v) == [r EXCEPT !.peer_votes = With(@, c, v)]

HandlePeerVote(m) ==
  LET s == m.to
      id == m.id
  IN  /\ m.type = "vote" /\ net' = net \ {m}
      /\ IF id \in Undecided(s) /\ m.from \notin DOMAIN pending[s][id].peer_votes
         THEN LET old == pending[s][id]
                  new == Decided(s, RecordPeerVote(old, m.from, m.vote))
              IN  /\ pending' = [pending EXCEPT ![s][id] = new]
                  /\ Logged(s, id, old, new)
         ELSE UNCHANGED <<pending, log>>
      /\ UNCHANGED <<taskVars, started, cast, faults, crashes>>

(* cleanup() of an XT decided long ago.                                    *)
Cleanup(s, id) ==
  /\ id \in DOMAIN pending[s] \ Undecided(s) /\ proc[s][id] = "idle"
  /\ RemovePending(s, id)
  /\ UNCHANGED <<origin_seq, proc, net, ghostVars, faults, crashes>>

(* A sidecar restarts with CoordinatorState::new().                        *)
Restart(s) ==
  /\ s \in Crashers /\ crashes < MaxCrashes /\ crashes' = crashes + 1
  /\ origin_seq' = [origin_seq EXCEPT ![s] = 0]
  /\ submitted_fingerprints' = [submitted_fingerprints EXCEPT ![s] = {}]
  /\ pending' = [pending EXCEPT ![s] = [id \in {} |-> "none"]]
  /\ proc' = [proc EXCEPT ![s] = [id \in Ids |-> "idle"]]
  /\ UNCHANGED <<net, ghostVars, faults>>
-----------------------------------------------------------------------------
Deliver(m) == HandleForward(m) \/ HandlePeerVote(m)

TaskStep(s, id) ==
  \/ SubmittedToBuilder(s, id)
  \/ BuilderRefuses(s, id)
  \/ \E v \in {"yes", "no"} : CastVote(s, id, v)
  \/ CommandApplied(s, id)
  \/ CommandFails(s, id)

Next ==
  \/ \E x \in Xts : SubmitXt(x)
  \/ \E m \in net : Deliver(m)
  \/ \E s \in Sidecars, id \in Ids : TaskStep(s, id) \/ Cleanup(s, id)
  \/ \E s \in Sidecars : Restart(s)

Spec == Init /\ [][Next]_vars

(* Spawned tasks run to their end, and every message arrives.              *)
Messages ==
  UNION {Forwards(s, id, x, n) \cup Votes(s, id, v) :
           s \in Sidecars, id \in Ids, x \in Xts, n \in 1 .. MaxSeq, v \in {"yes", "no"}}

Fairness ==
  /\ \A s \in Sidecars, id \in Ids : WF_vars(TaskStep(s, id))
  /\ \A m \in Messages : WF_vars(m \in net /\ Deliver(m))

FairSpec == Spec /\ Fairness
-----------------------------------------------------------------------------
Ballots == {"none", "yes", "no"}

PendingXt == [xt : Xts, seq : 1 .. MaxSeq, local_vote : Ballots,
              peer_votes : UNION {[S -> {"yes", "no"}] : S \in SUBSET Sidecars},
              decision : {"none", "commit", "abort"}]

(* The shape of the sidecars' states and of the messages between them.     *)
TypeOK ==
  /\ origin_seq \in [Sidecars -> 0 .. MaxSeq]
  /\ \A s \in Sidecars :
       /\ submitted_fingerprints[s] \subseteq Xts \X Ids
       /\ DOMAIN pending[s] \subseteq Ids
       /\ \A id \in DOMAIN pending[s] : pending[s][id] \in PendingXt
  /\ proc \in [Sidecars -> [Ids -> {"idle", "submit", "simulate", "command"}]]
  /\ net \subseteq Messages

AC == INSTANCE AtomicCommit

(* The sidecars together implement atomic commitment.                      *)
ImplementsAtomicCommit == AC!Spec

(* No two sidecars decide differently about an instance or about different *)
(* transactions, whatever messages are late or lost and whichever peers    *)
(* restart.                                                                *)
Agreement == AC!Agreement

(* A client that submits the same transactions again gets no second        *)
(* instance while the first is pending.                                    *)
OneInstancePerXt ==
  \A s \in Sidecars : \A i, j \in DOMAIN pending[s] :
    i[1] = s /\ j[1] = s /\ pending[s][i].xt = pending[s][j].xt => i = j

(* No builder call has failed, nobody has restarted, and there is room for *)
(* every forwarded XT.                                                     *)
Smooth ==
  /\ faults = 0 /\ crashes = 0
  /\ \A m \in net : m.type = "forward" => Cardinality(Undecided(m.to)) < MaxPending

(* With a network that delivers, a builder that answers, no crash and room *)
(* for every forwarded XT, the sidecar an XT was submitted to decides it:  *)
(* it knows the XT before any vote on it can arrive.                       *)
OriginDecides ==
  []Smooth => \A id \in Ids : (id \in DOMAIN pending[id[1]])
                               ~> (\E e \in log : e.at = id[1] /\ e.id = id)
-----------------------------------------------------------------------------
(* What comments of the repository say and the code does not always do.    *)

(* coordinator.rs: "any `false` vote decides `false` immediately": no      *)
(* instance is committed anywhere once a sidecar voted no on it.           *)
VetoRespected ==
  \A e \in log, b \in cast :
    e.decision = "commit" /\ b.id = e.id => b.vote = "yes"

(* primitives/src/lib.rs: an id is "unique per sidecar".                   *)
IdNamesOneXt == \A e, f \in started : e.id = f.id => e.xt = f.xt

(* model/pending_xt.rs: origin_seq is the "Origin sequence number": at     *)
(* every sidecar it is the number the origin gave the XT.                  *)
OriginSeqAgrees ==
  \A s \in Sidecars : \A id \in DOMAIN pending[s] : pending[s][id].seq = id[2]

(* README.md: votes are aggregated "peer-to-peer (in standalone mode)":    *)
(* with a network that delivers, whoever holds an XT decides it.           *)
EveryoneDecides ==
  \A s \in Sidecars, id \in Ids :
    (id \in DOMAIN pending[s]) ~> (\E e \in log : e.at = s /\ e.id = id)
=============================================================================

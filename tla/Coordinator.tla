---------------------------- MODULE Coordinator ----------------------------
(***************************************************************************)
(* One sidecar coordinating XTs under the shared publisher: the handlers   *)
(* of crates/coordinator, the process_xt() pipeline up to its vote, the    *)
(* commands to the local block builder, and the putInbox nonce lane.       *)
(*                                                                         *)
(* CoordinatorState sits behind one RwLock.  A handler changes it in one   *)
(* locked section (one action) and makes its RPCs after it released the    *)
(* lock, so each RPC and each nonce-manager call is an action of its own   *)
(* in a task that remembers where the handler stands.  main.rs spawns one  *)
(* task per publisher message: messages wait in `inbox' and are handled in *)
(* any order.                                                              *)
(*                                                                         *)
(* The publisher and the block builder are external.  The mailbox buffers  *)
(* and the wait for dependencies, behind the same lock, are in module      *)
(* MailboxWait; standalone mode is in Standalone.  Here a simulation ends  *)
(* with some number of fulfilled dependencies, or fails.                   *)
(***************************************************************************)
EXTENDS Integers, FiniteSetsExt, Sequences

CONSTANTS
  Xts,          \* instances the publisher may start, each once
  Local,        \* the ones with transactions for this sidecar's chain
  MaxPeriod,    \* bound: periods the publisher starts
  Rollbacks,    \* bound: may the publisher roll back (once)?
  MaxPending,   \* MAX_PENDING_XTS
  DepCounts,    \* bound: numbers of mailbox dependencies an XT may have
  MaxU64,       \* the largest nonce
  MaxFaults,    \* bound: failing RPCs and losses of the connection
  FaultKinds,   \* "lost": not applied; "late": applied, answer timed out;
                \* "drop": the publisher connection is lost
  PeerVotes     \* votes a peer sidecar may send to this one

ASSUME CoordinatorAssumption ==
  /\ Local \subseteq Xts
  /\ MaxPeriod \in Nat /\ MaxPending \in Nat
  /\ DepCounts \subseteq Nat /\ \E m \in DepCounts : \A n \in DepCounts : m >= n
  /\ MaxU64 \in Nat /\ MaxFaults \in Nat
  /\ Rollbacks \in BOOLEAN
  /\ FaultKinds \subseteq {"lost", "late", "drop"}
  /\ PeerVotes \subseteq BOOLEAN

VARIABLES
  \* the shared publisher and the connection to it
  spPeriod,     \* the period the publisher is in, 0 before the first this
                \* sidecar hears of
  spOpen,       \* is that period open?  a rollback closes it
  spAssigned,   \* period and sequence number it gave each instance
  spDecision,   \* its decision on each; "void" after a rollback
  rolledBack,   \* has it rolled back?
  inbox,        \* received messages whose task has not taken the lock yet
  votes,        \* the votes this sidecar sent for each instance, in order
  connected,    \* is_publisher_connected()
  \* CoordinatorState
  pending,         \* the pending XTs: instance -> PendingXt
  current,         \* PublisherPeriod.current, 0 for None
  last_sequence,   \* PublisherPeriod.last_sequence, 0 for None
  \* tasks: how far the handlers are
  proc,         \* handle_start_instance() after its lock, then process_xt()
  cmd,          \* apply_builder_command() after a decision on the XT
  sweep,        \* the abort loops of handle_start_period()/_rollback()
  conf,         \* confirm_included_xts()
  \* the block builder and its chain
  pool,         \* the XT pool of the builder
  chainNonce,   \* the next nonce of the putInbox signer on chain
  \* the nonce manager
  canonical_floor, live, recycled, consumed,
  \* budget
  faults

NM == INSTANCE NonceManager WITH Instances <- Xts, MaxCount <- Max(DepCounts)

spVars    == <<spPeriod, spOpen, spAssigned, spDecision, rolledBack>>
netVars   == <<inbox, votes, connected>>
stateVars == <<pending, current, last_sequence>>
nonceVars == <<canonical_floor, live, recycled, consumed>>
poolVars  == <<pool, chainNonce>>

vars == <<spVars, netVars, stateVars, proc, cmd, sweep, conf, poolVars,
          nonceVars, faults>>
-----------------------------------------------------------------------------
(* The fields of PendingXt that steer the coordinator.                     *)
NewXt(p) == [period |-> p, decision |-> "none", local_vote |-> "none",
             peer_vote |-> "none", deps |-> 0, confirmed |-> FALSE]

(* PendingXt.record_decision(); the mutant inverts it.                     *)
MutantRecordInverted(r, d) ==
  [r EXCEPT !.decision = IF d = "abort" THEN "commit" ELSE "abort"]

RecordDecision(r, d) == [r EXCEPT !.decision = d]

(* The XTs without a decision; the mutant drops the check.                 *)
MutantAllUndecided == DOMAIN pending

Undecided == {x \in DOMAIN pending : pending[x].decision = "none"}

(* A task of apply_builder_command(): its next step, and the putInbox      *)
(* transactions it carries as a count of dependencies and a nonce range.   *)
NoCmd == [pc |-> "idle", deps |-> 0, start |-> 0, end |-> 0]

(* local_builder_command(): only an XT with local transactions has one.    *)
(* The mutant forgets the release.                                         *)
MutantCommandForgetsRelease(x, decision, deps) ==
  IF x \in Local /\ decision = "abort" THEN [NoCmd EXCEPT !.pc = "abort"]
                                       ELSE NoCmd

Command(x, decision, deps) ==
  CASE x \in Local /\ decision = "abort"  -> [NoCmd EXCEPT !.pc = "abort"]
    [] x \in Local /\ decision = "commit" ->
         [NoCmd EXCEPT !.pc = IF deps = 0 THEN "release" ELSE "reserve",
                       !.deps = deps]
    [] OTHER -> NoCmd

(* An abort loop: the XTs still to abort at the builder, the one whose     *)
(* nonces are about to be freed, and the abort votes to send at the end.   *)
NoSweep == [on |-> FALSE, abort |-> {}, freeing |-> {}, votes |-> {}]

RollbackSweep == 0          \* sweep[p] belongs to StartPeriod(p), p > 0
SweepIds == 0 .. MaxPeriod

Absent == [st |-> "absent", start |-> 0, end |-> 0]

(* No task works on x.  RPCs and waits time out within seconds; cleanup()  *)
(* and the questions about settled XTs come long after.                    *)
Quiet(x) ==
  /\ proc[x] = "idle"
  /\ cmd[x].pc = "idle"
  /\ conf[x] \in {"none", "done"}
  /\ \A k \in SweepIds : x \notin sweep[k].abort \cup sweep[k].votes

Put(x, r) == [y \in DOMAIN pending \cup {x} |-> IF y = x THEN r ELSE pending[y]]

Without(S) == [y \in DOMAIN pending \ S |-> pending[y]]

(* The outcome of an RPC to the builder.  builder_client.rs turns every    *)
(* transport error, time-out and RPC error into the same Err.              *)
Outcome(o) ==
  \/ o = "ok" /\ UNCHANGED faults
  \/ o \in FaultKinds /\ faults < MaxFaults /\ faults' = faults + 1

Outcomes == {"ok", "lost", "late"}
-----------------------------------------------------------------------------
Init ==
  /\ spPeriod = 0 /\ spOpen = FALSE
  /\ spAssigned = [x \in Xts |-> [period |-> 0, seq |-> 0]]
  /\ spDecision = [x \in Xts |-> "none"]
  /\ rolledBack = FALSE
  /\ inbox = {} /\ votes = [x \in Xts |-> <<>>]
  /\ connected = TRUE
  /\ pending = [x \in {} |-> NewXt(0)]
  /\ current = 0 /\ last_sequence = 0
  /\ proc = [x \in Xts |-> "idle"]
  /\ cmd = [x \in Xts |-> NoCmd]
  /\ sweep = [k \in SweepIds |-> NoSweep]
  /\ conf = [x \in Xts |-> "none"]
  /\ pool = [x \in Xts |-> Absent] /\ chainNonce = 0
  /\ NM!Init
  /\ faults = 0
-----------------------------------------------------------------------------
(* The shared publisher.  A message sent while the connection is down is   *)
(* lost; a received one becomes a task.                                    *)
Deliver(m) == inbox' = IF connected THEN inbox \cup {m} ELSE inbox

PublisherStartsPeriod ==
  /\ spPeriod < MaxPeriod
  /\ spPeriod' = spPeriod + 1 /\ spOpen' = TRUE
  /\ Deliver([type |-> "StartPeriod", period |-> spPeriod + 1])
  /\ UNCHANGED <<spAssigned, spDecision, rolledBack, votes, connected,
                 stateVars, proc, cmd, sweep, conf, poolVars, nonceVars, faults>>

PublisherStartsInstance(x) ==
  LET started == {y \in Xts : spAssigned[y].period = spPeriod}
      slot    == [period |-> spPeriod, seq |-> Cardinality(started) + 1]
  IN  /\ spOpen /\ spAssigned[x].period = 0
      /\ spAssigned' = [spAssigned EXCEPT ![x] = slot]
      /\ Deliver([type |-> "StartInstance", xt |-> x])
      /\ UNCHANGED <<spPeriod, spOpen, spDecision, rolledBack, votes, connected,
                     stateVars, proc, cmd, sweep, conf, poolVars, nonceVars,
                     faults>>

(* It commits only when this sidecar's first vote was yes.  It may abort   *)
(* at any time: another chain voted no, or timed out.                      *)
PublisherDecides(x, d) ==
  /\ spAssigned[x].period > 0 /\ spDecision[x] = "none"
  /\ d = "commit" /\ x \in Local => votes[x] # <<>> /\ Head(votes[x])
  /\ spDecision' = [spDecision EXCEPT ![x] = d]
  /\ Deliver([type |-> "Decided", xt |-> x, decision |-> d])
  /\ UNCHANGED <<spPeriod, spOpen, spAssigned, rolledBack, votes, connected,
                 stateVars, proc, cmd, sweep, conf, poolVars, nonceVars, faults>>

(* A rollback closes the period, voids every instance started so far and   *)
(* rewinds the chain to the last finalized superblock, which holds none of *)
(* them.                                                                   *)
PublisherRollsBack ==
  /\ Rollbacks /\ ~rolledBack
  /\ rolledBack' = TRUE /\ spOpen' = FALSE
  /\ spDecision' = [x \in Xts |-> IF spAssigned[x].period > 0
                                  THEN "void" ELSE spDecision[x]]
  /\ pool' = [x \in Xts |-> IF pool[x].st = "included" THEN Absent ELSE pool[x]]
  /\ chainNonce' = 0
  /\ Deliver([type |-> "Rollback"])
  /\ UNCHANGED <<spPeriod, spAssigned, votes, connected, stateVars,
                 proc, cmd, sweep, conf, nonceVars, faults>>

ConnectionLost ==
  /\ connected /\ "drop" \in FaultKinds
  /\ faults < MaxFaults /\ faults' = faults + 1
  /\ connected' = FALSE
  /\ UNCHANGED <<spVars, inbox, votes, stateVars, proc, cmd, sweep, conf,
                 poolVars, nonceVars>>

ConnectionRestored ==
  /\ ~connected
  /\ connected' = TRUE
  /\ UNCHANGED <<spVars, inbox, votes, stateVars, proc, cmd, sweep,
                 conf, poolVars, nonceVars, faults>>

(* A vote leaves the sidecar if the connection is up.  Else it waits for   *)
(* the reconnection, or is given up: after the last retry of the transport *)
(* or, for a rejected or stale instance, at once.                          *)
SendToPublisher(x, v) ==
  votes' = IF connected THEN [votes EXCEPT ![x] = Append(@, v)] ELSE votes
-----------------------------------------------------------------------------
(* PublisherPeriod.accept_start_instance().                                *)
Accepts(x) ==
  /\ current > 0
  /\ spAssigned[x].period = current
  /\ last_sequence > 0 => spAssigned[x].seq > last_sequence

(* handle_start_instance() up to the unlock.  An instance that is already  *)
(* pending, or one too many, is dropped without a vote; one the period     *)
(* state refuses gets an abort vote.                                       *)
HandleStartInstance(x) ==
  LET m == [type |-> "StartInstance", xt |-> x]
      dropped == x \in DOMAIN pending \/ Cardinality(Undecided) >= MaxPending
  IN  /\ m \in inbox /\ inbox' = inbox \ {m}
      /\ \/ dropped /\ UNCHANGED <<pending, last_sequence, proc>>
         \/ /\ ~dropped /\ ~Accepts(x)
            /\ proc' = [proc EXCEPT ![x] = "reject"]
            /\ UNCHANGED <<pending, last_sequence>>
         \/ /\ ~dropped /\ Accepts(x)
            /\ last_sequence' = spAssigned[x].seq
            /\ pending' = Put(x, NewXt(spAssigned[x].period))
            /\ proc' = [proc EXCEPT ![x] = IF x \in Local THEN "submit" ELSE @]
      /\ UNCHANGED <<spVars, votes, connected, current,
                     cmd, sweep, conf, poolVars, nonceVars, faults>>

(* After the submission: process_xt(), or the undoing of the start.  The   *)
(* mutant returns the error and does nothing else.                         *)
MutantSubmitErrorReturns(o) == IF o = "ok" THEN "simulate" ELSE "idle"

AfterSubmit(o) == IF o = "ok" THEN "simulate" ELSE "undo"

(* submit_xt_to_builder(): the builder locks the XT in its pool.           *)
SubmitXt(x, o) ==
  /\ proc[x] = "submit"
  /\ Outcome(o)
  /\ pool' = [pool EXCEPT ![x] = IF o # "lost" /\ @.st = "absent"
                                 THEN [@ EXCEPT !.st = "locked"] ELSE @]
  /\ proc' = [proc EXCEPT ![x] = AfterSubmit(o)]
  /\ UNCHANGED <<spVars, netVars, stateVars, cmd, sweep, conf, chainNonce,
                 nonceVars>>

(* remove_pending_xt() after a failed submission.                          *)
UndoStart(x) ==
  /\ proc[x] = "undo"
  /\ pending' = Without({x})
  /\ proc' = [proc EXCEPT ![x] = "reject"]
  /\ UNCHANGED <<spVars, netVars, current, last_sequence, cmd,
                 sweep, conf, poolVars, nonceVars, faults>>

(* reject_start_instance().                                                *)
RejectStart(x) ==
  /\ proc[x] = "reject"
  /\ SendToPublisher(x, FALSE)
  /\ proc' = [proc EXCEPT ![x] = "idle"]
  /\ UNCHANGED <<spVars, inbox, connected, stateVars, cmd, sweep, conf,
                 poolVars, nonceVars, faults>>

(* process_xt() up to its vote, seen from outside: every transaction       *)
(* simulates and d dependencies were fulfilled, or something failed.       *)
ProcessXt(x, ok, d) ==
  /\ proc[x] = "simulate"
  /\ pending' = IF x \in DOMAIN pending /\ ok
                THEN [pending EXCEPT ![x].deps = d] ELSE pending
  /\ proc' = [proc EXCEPT ![x] = IF ok THEN "voteYes" ELSE "voteNo"]
  /\ UNCHANGED <<spVars, netVars, current, last_sequence, cmd, sweep, conf,
                 poolVars, nonceVars, faults>>

(* maybe_make_standalone_decision(): an XT spans this chain and a peer's,  *)
(* any no decides abort, and two yes votes decide commit.  The mutant      *)
(* expects one vote too few.                                               *)
MutantExpectedOne == 1

Expected == 2

Counted(vote) == IF vote = "none" THEN 0 ELSE 1

StandaloneDecision(r) ==
  LET has_abort_vote == "no" \in {r.local_vote, r.peer_vote}
      collected      == Counted(r.local_vote) + Counted(r.peer_vote)
  IN  IF r.decision # "none" THEN r.decision
      ELSE IF has_abort_vote THEN "abort"
      ELSE IF collected >= Expected THEN "commit" ELSE "none"

Ballot(v) == IF v THEN "yes" ELSE "no"

(* send_vote() up to the unlock.  The first local vote of a pending XT is  *)
(* recorded, whatever the decision on the XT already is.  Without a        *)
(* publisher connection the XT may be decided here and now.                *)
CastVote(x) ==
  LET v == proc[x] = "voteYes"
      r == [pending[x] EXCEPT !.local_vote = Ballot(v)]
      d == IF connected THEN r.decision ELSE StandaloneDecision(r)
  IN  /\ proc[x] \in {"voteYes", "voteNo"}
      /\ IF x \notin DOMAIN pending \/ pending[x].local_vote # "none"
         THEN /\ proc' = [proc EXCEPT ![x] = "idle"]
              /\ UNCHANGED <<pending, cmd>>
         ELSE /\ pending' = Put(x, RecordDecision(r, d))
              /\ cmd' = IF d = pending[x].decision THEN cmd
                        ELSE [cmd EXCEPT ![x] = Command(x, d, r.deps)]
              /\ proc' = [proc EXCEPT ![x] = CASE ~connected -> "idle"
                                               [] connected /\ v -> "sendYes"
                                               [] OTHER -> "sendNo"]
      /\ UNCHANGED <<spVars, netVars, current, last_sequence,
                     sweep, conf, poolVars, nonceVars, faults>>

(* The end of send_vote() with a publisher.                                *)
SendVote(x) ==
  /\ proc[x] \in {"sendYes", "sendNo"}
  /\ SendToPublisher(x, proc[x] = "sendYes")
  /\ proc' = [proc EXCEPT ![x] = "idle"]
  /\ UNCHANGED <<spVars, inbox, connected, stateVars, cmd, sweep, conf,
                 poolVars, nonceVars, faults>>

(* handle_peer_vote(): the first vote of the peer on an undecided XT; it   *)
(* may decide the XT, with or without a publisher connection.              *)
HandlePeerVote(x, v) ==
  /\ x \in Undecided /\ pending[x].peer_vote = "none"
  /\ LET r == [pending[x] EXCEPT !.peer_vote = Ballot(v)]
         d == StandaloneDecision(r)
     IN  /\ pending' = Put(x, RecordDecision(r, d))
         /\ cmd' = IF d = "none" THEN cmd
                   ELSE [cmd EXCEPT ![x] = Command(x, d, r.deps)]
  /\ UNCHANGED <<spVars, netVars, current, last_sequence, proc,
                 sweep, conf, poolVars, nonceVars, faults>>

(* on_decision() up to the unlock.  A decision on an unknown XT is an      *)
(* error and gone; a second one is ignored.                                *)
HandleDecided(x, d) ==
  LET m == [type |-> "Decided", xt |-> x, decision |-> d]
  IN  /\ m \in inbox /\ inbox' = inbox \ {m}
      /\ IF x \in Undecided
         THEN /\ pending' = Put(x, RecordDecision(pending[x], d))
              /\ cmd' = [cmd EXCEPT ![x] = Command(x, d, pending[x].deps)]
         ELSE UNCHANGED <<pending, cmd>>
      /\ UNCHANGED <<spVars, votes, connected, current, last_sequence,
                     proc, sweep, conf, poolVars, nonceVars, faults>>

(* The XTs handle_start_period(p) looks at: older, not confirmed, not      *)
(* committed.  The mutant is off by one period.                            *)
MutantStaleOffByOne(p) ==
  {x \in DOMAIN pending : /\ pending[x].period + 1 < p
                          /\ ~pending[x].confirmed
                          /\ pending[x].decision # "commit"}

Stale(p) == {x \in DOMAIN pending : /\ pending[x].period < p
                                    /\ ~pending[x].confirmed
                                    /\ pending[x].decision # "commit"}

(* handle_start_period() up to the unlock.                                 *)
HandleStartPeriod(p) ==
  LET m == [type |-> "StartPeriod", period |-> p]
      aborted == Stale(p) \cap Undecided
  IN  /\ m \in inbox /\ inbox' = inbox \ {m}
      /\ pending' = [x \in DOMAIN pending |->
                       IF x \in aborted THEN RecordDecision(pending[x], "abort")
                                        ELSE pending[x]]
      /\ current' = p /\ last_sequence' = 0
      /\ sweep' = [sweep EXCEPT ![p] =
                     [on |-> TRUE, abort |-> Stale(p) \cap Local,
                      freeing |-> {}, votes |-> aborted]]
      /\ UNCHANGED <<spVars, votes, connected, proc, cmd, conf,
                     poolVars, nonceVars, faults>>

(* handle_rollback() up to the unlock: every pending XT becomes aborted,   *)
(* committed and confirmed ones too.                                       *)
HandleRollback ==
  LET m == [type |-> "Rollback"]
  IN  /\ m \in inbox /\ inbox' = inbox \ {m}
      /\ pending' = [x \in DOMAIN pending |->
                       RecordDecision(pending[x], "abort")]
      /\ current' = 0 /\ last_sequence' = 0
      /\ sweep' = [sweep EXCEPT ![RollbackSweep] =
                     [on |-> TRUE, abort |-> DOMAIN pending \cap Local,
                      freeing |-> {}, votes |-> {}]]
      /\ UNCHANGED <<spVars, votes, connected, proc, cmd, conf,
                     poolVars, nonceVars, faults>>
-----------------------------------------------------------------------------
(* The builder drops an XT it has not included yet.  The coordinator sends *)
(* aborts for XTs already dropped, so an unknown id is no error.           *)
Drop(x) == pool' = [pool EXCEPT ![x] = IF @.st \in {"locked", "released"}
                                       THEN Absent ELSE @]

(* build_put_inbox_transactions(): reserve one nonce per dependency and    *)
(* sign.  The nonce fetch may fail, which ends the command; signing may    *)
(* fail, which frees the reservation.                                      *)
BuildPutInbox(x, o) ==
  /\ cmd[x].pc = "reserve"
  /\ \/ /\ o = "fetchFails"
        /\ cmd' = [cmd EXCEPT ![x] = NoCmd]
        /\ UNCHANGED nonceVars
     \/ /\ o # "fetchFails"
        /\ NM!Reserve(x, cmd[x].deps, chainNonce)
        /\ LET r == CHOOSE r \in live' : r.id = x
           IN  cmd' = [cmd EXCEPT ![x].pc = IF o = "ok" THEN "release" ELSE "free",
                                  ![x].start = r.start, ![x].end = r.end]
  /\ \/ o = "ok" /\ UNCHANGED faults
     \/ o # "ok" /\ "lost" \in FaultKinds /\ faults < MaxFaults
                 /\ faults' = faults + 1
  /\ UNCHANGED <<spVars, netVars, stateVars, proc, sweep, conf, poolVars>>

BuildOutcomes == {"ok", "fetchFails", "signFails"}

(* After release_xt(): on Err the nonces are freed.  The mutant frees them *)
(* in any case.                                                            *)
MutantReleaseAlwaysFrees(ok) == [NoCmd EXCEPT !.pc = "free"]

AfterRelease(ok) == IF ok THEN NoCmd ELSE [NoCmd EXCEPT !.pc = "free"]

(* release_xt(): the builder takes the putInbox transactions of an XT it   *)
(* holds locked and rejects any other.                                     *)
ReleaseXt(x, o) ==
  LET accepted == pool[x].st = "locked" /\ o # "lost"
  IN  /\ cmd[x].pc = "release"
      /\ Outcome(o)
      /\ pool' = IF accepted
                 THEN [pool EXCEPT ![x] = [st |-> "released",
                                           start |-> cmd[x].start,
                                           end |-> cmd[x].end]]
                 ELSE pool
      /\ cmd' = [cmd EXCEPT ![x] = AfterRelease(accepted /\ o = "ok")]
      /\ UNCHANGED <<spVars, netVars, stateVars, proc, sweep, conf,
                     chainNonce, nonceVars>>

(* abort_xt() for a decision; on Err the nonces stay reserved.             *)
AbortXt(x, o) ==
  /\ cmd[x].pc = "abort"
  /\ Outcome(o)
  /\ IF o = "lost" THEN UNCHANGED pool ELSE Drop(x)
  /\ cmd' = [cmd EXCEPT ![x].pc = IF o = "ok" THEN "free" ELSE "idle"]
  /\ UNCHANGED <<spVars, netVars, stateVars, proc, sweep, conf, chainNonce,
                 nonceVars>>

(* release_aborted() at the end of a failed release or of an abort.        *)
FreeNonces(x) ==
  /\ cmd[x].pc = "free"
  /\ NM!ReleaseAborted(x)
  /\ cmd' = [cmd EXCEPT ![x] = NoCmd]
  /\ UNCHANGED <<spVars, netVars, stateVars, proc, sweep, conf, poolVars,
                 faults>>

(* One round of an abort loop: abort_xt(), whose Err ends the handler, and *)
(* then release_aborted().                                                 *)
SweepAbort(k, x, o) ==
  /\ sweep[k].on /\ sweep[k].freeing = {} /\ x \in sweep[k].abort
  /\ Outcome(o)
  /\ IF o = "lost" THEN UNCHANGED pool ELSE Drop(x)
  /\ sweep' = [sweep EXCEPT ![k] = IF o = "ok" THEN [@ EXCEPT !.freeing = {x}]
                                   ELSE NoSweep]
  /\ UNCHANGED <<spVars, netVars, stateVars, proc, cmd, conf, chainNonce,
                 nonceVars>>

SweepFree(k, x) ==
  /\ x \in sweep[k].freeing
  /\ NM!ReleaseAborted(x)
  /\ sweep' = [sweep EXCEPT ![k].freeing = {}, ![k].abort = @ \ {x}]
  /\ UNCHANGED <<spVars, netVars, stateVars, proc, cmd, conf, poolVars, faults>>

(* The abort votes at the end of handle_start_period().                    *)
SweepVote(k, x) ==
  /\ sweep[k].on /\ sweep[k].abort = {} /\ x \in sweep[k].votes
  /\ SendToPublisher(x, FALSE)
  /\ sweep' = [sweep EXCEPT ![k].votes = @ \ {x}]
  /\ UNCHANGED <<spVars, inbox, connected, stateVars, proc, cmd, conf,
                 poolVars, nonceVars, faults>>

(* At the end of the handler handle_rollback() resets the nonce manager;   *)
(* the mutant does not.                                                    *)
MutantRollbackKeepsNonces(k) == UNCHANGED nonceVars

EndNonces(k) ==
  IF k = RollbackSweep THEN NM!Reset ELSE UNCHANGED nonceVars

SweepEnd(k) ==
  /\ sweep[k].on /\ sweep[k].abort = {} /\ sweep[k].votes = {}
  /\ EndNonces(k)
  /\ sweep' = [sweep EXCEPT ![k] = NoSweep]
  /\ UNCHANGED <<spVars, netVars, stateVars, proc, cmd, conf, poolVars, faults>>

(* The builder includes a released XT without putInbox transactions, or    *)
(* one whose nonces are next on the chain, and reports it.                 *)
BuilderIncludes(x) ==
  /\ pool[x].st = "released"
  /\ \/ pool[x].end = 0
     \/ pool[x].start = chainNonce /\ pool[x].end > chainNonce
  /\ pool' = [pool EXCEPT ![x].st = "included"]
  /\ chainNonce' = IF pool[x].end > chainNonce THEN pool[x].end ELSE chainNonce
  /\ conf' = [conf EXCEPT ![x] = "reported"]
  /\ UNCHANGED <<spVars, netVars, stateVars, proc, cmd, sweep, nonceVars,
                 faults>>

(* confirm_included_xts(): under the lock, then at the nonce manager.      *)
ConfirmIncluded(x) ==
  /\ conf[x] = "reported"
  /\ pending' = IF x \in DOMAIN pending
                THEN [pending EXCEPT ![x].confirmed = TRUE] ELSE pending
  /\ conf' = [conf EXCEPT ![x] = "marked"]
  /\ UNCHANGED <<spVars, netVars, current, last_sequence, proc,
                 cmd, sweep, poolVars, nonceVars, faults>>

ConfirmNonces(x) ==
  /\ conf[x] = "marked"
  /\ NM!ReleaseConfirmed(x)
  /\ conf' = [conf EXCEPT ![x] = "done"]
  /\ UNCHANGED <<spVars, netVars, stateVars, proc, cmd, sweep, poolVars, faults>>

(* cleanup(): XTs confirmed or decided long ago are removed.               *)
Cleanup(x) ==
  /\ x \in DOMAIN pending /\ Quiet(x)
  /\ pending[x].confirmed \/ pending[x].decision # "none"
  /\ pending' = Without({x})
  /\ UNCHANGED <<spVars, netVars, current, last_sequence, proc,
                 cmd, sweep, conf, poolVars, nonceVars, faults>>
-----------------------------------------------------------------------------
Publisher ==
  \/ PublisherStartsPeriod
  \/ PublisherRollsBack
  \/ \E x \in Xts : \/ PublisherStartsInstance(x)
                    \/ \E d \in {"commit", "abort"} : PublisherDecides(x, d)

(* What the tokio runtime runs: spawned tasks, each until it completes.    *)
HandlerStep(x) ==
  \/ HandleStartInstance(x)
  \/ \E o \in Outcomes : SubmitXt(x, o)
  \/ UndoStart(x)
  \/ RejectStart(x)
  \/ \E ok \in BOOLEAN, d \in DepCounts : ProcessXt(x, ok, d)
  \/ CastVote(x)
  \/ SendVote(x)
  \/ \E d \in {"commit", "abort"} : HandleDecided(x, d)
  \/ \E o \in BuildOutcomes : BuildPutInbox(x, o)
  \/ \E o \in Outcomes : ReleaseXt(x, o) \/ AbortXt(x, o)
  \/ FreeNonces(x)
  \/ ConfirmIncluded(x)
  \/ ConfirmNonces(x)

SweepStep(k) ==
  \/ k > 0 /\ HandleStartPeriod(k)
  \/ k = RollbackSweep /\ HandleRollback
  \/ \E x \in Xts : \/ \E o \in Outcomes : SweepAbort(k, x, o)
                    \/ SweepFree(k, x)
                    \/ SweepVote(k, x)
  \/ SweepEnd(k)

Next ==
  \/ Publisher
  \/ ConnectionLost
  \/ ConnectionRestored
  \/ \E x \in Xts : \/ HandlerStep(x)
                    \/ \E v \in PeerVotes : HandlePeerVote(x, v)
                    \/ BuilderIncludes(x)
                    \/ Cleanup(x)
  \/ \E k \in SweepIds : SweepStep(k)

Spec == Init /\ [][Next]_vars

(* Every spawned task keeps running, and the builder keeps building.       *)
Fairness ==
  /\ \A x \in Xts : WF_vars(HandlerStep(x)) /\ WF_vars(BuilderIncludes(x))
  /\ \A k \in SweepIds : WF_vars(SweepStep(k))

FairSpec == Spec /\ Fairness
-----------------------------------------------------------------------------
Decisions == {"none", "commit", "abort"}

PendingXt == [period : 1 .. MaxPeriod, decision : Decisions,
              local_vote : {"none", "yes", "no"},
              peer_vote : {"none", "yes", "no"},
              deps : DepCounts \cup {0}, confirmed : BOOLEAN]

(* The shape of the coordinator's state, of its tasks and of the builder's *)
(* pool.                                                                   *)
TypeOK ==
  /\ DOMAIN pending \subseteq Xts
  /\ \A x \in DOMAIN pending : pending[x] \in PendingXt
  /\ current \in 0 .. MaxPeriod /\ last_sequence \in 0 .. Cardinality(Xts)
  /\ proc \in [Xts -> {"idle", "submit", "undo", "reject", "simulate",
                       "voteYes", "voteNo", "sendYes", "sendNo"}]
  /\ \A x \in Xts : /\ cmd[x].pc \in {"idle", "reserve", "release", "abort", "free"}
                    /\ pool[x].st \in {"absent", "locked", "released", "included"}
  /\ NM!TypeOK

(* handle_start_period() leaves no stale undecided XT behind, and the      *)
(* period check of handle_start_instance() lets none in: an undecided XT   *)
(* belongs to the current period or a later one.                           *)
UndecidedNotStale == \A x \in Undecided : pending[x].period >= current

(* The sidecar holds an XT for committed, and the builder is given its     *)
(* release, only if the publisher committed it, however the handlers of    *)
(* StartPeriod, Decided, the vote and the builder commands interleave.     *)
CommitOnlyIfPublisherCommits ==
  \A x \in Xts :
    \/ spDecision[x] \in {"commit", "void"}
    \/ /\ x \in DOMAIN pending => pending[x].decision # "commit"
       /\ pool[x].st \notin {"released", "included"}

(* With peer votes and connection losses in play, an XT the publisher did  *)
(* not commit is committed only on a yes from every chain it spans.        *)
LocalCommitUnanimous ==
  \A x \in DOMAIN pending :
    pending[x].decision = "commit" /\ spDecision[x] \notin {"commit", "void"}
      => pending[x].local_vote = "yes" /\ pending[x].peer_vote = "yes"

(* No two XTs in the builder's pool carry putInbox transactions with the   *)
(* same nonce, and none carries a nonce the chain has already used: such a *)
(* transaction could never be included.                                    *)
PutInboxNoncesUsable ==
  \A x \in Xts :
    pool[x].st = "released" /\ pool[x].start < pool[x].end =>
      /\ pool[x].start >= chainNonce
      /\ \A y \in Xts \ {x} :
           pool[y].st = "released" =>
             (pool[x].start .. (pool[x].end - 1))
               \cap (pool[y].start .. (pool[y].end - 1)) = {}

(* A recorded decision is final while the XT is pending; only a rollback   *)
(* turns a commit into an abort.                                           *)
DecisionFinal ==
  [][ \A x \in DOMAIN pending \cap DOMAIN pending' :
        pending[x].decision # "none" /\ pending'[x].decision # pending[x].decision
          => HandleRollback ]_vars

(* Once a rollback has been handled, the nonce floor is not left above the *)
(* rewound chain, where it would strand the lane.                          *)
RollbackReanchorsLane ==
  rolledBack /\ [type |-> "Rollback"] \notin inbox /\ ~sweep[RollbackSweep].on
    => canonical_floor <= chainNonce

(* While the connection stays up, every instance with local transactions   *)
(* that the publisher starts is voted on, so that its two-phase commit can *)
(* complete.                                                               *)
EveryInstanceVoted ==
  []connected => \A x \in Local : (spAssigned[x].period > 0) ~> (votes[x] # <<>>)

(* While no RPC fails, a local XT the sidecar knows to be committed is     *)
(* eventually included: the putInbox nonce lane never stalls in front of   *)
(* it.                                                                     *)
CommittedIsIncluded ==
  [](faults = 0) =>
    \A x \in Local : (x \in DOMAIN pending /\ pending[x].decision = "commit")
                       ~> (pool[x].st = "included")
-----------------------------------------------------------------------------
(* What comments and documents of the repository say and the code does not *)
(* always do.                                                              *)

(* README.md: "no overlapping instances on a chain".                       *)
OneInstanceAtATime == Cardinality(Undecided \cap Local) <= 1

(* simulation.rs, send_vote(): "First local vote wins for the instance."   *)
FirstVoteWins ==
  \A x \in Xts : \A i, j \in DOMAIN votes[x] : votes[x][i] = votes[x][j]

(* README.md: "On a commit decision, the sidecar instructs the local       *)
(* builder": a handled commit decision is recorded.                        *)
CommitDecisionHonoured ==
  \A x \in DOMAIN pending :
    /\ spDecision[x] = "commit"
    /\ [type |-> "Decided", xt |-> x, decision |-> "commit"] \notin inbox
    => pending[x].decision = "commit"

(* README.md: "on abort (vote, rollback, or stale period)" the XT is       *)
(* pushed out of the builder: a settled aborted XT is not in its pool.     *)
AbortedLeavesBuilder ==
  \A x \in DOMAIN pending :
    Quiet(x) /\ pending[x].decision = "abort"
      => pool[x].st \notin {"locked", "released"}

(* README.md, handlers/start_period.rs "rejects stale instances": once     *)
(* StartPeriod(p) has been handled, no instance of an older period is      *)
(* admitted.                                                               *)
StaleInstanceRejected ==
  [][ \A x \in DOMAIN pending' \ DOMAIN pending, p \in 1 .. spPeriod :
        [type |-> "StartPeriod", period |-> p] \notin inbox
          => spAssigned[x].period >= p ]_vars
=============================================================================

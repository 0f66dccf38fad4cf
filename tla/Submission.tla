----------------------------- MODULE Submission -----------------------------
(***************************************************************************)
(* Clients that submit XTs to a sidecar with a publisher.  The first call  *)
(* for some transactions sends them to the publisher; every call leaves a  *)
(* oneshot sender in pending_submissions, under the fingerprint of its     *)
(* transactions, and waits ten seconds for the StartInstance that names    *)
(* the instance.  handle_start_instance() answers all calls waiting for a  *)
(* fingerprint, handle_rollback() all calls there are.                     *)
(*                                                                         *)
(* A call that timed out has dropped its receiver: its sender is closed    *)
(* and stays in the map until something prunes it.                         *)
(***************************************************************************)
EXTENDS Naturals

CONSTANTS
  Clients,       \* submitting calls
  Xts,           \* fingerprints of transactions
  Fp,            \* what each call submits
  Local,         \* those with transactions for the local chain
  MaxStarts,     \* bound: instances the publisher starts
  MaxRollbacks,  \* bound: rollbacks, handled one after the other
  MaxFaults      \* bound: failing sends and builder RPCs

ASSUME SubmissionAssumption ==
  /\ Fp \in [Clients -> Xts] /\ Local \subseteq Xts
  /\ MaxStarts \in Nat /\ MaxRollbacks \in Nat /\ MaxFaults \in Nat

VARIABLES
  xt_builder_client,    \* was the coordinator built with one?
  pending_submissions,  \* per fingerprint: the calls whose senders it holds
  call,                 \* per call: where submit_xt_publisher() stands
  channel,              \* per call: what was sent to its receiver, 0 nothing
  answer,               \* per call: what the client was told, 0 nothing yet
  instances,            \* the instances the publisher started, 1, 2, ...
  task,                 \* per instance: where handle_start_instance() stands
  accepted,             \* the instances the builder has taken
  taken,                \* the senders handle_rollback() took out of the map
  rollbacks, faults     \* budgets

callVars  == <<pending_submissions, call, channel, answer>>
startVars == <<instances, task, accepted>>
vars == <<xt_builder_client, callVars, startVars, taken, rollbacks, faults>>
-----------------------------------------------------------------------------
Ids == 1 .. MaxStarts

(* Other answers than an instance id.                                      *)
Nothing  == 0
Error    == MaxStarts + 1
TimedOut == MaxStarts + 2
Dropped  == MaxStarts + 3     \* "resolution dropped unexpectedly"

(* build_xt_request() sorts the transactions by chain and                  *)
(* xt_request_fingerprint() hashes them: equal for equal submissions only. *)
(* The mutant is a fingerprint that does not depend on the transactions.   *)
MutantFingerprint(c) == CHOOSE x \in Xts : TRUE

Fingerprint(c) == Fp[c]

Open(c) == call[c] # "done"

Fault == faults < MaxFaults /\ faults' = faults + 1

Init ==
  /\ xt_builder_client \in BOOLEAN
  /\ pending_submissions = [x \in Xts |-> {}]
  /\ call = [c \in Clients |-> "idle"]
  /\ channel = [c \in Clients |-> Nothing]
  /\ answer = [c \in Clients |-> Nothing]
  /\ instances = [i \in {} |-> Nothing]
  /\ task = [i \in Ids |-> "idle"]
  /\ accepted = {} /\ taken = {}
  /\ rollbacks = 0 /\ faults = 0

(* notify_pending_submission_waiters(): a send to a closed receiver is     *)
(* lost.                                                                   *)
Notify(S, r) ==
  channel' = [c \in Clients |-> IF c \in S /\ Open(c) THEN r ELSE channel[c]]

(* resolve_pending_submission().                                           *)
Resolve(x, r) ==
  /\ Notify(pending_submissions[x], r)
  /\ pending_submissions' = [pending_submissions EXCEPT ![x] = {}]

(* The pruning of closed senders in cleanup() and remove_pending_xt().  In *)
(* the mutant one closed sender takes the whole entry with it.             *)
MutantPruneEntry(S) == IF \E c \in S : ~Open(c) THEN {} ELSE S

Pruned(S) == {c \in S : Open(c)}

Prune == pending_submissions' =
           [x \in Xts |-> Pruned(pending_submissions[x])]
-----------------------------------------------------------------------------
(* submit_xt_publisher() up to the unlock: only the first waiter sends.    *)
SubmitXt(c) ==
  /\ call[c] = "idle"
  /\ call' = [call EXCEPT ![c] = IF pending_submissions[Fingerprint(c)] = {}
                                 THEN "send" ELSE "wait"]
  /\ pending_submissions' = [pending_submissions EXCEPT ![Fingerprint(c)] = @ \cup {c}]
  /\ UNCHANGED <<channel, answer, startVars, taken, rollbacks, faults>>

(* send_raw(), and the answer to all waiters when it fails.                *)
SendRaw(c) ==
  /\ call[c] = "send"
  /\ \/ call' = [call EXCEPT ![c] = "wait"] /\ UNCHANGED faults
     \/ call' = [call EXCEPT ![c] = "failed"] /\ Fault
  /\ UNCHANGED <<pending_submissions, channel, answer, startVars, taken, rollbacks>>

SendFailed(c) ==
  /\ call[c] = "failed"
  /\ Resolve(Fingerprint(c), Error)
  /\ call' = [call EXCEPT ![c] = "done"]
  /\ answer' = [answer EXCEPT ![c] = Error]
  /\ UNCHANGED <<startVars, taken, rollbacks, faults>>

(* The wait for the receiver: a result, the timeout, or a sender that was  *)
(* dropped without a send.                                                 *)
Held(c) == c \in pending_submissions[Fingerprint(c)] \cup taken

Return(c, r) ==
  /\ call[c] = "wait"
  /\ \/ r = channel[c] /\ channel[c] # Nothing
     \/ r = TimedOut /\ channel[c] = Nothing
     \/ r = Dropped /\ channel[c] = Nothing /\ ~Held(c)
  /\ call' = [call EXCEPT ![c] = "done"]
  /\ answer' = [answer EXCEPT ![c] = r]
  /\ UNCHANGED <<pending_submissions, channel, startVars, taken, rollbacks, faults>>
-----------------------------------------------------------------------------
(* The publisher starts an instance of x, asked by this sidecar or another.*)
PublisherStarts(i, x) ==
  /\ i \notin DOMAIN instances /\ \A j \in Ids : j < i => j \in DOMAIN instances
  /\ instances' = [j \in DOMAIN instances \cup {i} |->
                     IF j = i THEN x ELSE instances[j]]
  /\ task' = [task EXCEPT ![i] = "start"]
  /\ UNCHANGED <<callVars, accepted, taken, rollbacks, faults>>

(* handle_start_instance() under the lock admits the instance or refuses   *)
(* it (module Coordinator says when).                                      *)
HandleStartInstance(i) ==
  /\ task[i] = "start"
  /\ \E t \in {"submit", "refused"} : task' = [task EXCEPT ![i] = t]
  /\ UNCHANGED <<callVars, instances, accepted, taken, rollbacks, faults>>

(* local_builder_submission() has something to submit, and there is a      *)
(* builder to submit it to.                                                *)
GoesToBuilder(i) == xt_builder_client /\ instances[i] \in Local

(* submit_xt_to_builder(), and remove_pending_xt() when it fails; without  *)
(* a submission the instance is admitted as it is.                         *)
SubmitToBuilder(i) ==
  /\ task[i] = "submit"
  /\ \/ /\ task' = [task EXCEPT ![i] = "admitted"]
        /\ accepted' = IF GoesToBuilder(i) THEN accepted \cup {i} ELSE accepted
        /\ UNCHANGED <<pending_submissions, faults>>
     \/ /\ GoesToBuilder(i) /\ Fault
        /\ task' = [task EXCEPT ![i] = "refused"]
        /\ Prune
        /\ UNCHANGED accepted
  /\ UNCHANGED <<call, channel, answer, instances, taken, rollbacks>>

(* What the waiters are told at the end.  The mutant answers with the id   *)
(* whatever became of the instance.                                        *)
MutantAlwaysOk(i) == i

Result(i) == IF task[i] = "admitted" THEN i ELSE Error

ResolveStart(i) ==
  /\ task[i] \in {"admitted", "refused"}
  /\ Resolve(instances[i], Result(i))
  /\ task' = [task EXCEPT ![i] = IF @ = "admitted" THEN "started" ELSE "rejected"]
  /\ UNCHANGED <<call, answer, instances, accepted, taken, rollbacks, faults>>

(* handle_rollback(): under the lock it takes all senders; it notifies     *)
(* them after its abort RPCs, the first failing one of which ends it.      *)
HandleRollback ==
  /\ rollbacks < MaxRollbacks /\ rollbacks' = rollbacks + 1
  /\ taken = {}
  /\ taken' = UNION {pending_submissions[x] : x \in Xts}
  /\ pending_submissions' = [x \in Xts |-> {}]
  /\ UNCHANGED <<call, channel, answer, startVars, faults>>

RollbackEnds ==
  /\ taken # {} /\ taken' = {}
  /\ \/ Notify(taken, Error) /\ UNCHANGED faults
     \/ Fault /\ UNCHANGED channel
  /\ UNCHANGED <<pending_submissions, call, answer, startVars, rollbacks>>

Cleanup ==
  /\ Prune
  /\ UNCHANGED <<call, channel, answer, startVars, taken, rollbacks, faults>>
-----------------------------------------------------------------------------
Step ==
  \/ \E c \in Clients : \/ SubmitXt(c) \/ SendRaw(c) \/ SendFailed(c)
                        \/ \E r \in 1 .. Dropped : Return(c, r)
  \/ \E i \in Ids : \/ \E x \in Xts : PublisherStarts(i, x)
                    \/ HandleStartInstance(i)
                    \/ SubmitToBuilder(i)
                    \/ ResolveStart(i)
  \/ HandleRollback
  \/ RollbackEnds
  \/ Cleanup

Next == Step /\ UNCHANGED xt_builder_client

Spec == Init /\ [][Next]_vars
-----------------------------------------------------------------------------
(* The shape of the submissions; a sender is filed under what its call     *)
(* submitted.                                                              *)
TypeOK ==
  /\ xt_builder_client \in BOOLEAN
  /\ pending_submissions \in [Xts -> SUBSET Clients]
  /\ \A x \in Xts : \A c \in pending_submissions[x] : Fp[c] = x
  /\ call \in [Clients -> {"idle", "send", "failed", "wait", "done"}]
  /\ channel \in [Clients -> 0 .. Error] /\ answer \in [Clients -> 0 .. Dropped]
  /\ DOMAIN instances \subseteq Ids
  /\ \A i \in DOMAIN instances : instances[i] \in Xts
  /\ task \in [Ids -> {"idle", "start", "submit", "admitted", "refused",
                       "started", "rejected"}]
  /\ accepted \subseteq Ids /\ taken \subseteq Clients

(* Whatever timeouts, failed sends, prunings and rollbacks run beside it,  *)
(* the sender of a waiting call is let go only with a result in the        *)
(* channel, or by a rollback that a failing abort RPC cuts short.          *)
NoWaiterForgotten ==
  [][ \A c \in Clients :
        call'[c] \in {"send", "wait"} /\ Held(c) /\ ~Held(c)' /\ channel'[c] = Nothing
          => RollbackEnds /\ faults' > faults ]_vars

(* A client is told an instance id only for an instance of the             *)
(* transactions it submitted, once nothing can refuse it any more: it was  *)
(* admitted and not removed again, and if it is one for the builder the    *)
(* builder has taken it.                                                   *)
OkIsAccepted ==
  \A c \in Clients : answer[c] \in Ids =>
    /\ instances[answer[c]] = Fp[c] /\ task[answer[c]] = "started"
    /\ GoesToBuilder(answer[c]) => answer[c] \in accepted
-----------------------------------------------------------------------------
(* What comments of the repository say and the code does not always do.    *)

(* coordinator.rs, submit_xt(): "the XT is sent to the publisher": a call  *)
(* that does not send relies on another call that is still waiting.        *)
SubmissionIsSent ==
  [][ \A c \in Clients : call[c] = "idle" /\ call'[c] = "wait"
        => \E d \in pending_submissions[Fp[c]] : Open(d) ]_vars
=============================================================================

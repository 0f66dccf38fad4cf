---------------------------- MODULE InboundProofs ---------------------------
(***************************************************************************)
(* Proofs about what comes in from outside: the XTs clients submit (module *)
(* Submission) and the messages peers send to an XT's mailbox (module      *)
(* MailboxWait).  A client is told the truth and is not forgotten; no      *)
(* message is lost or used twice.                                          *)
(***************************************************************************)
EXTENDS Submission, TLAPS

CONSTANTS Mailboxes, Keys, Deps, Copies, MaxKeys, MaxPerKey, Wipes

VARIABLES index, mailbox_buffer, pending_mailbox, fulfilled_deps, proc, expired,
          notifying, arrived, dropped

(* The mailboxes, one per XT.                                              *)
MW == INSTANCE MailboxWait WITH Xts <- Mailboxes

(* An id stands for an instance of what the call submitted that was        *)
(* admitted for good.                                                      *)
Truthful(c, r) ==
  r \in Ids => r \in DOMAIN instances /\ instances[r] = Fp[c] /\ task[r] = "started"

(* An instance is admitted only once the builder has it, if it is one for  *)
(* the builder.                                                            *)
Admitted(i) ==
  task[i] \in {"admitted", "started"} => (GoesToBuilder(i) => i \in accepted)

(* The places of handle_start_instance().                                  *)
Places == {"idle", "start", "submit", "admitted", "refused", "started", "rejected"}

(* The inductive invariant: what is in a channel is as true as what was    *)
(* answered.                                                               *)
SubmissionInv ==
  /\ TypeOK /\ faults \in Nat
  /\ \A i \in Ids : task[i] # "idle" => i \in DOMAIN instances
  /\ \A i \in Ids : Admitted(i)
  /\ \A c \in Clients : Truthful(c, channel[c]) /\ Truthful(c, answer[c])

(* The ids and the other answers are apart.                                *)
LEMMA Results ==
  /\ MaxStarts \in Nat /\ Nothing \notin Ids /\ Error \notin Ids
  /\ TimedOut \notin Ids /\ Dropped \notin Ids
  /\ Ids \cup {Nothing, Error} = 0 .. Error
  /\ Ids \cup {Nothing, Error, TimedOut, Dropped} = 0 .. Dropped
  /\ Error # Nothing /\ TimedOut # Nothing /\ Dropped # Nothing
BY SubmissionAssumption DEF Ids, Nothing, Error, TimedOut, Dropped

(* The senders a step lets go.                                             *)
Forgotten(c) ==
  /\ call'[c] \in {"send", "wait"} /\ Held(c) /\ ~Held(c)'
  /\ channel'[c] = Nothing

(* A step that leaves the instances alone keeps what is known of them.     *)
LEMMA InstancesKept ==
  ASSUME SubmissionInv, UNCHANGED <<startVars, xt_builder_client>>
  PROVE  /\ \A i \in Ids : task'[i] # "idle" => i \in DOMAIN instances'
         /\ \A i \in Ids : Admitted(i)'
         /\ \A c \in Clients : \A r : Truthful(c, r) => Truthful(c, r)'
BY DEF SubmissionInv, startVars, Admitted, GoesToBuilder, Truthful

(* Steps of a call.                                                        *)
LEMMA CallStep ==
  ASSUME SubmissionInv, UNCHANGED xt_builder_client, NEW c \in Clients,
         \/ SubmitXt(c) \/ SendRaw(c) \/ SendFailed(c)
         \/ \E r \in 1 .. Dropped : Return(c, r)
  PROVE  SubmissionInv' /\ \A d \in Clients : ~Forgotten(d)
<1>0. /\ Fp[c] \in Xts /\ UNCHANGED <<startVars, taken>>
      /\ pending_submissions[Fp[c]] \subseteq Clients
  BY SubmissionAssumption
     DEF SubmissionInv, TypeOK, SubmitXt, SendRaw, SendFailed, Return
<1>f. faults' \in Nat
  BY DEF SubmissionInv, SubmitXt, SendRaw, SendFailed, Return, Fault
<1>k. /\ \A i \in Ids : task'[i] # "idle" => i \in DOMAIN instances'
      /\ \A i \in Ids : Admitted(i)'
      /\ \A d \in Clients : \A r : Truthful(d, r) => Truthful(d, r)'
  BY <1>0, InstancesKept
<1>1. CASE SubmitXt(c) \/ SendRaw(c)
  <2>1. /\ call' \in [Clients -> {"idle", "send", "failed", "wait", "done"}]
        /\ UNCHANGED <<channel, answer>>
        /\ \/ UNCHANGED pending_submissions
           \/ pending_submissions' = [pending_submissions EXCEPT ![Fp[c]] = @ \cup {c}]
    BY <1>1 DEF SubmitXt, SendRaw, Fingerprint, SubmissionInv, TypeOK
  <2>2. /\ pending_submissions' \in [Xts -> SUBSET Clients]
        /\ \A x \in Xts : pending_submissions[x] \subseteq pending_submissions'[x]
        /\ \A x \in Xts : \A d \in pending_submissions'[x] : Fp[d] = x
    BY <1>0, <2>1 DEF SubmissionInv, TypeOK
  <2>3. SubmissionInv'
    BY <1>0, <1>f, <1>k, <2>1, <2>2
       DEF SubmissionInv, TypeOK, startVars
  <2>4. \A d \in Clients : Held(d) => Held(d)'
    BY <1>0, <2>2, SubmissionAssumption DEF Held, Fingerprint
  <2> QED
    BY <2>3, <2>4 DEF Forgotten
<1>2. CASE SendFailed(c)
  <2> DEFINE S == pending_submissions[Fp[c]]
  <2>1. /\ call' = [call EXCEPT ![c] = "done"]
        /\ answer' = [answer EXCEPT ![c] = Error]
        /\ pending_submissions' = [pending_submissions EXCEPT ![Fp[c]] = {}]
        /\ channel' = [d \in Clients |-> IF d \in S /\ Open(d) THEN Error
                                                               ELSE channel[d]]
    BY <1>2 DEF SendFailed, Resolve, Notify, Fingerprint
  <2>2. /\ pending_submissions' \in [Xts -> SUBSET Clients]
        /\ \A x \in Xts : \A d \in pending_submissions'[x] : Fp[d] = x
        /\ call' \in [Clients -> {"idle", "send", "failed", "wait", "done"}]
    BY <1>0, <2>1 DEF SubmissionInv, TypeOK
  <2>3. /\ channel' \in [Clients -> 0 .. Error]
        /\ answer' \in [Clients -> 0 .. Dropped]
        /\ \A d \in Clients : channel'[d] \in {channel[d], Error}
        /\ \A d \in Clients : answer'[d] \in {answer[d], Error}
    BY <2>1, Results DEF SubmissionInv, TypeOK
  <2>4. \A d \in Clients : Truthful(d, channel[d])' /\ Truthful(d, answer[d])'
    BY <1>k, <2>3, Results DEF SubmissionInv, Truthful
  <2>5. ASSUME NEW d \in Clients, Forgotten(d) PROVE FALSE
    <3>1. d # c /\ call[d] # "done" /\ Open(d)
      BY <2>1, <2>5 DEF Forgotten, SubmissionInv, TypeOK, Open
    <3>2. d \in pending_submissions[Fp[d]] /\ d \notin pending_submissions'[Fp[d]]
      BY <1>0, <2>5 DEF Forgotten, Held, Fingerprint
    <3>3. Fp[d] = Fp[c]
      BY <1>0, <2>1, <3>2 DEF SubmissionInv, TypeOK
    <3>4. channel'[d] = Error
      BY <2>1, <3>1, <3>2, <3>3
    <3> QED
      BY <2>5, <3>4, Results DEF Forgotten
  <2> QED
    BY <1>0, <1>f, <1>k, <2>2, <2>3, <2>4, <2>5 DEF SubmissionInv, TypeOK, startVars
<1>3. ASSUME NEW r \in 1 .. Dropped, Return(c, r)
      PROVE  SubmissionInv' /\ \A d \in Clients : ~Forgotten(d)
  <2>1. /\ call' = [call EXCEPT ![c] = "done"]
        /\ answer' = [answer EXCEPT ![c] = r]
        /\ UNCHANGED <<pending_submissions, channel>>
        /\ r \in {channel[c], TimedOut, Dropped}
    BY <1>3 DEF Return
  <2>2. r \in 0 .. Dropped /\ Truthful(c, r)
    BY <2>1, Results DEF SubmissionInv, Truthful
  <2>3. /\ call' \in [Clients -> {"idle", "send", "failed", "wait", "done"}]
        /\ answer' \in [Clients -> 0 .. Dropped]
        /\ \A d \in Clients : answer'[d] = answer[d] \/ (d = c /\ answer'[d] = r)
    BY <2>1, <2>2 DEF SubmissionInv, TypeOK
  <2>4. \A d \in Clients : Truthful(d, channel[d])' /\ Truthful(d, answer[d])'
    BY <1>k, <2>1, <2>2, <2>3 DEF SubmissionInv
  <2>5. \A d \in Clients : Held(d)' = Held(d)
    BY <1>0, <2>1 DEF Held
  <2> QED
    BY <1>0, <1>f, <1>k, <2>1, <2>3, <2>4, <2>5
       DEF SubmissionInv, TypeOK, startVars, Forgotten
<1> QED
  BY <1>1, <1>2, <1>3

(* Steps of the publisher and of an instance's handler.                    *)
LEMMA InstanceStep ==
  ASSUME SubmissionInv, UNCHANGED xt_builder_client, NEW i \in Ids,
         \/ \E x \in Xts : PublisherStarts(i, x)
         \/ HandleStartInstance(i) \/ SubmitToBuilder(i) \/ ResolveStart(i)
  PROVE  SubmissionInv' /\ \A d \in Clients : ~Forgotten(d)
<1>1. ASSUME NEW x \in Xts, PublisherStarts(i, x)
      PROVE  SubmissionInv' /\ \A d \in Clients : ~Forgotten(d)
  <2>1. /\ i \notin DOMAIN instances /\ i \in DOMAIN instances'
        /\ DOMAIN instances' = DOMAIN instances \cup {i} /\ instances'[i] = x
        /\ \A j \in DOMAIN instances : instances'[j] = instances[j]
        /\ task' = [task EXCEPT ![i] = "start"]
        /\ UNCHANGED <<callVars, accepted, taken, faults>>
    BY <1>1 DEF PublisherStarts
  <2>2. \A c \in Clients : Truthful(c, channel[c])' /\ Truthful(c, answer[c])'
    BY <2>1 DEF SubmissionInv, TypeOK, Truthful, callVars
  <2>3. /\ task' \in [Ids -> Places]
        /\ \A j \in Ids : task'[j] # "idle" => j \in DOMAIN instances'
        /\ \A j \in Ids : Admitted(j)'
    BY <2>1 DEF SubmissionInv, TypeOK, Places, Admitted, GoesToBuilder
  <2> QED
    BY <2>1, <2>2, <2>3
       DEF SubmissionInv, TypeOK, Places, callVars, Forgotten, Held
<1>2. CASE HandleStartInstance(i)
  <2>1. PICK t \in {"submit", "refused"} : task' = [task EXCEPT ![i] = t]
    BY <1>2, Zenon DEF HandleStartInstance
  <2>2. task[i] = "start" /\ UNCHANGED <<callVars, instances, accepted, taken, faults>>
    BY <1>2 DEF HandleStartInstance
  <2>3. /\ task' \in [Ids -> Places]
        /\ \A j \in Ids : task'[j] # "idle" => task[j] # "idle"
        /\ \A j \in Ids : task[j] = "started" => task'[j] = "started"
        /\ \A j \in Ids : task'[j] \in {"admitted", "started"} => task'[j] = task[j]
    BY <2>1, <2>2 DEF SubmissionInv, TypeOK, Places
  <2>4. \A j \in Ids : Admitted(j)'
    BY <2>2, <2>3 DEF SubmissionInv, Admitted, GoesToBuilder
  <2>5. \A c \in Clients : Truthful(c, channel[c])' /\ Truthful(c, answer[c])'
    BY <2>2, <2>3 DEF SubmissionInv, Truthful, callVars
  <2> QED
    BY <2>2, <2>3, <2>4, <2>5
       DEF SubmissionInv, TypeOK, Places, callVars, Forgotten, Held
<1>3. CASE SubmitToBuilder(i)
  <2>1. /\ UNCHANGED <<call, channel, answer, instances, taken>>
        /\ accepted \subseteq accepted' /\ accepted' \subseteq accepted \cup {i}
        /\ faults' \in Nat
        /\ task[i] = "submit"
    BY <1>3 DEF SubmitToBuilder, Fault, SubmissionInv
  <2>2. /\ task' \in [Ids -> Places]
        /\ \A j \in Ids : task'[j] # "idle" => task[j] # "idle"
        /\ \A j \in Ids : task[j] = "started" => task'[j] = "started"
        /\ \A j \in Ids : j # i => task'[j] = task[j]
        /\ task'[i] = "admitted" /\ GoesToBuilder(i) => i \in accepted'
        /\ task'[i] # "started"
    BY <1>3, <2>1 DEF SubmitToBuilder, SubmissionInv, TypeOK, Places
  <2>a. \A j \in Ids : Admitted(j)'
    BY <2>1, <2>2 DEF SubmissionInv, Admitted, GoesToBuilder
  <2>t. \A c \in Clients : Truthful(c, channel[c])' /\ Truthful(c, answer[c])'
    BY <2>1, <2>2 DEF SubmissionInv, Truthful
  <2>3. /\ pending_submissions' \in [Xts -> SUBSET Clients]
        /\ \A x \in Xts : pending_submissions'[x] \subseteq pending_submissions[x]
        /\ \A x \in Xts : \A c \in pending_submissions[x] :
             Open(c) => c \in pending_submissions'[x]
    BY <1>3 DEF SubmitToBuilder, Prune, Pruned, SubmissionInv, TypeOK
  <2>4. SubmissionInv'
    BY <2>1, <2>2, <2>a, <2>t, <2>3 DEF SubmissionInv, TypeOK, Places
  <2>5. \A d \in Clients : ~Forgotten(d)
    BY <2>1, <2>3, SubmissionAssumption DEF Forgotten, Held, Fingerprint, Open
  <2> QED
    BY <2>4, <2>5
<1>4. CASE ResolveStart(i)
  <2> DEFINE x == instances[i]
             r == Result(i)
             S == pending_submissions[x]
  <2>1. /\ task[i] \in {"admitted", "refused"}
        /\ task' = [task EXCEPT ![i] = IF task[i] = "admitted" THEN "started"
                                                           ELSE "rejected"]
        /\ pending_submissions' = [pending_submissions EXCEPT ![x] = {}]
        /\ channel' = [d \in Clients |-> IF d \in S /\ Open(d) THEN r
                                                               ELSE channel[d]]
        /\ UNCHANGED <<call, answer, instances, accepted, taken, faults>>
    BY <1>4 DEF ResolveStart, Resolve, Notify
  <2>2. i \in DOMAIN instances /\ x \in Xts /\ S \subseteq Clients
    BY <2>1 DEF SubmissionInv, TypeOK
  <2>t. /\ task' \in [Ids -> Places]
        /\ \A j \in Ids : j # i => task'[j] = task[j]
        /\ task[i] = "admitted" => task'[i] = "started"
        /\ task'[i] = "started" => task[i] = "admitted"
        /\ task'[i] \notin {"idle", "admitted"}
        /\ \A j \in Ids : task[j] = "started" => task'[j] = "started"
    BY <2>1 DEF SubmissionInv, TypeOK, Places
  <2>3. /\ r \in 0 .. Error /\ r # Nothing
        /\ r \in Ids => i = r /\ task'[r] = "started"
    BY <2>1, <2>t, Results DEF SubmissionInv, Result, Nothing
  <2> HIDE DEF r
  <2>4. \A c \in S : Fp[c] = x
    BY <2>2, Zenon DEF SubmissionInv, TypeOK
  <2>d. r \in Ids => /\ r \in DOMAIN instances' /\ instances'[r] = x
                     /\ task'[r] = "started"
    BY <2>1, <2>2, <2>3
  <2>5. /\ channel' \in [Clients -> 0 .. Error]
        /\ \A c \in Clients : Truthful(c, channel[c])' /\ Truthful(c, answer[c])'
    BY <2>1, <2>t, <2>3, <2>4, <2>d DEF SubmissionInv, TypeOK, Truthful
  <2>6. /\ pending_submissions' \in [Xts -> SUBSET Clients]
        /\ \A y \in Xts : \A c \in pending_submissions'[y] : Fp[c] = y
    BY <2>1, <2>2 DEF SubmissionInv, TypeOK
  <2>7. \A j \in Ids : Admitted(j)' /\ (task'[j] # "idle" => j \in DOMAIN instances')
    BY <2>1, <2>2, <2>t DEF SubmissionInv, Admitted, GoesToBuilder
  <2>8. ASSUME NEW d \in Clients, Forgotten(d) PROVE FALSE
    <3>1. Open(d) /\ d \in pending_submissions[Fp[d]]
                  /\ d \notin pending_submissions'[Fp[d]]
      BY <2>1, <2>8 DEF Forgotten, Open, Held, Fingerprint
    <3>2. Fp[d] = x
      BY <2>1, <2>2, <3>1, SubmissionAssumption DEF SubmissionInv, TypeOK
    <3> QED
      BY <2>1, <2>3, <2>8, <3>1, <3>2 DEF Forgotten
  <2> QED
    BY <2>1, <2>t, <2>5, <2>6, <2>7, <2>8 DEF SubmissionInv, TypeOK, Places
<1> QED
  BY <1>1, <1>2, <1>3, <1>4

(* Steps of a rollback, and cleanup(): only a rollback that a failing RPC  *)
(* cuts short lets senders go without a word.                              *)
LEMMA RollbackStep ==
  ASSUME SubmissionInv, UNCHANGED xt_builder_client,
         HandleRollback \/ RollbackEnds \/ Cleanup
  PROVE  /\ SubmissionInv'
         /\ \A d \in Clients : Forgotten(d) => RollbackEnds /\ faults' > faults
<1>k. /\ \A i \in Ids : task'[i] # "idle" => i \in DOMAIN instances'
      /\ \A i \in Ids : Admitted(i)'
      /\ \A d \in Clients : \A r : Truthful(d, r) => Truthful(d, r)'
  BY InstancesKept DEF HandleRollback, RollbackEnds, Cleanup
<1>1. CASE HandleRollback
  <2>1. /\ taken = {} /\ taken' = UNION {pending_submissions[x] : x \in Xts}
        /\ pending_submissions' = [x \in Xts |-> {}]
        /\ UNCHANGED <<call, channel, answer, startVars, faults>>
    BY <1>1 DEF HandleRollback
  <2>2. taken' \subseteq Clients
    BY <2>1 DEF SubmissionInv, TypeOK
  <2>3. SubmissionInv'
    BY <1>k, <2>1, <2>2 DEF SubmissionInv, TypeOK, startVars
  <2>4. \A d \in Clients : Held(d) => d \in taken'
    BY <2>1, SubmissionAssumption DEF Held, Fingerprint
  <2> QED
    BY <2>3, <2>4 DEF Forgotten, Held
<1>2. CASE RollbackEnds
  <2>1. /\ taken' = {} /\ faults' \in Nat
        /\ UNCHANGED <<pending_submissions, call, answer, startVars>>
        /\ \/ /\ UNCHANGED faults
              /\ channel' = [c \in Clients |-> IF c \in taken /\ Open(c) THEN Error
                                                                ELSE channel[c]]
           \/ faults' > faults /\ UNCHANGED channel
    BY <1>2 DEF RollbackEnds, Notify, Fault, SubmissionInv
  <2>2. /\ channel' \in [Clients -> 0 .. Error]
        /\ \A c \in Clients : channel'[c] \in {channel[c], Error}
    BY <2>1, Results DEF SubmissionInv, TypeOK
  <2>3. \A c \in Clients : Truthful(c, channel[c])' /\ Truthful(c, answer[c])'
    BY <1>k, <2>1, <2>2, Results DEF SubmissionInv, Truthful
  <2>4. SubmissionInv'
    BY <1>k, <2>1, <2>2, <2>3 DEF SubmissionInv, TypeOK, startVars
  <2>5. ASSUME NEW d \in Clients, Forgotten(d) PROVE faults' > faults
    <3>1. d \in taken /\ Open(d)
      BY <2>1, <2>5 DEF Forgotten, Held, Open
    <3> QED
      BY <2>1, <2>5, <3>1, Results DEF Forgotten
  <2> QED
    BY <1>2, <2>4, <2>5
<1>3. CASE Cleanup
  <2>1. /\ UNCHANGED <<call, channel, answer, startVars, taken, faults>>
        /\ pending_submissions' \in [Xts -> SUBSET Clients]
        /\ \A x \in Xts : pending_submissions'[x] \subseteq pending_submissions[x]
        /\ \A x \in Xts : \A c \in pending_submissions[x] :
             Open(c) => c \in pending_submissions'[x]
    BY <1>3 DEF Cleanup, Prune, Pruned, SubmissionInv, TypeOK
  <2>2. SubmissionInv'
    BY <1>k, <2>1 DEF SubmissionInv, TypeOK, startVars
  <2>3. \A d \in Clients : ~Forgotten(d)
    BY <2>1, SubmissionAssumption DEF Forgotten, Held, Fingerprint, Open
  <2> QED
    BY <2>2, <2>3
<1> QED
  BY <1>1, <1>2, <1>3

(* The invariant holds at first, and every step keeps it.                  *)
LEMMA SubmissionInductive == Spec => []SubmissionInv
<1>1. Init => SubmissionInv
  BY Results DEF Init, SubmissionInv, TypeOK, Truthful, Admitted, Nothing, Error
<1>2. SubmissionInv /\ [Next]_vars => SubmissionInv'
  <2> SUFFICES ASSUME SubmissionInv, [Next]_vars PROVE SubmissionInv'
    OBVIOUS
  <2>1. CASE Next
    BY <2>1, CallStep, InstanceStep, RollbackStep DEF Next, Step
  <2>2. CASE UNCHANGED vars
    BY <2>2, InstancesKept
       DEF vars, callVars, startVars, SubmissionInv, TypeOK
  <2> QED
    BY <2>1, <2>2
<1> QED
  BY <1>1, <1>2, PTL DEF Spec

(* Senders are filed under what their calls submitted, and the rest of the *)
(* submissions' state has its type.                                        *)
THEOREM SubmissionTypes == Spec => []TypeOK
<1>1. SubmissionInv => TypeOK
  BY DEF SubmissionInv
<1> QED
  BY <1>1, SubmissionInductive, PTL

(* An id that submit_xt() returns is that of an instance of the client's   *)
(* own transactions that was admitted for good, and which the builder      *)
(* holds if it has local transactions and there is a builder, whatever     *)
(* races with it.                                                          *)
THEOREM IdsAreTrue == Spec => []OkIsAccepted
<1>1. SubmissionInv => OkIsAccepted
  BY DEF SubmissionInv, OkIsAccepted, Truthful, Admitted
<1> QED
  BY <1>1, SubmissionInductive, PTL

(* No step of a call, of an instance or of cleanup() lets go the sender of *)
(* a waiting call without a result; only handle_rollback() does, when one  *)
(* of its abort RPCs fails.                                                *)
THEOREM WaitersAreAnswered == Spec => NoWaiterForgotten
<1> DEFINE Kept == \A c \in Clients :
             call'[c] \in {"send", "wait"} /\ Held(c) /\ ~Held(c)'
                 /\ channel'[c] = Nothing
               => RollbackEnds /\ faults' > faults
<1>1. SubmissionInv /\ [Next]_vars => [Kept]_vars
  <2> SUFFICES ASSUME SubmissionInv, Next PROVE Kept
    OBVIOUS
  <2>1. \A c \in Clients : Forgotten(c) => RollbackEnds /\ faults' > faults
    BY CallStep, InstanceStep, RollbackStep DEF Next, Step
  <2> QED
    BY <2>1 DEF Forgotten
<1> QED
  BY <1>1, SubmissionInductive, PTL DEF Spec, NoWaiterForgotten
-----------------------------------------------------------------------------
(* Mailboxes: the conservation of messages needs only that the counts are  *)
(* numbers.                                                                *)
ConservedInv ==
  /\ MW!MessagesConserved
  /\ arrived \in MW!Counts /\ dropped \in MW!Counts
  /\ mailbox_buffer \in MW!Counts /\ pending_mailbox \in MW!Counts
  /\ fulfilled_deps = [m \in Mailboxes |-> fulfilled_deps[m]]

(* A step that touches no message keeps them all.                          *)
LEMMA NoMessageMoved ==
  ASSUME ConservedInv,
         UNCHANGED <<arrived, dropped, mailbox_buffer, pending_mailbox, fulfilled_deps>>
  PROVE  ConservedInv'
BY DEF ConservedInv, MW!MessagesConserved, MW!Counts

(* A message that arrives goes to the mailbox, to the buffer, or is given  *)
(* up.                                                                     *)
LEMMA ReceiveConserves ==
  ASSUME ConservedInv, NEW x \in Mailboxes, NEW k \in Keys, MW!Receive(x, k)
  PROVE  ConservedInv'
<1> DEFINE Plus(f) == [f EXCEPT ![x][k] = @ + 1]
<1>1. ASSUME NEW f \in MW!Counts
      PROVE  /\ Plus(f) \in MW!Counts
             /\ \A y \in Mailboxes, l \in Keys :
                  Plus(f)[y][l] = f[y][l] + (IF y = x /\ l = k THEN 1 ELSE 0)
  BY DEF MW!Counts
<1>2. /\ arrived' = Plus(arrived) /\ UNCHANGED fulfilled_deps
      /\ \/ /\ pending_mailbox' = Plus(pending_mailbox)
            /\ UNCHANGED <<mailbox_buffer, dropped>>
         \/ /\ mailbox_buffer' = Plus(mailbox_buffer)
            /\ UNCHANGED <<pending_mailbox, dropped>>
         \/ /\ dropped' = Plus(dropped)
            /\ UNCHANGED <<pending_mailbox, mailbox_buffer>>
  BY DEF MW!Receive
<1> HIDE DEF Plus
<1>3. /\ arrived' \in MW!Counts /\ dropped' \in MW!Counts
      /\ mailbox_buffer' \in MW!Counts /\ pending_mailbox' \in MW!Counts
      /\ fulfilled_deps' = [m \in Mailboxes |-> fulfilled_deps'[m]]
  BY <1>1, <1>2 DEF ConservedInv
<1>4. ASSUME NEW y \in Mailboxes, NEW l \in Keys
      PROVE  arrived'[y][l] = mailbox_buffer'[y][l] + pending_mailbox'[y][l]
               + dropped'[y][l] + (IF l \in fulfilled_deps'[y] THEN 1 ELSE 0)
  <2>1. /\ arrived[y][l] \in Nat /\ mailbox_buffer[y][l] \in Nat
        /\ pending_mailbox[y][l] \in Nat /\ dropped[y][l] \in Nat
    BY DEF ConservedInv, MW!Counts
  <2>2. arrived[y][l] = mailbox_buffer[y][l] + pending_mailbox[y][l]
               + dropped[y][l] + (IF l \in fulfilled_deps[y] THEN 1 ELSE 0)
    BY DEF ConservedInv, MW!MessagesConserved
  <2> DEFINE d == IF y = x /\ l = k THEN 1 ELSE 0
  <2>3. d \in Nat /\ arrived'[y][l] = arrived[y][l] + d
    BY <1>1, <1>2 DEF ConservedInv
  <2>4. \/ /\ pending_mailbox'[y][l] = pending_mailbox[y][l] + d
           /\ UNCHANGED <<mailbox_buffer, dropped>>
        \/ /\ mailbox_buffer'[y][l] = mailbox_buffer[y][l] + d
           /\ UNCHANGED <<pending_mailbox, dropped>>
        \/ /\ dropped'[y][l] = dropped[y][l] + d
           /\ UNCHANGED <<pending_mailbox, mailbox_buffer>>
    BY <1>1, <1>2 DEF ConservedInv
  <2> HIDE DEF d
  <2> QED
    BY <1>2, <2>1, <2>2, <2>3, <2>4
<1> QED
  BY <1>3, <1>4 DEF ConservedInv, MW!MessagesConserved

(* A registration takes over what is buffered for the XT.                  *)
LEMMA RegisterConserves ==
  ASSUME ConservedInv, NEW x \in Mailboxes, MW!Register(x)
  PROVE  ConservedInv'
<1>1. /\ pending_mailbox' = [pending_mailbox EXCEPT ![x] =
             [k \in Keys |-> pending_mailbox[x][k] + mailbox_buffer[x][k]]]
      /\ mailbox_buffer' = [mailbox_buffer EXCEPT ![x] = [k \in Keys |-> 0]]
      /\ UNCHANGED <<arrived, dropped, fulfilled_deps>>
  BY DEF MW!Register, MW!Drained, MW!Add, MW!NoMessages, ConservedInv, MW!Counts
<1>2. pending_mailbox' \in MW!Counts /\ mailbox_buffer' \in MW!Counts
  BY <1>1 DEF ConservedInv, MW!Counts
<1>3. ASSUME NEW y \in Mailboxes, NEW l \in Keys
      PROVE  mailbox_buffer'[y][l] + pending_mailbox'[y][l]
               = mailbox_buffer[y][l] + pending_mailbox[y][l]
  BY <1>1 DEF ConservedInv, MW!Counts
<1> QED
  BY <1>1, <1>2, <1>3 DEF ConservedInv, MW!MessagesConserved, MW!Counts

(* A dependency is answered once, with one message.                        *)
LEMMA CheckConserves ==
  ASSUME ConservedInv, NEW x \in Mailboxes, MW!CheckDependencies(x)
  PROVE  ConservedInv'
<1> DEFINE A == MW!Answerable(x)
<1>1. \A k \in A \cap Keys : k \notin fulfilled_deps[x] /\ pending_mailbox[x][k] > 0
  BY DEF MW!Answerable
<1>2. /\ fulfilled_deps' = [fulfilled_deps EXCEPT ![x] = @ \cup A]
      /\ pending_mailbox' = [pending_mailbox EXCEPT ![x] =
           [k \in Keys |-> IF k \in A THEN pending_mailbox[x][k] - 1
                                      ELSE pending_mailbox[x][k]]]
      /\ UNCHANGED <<arrived, dropped, mailbox_buffer>>
  BY DEF MW!CheckDependencies, ConservedInv, MW!Counts
<1> HIDE DEF A
<1>3. ASSUME NEW y \in Mailboxes, NEW l \in Keys
      PROVE  /\ pending_mailbox'[y][l] \in Nat
             /\ pending_mailbox'[y][l] + (IF l \in fulfilled_deps'[y] THEN 1 ELSE 0)
                  = pending_mailbox[y][l] + (IF l \in fulfilled_deps[y] THEN 1 ELSE 0)
  <2>1. pending_mailbox[y][l] \in Nat
    BY DEF ConservedInv, MW!Counts
  <2>2. CASE y = x /\ l \in A
    <3>1. pending_mailbox'[y][l] = pending_mailbox[y][l] - 1 /\ l \in fulfilled_deps'[y]
      BY <1>2, <2>2 DEF ConservedInv, MW!Counts
    <3> QED
      BY <1>1, <2>1, <2>2, <3>1
  <2>3. CASE ~(y = x /\ l \in A)
    <3>1. /\ pending_mailbox'[y][l] = pending_mailbox[y][l]
          /\ l \in fulfilled_deps'[y] <=> l \in fulfilled_deps[y]
      BY <1>2, <2>3 DEF ConservedInv, MW!Counts
    <3> QED
      BY <2>1, <3>1
  <2> QED
    BY <2>2, <2>3
<1>4. /\ pending_mailbox' \in MW!Counts
      /\ fulfilled_deps' = [m \in Mailboxes |-> fulfilled_deps'[m]]
  BY <1>2, <1>3, Zenon DEF ConservedInv, MW!Counts
<1>5. ASSUME NEW y \in Mailboxes, NEW l \in Keys
      PROVE  arrived'[y][l] = mailbox_buffer'[y][l] + pending_mailbox'[y][l]
               + dropped'[y][l] + (IF l \in fulfilled_deps'[y] THEN 1 ELSE 0)
  <2>1. /\ arrived[y][l] \in Nat /\ mailbox_buffer[y][l] \in Nat
        /\ pending_mailbox[y][l] \in Nat /\ dropped[y][l] \in Nat
    BY DEF ConservedInv, MW!Counts
  <2>2. arrived[y][l] = mailbox_buffer[y][l] + pending_mailbox[y][l]
               + dropped[y][l] + (IF l \in fulfilled_deps[y] THEN 1 ELSE 0)
    BY DEF ConservedInv, MW!MessagesConserved
  <2> QED
    BY <1>2, <1>3, <2>1, <2>2
<1> QED
  BY <1>2, <1>4, <1>5 DEF ConservedInv, MW!MessagesConserved

(* What cleanup() and handle_rollback() remove is given up.                *)
LEMMA WipeConserves ==
  ASSUME ConservedInv,
         MW!HandleRollback \/ \E S \in SUBSET index : MW!Cleanup(S)
  PROVE  ConservedInv'
<1> DEFINE Wiped(S) ==
      /\ pending_mailbox' = [x \in Mailboxes |->
           IF x \in S THEN [k \in Keys |-> 0] ELSE pending_mailbox[x]]
      /\ mailbox_buffer' = [x \in Mailboxes |-> [k \in Keys |-> 0]]
      /\ dropped' = [x \in Mailboxes |-> [k \in Keys |->
           dropped[x][k] + (IF x \in S
                            THEN pending_mailbox[x][k] + mailbox_buffer[x][k]
                            ELSE mailbox_buffer[x][k])]]
      /\ UNCHANGED <<arrived, fulfilled_deps>>
<1>0. \E S : Wiped(S)
  <2>1. ASSUME NEW S \in SUBSET index, MW!Cleanup(S) PROVE Wiped(S)
    BY <2>1 DEF MW!Cleanup, MW!Add, MW!NoMessages
  <2>2. ASSUME MW!HandleRollback PROVE Wiped({})
    BY <2>2 DEF MW!HandleRollback, MW!WipeBuffer, MW!Add, MW!NoMessages,
                MW!procVars, ConservedInv, MW!Counts
  <2> HIDE DEF Wiped
  <2> QED
    BY <2>1, <2>2
<1>1. PICK S : Wiped(S)
  BY <1>0, Zenon
<1>2. ASSUME NEW y \in Mailboxes, NEW l \in Keys
      PROVE  /\ pending_mailbox'[y][l] \in Nat /\ mailbox_buffer'[y][l] \in Nat
             /\ dropped'[y][l] \in Nat
             /\ mailbox_buffer'[y][l] + pending_mailbox'[y][l] + dropped'[y][l]
                  = mailbox_buffer[y][l] + pending_mailbox[y][l] + dropped[y][l]
  <2>1. /\ mailbox_buffer[y][l] \in Nat
        /\ pending_mailbox[y][l] \in Nat /\ dropped[y][l] \in Nat
    BY DEF ConservedInv, MW!Counts
  <2> QED
    BY <1>1, <2>1
<1>3. /\ pending_mailbox' \in MW!Counts /\ mailbox_buffer' \in MW!Counts
      /\ dropped' \in MW!Counts
  BY <1>1, <1>2 DEF ConservedInv, MW!Counts
<1>4. ASSUME NEW y \in Mailboxes, NEW l \in Keys
      PROVE  arrived'[y][l] = mailbox_buffer'[y][l] + pending_mailbox'[y][l]
               + dropped'[y][l] + (IF l \in fulfilled_deps'[y] THEN 1 ELSE 0)
  <2>1. arrived[y][l] = mailbox_buffer[y][l] + pending_mailbox[y][l]
               + dropped[y][l] + (IF l \in fulfilled_deps[y] THEN 1 ELSE 0)
    BY DEF ConservedInv, MW!MessagesConserved
  <2> QED
    BY <1>1, <1>2, <2>1
<1> QED
  BY <1>1, <1>3, <1>4 DEF ConservedInv, MW!MessagesConserved

(* Whatever order messages, registrations, waits and removals come in,     *)
(* every message that arrived is in exactly one place.                     *)
THEOREM NoMessageLost == MW!Spec => []MW!MessagesConserved
<1>1. MW!Init => ConservedInv
  BY DEF MW!Init, MW!NoMessages, ConservedInv, MW!MessagesConserved, MW!Counts
<1>2. ConservedInv /\ [MW!Next]_MW!vars => ConservedInv'
  <2> SUFFICES ASSUME ConservedInv, [MW!Next]_MW!vars PROVE ConservedInv'
    OBVIOUS
  <2>1. CASE \E x \in Mailboxes, k \in Keys : MW!Receive(x, k)
    BY <2>1, ReceiveConserves
  <2>2. CASE MW!NotifyWaiters \/ UNCHANGED MW!vars
    BY <2>2, NoMessageMoved DEF MW!NotifyWaiters, MW!vars, MW!procVars
  <2>3. ASSUME NEW x \in Mailboxes,
               MW!Register(x) \/ MW!ProcessXt(x) \/ MW!Expire(x)
        PROVE  ConservedInv'
    <3>1. CASE MW!Register(x) \/ MW!CheckDependencies(x)
      BY <3>1, RegisterConserves, CheckConserves
    <3>2. CASE MW!Simulate(x) \/ MW!CreateNotified(x) \/ MW!Select(x) \/ MW!Expire(x)
      BY <3>2, NoMessageMoved DEF MW!Simulate, MW!CreateNotified, MW!Select, MW!Expire
    <3> QED
      BY <2>3, <3>1, <3>2 DEF MW!ProcessXt
  <2>4. CASE MW!HandleRollback \/ \E S \in SUBSET index : MW!Cleanup(S)
    BY <2>4, WipeConserves
  <2> QED
    BY <2>1, <2>2, <2>3, <2>4 DEF MW!Next
<1>3. ConservedInv => MW!MessagesConserved
  BY DEF ConservedInv
<1> QED
  BY <1>1, <1>2, <1>3, PTL DEF MW!Spec
=============================================================================

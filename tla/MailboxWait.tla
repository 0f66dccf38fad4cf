---------------------------- MODULE MailboxWait ----------------------------
(***************************************************************************)
(* Inbound CIRC messages at one sidecar.  A message for a registered XT    *)
(* goes to the XT's mailbox, one for an unknown XT to a capped buffer that *)
(* the registration drains.  process_xt() simulates the XT, and while      *)
(* mailbox reads are unanswered waits in wait_for_dependencies() for a     *)
(* message or for the CIRC timeout.                                        *)
(*                                                                         *)
(* A message and the dependency it answers agree on the mailbox key, so    *)
(* messages are counted per XT and key.  Each section under the state lock *)
(* is one action; so is each step that a task takes without it.            *)
(***************************************************************************)
EXTENDS Naturals, FiniteSetsExt

CONSTANTS
  Xts,        \* instance ids
  Keys,       \* mailbox keys
  Deps,       \* the keys each XT reads
  Copies,     \* bound: messages that arrive per XT and key
  MaxKeys,    \* MAILBOX_BUFFER_MAX_KEYS
  MaxPerKey,  \* MAILBOX_BUFFER_MAX_PER_KEY
  Wipes       \* bound: may cleanup() and handle_rollback() run?

ASSUME MailboxAssumption ==
  /\ IsFiniteSet(Xts) /\ IsFiniteSet(Keys)
  /\ Deps \in [Xts -> SUBSET Keys]
  /\ Copies \in [Xts -> [Keys -> Nat]] /\ MaxKeys \in Nat /\ MaxPerKey \in Nat
  /\ Wipes \in BOOLEAN

VARIABLES
  index,           \* mailbox_index: the XTs that are registered
  mailbox_buffer,  \* per unregistered XT and key: buffered messages
  pending_mailbox, \* per XT and key: messages not yet matched
  fulfilled_deps,  \* per XT: the keys already answered
  proc,            \* per XT: where process_xt() stands
  expired,         \* per XT: has the deadline of its wait passed?
  notifying,       \* handlers that released the lock and still have to notify
  arrived,         \* ghost: messages received, per XT and key
  dropped          \* ghost: messages given up, per XT and key

procVars == <<index, pending_mailbox, fulfilled_deps, proc, expired>>
vars == <<procVars, mailbox_buffer, notifying, arrived, dropped>>
-----------------------------------------------------------------------------
NoMessages == [k \in Keys |-> 0]

Add(f, g) == [k \in Keys |-> f[k] + g[k]]

Size(f) == MapThenSumSet(LAMBDA k : f[k], Keys)

Buffered == {x \in Xts : mailbox_buffer[x] # NoMessages}

Init ==
  /\ index = {}
  /\ mailbox_buffer = [x \in Xts |-> NoMessages]
  /\ pending_mailbox = [x \in Xts |-> NoMessages]
  /\ fulfilled_deps = [x \in Xts |-> {}]
  /\ proc = [x \in Xts |-> "none"]
  /\ expired = [x \in Xts |-> FALSE]
  /\ notifying = 0
  /\ arrived = [x \in Xts |-> NoMessages]
  /\ dropped = [x \in Xts |-> NoMessages]

(* buffer_orphan_mailbox() takes a message if there is room.  The mutant   *)
(* is off by one in the number of messages of an XT.                       *)
MutantRoomOffByOne(x) ==
  /\ x \in Buffered \/ Cardinality(Buffered) < MaxKeys
  /\ Size(mailbox_buffer[x]) <= MaxPerKey

Room(x) ==
  /\ x \in Buffered \/ Cardinality(Buffered) < MaxKeys
  /\ Size(mailbox_buffer[x]) < MaxPerKey

(* handle_mailbox_message() under the lock.                                *)
Receive(x, k) ==
  /\ arrived[x][k] < Copies[x][k]
  /\ arrived' = [arrived EXCEPT ![x][k] = @ + 1]
  /\ notifying' = notifying + 1
  /\ \/ /\ x \in index
        /\ pending_mailbox' = [pending_mailbox EXCEPT ![x][k] = @ + 1]
        /\ UNCHANGED <<mailbox_buffer, dropped>>
     \/ /\ x \notin index /\ Room(x)
        /\ mailbox_buffer' = [mailbox_buffer EXCEPT ![x][k] = @ + 1]
        /\ UNCHANGED <<pending_mailbox, dropped>>
     \/ /\ x \notin index /\ ~Room(x)
        /\ dropped' = [dropped EXCEPT ![x][k] = @ + 1]
        /\ UNCHANGED <<pending_mailbox, mailbox_buffer>>
  /\ UNCHANGED <<index, fulfilled_deps, proc, expired>>

(* notify_waiters(), after the lock: wakes every task that has created its *)
(* notified() future by now.                                               *)
NotifyWaiters ==
  /\ notifying > 0 /\ notifying' = notifying - 1
  /\ proc' = [x \in Xts |-> IF proc[x] = "wait" THEN "notified" ELSE proc[x]]
  /\ UNCHANGED <<index, pending_mailbox, fulfilled_deps, expired, mailbox_buffer,
                 arrived, dropped>>

(* What a registration takes over from the buffer; the mutant nothing.     *)
MutantDrainNothing(x) == NoMessages

Drained(x) == mailbox_buffer[x]

(* The registration of an XT by a publisher's StartInstance or a peer's    *)
(* forward, under the lock; process_xt() is spawned.                       *)
Register(x) ==
  /\ proc[x] = "none"
  /\ index' = index \cup {x}
  /\ pending_mailbox' = [pending_mailbox EXCEPT ![x] = Add(@, Drained(x))]
  /\ mailbox_buffer' = [mailbox_buffer EXCEPT ![x] = NoMessages]
  /\ proc' = [proc EXCEPT ![x] = "simulate"]
  /\ UNCHANGED <<fulfilled_deps, expired, notifying, arrived, dropped>>

(* One simulation attempt: it succeeds once every mailbox read is          *)
(* answered; else a new wait begins, with a deadline of its own.           *)
Simulate(x) ==
  /\ proc[x] = "simulate"
  /\ proc' = [proc EXCEPT ![x] = IF Deps[x] \subseteq fulfilled_deps[x]
                                 THEN "yes" ELSE "check"]
  /\ expired' = [expired EXCEPT ![x] = FALSE]
  /\ UNCHANGED <<index, pending_mailbox, fulfilled_deps, mailbox_buffer,
                 notifying, arrived, dropped>>

(* The dependencies fulfill_dependencies_from_mailbox() can answer.        *)
Answerable(x) ==
  {k \in Deps[x] \ fulfilled_deps[x] : pending_mailbox[x][k] > 0}

(* The head of the loop in wait_for_dependencies(): match messages, under  *)
(* the lock; then look at the clock.                                       *)
CheckDependencies(x) ==
  /\ proc[x] = "check"
  /\ fulfilled_deps' = [fulfilled_deps EXCEPT ![x] = @ \cup Answerable(x)]
  /\ pending_mailbox' = [pending_mailbox EXCEPT ![x] =
       [k \in Keys |-> IF k \in Answerable(x) THEN @[k] - 1 ELSE @[k]]]
  /\ proc' = [proc EXCEPT ![x] = CASE Answerable(x) # {} -> "simulate"
                                   [] Answerable(x) = {} /\ expired[x] -> "no"
                                   [] OTHER -> "cloned"]
  /\ UNCHANGED <<index, expired, mailbox_buffer, notifying, arrived, dropped>>

(* The notify handle is fetched under a lock of its own, and notified() is *)
(* called after it: from here on the task can be woken.                    *)
CreateNotified(x) ==
  /\ proc[x] = "cloned"
  /\ proc' = [proc EXCEPT ![x] = "wait"]
  /\ UNCHANGED <<index, pending_mailbox, fulfilled_deps, expired, mailbox_buffer,
                 notifying, arrived, dropped>>

(* tokio::select!: a woken task goes round the loop; when the deadline     *)
(* has passed the wait fails, with either branch if both are ready.  The   *)
(* mutant never looks at the deadline.                                     *)
MutantNoDeadline(x) == FALSE

DeadlinePassed(x) == expired[x]

Select(x) ==
  /\ \/ proc[x] = "notified" /\ proc' = [proc EXCEPT ![x] = "check"]
     \/ /\ proc[x] \in {"wait", "notified"} /\ DeadlinePassed(x)
        /\ proc' = [proc EXCEPT ![x] = "no"]
  /\ UNCHANGED <<index, pending_mailbox, fulfilled_deps, expired, mailbox_buffer,
                 notifying, arrived, dropped>>

(* Time: the CIRC timeout of a wait runs out.                              *)
Expire(x) ==
  /\ proc[x] \in {"check", "cloned", "wait", "notified"} /\ ~expired[x]
  /\ expired' = [expired EXCEPT ![x] = TRUE]
  /\ UNCHANGED <<index, pending_mailbox, fulfilled_deps, proc, mailbox_buffer,
                 notifying, arrived, dropped>>

(* Everything buffered is for XTs that are not registered, so cleanup()    *)
(* and handle_rollback() both empty the buffer.                            *)
WipeBuffer ==
  /\ mailbox_buffer' = [x \in Xts |-> NoMessages]
  /\ dropped' = [x \in Xts |-> Add(dropped[x], mailbox_buffer[x])]

(* handle_rollback() does no more than that here.  cleanup() also removes  *)
(* XTs S that were decided long ago, with their messages.                  *)
Cleanup(S) ==
  /\ Wipes
  /\ \A x \in S : proc[x] \in {"yes", "no"}
  /\ index' = index \ S
  /\ pending_mailbox' = [x \in Xts |-> IF x \in S THEN NoMessages
                                                  ELSE pending_mailbox[x]]
  /\ mailbox_buffer' = [x \in Xts |-> NoMessages]
  /\ dropped' = [x \in Xts |->
       Add(dropped[x], IF x \in S THEN Add(pending_mailbox[x], mailbox_buffer[x])
                                  ELSE mailbox_buffer[x])]
  /\ UNCHANGED <<fulfilled_deps, proc, expired, notifying, arrived>>

HandleRollback ==
  /\ Wipes
  /\ WipeBuffer
  /\ UNCHANGED <<procVars, notifying, arrived>>
-----------------------------------------------------------------------------
ProcessXt(x) ==
  Simulate(x) \/ CheckDependencies(x) \/ CreateNotified(x) \/ Select(x)

Next ==
  \/ \E x \in Xts, k \in Keys : Receive(x, k)
  \/ NotifyWaiters
  \/ \E x \in Xts : Register(x) \/ ProcessXt(x) \/ Expire(x)
  \/ \E S \in SUBSET index : Cleanup(S)
  \/ HandleRollback

Spec == Init /\ [][Next]_vars

(* Spawned tasks run, and time passes.                                     *)
Fairness ==
  /\ WF_vars(NotifyWaiters)
  /\ \A x \in Xts : WF_vars(ProcessXt(x)) /\ WF_vars(Expire(x))

FairSpec == Spec /\ Fairness
-----------------------------------------------------------------------------
Counts == [Xts -> [Keys -> Nat]]

(* The shape of the mailbox state; the buffer keeps within its caps.       *)
TypeOK ==
  /\ index \subseteq Xts
  /\ mailbox_buffer \in Counts /\ pending_mailbox \in Counts
  /\ fulfilled_deps \in [Xts -> SUBSET Keys]
  /\ proc \in [Xts -> {"none", "simulate", "check", "cloned", "wait", "notified",
                       "yes", "no"}]
  /\ Cardinality(Buffered) <= MaxKeys
  /\ \A x \in Xts : Size(mailbox_buffer[x]) <= MaxPerKey

(* Whatever way the arrival of messages, the registration of the XT and    *)
(* its waits interleave, every message is in exactly one place: buffered,  *)
(* in the mailbox, used for one dependency, or given up on purpose.        *)
MessagesConserved ==
  \A x \in Xts, k \in Keys :
    arrived[x][k] = mailbox_buffer[x][k] + pending_mailbox[x][k] + dropped[x][k]
                      + (IF k \in fulfilled_deps[x] THEN 1 ELSE 0)

(* Every registered XT gets a vote: a wait ends with a message or with the *)
(* timeout, and only finitely many waits follow each other.                *)
EveryXtVotes == \A x \in Xts : (proc[x] = "simulate") ~> (proc[x] \in {"yes", "no"})
-----------------------------------------------------------------------------
(* What comments of the repository say and the code does not always do.    *)

(* simulation.rs: the handle is cloned first, which "avoids missing a      *)
(* notification that arrives between the dependency check above and the    *)
(* select below": no task sleeps on a message that is already there, with  *)
(* nobody left to wake it.                                                 *)
WakeupNotLost ==
  \A x \in Xts : proc[x] = "wait" /\ notifying = 0 => Answerable(x) = {}

(* coordinator.rs, cleanup(): removes entries "whose XTs will never        *)
(* arrive": a running XT has lost no message it waits for.                 *)
WipedXtNeverArrives ==
  \A x \in Xts, k \in Keys :
    x \in index /\ k \in Deps[x] \ fulfilled_deps[x] => dropped[x][k] = 0
=============================================================================

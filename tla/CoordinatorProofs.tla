------------------------- MODULE CoordinatorProofs -------------------------
(***************************************************************************)
(* Proofs about module Coordinator, for any number of XTs, periods, faults *)
(* and nonces: what a pending XT, its commands and its place in the        *)
(* builder's pool have to do with the publisher's messages and decisions.  *)
(*                                                                         *)
(* The steps of Next fall into four classes by what they touch: the        *)
(* publisher's and the connection's (PublisherStep), those that decide or  *)
(* change one pending XT (Change), the others on the table of pending XTs  *)
(* (PendingStep), and the commands to the builder with what follows them   *)
(* (BuilderStep).  Each action is shown to be of its class, and each       *)
(* property to be kept by every class.                                     *)
(***************************************************************************)
EXTENDS Coordinator, TLAPS

StartMessage(x) == [type |-> "StartInstance", xt |-> x]

DecidedMessage(x, d) == [type |-> "Decided", xt |-> x, decision |-> d]

RollbackMessage == [type |-> "Rollback"]

Procs == {"idle", "submit", "undo", "reject", "simulate", "voteYes", "voteNo",
          "sendYes", "sendNo"}

Sweeps == [on : BOOLEAN, abort : SUBSET Xts, freeing : SUBSET Xts,
           votes : SUBSET Xts]

Confs == {"none", "reported", "marked", "done"}

(* The shape of the variables the invariant speaks of.                     *)
PublisherShape ==
  /\ spPeriod \in 0 .. MaxPeriod /\ spOpen \in BOOLEAN
  /\ spOpen => spPeriod > 0
  /\ DOMAIN spAssigned = Xts
  /\ \A x \in Xts : spAssigned[x].period \in 0 .. MaxPeriod
  /\ spDecision \in [Xts -> {"none", "commit", "abort", "void"}]

PendingShape ==
  /\ DOMAIN pending \subseteq Xts
  /\ \A x \in DOMAIN pending : pending[x] \in PendingXt
  /\ current \in 0 .. MaxPeriod

TaskShape ==
  /\ proc \in [Xts -> Procs]
  /\ DOMAIN cmd = Xts
  /\ \A x \in Xts :
       /\ DOMAIN cmd[x] = {"pc", "deps", "start", "end"}
       /\ cmd[x].pc \in {"idle", "reserve", "release", "abort", "free"}
       /\ cmd[x].deps \in DepCounts \cup {0}
  /\ sweep \in [SweepIds -> Sweeps]
  /\ conf \in [Xts -> Confs]

BuilderShape ==
  /\ DOMAIN pool = Xts
  /\ \A x \in Xts :
       /\ DOMAIN pool[x] = {"st", "start", "end"}
       /\ pool[x].st \in {"absent", "locked", "released", "included"}

Shape == PublisherShape /\ PendingShape /\ TaskShape /\ BuilderShape

Ranges(x) == {r \in live : r.id = x}

(* Nothing has been done for x that only a decision may cause.             *)
Unreleased(x) ==
  /\ cmd[x].pc = "idle"
  /\ pool[x].st \in {"absent", "locked"}
  /\ conf[x] = "none"
  /\ Ranges(x) = {}

(* An instance whose StartInstance was not handled is unknown here; since  *)
(* the message arrives once, an XT is registered at most once.             *)
Fresh ==
  \A x \in Xts :
    StartMessage(x) \in inbox \/ spAssigned[x].period = 0
      => x \notin DOMAIN pending /\ Unreleased(x)

StartedAssigned ==
  \A x \in Xts : StartMessage(x) \in inbox => spAssigned[x].period > 0

UndecidedUnreleased ==
  \A x \in Undecided : Unreleased(x) /\ ~pending[x].confirmed

(* A command to release x finds x not released yet, and x owns no nonces   *)
(* before the command has reserved them: each XT reserves once.            *)
CommandedOnce ==
  \A x \in Xts :
    /\ cmd[x].pc \in {"reserve", "release"} =>
         pool[x].st \in {"absent", "locked"} /\ conf[x] = "none"
    /\ cmd[x].pc = "reserve" => Ranges(x) = {} /\ cmd[x].deps > 0

Once ==
  Fresh /\ StartedAssigned /\ UndecidedUnreleased /\ CommandedOnce

IInv == Shape /\ Once /\ UndecidedNotStale
-----------------------------------------------------------------------------
Committed(x) == spDecision[x] \in {"commit", "void"}

(* A commit held here comes from the publisher or from two yes votes.      *)
CommitBacked ==
  /\ \A x \in Xts : DecidedMessage(x, "commit") \in inbox => Committed(x)
  /\ LocalCommitUnanimous

(* Without peer votes it comes from the publisher only, and with it the    *)
(* command to release the XT and the XT's release.                         *)
PeersSilent == \A x \in DOMAIN pending : pending[x].peer_vote = "none"

ReleaseBacked ==
  \A x \in Xts :
    \/ cmd[x].pc \in {"reserve", "release"}
    \/ pool[x].st \in {"released", "included"}
    => Committed(x)

(* Messages of different kinds, or about different XTs, differ.            *)
LEMMA MessagesDiffer ==
  ASSUME NEW x, NEW y, NEW d, NEW e, NEW p
  PROVE  /\ StartMessage(x) # [type |-> "StartPeriod", period |-> p]
         /\ StartMessage(x) # DecidedMessage(y, d)
         /\ StartMessage(x) # RollbackMessage
         /\ StartMessage(x) = StartMessage(y) => x = y
         /\ DecidedMessage(y, d) # [type |-> "StartPeriod", period |-> p]
         /\ DecidedMessage(y, d) # RollbackMessage
         /\ DecidedMessage(x, d) = DecidedMessage(y, e) => x = y /\ d = e
         /\ RollbackMessage # [type |-> "StartPeriod", period |-> p]
<1> DEFINE P == [type |-> "StartPeriod", period |-> p]
<1>1. /\ StartMessage(x).type = "StartInstance" /\ StartMessage(x).xt = x
      /\ StartMessage(y).xt = y
      /\ DecidedMessage(y, d).type = "Decided" /\ RollbackMessage.type = "Rollback"
      /\ DecidedMessage(x, d).xt = x /\ DecidedMessage(x, d).decision = d
      /\ DecidedMessage(y, e).xt = y /\ DecidedMessage(y, e).decision = e
      /\ P.type = "StartPeriod"
  BY Zenon DEF StartMessage, DecidedMessage, RollbackMessage
<1> HIDE DEF P
<1>2. /\ StartMessage(x) # P /\ StartMessage(x) # DecidedMessage(y, d)
      /\ StartMessage(x) # RollbackMessage /\ DecidedMessage(y, d) # P
      /\ DecidedMessage(y, d) # RollbackMessage /\ RollbackMessage # P
  BY <1>1, Zenon
<1> USE DEF P
<1> QED
  BY <1>1, <1>2, Zenon

-----------------------------------------------------------------------------
(* The classes of steps.                                                   *)

(* A step of the publisher or of the connection to it.  A StartInstance is *)
(* sent when the instance gets its period, a commit is taken back only by  *)
(* a rollback, a decision is sent when it is taken, and so is a rollback.  *)
PublisherStep ==
  /\ UNCHANGED <<pending, current, proc, cmd, sweep, conf, nonceVars>>
  /\ PublisherShape' /\ BuilderShape'
  /\ \/ PublisherRollsBack
     \/ /\ UNCHANGED rolledBack
        /\ RollbackMessage \in inbox' => RollbackMessage \in inbox
  /\ \A y \in Xts :
       /\ pool[y].st # "included" => pool'[y] = pool[y]
       /\ pool[y].st = "included" => pool'[y] \in {pool[y], Absent}
       /\ StartMessage(y) \in inbox' /\ StartMessage(y) \notin inbox =>
            spAssigned[y].period = 0 /\ spAssigned'[y].period > 0
       /\ spAssigned[y].period > 0 => spAssigned'[y] = spAssigned[y]
       /\ Committed(y) => Committed(y)'
       /\ DecidedMessage(y, "commit") \in inbox' =>
            DecidedMessage(y, "commit") \in inbox \/ Committed(y)'

(* A change of one pending XT to r.  An undecided XT may be decided, and   *)
(* then gets its command; a decision is never taken back, a vote never     *)
(* overwritten, and a commit has the publisher or both votes behind it.    *)
Change(x, r) ==
  /\ x \in DOMAIN pending /\ r \in PendingXt /\ pending' = Put(x, r)
  /\ r.period = pending[x].period /\ r.confirmed = pending[x].confirmed
  /\ \/ r.decision = pending[x].decision /\ cmd' = cmd
     \/ /\ pending[x].decision = "none" /\ r.decision # "none"
        /\ cmd' = [cmd EXCEPT ![x] = Command(x, r.decision, r.deps)]
  /\ pending[x].decision = "none" /\ r.decision = "commit" =>
       \/ DecidedMessage(x, "commit") \in inbox
       \/ r.local_vote = "yes" /\ r.peer_vote = "yes"
  /\ pending[x].local_vote # "none" => r.local_vote = pending[x].local_vote
  /\ pending[x].peer_vote # "none" => r.peer_vote = pending[x].peer_vote
  /\ PeerVotes = {} => r.peer_vote = pending[x].peer_vote

ChangeFrame ==
  /\ proc' \in [Xts -> Procs] /\ inbox' \subseteq inbox
  /\ UNCHANGED <<spVars, current, sweep, conf, poolVars, nonceVars>>

(* The XTs an abort loop is not done with.                                 *)
Swept(k) == sweep[k].abort \cup sweep[k].freeing

Aborted == {y \in DOMAIN pending : pending[y].decision = "abort"}

(* An abort loop takes in aborted XTs only, or no XTs at all; and only a   *)
(* rollback starts the loop of the rollback.                               *)
LoopsAbort ==
  /\ \A k \in SweepIds : Swept(k)' \subseteq Swept(k) \cup Aborted'
  /\ sweep'[RollbackSweep].on => sweep[RollbackSweep].on \/ HandleRollback

LoopsShrink ==
  /\ \A k \in SweepIds : Swept(k)' \subseteq Swept(k)
  /\ sweep'[RollbackSweep].on => sweep[RollbackSweep].on

(* Another step on the table: an XT registered by its StartInstance is     *)
(* undecided and of the current period; one that gets another decision is  *)
(* aborted, by a new period if it had none, by a rollback in any case; an  *)
(* abort loop starts with aborted XTs only; and none is confirmed whose    *)
(* inclusion was not reported.                                             *)
PendingStep ==
  /\ UNCHANGED <<spVars, cmd, poolVars, nonceVars>>
  /\ inbox' \subseteq inbox
  /\ PendingShape' /\ TaskShape' /\ UndecidedNotStale'
  /\ \A y \in Xts :
       \/ conf'[y] = conf[y]
       \/ conf[y] = "reported" /\ conf'[y] = "marked"
  /\ LoopsAbort
  /\ \A y \in DOMAIN pending \cap DOMAIN pending' :
       /\ pending'[y].peer_vote = pending[y].peer_vote
       /\ pending'[y].confirmed = pending[y].confirmed \/ conf[y] # "none"
       /\ \/ /\ pending'[y].decision = pending[y].decision
             /\ pending'[y].local_vote = pending[y].local_vote
          \/ /\ pending'[y].decision = "abort"
             /\ pending[y].decision = "none" \/ HandleRollback
  /\ \A y \in DOMAIN pending' \ DOMAIN pending :
       /\ StartMessage(y) \in inbox /\ StartMessage(y) \notin inbox'
       /\ pending'[y].decision = "none" /\ pending'[y].peer_vote = "none"
       /\ ~pending'[y].confirmed

(* A step that leaves the table alone, gives no XT a new command, and      *)
(* releases an XT only where there is the command to.                      *)
BuilderStep ==
  /\ UNCHANGED <<spVars, inbox, pending, current>>
  /\ TaskShape' /\ BuilderShape'
  /\ LoopsShrink
  /\ \A y \in Xts :
       /\ Unreleased(y) => Unreleased(y)'
       /\ cmd'[y].pc \in {"reserve", "release"} =>
            /\ cmd[y].pc \in {"reserve", "release"}
            /\ pool[y].st \in {"absent", "locked"} =>
                 pool'[y].st \in {"absent", "locked"}
            /\ conf[y] = "none" => conf'[y] = "none"
       /\ cmd'[y].pc = "abort" => cmd[y].pc = "abort"
       /\ cmd'[y].pc = "reserve" =>
            cmd'[y] = cmd[y] /\ (Ranges(y) = {} => Ranges(y)' = {})
       /\ pool'[y].st \in {"released", "included"} =>
            cmd[y].pc = "release" \/ pool[y].st \in {"released", "included"}
-----------------------------------------------------------------------------
(* Where no abort loop moves, none takes in an XT.                         *)
LEMMA LoopsFrame == ASSUME UNCHANGED sweep PROVE LoopsAbort /\ LoopsShrink
BY Zenon DEF LoopsAbort, LoopsShrink, Swept

(* A step of the publisher keeps the invariant.                            *)
LEMMA PublisherStepIInv == ASSUME IInv, PublisherStep PROVE IInv'
<1> USE DEF IInv, Shape, Once, PublisherStep
<1>1. PendingShape' /\ TaskShape' /\ UndecidedNotStale'
  BY Zenon DEF PendingShape, TaskShape, UndecidedNotStale, Undecided
<1>2. \A y \in Xts : Unreleased(y) => Unreleased(y)'
  BY Zenon DEF Unreleased, Ranges, nonceVars
<1>3. Fresh' /\ StartedAssigned'
  BY <1>2 DEF Fresh, StartedAssigned, PublisherShape
<1>4. UndecidedUnreleased'
  BY <1>2, Zenon DEF UndecidedUnreleased, Undecided, PendingShape
<1>5. CommandedOnce'
  BY Zenon DEF CommandedOnce, Ranges, nonceVars
<1> QED
  BY <1>1, <1>3, <1>4, <1>5, Zenon

(* A step that registers, sweeps, confirms or removes XTs keeps it.        *)
LEMMA PendingStepIInv == ASSUME IInv, PendingStep PROVE IInv'
<1> USE DEF IInv, Shape, Once, PendingStep
<1>1. PublisherShape' /\ BuilderShape'
  BY Zenon DEF PublisherShape, BuilderShape, spVars, poolVars
<1>2. \A y \in Xts : Unreleased(y) => Unreleased(y)'
  BY Zenon DEF Unreleased, Ranges, poolVars, nonceVars
<1>3. Fresh' /\ StartedAssigned'
  BY <1>2 DEF Fresh, StartedAssigned, spVars
<1>4. UndecidedUnreleased'
  <2> SUFFICES ASSUME NEW y \in Undecided'
               PROVE  Unreleased(y)' /\ ~pending'[y].confirmed
    BY Zenon DEF UndecidedUnreleased
  <2>1. y \in Xts /\ y \in DOMAIN pending' /\ pending'[y].decision = "none"
    BY Zenon DEF Undecided, PendingShape
  <2>2. CASE y \in DOMAIN pending
    <3>1. y \in Undecided
      BY <2>1, <2>2, Zenon DEF Undecided
    <3> QED
      BY <1>2, <2>1, <2>2, <3>1, Zenon DEF UndecidedUnreleased, Unreleased
  <2>3. CASE y \notin DOMAIN pending
    BY <1>2, <2>1, <2>3, Zenon DEF Fresh
  <2> QED
    BY <2>2, <2>3, Zenon
<1>5. CommandedOnce'
  BY DEF CommandedOnce, Ranges, poolVars, nonceVars
<1> QED
  BY <1>1, <1>3, <1>4, <1>5, Zenon

(* A step of a task on the builder or the nonce manager keeps it.          *)
LEMMA BuilderStepIInv == ASSUME IInv, BuilderStep PROVE IInv'
<1> USE DEF IInv, Shape, Once, BuilderStep
<1>1. PublisherShape' /\ PendingShape' /\ UndecidedNotStale'
  BY Zenon DEF spVars, PublisherShape, PendingShape, UndecidedNotStale,
     Undecided
<1>2. Fresh' /\ StartedAssigned'
  BY Zenon DEF Fresh, StartedAssigned, spVars
<1>3. UndecidedUnreleased'
  BY Zenon DEF UndecidedUnreleased, Undecided, PendingShape
<1>4. CommandedOnce'
  BY Zenon DEF CommandedOnce
<1> QED
  BY <1>1, <1>2, <1>3, <1>4, Zenon

(* What local_builder_command() returns for a decision.                    *)
LEMMA CommandShape ==
  ASSUME NEW x \in Xts, NEW d \in {"commit", "abort"},
         NEW n \in DepCounts \cup {0}
  PROVE  /\ DOMAIN Command(x, d, n) = {"pc", "deps", "start", "end"}
         /\ Command(x, d, n).pc \in {"idle", "reserve", "release", "abort"}
         /\ Command(x, d, n).deps \in DepCounts \cup {0}
         /\ Command(x, d, n).pc = "reserve" => Command(x, d, n).deps > 0
         /\ Command(x, d, n).pc \in {"reserve", "release"} => d = "commit"
         /\ Command(x, d, n).pc = "abort" => d = "abort"
         /\ Command(x, d, n).start = 0 /\ Command(x, d, n).end = 0
<1>1. n \in Nat
  BY CoordinatorAssumption
<1>2. /\ DOMAIN NoCmd = {"pc", "deps", "start", "end"} /\ NoCmd.pc = "idle"
      /\ NoCmd.deps = 0 /\ NoCmd.start = 0 /\ NoCmd.end = 0
  BY Zenon DEF NoCmd
<1>3. CASE x \notin Local
  <2>1. Command(x, d, n) = NoCmd
    BY <1>3, Zenon DEF Command
  <2> QED
    BY <1>2, <2>1, Zenon
<1>4. CASE x \in Local /\ d = "abort"
  <2>1. Command(x, d, n) = [NoCmd EXCEPT !.pc = "abort"]
    BY <1>4, Zenon DEF Command
  <2> QED
    BY <1>2, <1>4, <2>1, Zenon
<1>5. CASE x \in Local /\ d = "commit"
  <2>1. Command(x, d, n)
          = [pc |-> IF n = 0 THEN "release" ELSE "reserve", deps |-> n,
             start |-> 0, end |-> 0]
    BY <1>5, Zenon DEF Command, NoCmd
  <2> QED
    BY <1>1, <1>5, <2>1
<1> QED
  BY <1>3, <1>4, <1>5, Zenon

(* A handler that updates one pending XT keeps it: a command is only given *)
(* with the first decision, when nothing was released or reserved for it.  *)
LEMMA ChangeIInv ==
  ASSUME IInv, NEW x, NEW r, Change(x, r), ChangeFrame
  PROVE  IInv'
<1> USE DEF IInv, Shape, Once, ChangeFrame
<1>1. /\ x \in Xts /\ DOMAIN pending' = DOMAIN pending /\ pending'[x] = r
      /\ \A y \in DOMAIN pending \ {x} : pending'[y] = pending[y]
      /\ DOMAIN cmd' = Xts /\ \A y \in Xts \ {x} : cmd'[y] = cmd[y]
  BY Zenon DEF Change, Put, PendingShape, TaskShape
<1>2. CASE r.decision = pending[x].decision /\ cmd' = cmd
  <2>1. PublisherShape' /\ BuilderShape' /\ TaskShape'
    BY <1>2, Zenon DEF spVars, poolVars, PublisherShape, BuilderShape, TaskShape
  <2>2. PendingShape' /\ UndecidedNotStale'
    BY <1>1, <1>2 DEF Change, PendingShape, UndecidedNotStale, Undecided
  <2>3. Fresh' /\ StartedAssigned'
    BY <1>1, <1>2, ZenonT(30) DEF Change, Fresh, StartedAssigned, Unreleased,
       Ranges, spVars, poolVars, nonceVars
  <2>4. UndecidedUnreleased' /\ CommandedOnce'
    BY <1>1, <1>2 DEF Change, UndecidedUnreleased, Undecided, CommandedOnce,
                      Unreleased, Ranges, PendingShape, poolVars, nonceVars
  <2> QED
    BY <2>1, <2>2, <2>3, <2>4, Zenon
<1>3. CASE /\ pending[x].decision = "none" /\ r.decision # "none"
           /\ cmd' = [cmd EXCEPT ![x] = Command(x, r.decision, r.deps)]
  <2>1. /\ Unreleased(x)
        /\ r.decision \in {"commit", "abort"} /\ r.deps \in DepCounts \cup {0}
    BY <1>3, Zenon DEF Change, UndecidedUnreleased, Undecided, PendingXt,
       Decisions
  <2>2. /\ DOMAIN cmd'[x] = {"pc", "deps", "start", "end"}
        /\ cmd'[x].pc \in {"idle", "reserve", "release", "abort"}
        /\ cmd'[x].deps \in DepCounts \cup {0}
        /\ cmd'[x].pc = "reserve" => cmd'[x].deps > 0
    BY <1>1, <1>3, <2>1, CommandShape DEF TaskShape
  <2>3. PublisherShape' /\ BuilderShape' /\ TaskShape'
    BY <1>1, <2>2 DEF spVars, poolVars, PublisherShape, BuilderShape, TaskShape
  <2>4. PendingShape' /\ UndecidedNotStale'
    BY <1>1, <1>3 DEF Change, PendingShape, UndecidedNotStale, Undecided
  <2>5. Fresh' /\ StartedAssigned'
    BY <1>1 DEF Change, Fresh, StartedAssigned, Unreleased, Ranges, spVars,
                poolVars, nonceVars
  <2>6. UndecidedUnreleased'
    BY <1>1, <1>3 DEF Change, UndecidedUnreleased, Undecided, Unreleased, Ranges,
                      PendingShape, poolVars, nonceVars
  <2>7. CommandedOnce'
    BY <1>1, <2>1, <2>2
       DEF CommandedOnce, Unreleased, Ranges, poolVars, nonceVars
  <2> QED
    BY <2>3, <2>4, <2>5, <2>6, <2>7, Zenon
<1> QED
  BY <1>2, <1>3, Zenon DEF Change

-----------------------------------------------------------------------------
(* The steps of the publisher and of the connection are of their class.    *)
LEMMA PublisherSteps ==
  ASSUME IInv,
         Publisher \/ ConnectionLost \/ ConnectionRestored \/ UNCHANGED vars
  PROVE  PublisherStep
<1> USE CoordinatorAssumption DEF IInv, Shape
<1>1. CASE PublisherStartsPeriod
  <2>1. /\ PublisherShape' /\ UNCHANGED <<spAssigned, spDecision, rolledBack>>
        /\ inbox' \subseteq inbox \cup {[type |-> "StartPeriod", period |-> spPeriod + 1]}
    BY <1>1 DEF PublisherStartsPeriod, PublisherShape, Deliver
  <2>2. UNCHANGED <<pending, current, proc, cmd, sweep, conf, pool, nonceVars>>
    BY <1>1, Zenon DEF PublisherStartsPeriod, stateVars, poolVars
  <2> QED
    BY <2>1, <2>2, MessagesDiffer DEF PublisherStep, BuilderShape, Committed
<1>2. ASSUME NEW x \in Xts, PublisherStartsInstance(x) PROVE PublisherStep
  <2>1. /\ PublisherShape' /\ UNCHANGED <<spDecision, rolledBack>>
        /\ spAssigned[x].period = 0 /\ spAssigned'[x].period > 0
        /\ \A y \in Xts \ {x} : spAssigned'[y] = spAssigned[y]
    BY <1>2, Zenon DEF PublisherStartsInstance, PublisherShape
  <2>2. inbox' \subseteq inbox \cup {StartMessage(x)}
    BY <1>2, Zenon DEF PublisherStartsInstance, Deliver, StartMessage
  <2>3. UNCHANGED <<pending, current, proc, cmd, sweep, conf, pool, nonceVars>>
    BY <1>2, Zenon DEF PublisherStartsInstance, stateVars, poolVars
  <2> QED
    BY <2>1, <2>2, <2>3, MessagesDiffer DEF PublisherStep, BuilderShape, Committed
<1>3. ASSUME NEW x \in Xts, NEW d \in {"commit", "abort"}, PublisherDecides(x, d)
      PROVE  PublisherStep
  <2>1. /\ PublisherShape' /\ UNCHANGED <<spAssigned, rolledBack>>
        /\ spDecision[x] = "none" /\ spDecision'[x] = d
        /\ \A y \in Xts \ {x} : spDecision'[y] = spDecision[y]
    BY <1>3, Zenon DEF PublisherDecides, PublisherShape
  <2>2. inbox' \subseteq inbox \cup {DecidedMessage(x, d)}
    BY <1>3, Zenon DEF PublisherDecides, Deliver, DecidedMessage
  <2>3. UNCHANGED <<pending, current, proc, cmd, sweep, conf, pool, nonceVars>>
    BY <1>3, Zenon DEF PublisherDecides, stateVars, poolVars
  <2> QED
    BY <2>1, <2>2, <2>3, MessagesDiffer DEF PublisherStep, BuilderShape, Committed
<1>4. CASE PublisherRollsBack
  <2>1. /\ PublisherShape' /\ UNCHANGED spAssigned
        /\ \A y \in Xts : spDecision'[y] \in {spDecision[y], "void"}
    BY <1>4, Zenon DEF PublisherRollsBack, PublisherShape
  <2>2. /\ inbox' \subseteq inbox \cup {RollbackMessage} /\ DOMAIN pool' = Xts
        /\ \A y \in Xts : pool'[y] = IF pool[y].st = "included" THEN Absent
                                                                ELSE pool[y]
    BY <1>4, Zenon DEF PublisherRollsBack, Deliver, RollbackMessage
  <2>3. UNCHANGED <<pending, current, proc, cmd, sweep, conf, nonceVars>>
    BY <1>4, Zenon DEF PublisherRollsBack, stateVars
  <2>4. BuilderShape'
    BY <2>2 DEF BuilderShape, Absent
  <2> QED
    BY <1>4, <2>1, <2>2, <2>3, <2>4, MessagesDiffer DEF PublisherStep, Committed
<1>5. CASE ConnectionLost \/ ConnectionRestored \/ UNCHANGED vars
  <2>1. UNCHANGED <<spVars, inbox, pending, current, proc, cmd, sweep, conf, pool,
                    nonceVars>>
    BY <1>5, Zenon DEF ConnectionLost, ConnectionRestored, vars, netVars,
       stateVars,
                poolVars
  <2> QED
    BY <2>1, Zenon DEF PublisherStep, PublisherShape, BuilderShape, Committed,
       spVars
<1> QED
  BY <1>1, <1>2, <1>3, <1>4, <1>5, Zenon DEF Publisher

(* handle_start_instance(): the XT it registers is new.                    *)
LEMMA StartInstanceStep ==
  ASSUME IInv, NEW x \in Xts, HandleStartInstance(x)
  PROVE  PendingStep
<1> USE DEF IInv, Shape, Once
<1>1. /\ StartMessage(x) \in inbox /\ StartMessage(x) \notin inbox'
      /\ inbox' \subseteq inbox
      /\ UNCHANGED <<spVars, current, cmd, sweep, conf, poolVars, nonceVars>>
  BY Zenon DEF HandleStartInstance, StartMessage
<1>2. TaskShape'
  <2>1. proc' \in [Xts -> Procs]
    BY Zenon DEF HandleStartInstance, TaskShape, Procs
  <2> QED
    BY <1>1, <2>1, Zenon DEF TaskShape
<1>3. CASE UNCHANGED pending
  BY <1>1, <1>2, <1>3, LoopsFrame, Zenon
     DEF PendingStep, PendingShape, UndecidedNotStale, Undecided
<1>4. CASE /\ Accepts(x) /\ x \notin DOMAIN pending
           /\ pending' = Put(x, NewXt(spAssigned[x].period))
  <2> DEFINE new == NewXt(spAssigned[x].period)
  <2>1. /\ new \in PendingXt /\ new.decision = "none" /\ ~new.confirmed
        /\ new.period = current /\ new.peer_vote = "none"
    BY <1>4, CoordinatorAssumption
       DEF Accepts, NewXt, PendingXt, PendingShape, Decisions
  <2>2. /\ DOMAIN pending' = DOMAIN pending \cup {x} /\ pending'[x] = new
        /\ \A y \in DOMAIN pending : pending'[y] = pending[y]
    BY <1>4, Zenon DEF Put
  <2> HIDE DEF new
  <2>3. PendingShape' /\ UndecidedNotStale'
    BY <1>1, <2>1, <2>2, CoordinatorAssumption
       DEF PendingShape, UndecidedNotStale, Undecided, PendingXt
  <2> QED
    BY <1>1, <1>2, <2>1, <2>2, <2>3, LoopsFrame, Zenon DEF PendingStep
<1> QED
  BY <1>3, <1>4, Zenon DEF HandleStartInstance

(* remove_pending_xt() and cleanup().                                      *)
LEMMA RemovalStep ==
  ASSUME IInv, NEW x \in Xts, UndoStart(x) \/ Cleanup(x)
  PROVE  PendingStep
<1> USE DEF IInv, Shape
<1>1. /\ UNCHANGED <<spVars, inbox, current, cmd, sweep, conf, poolVars, nonceVars>>
      /\ pending' = Without({x}) /\ proc' \in [Xts -> Procs]
  BY Zenon DEF UndoStart, Cleanup, netVars, TaskShape, Procs
<1>2. /\ DOMAIN pending' \subseteq DOMAIN pending
      /\ \A y \in DOMAIN pending' : pending'[y] = pending[y]
  BY <1>1, Zenon DEF Without
<1>3. PendingShape' /\ TaskShape' /\ UndecidedNotStale'
  BY <1>1, <1>2, Zenon DEF PendingShape, TaskShape, UndecidedNotStale, Undecided
<1> QED
  BY <1>1, <1>2, <1>3, LoopsFrame, Zenon DEF PendingStep

(* confirm_included_xts() under the lock.                                  *)
LEMMA ConfirmIncludedStep ==
  ASSUME IInv, NEW x \in Xts, ConfirmIncluded(x)
  PROVE  PendingStep
<1> USE DEF IInv, Shape
<1>1. /\ UNCHANGED <<spVars, inbox, current, proc, cmd, sweep, poolVars, nonceVars>>
      /\ conf[x] = "reported"
  BY Zenon DEF ConfirmIncluded, netVars
<1>2. /\ conf' \in [Xts -> Confs] /\ conf'[x] = "marked"
      /\ \A y \in Xts \ {x} : conf'[y] = conf[y]
  BY Zenon DEF ConfirmIncluded, TaskShape, Confs
<1>3. /\ DOMAIN pending' = DOMAIN pending
      /\ \A y \in DOMAIN pending \ {x} : pending'[y] = pending[y]
      /\ x \in DOMAIN pending =>
           /\ pending'[x] \in PendingXt
           /\ pending'[x].decision = pending[x].decision
           /\ pending'[x].period = pending[x].period
           /\ pending'[x].local_vote = pending[x].local_vote
           /\ pending'[x].peer_vote = pending[x].peer_vote
  BY Zenon DEF ConfirmIncluded, PendingShape, PendingXt
<1>4. PendingShape' /\ TaskShape' /\ UndecidedNotStale'
  BY <1>1, <1>2, <1>3 DEF PendingShape, TaskShape, UndecidedNotStale, Undecided
<1> QED
  BY <1>1, <1>2, <1>3, <1>4, LoopsFrame, Zenon DEF PendingStep

(* A loop starts with the XTs it is to abort.                              *)
LEMMA LoopStarts ==
  ASSUME NEW k \in SweepIds, NEW S \in SUBSET Xts, NEW V \in SUBSET Xts,
         sweep \in [SweepIds -> Sweeps],
         sweep' = [sweep EXCEPT ![k] = [on |-> TRUE, abort |-> S,
                                        freeing |-> {}, votes |-> V]]
  PROVE  /\ sweep' \in [SweepIds -> Sweeps]
         /\ \A j \in SweepIds : Swept(j)' \subseteq Swept(j) \cup S
<1> DEFINE loop == [on |-> TRUE, abort |-> S, freeing |-> {}, votes |-> V]
<1>1. loop \in Sweeps /\ loop.abort = S /\ loop.freeing = {}
  BY Zenon DEF Sweeps
<1>2. sweep' = [sweep EXCEPT ![k] = loop]
  BY Zenon
<1> HIDE DEF loop
<1>3. /\ sweep' \in [SweepIds -> Sweeps]
      /\ \A j \in SweepIds : sweep'[j] = IF j = k THEN loop ELSE sweep[j]
  BY <1>1, <1>2, Zenon
<1>4. \A j \in SweepIds : Swept(j)' \subseteq Swept(j) \cup S
  BY <1>1, <1>3, Zenon DEF Swept
<1> QED
  BY <1>3, <1>4, Zenon

(* handle_rollback() and handle_start_period().                            *)
LEMMA PeriodStep ==
  ASSUME IInv, NEW k \in SweepIds,
         HandleRollback \/ (k > 0 /\ HandleStartPeriod(k))
  PROVE  PendingStep
<1> USE CoordinatorAssumption DEF IInv, Shape
<1> DEFINE aborted(y) == RecordDecision(pending[y], "abort")
<1>1. /\ UNCHANGED <<spVars, proc, cmd, conf, poolVars, nonceVars>>
      /\ inbox' \subseteq inbox /\ DOMAIN pending' = DOMAIN pending
  BY Zenon DEF HandleRollback, HandleStartPeriod
<1>2. ASSUME NEW y \in DOMAIN pending
      PROVE  /\ aborted(y) \in PendingXt /\ aborted(y).decision = "abort"
             /\ aborted(y).peer_vote = pending[y].peer_vote
             /\ aborted(y).confirmed = pending[y].confirmed
  <2>1. pending[y] \in PendingXt
    BY Zenon DEF PendingShape
  <2> QED
    BY <2>1, Zenon DEF RecordDecision, PendingXt, Decisions
<1>3. CASE HandleRollback
  <2>1. (\A y \in DOMAIN pending : pending'[y] = aborted(y)) /\ current' = 0
    BY <1>3, Zenon DEF HandleRollback
  <2> HIDE DEF aborted
  <2>2. PendingShape' /\ UndecidedNotStale'
    BY <1>1, <1>2, <2>1 DEF PendingShape, UndecidedNotStale, Undecided
  <2>3. /\ sweep' \in [SweepIds -> Sweeps]
        /\ \A j \in SweepIds : Swept(j)' \subseteq Swept(j) \cup DOMAIN pending
    <3>1. /\ sweep \in [SweepIds -> Sweeps] /\ DOMAIN pending \cap Local \in SUBSET Xts
          /\ RollbackSweep \in SweepIds /\ {} \in SUBSET Xts
      BY DEF PendingShape, TaskShape, RollbackSweep, SweepIds
    <3>2. sweep' = [sweep EXCEPT ![RollbackSweep] =
                      [on |-> TRUE, abort |-> DOMAIN pending \cap Local,
                       freeing |-> {}, votes |-> {}]]
      BY <1>3, Zenon DEF HandleRollback
    <3>3. /\ sweep' \in [SweepIds -> Sweeps]
          /\ \A j \in SweepIds :
               Swept(j)' \subseteq Swept(j) \cup (DOMAIN pending \cap Local)
      BY <3>1, <3>2, LoopStarts, Zenon
    <3> QED
      BY <3>3, Zenon
  <2>4. LoopsAbort
    <3>1. DOMAIN pending \subseteq Aborted'
      BY <1>1, <1>2, <2>1, Zenon DEF Aborted
    <3> QED
      BY <1>3, <2>3, <3>1, Zenon DEF LoopsAbort
  <2> QED
    BY <1>1, <1>2, <1>3, <2>1, <2>2, <2>3, <2>4, ZenonT(30) DEF PendingStep, TaskShape
<1>4. CASE k > 0 /\ HandleStartPeriod(k)
  <2>1. /\ \A y \in DOMAIN pending :
             pending'[y] = IF y \in Stale(k) \cap Undecided THEN aborted(y)
                                                           ELSE pending[y]
        /\ current' = k
    BY <1>4, Zenon DEF HandleStartPeriod
  <2> HIDE DEF aborted
  <2>2. PendingShape'
    BY <1>1, <1>2, <2>1, ZenonT(30) DEF PendingShape, SweepIds
  <2>3. UndecidedNotStale'
    <3>1. \A y \in Undecided' :
            /\ y \in Undecided \ Stale(k) /\ pending'[y] = pending[y]
            /\ pending[y] \in PendingXt
      BY <1>1, <1>2, <2>1, Zenon DEF Undecided, PendingShape
    <3> QED
      BY <2>1, <3>1
         DEF Once, UndecidedUnreleased, Undecided, Stale, UndecidedNotStale,
             PendingXt, SweepIds
  <2>4. /\ sweep' \in [SweepIds -> Sweeps]
        /\ \A j \in SweepIds : Swept(j)' \subseteq Swept(j) \cup Stale(k)
    <3>1. /\ sweep \in [SweepIds -> Sweeps] /\ Stale(k) \cap Local \in SUBSET Xts
          /\ Stale(k) \cap Undecided \in SUBSET Xts
      BY Zenon DEF PendingShape, TaskShape, Stale, Undecided
    <3>2. sweep' = [sweep EXCEPT ![k] =
                      [on |-> TRUE, abort |-> Stale(k) \cap Local,
                       freeing |-> {}, votes |-> Stale(k) \cap Undecided]]
      BY <1>4, Zenon DEF HandleStartPeriod
    <3>3. /\ sweep' \in [SweepIds -> Sweeps]
          /\ \A j \in SweepIds :
               Swept(j)' \subseteq Swept(j) \cup (Stale(k) \cap Local)
      BY <3>1, <3>2, LoopStarts, Zenon
    <3> QED
      BY <3>3, Zenon
  <2>a. Stale(k) \subseteq Aborted'
    BY <1>1, <1>2, <2>1 DEF Stale, Undecided, PendingShape, PendingXt, Decisions,
                            Aborted
  <2>b. sweep'[RollbackSweep] = sweep[RollbackSweep]
    BY <1>4 DEF HandleStartPeriod, TaskShape, SweepIds, RollbackSweep
  <2>5. LoopsAbort
    BY <2>4, <2>a, <2>b, Zenon DEF LoopsAbort
  <2> QED
    BY <1>1, <1>2, <2>1, <2>2, <2>3, <2>4, <2>5, ZenonT(30) DEF PendingStep,
       TaskShape, Undecided
<1> QED
  BY <1>3, <1>4, Zenon

(* maybe_make_standalone_decision() keeps a decision, commits only on yes  *)
(* votes of both chains, and otherwise aborts or waits.                    *)
LEMMA DecisionOfVotes ==
  ASSUME NEW r \in PendingXt
  PROVE  /\ StandaloneDecision(r) \in Decisions
         /\ r.decision # "none" => StandaloneDecision(r) = r.decision
         /\ r.decision = "none" /\ StandaloneDecision(r) = "commit"
              => r.local_vote = "yes" /\ r.peer_vote = "yes"
<1>1. /\ r.local_vote \in {"none", "yes", "no"} /\ r.decision \in Decisions
      /\ r.peer_vote \in {"none", "yes", "no"}
  BY Zenon DEF PendingXt
<1> QED
  BY <1>1 DEF StandaloneDecision, Counted, Expected, Decisions

(* What the handlers that change a pending XT do to it.                    *)
LEMMA HandlersChange ==
  ASSUME IInv, NEW x \in Xts,
         \/ \E ok \in BOOLEAN, d \in DepCounts : ProcessXt(x, ok, d)
         \/ CastVote(x)
         \/ \E v \in PeerVotes : HandlePeerVote(x, v)
         \/ \E d \in {"commit", "abort"} : HandleDecided(x, d)
  PROVE  /\ ChangeFrame
         /\ UNCHANGED <<pending, cmd>> \/ \E r : Change(x, r)
<1>1. ASSUME NEW ok \in BOOLEAN, NEW n \in DepCounts, ProcessXt(x, ok, n)
      PROVE  /\ ChangeFrame
             /\ UNCHANGED <<pending, cmd>> \/ \E r : Change(x, r)
  <2>1. ChangeFrame /\ UNCHANGED cmd
    BY <1>1, Zenon DEF ProcessXt, ChangeFrame, netVars, IInv, Shape, TaskShape,
       Procs
  <2>2. CASE x \in DOMAIN pending /\ ok
    <3> DEFINE r == [pending[x] EXCEPT !.deps = n]
    <3>1. pending[x] \in PendingXt
      BY <2>2, Zenon DEF IInv, Shape, PendingShape
    <3>2. /\ r \in PendingXt /\ r.period = pending[x].period
          /\ r.decision = pending[x].decision
          /\ r.confirmed = pending[x].confirmed
          /\ r.local_vote = pending[x].local_vote
          /\ r.peer_vote = pending[x].peer_vote
      BY <3>1, Zenon DEF PendingXt
    <3>3. pending' = Put(x, r)
      BY <1>1, <2>2, Zenon DEF ProcessXt, Put
    <3> HIDE DEF r
    <3>4. Change(x, r)
      BY <2>1, <2>2, <3>2, <3>3, Zenon DEF Change
    <3> QED
      BY <2>1, <3>4, Zenon
  <2>3. CASE ~(x \in DOMAIN pending /\ ok)
    BY <1>1, <2>1, <2>3, Zenon DEF ProcessXt
  <2> QED
    BY <2>2, <2>3, Zenon
<1>2. ASSUME CastVote(x)
      PROVE  /\ ChangeFrame
             /\ UNCHANGED <<pending, cmd>> \/ \E r : Change(x, r)
  <2>1. ChangeFrame
    BY <1>2, Zenon DEF CastVote, ChangeFrame, netVars, IInv, Shape, TaskShape,
       Procs
  <2>2. CASE x \notin DOMAIN pending \/ pending[x].local_vote # "none"
    BY <1>2, <2>1, <2>2, Zenon DEF CastVote
  <2>3. CASE x \in DOMAIN pending /\ pending[x].local_vote = "none"
    <3> DEFINE q == [pending[x] EXCEPT !.local_vote = Ballot(proc[x] = "voteYes")]
               d == IF connected THEN q.decision ELSE StandaloneDecision(q)
               r == RecordDecision(q, d)
    <3>1. pending[x] \in PendingXt
      BY <2>3, Zenon DEF IInv, Shape, PendingShape
    <3>2. /\ q \in PendingXt /\ q.period = pending[x].period
          /\ q.decision = pending[x].decision
          /\ q.confirmed = pending[x].confirmed
          /\ q.peer_vote = pending[x].peer_vote
      BY <3>1, Zenon DEF PendingXt, Ballot
    <3>3. /\ pending' = Put(x, r)
          /\ cmd' = IF d = pending[x].decision THEN cmd
                    ELSE [cmd EXCEPT ![x] = Command(x, d, q.deps)]
      BY <1>2, <2>3, Zenon DEF CastVote
    <3> HIDE DEF q
    <3>4. /\ d \in Decisions /\ (q.decision # "none" => d = q.decision)
          /\ q.decision = "none" /\ d = "commit"
               => q.local_vote = "yes" /\ q.peer_vote = "yes"
      BY <3>2, DecisionOfVotes, Zenon DEF PendingXt
    <3> HIDE DEF d
    <3>5. /\ r \in PendingXt /\ r.period = q.period /\ r.decision = d
          /\ r.deps = q.deps /\ r.confirmed = q.confirmed
          /\ r.local_vote = q.local_vote /\ r.peer_vote = q.peer_vote
      BY <3>2, <3>4, Zenon DEF RecordDecision, PendingXt
    <3> HIDE DEF r
    <3>6. Change(x, r)
      BY <2>3, <3>2, <3>3, <3>4, <3>5, Zenon DEF Change
    <3> QED
      BY <2>1, <3>6, Zenon
  <2> QED
    BY <2>2, <2>3, Zenon
<1>3. ASSUME NEW v \in PeerVotes, HandlePeerVote(x, v)
      PROVE  ChangeFrame /\ \E r : Change(x, r)
  <2> DEFINE q == [pending[x] EXCEPT !.peer_vote = Ballot(v)]
             d == StandaloneDecision(q)
             r == RecordDecision(q, d)
  <2>1. ChangeFrame
    BY <1>3, Zenon DEF HandlePeerVote, ChangeFrame, netVars, IInv, Shape,
       TaskShape
  <2>2. /\ x \in DOMAIN pending /\ pending[x].decision = "none"
        /\ pending[x].peer_vote = "none" /\ PeerVotes # {}
    BY <1>3, Zenon DEF HandlePeerVote, Undecided
  <2>3. pending[x] \in PendingXt
    BY <2>2, Zenon DEF IInv, Shape, PendingShape
  <2>4. /\ q \in PendingXt /\ q.period = pending[x].period
        /\ q.decision = "none" /\ q.confirmed = pending[x].confirmed
        /\ q.local_vote = pending[x].local_vote
    BY <2>2, <2>3, Zenon DEF PendingXt, Ballot
  <2>5. /\ pending' = Put(x, r)
        /\ cmd' = IF d = "none" THEN cmd
                  ELSE [cmd EXCEPT ![x] = Command(x, d, q.deps)]
    BY <1>3, Zenon DEF HandlePeerVote
  <2> HIDE DEF q
  <2>6. /\ d \in Decisions
        /\ d = "commit" => q.local_vote = "yes" /\ q.peer_vote = "yes"
    BY <2>4, DecisionOfVotes, Zenon
  <2> HIDE DEF d
  <2>7. /\ r \in PendingXt /\ r.period = q.period /\ r.decision = d
        /\ r.deps = q.deps /\ r.confirmed = q.confirmed
        /\ r.local_vote = q.local_vote /\ r.peer_vote = q.peer_vote
    BY <2>4, <2>6, Zenon DEF RecordDecision, PendingXt
  <2> HIDE DEF r
  <2>8. Change(x, r)
    BY <2>2, <2>4, <2>5, <2>6, <2>7, Zenon DEF Change
  <2> QED
    BY <2>1, <2>8, Zenon
<1>4. ASSUME NEW d \in {"commit", "abort"}, HandleDecided(x, d)
      PROVE  /\ ChangeFrame
             /\ UNCHANGED <<pending, cmd>> \/ \E r : Change(x, r)
  <2>1. ChangeFrame /\ DecidedMessage(x, d) \in inbox
    BY <1>4, Zenon DEF HandleDecided, DecidedMessage, ChangeFrame, IInv,
       Shape, TaskShape
  <2>2. CASE x \in Undecided
    <3> DEFINE r == RecordDecision(pending[x], d)
    <3>1. x \in DOMAIN pending /\ pending[x].decision = "none"
      BY <2>2, Zenon DEF Undecided
    <3>2. pending[x] \in PendingXt
      BY <3>1, Zenon DEF IInv, Shape, PendingShape
    <3>3. /\ r \in PendingXt /\ r.period = pending[x].period /\ r.decision = d
          /\ r.deps = pending[x].deps /\ r.confirmed = pending[x].confirmed
          /\ r.local_vote = pending[x].local_vote
          /\ r.peer_vote = pending[x].peer_vote
      BY <3>2, Zenon DEF RecordDecision, PendingXt, Decisions
    <3>4. /\ pending' = Put(x, r)
          /\ cmd' = [cmd EXCEPT ![x] = Command(x, d, pending[x].deps)]
      BY <1>4, <2>2, Zenon DEF HandleDecided
    <3> HIDE DEF r
    <3>5. Change(x, r)
      BY <2>1, <3>1, <3>3, <3>4, Zenon DEF Change
    <3> QED
      BY <2>1, <3>5, Zenon
  <2>3. CASE x \notin Undecided
    BY <1>4, <2>1, <2>3, Zenon DEF HandleDecided
  <2> QED
    BY <2>2, <2>3, Zenon
<1> QED
  BY <1>1, <1>2, <1>3, <1>4, Zenon

(* submit_xt_to_builder().                                                 *)
LEMMA SubmitStep ==
  ASSUME TaskShape, BuilderShape, NEW x \in Xts, NEW o \in Outcomes, SubmitXt(x, o)
  PROVE  BuilderStep
<1>1. UNCHANGED <<spVars, inbox, pending, current, cmd, sweep, conf, live>>
  BY Zenon DEF SubmitXt, netVars, stateVars, nonceVars
<1>2. proc' \in [Xts -> Procs]
  BY Zenon DEF SubmitXt, TaskShape, Procs, AfterSubmit
<1>3. /\ DOMAIN pool' = Xts
      /\ \A y \in Xts : /\ DOMAIN pool'[y] = DOMAIN pool[y]
                        /\ \/ pool'[y] = pool[y]
                           \/ pool[y].st = "absent" /\ pool'[y].st = "locked"
  BY Zenon DEF SubmitXt, BuilderShape
<1> QED
  BY <1>1, <1>2, <1>3, LoopsFrame, Zenon DEF BuilderStep, TaskShape,
     BuilderShape, Unreleased, Ranges

(* reject_start_instance() and the end of send_vote().                     *)
LEMMA SendStep ==
  ASSUME TaskShape, BuilderShape, NEW x \in Xts, RejectStart(x) \/ SendVote(x)
  PROVE  BuilderStep
<1>1. /\ UNCHANGED <<spVars, inbox, stateVars, cmd, sweep, conf, poolVars, nonceVars>>
      /\ proc' = [proc EXCEPT ![x] = "idle"]
  BY Zenon DEF RejectStart, SendVote
<1> QED
  BY <1>1, LoopsFrame, Zenon DEF BuilderStep, TaskShape, BuilderShape, Unreleased, Ranges,
     Procs,
              stateVars, poolVars, nonceVars

(* build_put_inbox_transactions(): only x, which is decided, gains a range *)
(* of nonces.                                                              *)
LEMMA BuildPutInboxStep ==
  ASSUME TaskShape, BuilderShape, NEW x \in Xts, NEW o \in BuildOutcomes,
         BuildPutInbox(x, o)
  PROVE  BuilderStep
<1>1. /\ UNCHANGED <<spVars, inbox, pending, current, proc, sweep, conf, pool>>
      /\ cmd[x].pc = "reserve"
  BY Zenon DEF BuildPutInbox, netVars, stateVars, poolVars
<1>2. /\ DOMAIN cmd' = Xts /\ DOMAIN cmd'[x] = {"pc", "deps", "start", "end"}
      /\ cmd'[x].pc \in {"idle", "release", "free"}
      /\ cmd'[x].deps \in DepCounts \cup {0}
      /\ \A y \in Xts \ {x} : cmd'[y] = cmd[y]
  <2>1. CASE cmd' = [cmd EXCEPT ![x] = NoCmd]
    BY <2>1, Zenon DEF TaskShape, NoCmd
  <2>2. CASE o # "fetchFails"
    <3> DEFINE r == CHOOSE r \in live' : r.id = x
               pc == IF o = "ok" THEN "release" ELSE "free"
    <3>1. cmd' = [cmd EXCEPT ![x].pc = pc, ![x].start = r.start, ![x].end = r.end]
      BY <2>2, Zenon DEF BuildPutInbox
    <3>2. pc \in {"release", "free"}
      BY Zenon
    <3> HIDE DEF r, pc
    <3> QED
      BY <3>1, <3>2, Zenon DEF TaskShape
  <2> QED
    BY <2>1, <2>2, Zenon DEF BuildPutInbox
<1>3. \A y \in Xts \ {x} : Ranges(y)' \subseteq Ranges(y)
  <2>1. UNCHANGED nonceVars \/ NM!Reserve(x, cmd[x].deps, chainNonce)
    BY Zenon DEF BuildPutInbox
  <2> QED
    BY <2>1 DEF nonceVars, NM!Reserve, NM!Kept, Ranges
<1> QED
  BY <1>1, <1>2, <1>3, LoopsFrame, ZenonT(30) DEF BuilderStep, TaskShape, BuilderShape,
     Unreleased

(* release_xt().                                                           *)
LEMMA ReleaseStep ==
  ASSUME TaskShape, BuilderShape, NEW x \in Xts, NEW o \in Outcomes,
         ReleaseXt(x, o)
  PROVE  BuilderStep
<1>1. /\ UNCHANGED <<spVars, inbox, pending, current, proc, sweep, conf, live>>
      /\ cmd[x].pc = "release"
  BY Zenon DEF ReleaseXt, netVars, stateVars, nonceVars
<1>2. /\ DOMAIN cmd' = Xts /\ DOMAIN cmd'[x] = {"pc", "deps", "start", "end"}
      /\ cmd'[x].pc \in {"idle", "free"} /\ cmd'[x].deps = 0
      /\ \A y \in Xts \ {x} : cmd'[y] = cmd[y]
  BY Zenon DEF ReleaseXt, AfterRelease, TaskShape, NoCmd
<1>3. /\ DOMAIN pool' = Xts /\ DOMAIN pool'[x] = {"st", "start", "end"}
      /\ pool'[x].st \in {pool[x].st, "released"}
      /\ \A y \in Xts \ {x} : pool'[y] = pool[y]
  BY Zenon DEF ReleaseXt, BuilderShape
<1> QED
  BY <1>1, <1>2, <1>3, LoopsFrame DEF BuilderStep, TaskShape, BuilderShape, Unreleased, Ranges

(* abort_xt() for a decision, and release_aborted() for a command.         *)
LEMMA AbortStep ==
  ASSUME TaskShape, BuilderShape, NEW x \in Xts,
         (\E o \in Outcomes : AbortXt(x, o)) \/ FreeNonces(x)
  PROVE  BuilderStep
<1>1. /\ UNCHANGED <<spVars, inbox, pending, current, proc, sweep, conf>>
      /\ cmd[x].pc \in {"abort", "free"} /\ live' \subseteq live
      /\ UNCHANGED pool \/ Drop(x)
  BY Zenon DEF AbortXt, FreeNonces, NM!ReleaseAborted, netVars, stateVars,
     nonceVars, poolVars
<1>2. /\ DOMAIN cmd' = Xts /\ DOMAIN cmd'[x] = {"pc", "deps", "start", "end"}
      /\ cmd'[x].pc \in {"idle", "free"} /\ cmd'[x].deps \in DepCounts \cup {0}
      /\ \A y \in Xts \ {x} : cmd'[y] = cmd[y]
  BY DEF AbortXt, FreeNonces, TaskShape, NoCmd
<1>3. /\ DOMAIN pool' = Xts /\ \A y \in Xts \ {x} : pool'[y] = pool[y]
      /\ pool'[x] = pool[x] \/ pool'[x] = Absent
  BY <1>1, Zenon DEF Drop, BuilderShape
<1>4. Absent.st = "absent" /\ DOMAIN Absent = {"st", "start", "end"}
  BY Zenon DEF Absent
<1>5. TaskShape' /\ BuilderShape'
  BY <1>1, <1>2, <1>3, <1>4 DEF TaskShape, BuilderShape
<1>6. \A y \in Xts : Unreleased(y) => Unreleased(y)'
  BY <1>1, <1>2, <1>3, <1>4, Zenon DEF Unreleased, Ranges
<1> QED
  BY <1>1, <1>2, <1>3, <1>4, <1>5, <1>6, LoopsFrame, Zenon DEF BuilderStep,
     Ranges

(* The rounds and the ends of the abort loops.                             *)
LEMMA SweepsStep ==
  ASSUME TaskShape, BuilderShape, NEW k \in SweepIds,
         \/ \E x \in Xts : \/ \E o \in Outcomes : SweepAbort(k, x, o)
                           \/ SweepFree(k, x)
                           \/ SweepVote(k, x)
         \/ SweepEnd(k)
  PROVE  BuilderStep
<1> DEFINE Left == {s \in Sweeps : /\ s.abort \cup s.freeing \subseteq Swept(k)
                                   /\ s.on => sweep[k].on}
<1>1. \E s \in Left : sweep' = [sweep EXCEPT ![k] = s]
  <2>1. sweep[k] \in Sweeps /\ DOMAIN sweep = SweepIds
    BY Zenon DEF TaskShape
  <2>2. /\ NoSweep \in Left
        /\ \A x \in Xts :
             /\ x \in sweep[k].abort => [sweep[k] EXCEPT !.freeing = {x}] \in Left
             /\ [sweep[k] EXCEPT !.freeing = {}, !.abort = @ \ {x}] \in Left
             /\ [sweep[k] EXCEPT !.votes = @ \ {x}] \in Left
    <3> DEFINE w == sweep[k]
    <3>1. /\ NoSweep \in Sweeps /\ NoSweep.abort \cup NoSweep.freeing = {}
          /\ ~NoSweep.on
          /\ Swept(k) = w.abort \cup w.freeing
      BY Zenon DEF NoSweep, Sweeps, Swept
    <3>2. ASSUME NEW x \in Xts, NEW s \in Sweeps,
                 \/ s = [w EXCEPT !.freeing = {x}] /\ x \in w.abort
                 \/ s = [w EXCEPT !.freeing = {}, !.abort = @ \ {x}]
                 \/ s = [w EXCEPT !.votes = @ \ {x}]
          PROVE  s.abort \cup s.freeing \subseteq w.abort \cup w.freeing /\ s.on = w.on
      BY <2>1, <3>2, ZenonT(30) DEF Sweeps
    <3>3. \A x \in Xts :
            /\ [w EXCEPT !.freeing = {x}] \in Sweeps
            /\ [w EXCEPT !.freeing = {}, !.abort = @ \ {x}] \in Sweeps
            /\ [w EXCEPT !.votes = @ \ {x}] \in Sweeps
      BY <2>1, Zenon DEF Sweeps
    <3> QED
      BY <3>1, <3>2, <3>3, Zenon
  <2>3. ASSUME NEW x \in Xts, NEW o \in Outcomes, SweepAbort(k, x, o)
        PROVE  \E s \in Left : sweep' = [sweep EXCEPT ![k] = s]
    BY <2>1, <2>2, <2>3, Zenon DEF SweepAbort
  <2>4. ASSUME NEW x \in Xts, SweepFree(k, x)
        PROVE  sweep' = [sweep EXCEPT ![k] = [sweep[k] EXCEPT !.freeing = {},
                                                              !.abort = @ \ {x}]]
    BY <2>1, <2>4, Zenon DEF SweepFree
  <2>5. ASSUME NEW x \in Xts, SweepVote(k, x)
        PROVE  sweep' = [sweep EXCEPT ![k] = [sweep[k] EXCEPT !.votes = @ \ {x}]]
    BY <2>1, <2>5, Zenon DEF SweepVote
  <2>6. ASSUME SweepEnd(k) PROVE sweep' = [sweep EXCEPT ![k] = NoSweep]
    BY <2>6, Zenon DEF SweepEnd
  <2> QED
    BY <2>2, <2>3, <2>4, <2>5, <2>6, Zenon
<1>2. /\ sweep' \in [SweepIds -> Sweeps]
      /\ LoopsShrink
  <2>1. PICK s \in Left : sweep' = [sweep EXCEPT ![k] = s]
    BY <1>1, Zenon
  <2>2. /\ sweep'[k] = s /\ \A j \in SweepIds \ {k} : sweep'[j] = sweep[j]
        /\ s.abort \cup s.freeing \subseteq Swept(k) /\ (s.on => sweep[k].on)
    <3>1. DOMAIN sweep = SweepIds
      BY Zenon DEF TaskShape
    <3>2. sweep'[k] = s /\ \A j \in SweepIds \ {k} : sweep'[j] = sweep[j]
      BY <2>1, <3>1, Zenon
    <3>3. s.abort \cup s.freeing \subseteq Swept(k) /\ (s.on => sweep[k].on)
      BY <2>1, Zenon
    <3> QED
      BY <3>2, <3>3, Zenon
  <2>3. RollbackSweep \in SweepIds
    BY CoordinatorAssumption DEF RollbackSweep, SweepIds
  <2>4. ASSUME NEW j \in SweepIds PROVE Swept(j)' \subseteq Swept(j)
    <3>1. CASE j = k
      BY <2>2, <3>1, Zenon DEF Swept
    <3>2. CASE j # k
      BY <2>2, <3>2, Zenon DEF Swept
    <3> QED
      BY <3>1, <3>2, Zenon
  <2>5. sweep'[RollbackSweep].on => sweep[RollbackSweep].on
    <3>1. CASE RollbackSweep = k
      BY <2>2, <3>1, Zenon
    <3>2. CASE RollbackSweep # k
      BY <2>2, <2>3, <3>2, Zenon
    <3> QED
      BY <3>1, <3>2, Zenon
  <2> QED
    BY <2>1, <2>4, <2>5, Zenon DEF TaskShape, LoopsShrink
<1>3. ASSUME NEW x \in Xts, SweepVote(k, x)
      PROVE  UNCHANGED <<spVars, inbox, stateVars, proc, cmd, conf, poolVars,
                         nonceVars>>
  BY <1>3, Zenon DEF SweepVote
<1>4. /\ UNCHANGED <<spVars, inbox, pending, current, proc, cmd, conf>>
      /\ live' \subseteq live
      /\ UNCHANGED pool \/ \E x \in Xts : Drop(x)
  BY <1>3, Zenon DEF SweepAbort, SweepFree, SweepEnd, EndNonces,
     NM!ReleaseAborted, NM!Reset, netVars, stateVars, poolVars, nonceVars
<1>5. /\ DOMAIN pool' = Xts
      /\ \A y \in Xts : pool'[y] = pool[y] \/ pool'[y] = Absent
  BY <1>4, Zenon DEF Drop, BuilderShape
<1>6. Absent.st = "absent" /\ DOMAIN Absent = {"st", "start", "end"}
  BY Zenon DEF Absent
<1> QED
  BY <1>2, <1>4, <1>5, <1>6, Zenon
     DEF BuilderStep, TaskShape, BuilderShape, Unreleased, Ranges

(* The builder's inclusion of a released XT, and its confirmation at the   *)
(* nonce manager: such an XT is decided, or no longer pending.             *)
LEMMA InclusionStep ==
  ASSUME IInv, NEW x \in Xts, BuilderIncludes(x) \/ ConfirmNonces(x)
  PROVE  BuilderStep
<1> USE DEF IInv, Shape
<1>1. /\ UNCHANGED <<spVars, inbox, pending, current, proc, cmd, sweep>>
      /\ \/ pool[x].st = "released"
         \/ conf[x] = "marked" /\ UNCHANGED pool
      /\ live' \subseteq live
  BY Zenon DEF BuilderIncludes, ConfirmNonces, NM!ReleaseConfirmed, netVars,
     stateVars, nonceVars, poolVars
<1>2. /\ DOMAIN pool' = Xts /\ DOMAIN pool'[x] = DOMAIN pool[x]
      /\ pool'[x].st \in {pool[x].st, "included"}
      /\ \A y \in Xts \ {x} : pool'[y] = pool[y]
      /\ conf' \in [Xts -> Confs] /\ \A y \in Xts \ {x} : conf'[y] = conf[y]
  BY DEF BuilderIncludes, ConfirmNonces, BuilderShape, TaskShape, Confs, poolVars
<1>3. cmd[x].pc \notin {"reserve", "release"} /\ ~Unreleased(x)
  BY <1>1, Zenon DEF Once, CommandedOnce, Unreleased
<1> QED
  BY <1>1, <1>2, <1>3, LoopsFrame, ZenonT(30) DEF BuilderStep, TaskShape, BuilderShape,
     Unreleased, Ranges
-----------------------------------------------------------------------------
(* The invariant holds when the sidecar starts, with nothing pending.      *)
LEMMA InitIInv == Init => IInv
<1> SUFFICES ASSUME Init PROVE IInv
  BY Zenon
<1> USE CoordinatorAssumption
<1>1. PublisherShape
  <2>1. spAssigned = [x \in Xts |-> [period |-> 0, seq |-> 0]]
    BY Zenon DEF Init
  <2>2. DOMAIN spAssigned = Xts /\ \A x \in Xts : spAssigned[x].period = 0
    BY <2>1, Zenon
  <2>3. spDecision \in [Xts -> {"none", "commit", "abort", "void"}]
    BY Zenon DEF Init
  <2>4. /\ spPeriod \in 0 .. MaxPeriod
        /\ \A x \in Xts : spAssigned[x].period \in 0 .. MaxPeriod
    BY <2>2 DEF Init
  <2>5. spOpen = FALSE
    BY Zenon DEF Init
  <2> QED
    BY <2>2, <2>3, <2>4, <2>5, Zenon DEF PublisherShape
<1>2. DOMAIN pending = {} /\ PendingShape
  <2>1. DOMAIN pending = {} /\ current = 0
    BY Zenon DEF Init
  <2> QED
    BY <2>1 DEF PendingShape
<1>3. /\ DOMAIN NoCmd = {"pc", "deps", "start", "end"}
      /\ NoCmd.pc = "idle" /\ NoCmd.deps = 0
  BY Zenon DEF NoCmd
<1>4. Absent.st = "absent" /\ DOMAIN Absent = {"st", "start", "end"}
  BY Zenon DEF Absent
<1>5. NoSweep \in Sweeps
  BY Zenon DEF NoSweep, Sweeps
<1>6. TaskShape
  BY <1>3, <1>5, Zenon DEF Init, TaskShape, Procs, Confs
<1>7. BuilderShape
  BY <1>4, Zenon DEF Init, BuilderShape
<1>8. \A x \in Xts : Unreleased(x)
  BY <1>3, <1>4, Zenon DEF Init, NM!Init, Unreleased, Ranges
<1>9. Once /\ UndecidedNotStale
  BY <1>2, <1>3, <1>8, Zenon
     DEF Init, Once, Fresh, StartedAssigned, UndecidedUnreleased, Undecided,
         CommandedOnce, UndecidedNotStale
<1> QED
  BY <1>1, <1>2, <1>6, <1>7, <1>9, Zenon DEF IInv, Shape

(* Every step is of one of the classes.                                    *)
LEMMA StepClasses ==
  ASSUME IInv, [Next]_vars
  PROVE  \/ PublisherStep \/ PendingStep \/ BuilderStep
         \/ \E x, r : Change(x, r) /\ ChangeFrame
<1> DEFINE Classified == \/ PublisherStep \/ PendingStep \/ BuilderStep
                         \/ \E x, r : Change(x, r) /\ ChangeFrame
<1>1. TaskShape /\ BuilderShape
  BY Zenon DEF IInv, Shape
<1>2. ASSUME NEW x \in Xts,
             \/ \E ok \in BOOLEAN, d \in DepCounts : ProcessXt(x, ok, d)
             \/ CastVote(x)
             \/ \E v \in PeerVotes : HandlePeerVote(x, v)
             \/ \E d \in {"commit", "abort"} : HandleDecided(x, d)
      PROVE  Classified
  <2>1. /\ ChangeFrame
        /\ UNCHANGED <<pending, cmd>> \/ \E r : Change(x, r)
    BY <1>2, HandlersChange, Zenon
  <2>2. CASE UNCHANGED <<pending, cmd>>
    BY <1>1, <2>1, <2>2, LoopsFrame, Zenon
       DEF ChangeFrame, PendingStep, IInv, Shape, PendingShape, TaskShape,
           UndecidedNotStale, Undecided
  <2> QED
    BY <2>1, <2>2, Zenon
<1>3. ASSUME NEW x \in Xts, HandlerStep(x) PROVE Classified
  BY <1>1, <1>2, <1>3, StartInstanceStep, RemovalStep, ConfirmIncludedStep,
     SubmitStep, SendStep, BuildPutInboxStep, ReleaseStep, AbortStep,
     InclusionStep, Zenon DEF HandlerStep
<1>4. ASSUME NEW k \in SweepIds, SweepStep(k) PROVE Classified
  BY <1>1, <1>4, PeriodStep, SweepsStep, Zenon DEF SweepStep
<1> QED
  BY <1>2, <1>3, <1>4, PublisherSteps, RemovalStep, InclusionStep, Zenon
     DEF Next

(* Every step keeps the invariant.                                         *)
LEMMA NextIInv == IInv /\ [Next]_vars => IInv'
BY StepClasses, PublisherStepIInv, PendingStepIInv, BuilderStepIInv,
   ChangeIInv, Zenon

(* The shapes of the state and what the handlers rely on about each XT     *)
(* hold of every reachable state.                                          *)
THEOREM CoordinatorInvariant == Spec => []IInv
<1> QED
  BY InitIInv, NextIInv, PTL DEF Spec

(* In any interleaving of StartPeriod, StartInstance, vote and decision    *)
(* tasks, no undecided XT of an older period than the current one exists:  *)
(* handle_start_period() aborts them, handle_start_instance() admits none. *)
THEOREM UndecidedNeverStale == Spec => []UndecidedNotStale
<1>1. IInv => UndecidedNotStale
  BY Zenon DEF IInv
<1> QED
  BY <1>1, CoordinatorInvariant, PTL

(* A commit in the table stays backed by the publisher or by both votes.   *)
LEMMA NextCommitBacked == IInv /\ CommitBacked /\ [Next]_vars => CommitBacked'
<1> SUFFICES ASSUME IInv, CommitBacked, [Next]_vars PROVE CommitBacked'
  BY Zenon
<1> USE DEF CommitBacked, LocalCommitUnanimous, Committed
<1>1. DOMAIN pending \subseteq Xts
  BY Zenon DEF IInv, Shape, PendingShape
<1>2. CASE PublisherStep
  BY <1>1, <1>2, Zenon DEF PublisherStep
<1>3. CASE PendingStep
  BY <1>1, <1>3 DEF PendingStep, spVars
<1>4. CASE BuilderStep
  BY <1>4, Zenon DEF BuilderStep, spVars
<1>5. ASSUME NEW x, NEW r, Change(x, r), ChangeFrame PROVE CommitBacked'
  <2>1. /\ x \in DOMAIN pending /\ DOMAIN pending' = DOMAIN pending
        /\ pending'[x] = r
        /\ \A y \in DOMAIN pending \ {x} : pending'[y] = pending[y]
        /\ UNCHANGED spVars /\ inbox' \subseteq inbox
    BY <1>5, Zenon DEF Change, Put, ChangeFrame
  <2>2. r.decision = "commit" /\ ~Committed(x)
          => r.local_vote = "yes" /\ r.peer_vote = "yes"
    BY <1>1, <1>5, Zenon DEF Change
  <2> QED
    BY <2>1, <2>2, Zenon DEF spVars
<1> QED
  BY <1>2, <1>3, <1>4, <1>5, StepClasses, Zenon

(* Whatever order the publisher's decision, this sidecar's vote, the       *)
(* peer's vote, new periods, rollbacks and losses of the connection come   *)
(* in, a commit held against the publisher has a yes of both chains.       *)
THEOREM LocalCommitsUnanimous == Spec => []LocalCommitUnanimous
<1>1. Init => CommitBacked
  BY Zenon DEF Init, CommitBacked, LocalCommitUnanimous
<1>2. CommitBacked => LocalCommitUnanimous
  BY Zenon DEF CommitBacked
<1> QED
  BY <1>1, <1>2, NextCommitBacked, CoordinatorInvariant, PTL DEF Spec

(* A decision recorded for a pending XT is not changed by any handler,     *)
(* save handle_rollback().                                                 *)
THEOREM DecisionsFinal == Spec => DecisionFinal
<1> DEFINE A ==
      \A x \in DOMAIN pending \cap DOMAIN pending' :
        pending[x].decision # "none" /\ pending'[x].decision # pending[x].decision
          => HandleRollback
<1>1. IInv /\ [Next]_vars => [A]_vars
  <2> SUFFICES ASSUME IInv, [Next]_vars PROVE A
    BY Zenon
  <2>1. ASSUME NEW x, NEW r, Change(x, r) PROVE A
    BY <2>1, Zenon DEF Change, Put
  <2> QED
    BY <2>1, StepClasses, Zenon DEF PublisherStep, PendingStep, BuilderStep
<1> QED
  BY <1>1, CoordinatorInvariant, PTL DEF Spec, DecisionFinal

(* Without peer votes a sidecar commits an XT, and the builder releases    *)
(* it, only if the publisher committed it.                                 *)
THEOREM CommitsOnlyWithPublisher ==
  ASSUME PeerVotes = {}
  PROVE  Spec => []CommitOnlyIfPublisherCommits
<1> DEFINE J == CommitBacked /\ PeersSilent /\ ReleaseBacked
<1>1. Init => J
  <2>1. Init => CommitBacked /\ PeersSilent
    BY Zenon DEF Init, CommitBacked, LocalCommitUnanimous, PeersSilent
  <2>2. Init => ReleaseBacked
    BY DEF Init, ReleaseBacked, NoCmd, Absent
  <2> QED
    BY <2>1, <2>2, Zenon
<1>2. IInv /\ J /\ [Next]_vars => J'
  <2> SUFFICES ASSUME IInv, J, [Next]_vars PROVE PeersSilent' /\ ReleaseBacked'
    BY NextCommitBacked, Zenon
  <2> USE DEF PeersSilent, ReleaseBacked
  <2>1. CASE PublisherStep
    BY <2>1, Zenon DEF PublisherStep, Absent
  <2>2. CASE PendingStep
    BY <2>2, Zenon DEF PendingStep, poolVars, spVars, Committed
  <2>3. CASE BuilderStep
    BY <2>3, Zenon DEF BuilderStep, spVars, Committed
  <2>4. ASSUME NEW x, NEW r, Change(x, r), ChangeFrame
        PROVE  PeersSilent' /\ ReleaseBacked'
    <3>1. /\ x \in Xts /\ x \in DOMAIN pending
          /\ DOMAIN pending' = DOMAIN pending /\ pending'[x] = r
          /\ \A y \in DOMAIN pending \ {x} : pending'[y] = pending[y]
          /\ UNCHANGED <<spVars, pool>>
      BY <2>4, Zenon DEF Change, Put, ChangeFrame, poolVars, IInv, Shape,
         PendingShape
    <3>p. r.peer_vote = "none"
      BY <2>4, <3>1, Zenon DEF Change
    <3>2. r.decision = "commit" => Committed(x)
      BY <2>4, <3>1, <3>p, ZenonT(30)
         DEF Change, CommitBacked, LocalCommitUnanimous, Committed
    <3>3. PeersSilent'
      BY <3>1, <3>p, Zenon
    <3>4. CASE UNCHANGED cmd
      BY <3>1, <3>3, <3>4, Zenon DEF Committed, spVars
    <3>5. CASE /\ r.decision # "none"
               /\ cmd' = [cmd EXCEPT ![x] = Command(x, r.decision, r.deps)]
      <4>1. r.decision \in {"commit", "abort"} /\ r.deps \in DepCounts \cup {0}
        BY <2>4, <3>5, Zenon DEF Change, PendingXt, Decisions
      <4>2. /\ cmd'[x] = Command(x, r.decision, r.deps)
            /\ \A y \in Xts \ {x} : cmd'[y] = cmd[y]
        BY <3>1, <3>5, Zenon DEF IInv, Shape, TaskShape
      <4>c. Command(x, r.decision, r.deps).pc \in {"reserve", "release"}
              => r.decision = "commit"
        BY <3>1, <4>1, CommandShape, Zenon
      <4>3. cmd'[x].pc \in {"reserve", "release"} => Committed(x)
        BY <3>2, <4>2, <4>c, Zenon
      <4> QED
        BY <3>1, <3>3, <4>2, <4>3, Zenon DEF Committed, spVars
    <3> QED
      BY <2>4, <3>4, <3>5, Zenon DEF Change
  <2> QED
    BY <2>1, <2>2, <2>3, <2>4, StepClasses, Zenon
<1>3. IInv /\ J => CommitOnlyIfPublisherCommits
  BY Zenon DEF IInv, Shape, PendingShape, CommitBacked, LocalCommitUnanimous,
         PeersSilent, ReleaseBacked, Committed, CommitOnlyIfPublisherCommits
<1> QED
  BY <1>1, <1>2, <1>3, CoordinatorInvariant, PTL DEF Spec
-----------------------------------------------------------------------------
(***************************************************************************)
(* The putInbox nonce lane: what the reservations at the nonce manager     *)
(* have to do with the commands to the builder, with its pool and with its *)
(* chain.                                                                  *)
(*                                                                         *)
(* The coordinator is shown to use the nonce manager as NonceManager says, *)
(* one reservation per XT at a time, so that everything proved about the   *)
(* nonce manager holds inside the coordinator.  On top of that come the    *)
(* two promises of the lane: a handled rollback re-anchors it at the       *)
(* chain, and the builder never holds a putInbox transaction it cannot     *)
(* include.                                                                *)
(*                                                                         *)
(* By its effect on the lane a step is quiet (QuietLane), a reservation, a *)
(* release of aborted nonces, a confirmation, a reset, an inclusion or the *)
(* publisher's rollback.                                                   *)
(***************************************************************************)

(* Is a rollback of the publisher still to be answered?                    *)
Rewinding == RollbackMessage \in inbox \/ sweep[RollbackSweep].on

Anchored == rolledBack => ~Rewinding

(* An XT that is aborted, or whose nonces are being freed, is not at the   *)
(* builder and never will be, as long as nothing is rolled back.           *)
Dead(x) ==
  /\ StartMessage(x) \notin inbox /\ spAssigned[x].period > 0
  /\ x \in DOMAIN pending => pending[x].decision = "abort"
  /\ cmd[x].pc \notin {"reserve", "release"}
  /\ pool[x].st \notin {"released", "included"}

AbortedDead ==
  \A x \in Xts :
    x \in Aborted \/ cmd[x].pc = "abort" \/ (\E k \in SweepIds : x \in Swept(k))
      => Dead(x)

NoRollback == ~rolledBack /\ ~Rewinding
-----------------------------------------------------------------------------
(* The effects of a step on the lane.                                      *)

(* The nonce manager and the chain stay.  A command to release an XT comes *)
(* with no nonces yet; an XT enters the pool as released with the nonces   *)
(* of its command; and, unless a release was applied whose answer did not  *)
(* come, the nonces of no released XT are about to be freed.               *)
QuietLane ==
  /\ UNCHANGED <<chainNonce, nonceVars>>
  /\ \A y \in Xts :
       /\ cmd'[y].pc = "release" =>
            \/ cmd'[y] = cmd[y]
            \/ Ranges(y) = {} /\ cmd'[y].start = 0 /\ cmd'[y].end = 0
       /\ pool'[y].st = "released" =>
            \/ pool'[y] = pool[y]
            \/ /\ cmd[y].pc = "release"
               /\ pool'[y].start = cmd[y].start /\ pool'[y].end = cmd[y].end
       /\ cmd'[y].pc = "free" /\ pool'[y].st = "released" =>
            \/ cmd[y].pc = "free" /\ pool[y].st = "released"
            \/ "late" \in FaultKinds
       /\ conf'[y] \in {"reported", "marked"} => conf[y] \in {"reported", "marked"}
       /\ pool[y].st = "included" => pool'[y].st = "included"

(* The nonces of x are reserved, and its command goes on with them.        *)
Reserving(x) ==
  /\ cmd[x].pc = "reserve" /\ NM!Reserve(x, cmd[x].deps, chainNonce)
  /\ cmd'[x].pc \in {"release", "free"}
  /\ LET r == CHOOSE r \in live' : r.id = x
     IN  cmd'[x].start = r.start /\ cmd'[x].end = r.end
  /\ \A y \in Xts \ {x} : cmd'[y] = cmd[y]
  /\ UNCHANGED <<pool, chainNonce, conf>>

(* The nonces of x are given back: after a failed release or an abort.     *)
Freeing(x) ==
  /\ NM!ReleaseAborted(x)
  /\ cmd[x].pc = "free" \/ \E k \in SweepIds : x \in Swept(k)
  /\ \A y \in Xts : cmd'[y] = cmd[y] \/ cmd'[y].pc = "idle"
  /\ UNCHANGED <<pool, chainNonce, conf>>

(* The end of handle_rollback().                                           *)
Resetting ==
  /\ sweep[RollbackSweep].on /\ NM!Reset
  /\ UNCHANGED <<cmd, pool, chainNonce, conf>>

LaneStep ==
  \/ QuietLane
  \/ \E x \in Xts : Reserving(x) \/ Freeing(x) \/ ConfirmNonces(x)
                                 \/ BuilderIncludes(x)
  \/ Resetting
  \/ PublisherRollsBack
-----------------------------------------------------------------------------
(* A step that does not touch commands, pool, chain and nonces is quiet.   *)
LEMMA QuietFrame ==
  ASSUME UNCHANGED <<cmd, poolVars, conf, nonceVars>>
  PROVE  QuietLane
BY Zenon DEF QuietLane, poolVars

(* So is a change of a pending XT: the XT owned no nonces when undecided.  *)
LEMMA ChangeQuiet ==
  ASSUME IInv, NEW x, NEW r, Change(x, r), ChangeFrame
  PROVE  QuietLane
<1>1. CASE cmd' = cmd
  BY <1>1, QuietFrame, Zenon DEF ChangeFrame
<1>2. CASE /\ pending[x].decision = "none" /\ r.decision # "none"
           /\ cmd' = [cmd EXCEPT ![x] = Command(x, r.decision, r.deps)]
  <2>1. x \in Undecided /\ x \in Xts
    BY <1>2, Zenon DEF Change, Undecided, IInv, Shape, PendingShape
  <2>2. Ranges(x) = {} /\ pool[x].st \in {"absent", "locked"}
    BY <2>1, Zenon DEF IInv, Once, UndecidedUnreleased, Unreleased
  <2>3. r.decision \in {"commit", "abort"} /\ r.deps \in DepCounts \cup {0}
    BY <1>2, Zenon DEF Change, PendingXt, Decisions
  <2>4. /\ cmd'[x].start = 0 /\ cmd'[x].end = 0 /\ cmd'[x].pc # "free"
        /\ \A y \in Xts \ {x} : cmd'[y] = cmd[y]
    BY <1>2, <2>1, <2>3, CommandShape DEF IInv, Shape, TaskShape
  <2> QED
    BY <2>2, <2>4, Zenon DEF QuietLane, ChangeFrame, poolVars
<1> QED
  BY <1>1, <1>2, Zenon DEF Change

(* So is any other step on the table of pending XTs.                       *)
LEMMA PendingQuiet ==
  ASSUME PendingStep
  PROVE  QuietLane
BY Zenon DEF PendingStep, QuietLane, poolVars

(* So is the submission of an XT.                                          *)
LEMMA SubmitQuiet ==
  ASSUME IInv, NEW x \in Xts, NEW o \in Outcomes, SubmitXt(x, o)
  PROVE  QuietLane
<1>1. UNCHANGED <<cmd, conf, chainNonce, nonceVars>>
  BY Zenon DEF SubmitXt
<1>2. \A y \in Xts : \/ pool'[y] = pool[y]
                     \/ pool[y].st = "absent" /\ pool'[y].st = "locked"
  BY Zenon DEF SubmitXt, IInv, Shape, BuilderShape
<1> QED
  BY <1>1, <1>2, Zenon DEF QuietLane

(* So is the release of an XT: it leaves nonces to be freed only if the    *)
(* builder did not take them.                                              *)
LEMMA ReleaseQuiet ==
  ASSUME IInv, NEW x \in Xts, NEW o \in Outcomes, ReleaseXt(x, o)
  PROVE  QuietLane
<1>1. /\ UNCHANGED <<conf, chainNonce, nonceVars>> /\ cmd[x].pc = "release"
      /\ pool[x].st \in {"absent", "locked"}
      /\ \A y \in Xts \ {x} : cmd'[y] = cmd[y] /\ pool'[y] = pool[y]
      /\ o \in {"ok"} \cup FaultKinds
  BY Zenon DEF ReleaseXt, Outcome, IInv, Shape, TaskShape, BuilderShape, Once,
         CommandedOnce
<1>2. /\ cmd'[x].pc # "release"
      /\ pool'[x].st = "released" =>
           pool'[x].start = cmd[x].start /\ pool'[x].end = cmd[x].end
      /\ pool'[x].st # "included"
  BY <1>1, Zenon DEF ReleaseXt, AfterRelease, NoCmd, IInv, Shape, TaskShape,
              BuilderShape
<1>3. cmd'[x].pc = "free" /\ pool'[x].st = "released" => "late" \in FaultKinds
  BY <1>1, Zenon DEF ReleaseXt, AfterRelease, NoCmd, IInv, Shape, TaskShape,
     BuilderShape, Outcomes
<1> QED
  BY <1>1, <1>2, <1>3, Zenon DEF QuietLane

(* So are the aborts at the builder, which drops what it has not included. *)
LEMMA AbortsQuiet ==
  ASSUME IInv, NEW x \in Xts, NEW o \in Outcomes,
         AbortXt(x, o) \/ \E k \in SweepIds : SweepAbort(k, x, o)
  PROVE  QuietLane
<1>1. /\ UNCHANGED <<conf, chainNonce, nonceVars>>
      /\ UNCHANGED pool \/ Drop(x)
      /\ UNCHANGED cmd \/ (AbortXt(x, o) /\ cmd[x].pc = "abort")
  BY Zenon DEF AbortXt, SweepAbort
<1>2. \A y \in Xts : \/ pool'[y] = pool[y]
                     \/ pool[y].st # "included" /\ pool'[y].st = "absent"
  BY <1>1 DEF Drop, Absent, IInv, Shape, BuilderShape
<1>3. CASE UNCHANGED cmd
  BY <1>1, <1>2, <1>3, Zenon DEF QuietLane
<1>4. CASE AbortXt(x, o)
  <2>1. /\ \A y \in Xts \ {x} : cmd'[y] = cmd[y]
        /\ cmd'[x].pc = IF o = "ok" THEN "free" ELSE "idle"
    BY <1>4, Zenon DEF AbortXt, IInv, Shape, TaskShape
  <2>2. o = "ok" => pool'[x].st # "released"
    BY <1>4 DEF AbortXt, Drop, Absent, IInv, Shape, BuilderShape
  <2> QED
    BY <1>1, <1>2, <2>1, <2>2, Zenon DEF QuietLane
<1> QED
  BY <1>1, <1>3, <1>4, Zenon

(* build_put_inbox_transactions().                                         *)
LEMMA BuildPutInboxLane ==
  ASSUME IInv, NEW x \in Xts, NEW o \in BuildOutcomes, BuildPutInbox(x, o)
  PROVE  QuietLane \/ Reserving(x)
<1>1. UNCHANGED <<pool, chainNonce, conf>> /\ cmd[x].pc = "reserve"
  BY Zenon DEF BuildPutInbox, poolVars
<1>2. CASE o = "fetchFails"
  <2>1. /\ UNCHANGED nonceVars
        /\ \A y \in Xts : cmd'[y] = cmd[y] \/ cmd'[y].pc = "idle"
    BY <1>2 DEF BuildPutInbox, NoCmd, IInv, Shape, TaskShape
  <2> QED
    BY <1>1, <2>1, Zenon DEF QuietLane
<1>3. CASE o # "fetchFails"
  <2> DEFINE r == CHOOSE r \in live' : r.id = x
             pc == IF o = "ok" THEN "release" ELSE "free"
  <2>1. /\ NM!Reserve(x, cmd[x].deps, chainNonce)
        /\ cmd' = [cmd EXCEPT ![x].pc = pc, ![x].start = r.start, ![x].end = r.end]
        /\ pc \in {"release", "free"}
    BY <1>3, Zenon DEF BuildPutInbox
  <2> HIDE DEF r, pc
  <2>2. /\ cmd'[x].pc = pc /\ cmd'[x].start = r.start /\ cmd'[x].end = r.end
        /\ \A y \in Xts \ {x} : cmd'[y] = cmd[y]
    BY <2>1, Zenon DEF IInv, Shape, TaskShape
  <2> QED
    BY <1>1, <2>1, <2>2, Zenon DEF Reserving, r
<1> QED
  BY <1>2, <1>3, Zenon

(* release_aborted() after a command and in an abort loop.                 *)
LEMMA FreeLane ==
  ASSUME IInv, NEW x \in Xts,
         FreeNonces(x) \/ \E k \in SweepIds : SweepFree(k, x)
  PROVE  Freeing(x)
<1>1. CASE FreeNonces(x)
  BY <1>1, Zenon DEF FreeNonces, Freeing, NoCmd, poolVars, IInv, Shape,
     TaskShape
<1>2. CASE \E k \in SweepIds : SweepFree(k, x)
  BY <1>2, Zenon DEF SweepFree, Freeing, Swept, poolVars
<1> QED
  BY <1>1, <1>2, Zenon

(* Every step has one of the effects.                                      *)
LEMMA LaneSteps ==
  ASSUME IInv, [Next]_vars
  PROVE  LaneStep
<1> USE DEF LaneStep
<1>1. CASE Publisher \/ ConnectionLost \/ ConnectionRestored \/ UNCHANGED vars
  <2>1. \/ UNCHANGED <<cmd, poolVars, conf, nonceVars>>
        \/ PublisherRollsBack
    BY <1>1, Zenon DEF Publisher, PublisherStartsPeriod,
       PublisherStartsInstance, PublisherDecides, ConnectionLost,
       ConnectionRestored, vars
  <2> QED
    BY <2>1, QuietFrame, Zenon
<1>2. ASSUME NEW x \in Xts,
             \/ \E ok \in BOOLEAN, d \in DepCounts : ProcessXt(x, ok, d)
             \/ CastVote(x)
             \/ \E v \in PeerVotes : HandlePeerVote(x, v)
             \/ \E d \in {"commit", "abort"} : HandleDecided(x, d)
      PROVE  QuietLane
  <2>1. ChangeFrame /\ (UNCHANGED cmd \/ \E r : Change(x, r))
    BY <1>2, HandlersChange, Zenon
  <2> QED
    BY <2>1, QuietFrame, ChangeQuiet, Zenon DEF ChangeFrame
<1>3. ASSUME NEW x \in Xts, RejectStart(x) \/ SendVote(x) PROVE QuietLane
  BY <1>3, QuietFrame, Zenon DEF RejectStart, SendVote
<1>4. ASSUME NEW x \in Xts, HandlerStep(x) PROVE LaneStep
  BY <1>2, <1>3, <1>4, StartInstanceStep, RemovalStep, ConfirmIncludedStep,
     PendingQuiet, SubmitQuiet, BuildPutInboxLane, ReleaseQuiet, AbortsQuiet,
     FreeLane, Zenon
     DEF HandlerStep
<1>5. ASSUME NEW k \in SweepIds, SweepEnd(k) PROVE QuietLane \/ Resetting
  <2>1. UNCHANGED <<cmd, poolVars, conf>> /\ EndNonces(k) /\ sweep[k].on
    BY <1>5, Zenon DEF SweepEnd
  <2> QED
    BY <2>1, QuietFrame, Zenon DEF EndNonces, Resetting, poolVars
<1>6. ASSUME NEW k \in SweepIds, SweepStep(k) PROVE LaneStep
  <2>1. ASSUME NEW x \in Xts, SweepVote(k, x) PROVE QuietLane
    BY <2>1, QuietFrame, Zenon DEF SweepVote
  <2> QED
    BY <1>5, <1>6, <2>1, PeriodStep, PendingQuiet, AbortsQuiet, FreeLane, Zenon
       DEF SweepStep
<1> QED
  BY <1>1, <1>2, <1>4, <1>6, RemovalStep, PendingQuiet, Zenon DEF Next
-----------------------------------------------------------------------------
(* While no call fails and the connection holds, a rollback is answered:   *)
(* its message stays until its handler runs, which ends with the reset.    *)
LEMMA RewindSteps ==
  ASSUME IInv, [Next]_vars, FaultKinds = {}, connected
  PROVE  /\ connected'
         /\ Anchored' => Resetting \/ (Anchored /\ ~PublisherRollsBack)
<1> USE DEF Anchored, Rewinding
<1>s. sweep[RollbackSweep] \in Sweeps /\ DOMAIN sweep = SweepIds /\ 0 \in SweepIds
  BY CoordinatorAssumption DEF IInv, Shape, TaskShape, SweepIds, RollbackSweep
<1>f. ASSUME NEW m, m # RollbackMessage, UNCHANGED <<rolledBack, sweep, connected>>,
             inbox' = inbox \ {m} \/ inbox' = inbox \cup {m} \/ inbox' = inbox
      PROVE  connected' /\ (Rewinding => Rewinding') /\ rolledBack' = rolledBack
  BY <1>f, Zenon
<1>1. CASE PublisherRollsBack
  <2>1. rolledBack' = TRUE /\ connected' = connected /\ RollbackMessage \in inbox'
    BY <1>1, Zenon DEF PublisherRollsBack, Deliver, RollbackMessage
  <2> QED
    BY <2>1, Zenon
<1>2. CASE Publisher /\ ~PublisherRollsBack
  <2>1. /\ UNCHANGED <<rolledBack, sweep, connected>>
        /\ \E m : /\ inbox' = inbox \cup {m} \/ inbox' = inbox
                  /\ \/ m = [type |-> "StartPeriod", period |-> spPeriod + 1]
                     \/ \E x \in Xts : m = StartMessage(x)
                     \/ \E x \in Xts, d \in {"commit", "abort"} :
                          m = DecidedMessage(x, d)
    BY <1>2, ZenonT(30)
       DEF Publisher, PublisherStartsPeriod, PublisherStartsInstance,
           PublisherDecides, Deliver, StartMessage, DecidedMessage
  <2> QED
    BY <1>2, <1>f, <2>1, MessagesDiffer, Zenon
<1>3. CASE ConnectionLost \/ ConnectionRestored \/ UNCHANGED vars
  <2>1. ~ConnectionLost
    BY Zenon DEF ConnectionLost
  <2>2. UNCHANGED <<rolledBack, inbox, sweep>> /\ connected'
    BY <1>3, <2>1, Zenon DEF ConnectionRestored, vars, netVars, spVars
  <2> QED
    BY <1>1, <2>2, Zenon
<1>4. ASSUME NEW x \in Xts,
             \/ \E o \in Outcomes : SubmitXt(x, o) \/ ReleaseXt(x, o) \/ AbortXt(x, o)
             \/ \E o \in BuildOutcomes : BuildPutInbox(x, o)
             \/ UndoStart(x) \/ Cleanup(x) \/ RejectStart(x) \/ SendVote(x)
             \/ FreeNonces(x) \/ BuilderIncludes(x)
             \/ ConfirmIncluded(x) \/ ConfirmNonces(x)
             \/ \E ok \in BOOLEAN, d \in DepCounts : ProcessXt(x, ok, d)
             \/ CastVote(x)
             \/ \E v \in PeerVotes : HandlePeerVote(x, v)
      PROVE  UNCHANGED <<rolledBack, sweep, inbox, connected>>
  BY <1>4, Zenon
     DEF SubmitXt, ReleaseXt, AbortXt, BuildPutInbox, UndoStart, Cleanup,
         RejectStart, SendVote, FreeNonces, BuilderIncludes, ConfirmIncluded,
         ConfirmNonces, ProcessXt, CastVote, HandlePeerVote, spVars, netVars
<1>5. ASSUME NEW x \in Xts,
             \/ HandleStartInstance(x)
             \/ \E d \in {"commit", "abort"} : HandleDecided(x, d)
      PROVE  connected' /\ (Rewinding => Rewinding') /\ rolledBack' = rolledBack
  <2>1. /\ UNCHANGED <<rolledBack, sweep, connected>>
        /\ \/ inbox' = inbox \ {StartMessage(x)}
           \/ \E d \in {"commit", "abort"} : inbox' = inbox \ {DecidedMessage(x, d)}
    BY <1>5, Zenon
       DEF HandleStartInstance, HandleDecided, StartMessage, DecidedMessage, spVars
  <2> QED
    BY <1>f, <2>1, MessagesDiffer, Zenon
<1>6. ASSUME NEW k \in SweepIds, SweepStep(k)
      PROVE  /\ connected' /\ rolledBack' = rolledBack
             /\ Rewinding => Rewinding' \/ Resetting
  <2>1. CASE HandleRollback
    <3>1. UNCHANGED <<rolledBack, connected>> /\ sweep'[RollbackSweep].on
      BY <1>s, <2>1, Zenon DEF HandleRollback, spVars, RollbackSweep
    <3> QED
      BY <3>1, Zenon
  <2>2. CASE k > 0 /\ HandleStartPeriod(k)
    <3>1. /\ UNCHANGED <<rolledBack, connected>>
          /\ sweep'[RollbackSweep] = sweep[RollbackSweep]
          /\ inbox' = inbox \ {[type |-> "StartPeriod", period |-> k]}
      BY <1>s, <2>2 DEF HandleStartPeriod, spVars, RollbackSweep
    <3> QED
      BY <3>1, MessagesDiffer, Zenon
  <2>3. ASSUME NEW x \in Xts,
               \/ \E o \in Outcomes : SweepAbort(k, x, o)
               \/ SweepFree(k, x) \/ SweepVote(k, x)
        PROVE  /\ UNCHANGED <<rolledBack, connected, inbox>>
               /\ sweep'[RollbackSweep].on = sweep[RollbackSweep].on
    <3>1. UNCHANGED <<rolledBack, connected, inbox>>
      BY <2>3, Zenon DEF SweepAbort, SweepFree, SweepVote, spVars, netVars
    <3>2. sweep'[RollbackSweep].on = sweep[RollbackSweep].on
      <4>1. sweep[k] \in Sweeps /\ DOMAIN sweep = SweepIds
        BY Zenon DEF IInv, Shape, TaskShape
      <4>2. ASSUME NEW o \in Outcomes, SweepAbort(k, x, o)
            PROVE  sweep'[k].on = sweep[k].on
        <5>1. o = "ok"
          BY <4>2, Zenon DEF SweepAbort, Outcome
        <5> QED
          BY <4>1, <4>2, <5>1, Zenon DEF SweepAbort, Sweeps
      <4>3. ASSUME SweepFree(k, x) \/ SweepVote(k, x)
            PROVE  sweep'[k].on = sweep[k].on
        BY <4>1, <4>3, Zenon DEF SweepFree, SweepVote, Sweeps
      <4>4. \A j \in SweepIds \ {k} : sweep'[j] = sweep[j]
        BY <2>3, <4>1, Zenon DEF SweepAbort, SweepFree, SweepVote
      <4> QED
        BY <1>s, <2>3, <4>2, <4>3, <4>4, Zenon DEF RollbackSweep
    <3> QED
      BY <3>1, <3>2, Zenon
  <2>4. CASE SweepEnd(k)
    <3>1. UNCHANGED <<rolledBack, connected, inbox, cmd, pool, chainNonce, conf>>
      BY <2>4, Zenon DEF SweepEnd, spVars, netVars, poolVars
    <3>2. CASE k = RollbackSweep
      BY <2>4, <3>1, <3>2, Zenon DEF SweepEnd, EndNonces, Resetting
    <3>3. CASE k # RollbackSweep
      <4>1. sweep'[RollbackSweep] = sweep[RollbackSweep]
        BY <1>s, <2>4, <3>3, Zenon DEF SweepEnd, RollbackSweep
      <4> QED
        BY <3>1, <4>1, Zenon
    <3> QED
      BY <3>2, <3>3, Zenon
  <2> QED
    BY <1>6, <2>1, <2>2, <2>3, <2>4, Zenon DEF SweepStep
<1>7. ASSUME NEW x \in Xts,
             \/ HandlerStep(x) \/ BuilderIncludes(x) \/ Cleanup(x)
             \/ \E v \in PeerVotes : HandlePeerVote(x, v)
      PROVE  connected' /\ (Rewinding => Rewinding') /\ rolledBack' = rolledBack
  BY <1>4, <1>5, <1>7, Zenon DEF HandlerStep
<1> QED
  BY <1>1, <1>2, <1>3, <1>6, <1>7, Zenon DEF Next

(* Without rollbacks there is never one to answer.                         *)
LEMMA NextNoRollback ==
  ASSUME IInv, NoRollback, [Next]_vars, Rollbacks = FALSE
  PROVE  NoRollback' /\ ~PublisherRollsBack /\ ~HandleRollback
<1>1. ~PublisherRollsBack /\ ~HandleRollback
  BY Zenon DEF PublisherRollsBack, HandleRollback, NoRollback, Rewinding,
     RollbackMessage
<1>2. CASE PublisherStep
  <2>1. /\ UNCHANGED <<rolledBack, sweep>>
        /\ RollbackMessage \in inbox' => RollbackMessage \in inbox
    BY <1>1, <1>2, Zenon DEF PublisherStep
  <2> QED
    BY <1>1, <2>1, Zenon DEF NoRollback, Rewinding
<1>3. CASE PendingStep \/ BuilderStep \/ ChangeFrame
  <2>1. /\ UNCHANGED rolledBack /\ inbox' \subseteq inbox
        /\ sweep'[RollbackSweep].on => sweep[RollbackSweep].on
    BY <1>1, <1>3, Zenon DEF PendingStep, BuilderStep, ChangeFrame, spVars,
                             LoopsAbort, LoopsShrink
  <2>2. ~sweep'[RollbackSweep].on /\ RollbackMessage \notin inbox'
    BY <2>1, Zenon DEF NoRollback, Rewinding
  <2> QED
    BY <1>1, <2>1, <2>2, Zenon DEF NoRollback, Rewinding
<1> QED
  BY <1>2, <1>3, StepClasses, Zenon

(* Without rollbacks an XT that is dead stays dead: its StartInstance does *)
(* not come again, its abort is final, and nothing releases it.            *)
LEMMA DeadForever ==
  ASSUME IInv, [Next]_vars, ~HandleRollback, NEW x \in Xts, Dead(x)
  PROVE  Dead(x)'
<1> USE DEF Dead
<1>1. CASE PublisherStep
  BY <1>1 DEF PublisherStep, Absent
<1>2. CASE PendingStep
  BY <1>2, Zenon DEF PendingStep, spVars, poolVars
<1>3. CASE BuilderStep
  BY <1>3, Zenon DEF BuilderStep, spVars
<1>4. ASSUME NEW y, NEW r, Change(y, r), ChangeFrame PROVE Dead(x)'
  <2>1. /\ UNCHANGED <<spVars, poolVars>> /\ inbox' \subseteq inbox
        /\ DOMAIN pending' = DOMAIN pending /\ pending'[y] = r
        /\ \A z \in DOMAIN pending \ {y} : pending'[z] = pending[z]
    BY <1>4, Zenon DEF Change, ChangeFrame, Put
  <2>2. pending[x].decision = "abort" /\ x = y => r.decision = "abort" /\ cmd' = cmd
    BY <1>4, Zenon DEF Change
  <2>3. x # y => cmd'[x] = cmd[x]
    BY <1>4, Zenon DEF Change, IInv, Shape, TaskShape
  <2>4. y \in DOMAIN pending
    BY <1>4, Zenon DEF Change
  <2> QED
    BY <2>1, <2>2, <2>3, <2>4, Zenon DEF spVars, poolVars
<1> QED
  BY <1>1, <1>2, <1>3, <1>4, StepClasses, ZenonT(30)

(* Without rollbacks, what is aborted is dead: an XT is aborted while it   *)
(* is undecided, before anything was released for it.                      *)
LEMMA NextAbortedDead ==
  ASSUME IInv, [Next]_vars, ~HandleRollback, AbortedDead
  PROVE  AbortedDead'
<1> SUFFICES ASSUME NEW x \in Xts, ~Dead(x),
                    \/ x \in Aborted' \/ cmd'[x].pc = "abort"
                    \/ \E k \in SweepIds : x \in Swept(k)'
             PROVE  Dead(x)'
  BY DeadForever, Zenon DEF AbortedDead
<1>1. /\ x \notin Aborted /\ cmd[x].pc # "abort"
      /\ \A k \in SweepIds : x \notin Swept(k)
  BY Zenon DEF AbortedDead
<1>2. ASSUME x \in Undecided
      PROVE  /\ StartMessage(x) \notin inbox /\ spAssigned[x].period > 0
             /\ pool[x].st \notin {"released", "included"}
             /\ cmd[x].pc = "idle" /\ x \in DOMAIN pending
             /\ pending[x].decision = "none"
  <2>1. x \in DOMAIN pending /\ pending[x].decision = "none" /\ Unreleased(x)
    BY <1>2, Zenon DEF Undecided, IInv, Once, UndecidedUnreleased
  <2>2. StartMessage(x) \notin inbox /\ spAssigned[x].period # 0
    BY <2>1, Zenon DEF IInv, Once, Fresh
  <2>3. spAssigned[x].period > 0
    BY <2>2, CoordinatorAssumption DEF IInv, Shape, PublisherShape
  <2> QED
    BY <2>1, <2>2, <2>3, Zenon DEF Unreleased
<1>3. ~PublisherStep
  <2>1. PublisherStep => UNCHANGED <<pending, cmd, sweep>>
    BY Zenon DEF PublisherStep
  <2> QED
    BY <1>1, <2>1, Zenon DEF Aborted, Swept
<1>4. ~BuilderStep
  <2>1. BuilderStep =>
          /\ UNCHANGED pending /\ cmd'[x].pc # "abort"
          /\ \A k \in SweepIds : x \notin Swept(k)'
    BY <1>1, Zenon DEF BuilderStep, LoopsShrink
  <2> QED
    BY <1>1, <2>1, Zenon DEF Aborted
<1>5. CASE PendingStep
  <2>1. x \in Aborted' /\ UNCHANGED <<cmd, pool, spAssigned>>
    BY <1>1, <1>5, Zenon DEF PendingStep, LoopsAbort, poolVars, spVars
  <2>2. inbox' \subseteq inbox /\ x \in Undecided
    BY <1>1, <1>5, <2>1, Zenon DEF PendingStep, Aborted, Undecided
  <2> QED
    BY <1>2, <2>1, <2>2, Zenon DEF Dead, Aborted
<1>6. ASSUME NEW y, NEW r, Change(y, r), ChangeFrame PROVE Dead(x)'
  <2>1. /\ UNCHANGED <<spVars, poolVars, sweep>> /\ inbox' \subseteq inbox
        /\ y \in DOMAIN pending /\ y \in Xts
        /\ DOMAIN pending' = DOMAIN pending /\ pending'[y] = r
        /\ \A z \in DOMAIN pending \ {y} : pending'[z] = pending[z]
        /\ \A z \in Xts \ {y} : cmd'[z] = cmd[z]
    BY <1>6, Zenon DEF Change, ChangeFrame, Put, IInv, Shape, TaskShape,
                       PendingShape
  <2>2. /\ x = y /\ pending[x].decision = "none"
        /\ cmd' = [cmd EXCEPT ![x] = Command(x, r.decision, r.deps)]
        /\ r.decision # "none"
    BY <1>1, <1>6, <2>1, ZenonT(30) DEF Change, Aborted, Swept
  <2>3. /\ r.decision \in {"commit", "abort"} /\ r.deps \in DepCounts \cup {0}
        /\ cmd'[x] = Command(x, r.decision, r.deps)
    BY <1>6, <2>2, Zenon DEF Change, PendingXt, Decisions, IInv, Shape,
       TaskShape
  <2>4. /\ cmd'[x].pc = "abort" => r.decision = "abort"
        /\ cmd'[x].pc \in {"reserve", "release"} => r.decision = "commit"
    BY <2>3, CommandShape
  <2>5. r.decision = "abort" /\ x \in Undecided
    BY <1>1, <2>1, <2>2, <2>4, Zenon DEF Aborted, Swept, Undecided
  <2> QED
    BY <1>2, <2>1, <2>2, <2>4, <2>5, Zenon DEF Dead, spVars, poolVars
<1> QED
  BY <1>3, <1>4, <1>5, <1>6, StepClasses, Zenon
-----------------------------------------------------------------------------
NMP == INSTANCE NonceManagerProofs
         WITH Instances <- Xts, MaxCount <- Max(DepCounts)

Nonce == 0 .. MaxU64

(* A task or a pool entry of x carries the nonces x owns, if it owns any.  *)
Carries(x, t) ==
  /\ t.start \in Nonce /\ t.end \in Nonce
  /\ \A r \in Ranges(x) : r.start = t.start /\ r.end = t.end

(* What is released, or about to be, carries the nonces of its XT.         *)
CarriesOwnRange ==
  \A x \in Xts : /\ cmd[x].pc = "release" => Carries(x, cmd[x])
                 /\ pool[x].st = "released" => Carries(x, pool[x])

LaneInv == IInv /\ NMP!IInv /\ chainNonce \in Nonce /\ CarriesOwnRange

(* Where the lane is anchored, neither the floor nor a range about to be   *)
(* confirmed is above the chain.                                           *)
FloorBelowChain ==
  Anchored =>
    /\ canonical_floor <= chainNonce
    /\ \A x \in Xts : conf[x] \in {"reported", "marked"} =>
         \A r \in Ranges(x) : r.end <= chainNonce

(* The range of nonces a task or a pool entry of x carries is reserved for *)
(* x, and ahead of the chain.                                              *)
Holds(x, t) ==
  t.start < t.end => /\ [id |-> x, start |-> t.start, end |-> t.end] \in live
                     /\ t.start >= chainNonce

RangesHeld ==
  \A x \in Xts :
    /\ cmd[x].pc = "release" => Holds(x, cmd[x])
    /\ pool[x].st = "released" => Holds(x, pool[x])
    /\ cmd[x].pc = "free" => pool[x].st # "released"
    /\ conf[x] \in {"reported", "marked"} => pool[x].st = "included"
-----------------------------------------------------------------------------
(* DepCounts has a largest element.                                        *)
LEMMA MostDeps ==
  /\ Max(DepCounts) \in Nat
  /\ \A n \in DepCounts : n <= Max(DepCounts)
BY CoordinatorAssumption, Zenon DEF Max

(* reserve() for an XT that owns no nonces, at the coordinator: a step of  *)
(* the nonce manager that gives the XT one range, at or above the chain's  *)
(* nonce, and keeps every other range that reaches above the new floor.    *)
LEMMA ReserveStep ==
  ASSUME NMP!IInv, chainNonce \in Nonce, NEW x \in Xts,
         NEW n \in DepCounts, n > 0, Ranges(x) = {},
         NM!Reserve(x, n, chainNonce)
  PROVE  /\ NMP!Next /\ NMP!IInv'
         /\ canonical_floor' \in {canonical_floor, chainNonce}
         /\ canonical_floor' >= canonical_floor /\ canonical_floor' >= chainNonce
         /\ \E r \in live' :
              /\ r.id = x /\ r.start \in Nonce /\ r.end \in Nonce
              /\ r = [id |-> x, start |-> r.start, end |-> r.end]
              /\ r.start >= canonical_floor'
              /\ live' = {s \in live : s.end > canonical_floor' /\ s.id # x}
                            \cup {r}
<1>1. /\ n \in 1 .. Max(DepCounts) /\ Max(DepCounts) \in Nat
      /\ MaxU64 \in Nat /\ chainNonce \in NMP!Nonce /\ NMP!Nonce = Nonce
  BY MostDeps, CoordinatorAssumption DEF Nonce, NMP!Nonce
<1>2. NMP!Reserve(x, n, chainNonce)
  BY Zenon DEF NM!Reserve, NMP!Reserve, NM!RaisedFloor, NMP!RaisedFloor,
     NM!Start,
         NMP!Start, NM!Free, NMP!Free, NM!Kept, NMP!Kept, NM!LiveEnd,
         NMP!LiveEnd, NM!SaturatingAdd, NMP!SaturatingAdd, NM!Max, NMP!Max,
         NM!Min, NMP!Min
<1>3. NMP!Owned(x) = {}
  BY Zenon DEF Ranges, NMP!Owned
<1>4. NMP!Next
  BY <1>1, <1>2, <1>3, Zenon DEF NMP!Next
<1>5. NMP!IInv'
  BY <1>1, <1>4, NMP!NextIInv, Zenon
<1> DEFINE floor == NMP!RaisedFloor(chainNonce)
           start == NMP!Start(n, floor)
           end   == NMP!SaturatingAdd(start, n)
           new   == [id |-> x, start |-> start, end |-> end]
<1>6. /\ floor \in Nonce /\ floor >= canonical_floor
      /\ start \in Nonce /\ start >= floor /\ end \in Nonce
  BY <1>1, NMP!ReserveStart, Zenon
<1>7. /\ canonical_floor' = floor
      /\ live' = {s \in live : s.end > floor /\ s.id # x} \cup {new}
  BY <1>2, Zenon DEF NMP!Reserve, NMP!Kept
<1>8. floor \in {canonical_floor, chainNonce} /\ floor >= chainNonce
  <2>1. canonical_floor \in Int /\ chainNonce \in Int
    BY <1>1 DEF NMP!IInv, NMP!TypeOK, NMP!Nonce, Nonce
  <2> QED
    BY <2>1 DEF NMP!RaisedFloor, NMP!Max
<1> HIDE DEF floor, start, end
<1>9. /\ new \in live' /\ new.id = x /\ new.start = start /\ new.end = end
      /\ new = [id |-> x, start |-> new.start, end |-> new.end]
  BY <1>7, Zenon
<1> QED
  BY <1>4, <1>5, <1>6, <1>7, <1>8, <1>9, Zenon

(* release_aborted(), at the coordinator.                                  *)
LEMMA FreeStep ==
  ASSUME NMP!IInv, NEW x \in Xts, NM!ReleaseAborted(x)
  PROVE  /\ NMP!Next /\ NMP!IInv'
         /\ live' = live \ Ranges(x) /\ canonical_floor' = canonical_floor
<1>1. NMP!ReleaseAborted(x)
  BY Zenon DEF NM!ReleaseAborted, NMP!ReleaseAborted, NM!Owned, NMP!Owned,
         NM!OwnedNonces, NMP!OwnedNonces, NM!Nonces, NMP!Nonces
<1>2. NMP!Next
  BY <1>1, Zenon DEF NMP!Next
<1> QED
  BY <1>1, <1>2, NMP!NextIInv, MostDeps, CoordinatorAssumption, Zenon DEF
     NMP!ReleaseAborted, NMP!Owned, Ranges

(* release_confirmed(): the floor moves to the end of the XT's range.      *)
LEMMA ConfirmStep ==
  ASSUME NMP!IInv, NEW x \in Xts, NM!ReleaseConfirmed(x)
  PROVE  /\ NMP!Next /\ NMP!IInv'
         /\ live' = live \ Ranges(x)
         /\ canonical_floor' \in {r.end : r \in Ranges(x)} \cup {canonical_floor}
<1>1. NMP!ReleaseConfirmed(x)
  BY Zenon DEF NM!ReleaseConfirmed, NMP!ReleaseConfirmed, NM!Owned, NMP!Owned,
         NM!OwnedNonces, NMP!OwnedNonces, NM!Nonces, NMP!Nonces, NM!Max,
         NMP!Max
<1>2. NMP!Next
  BY <1>1, Zenon DEF NMP!Next
<1>3. MaxU64 \in Nat /\ Max(DepCounts) \in Nat
  BY MostDeps, CoordinatorAssumption, Zenon
<1> DEFINE S == {r.end : r \in Ranges(x)} \cup {canonical_floor}
<1>4. S \in SUBSET NMP!Nonce /\ S # {}
  BY Zenon DEF NMP!IInv, NMP!TypeOK, NMP!ReservedRange, Ranges
<1>5. NMP!Max(S) \in S
  <2> HIDE DEF S
  <2> QED
    BY <1>3, <1>4, NMP!MaxOfNonces, Zenon
<1> QED
  BY <1>1, <1>2, <1>3, <1>5, NMP!NextIInv, Zenon
     DEF NMP!ReleaseConfirmed, NMP!Owned, Ranges

(* reset().                                                                *)
LEMMA ResetStep ==
  ASSUME NMP!IInv, NM!Reset
  PROVE  NMP!Next /\ NMP!IInv' /\ live' = {} /\ canonical_floor' = 0
<1>1. NMP!Next
  BY Zenon DEF NMP!Next, NM!Reset, NMP!Reset
<1> QED
  BY <1>1, NMP!NextIInv, MostDeps, CoordinatorAssumption, Zenon DEF NM!Reset

(* Where the nonce manager does nothing, its invariant stays.              *)
LEMMA LaneFrame ==
  ASSUME NMP!IInv, UNCHANGED nonceVars
  PROVE  NMP!IInv'
BY NMP!NextIInv, MostDeps, CoordinatorAssumption, Zenon DEF NMP!vars, nonceVars
-----------------------------------------------------------------------------
(* A quiet step keeps the invariant of the lane.                           *)
LEMMA QuietKeepsLane ==
  ASSUME LaneInv, IInv', QuietLane
  PROVE  LaneInv'
<1> USE DEF LaneInv
<1>1. NMP!IInv' /\ chainNonce' \in Nonce
  BY LaneFrame, Zenon DEF QuietLane
<1>2. 0 \in Nonce /\ \A y \in Xts : Ranges(y)' = Ranges(y)
  BY CoordinatorAssumption DEF Nonce, QuietLane, Ranges, nonceVars
<1>3. CarriesOwnRange'
  BY <1>2 DEF QuietLane, CarriesOwnRange, Carries
<1> QED
  BY <1>1, <1>3, Zenon

(* A reservation keeps it: x owned no nonces, so it owns what it reserved. *)
LEMMA ReservingKeepsLane ==
  ASSUME LaneInv, IInv', NEW x \in Xts, Reserving(x)
  PROVE  /\ LaneInv' /\ NMP!Next
         /\ canonical_floor' \in {canonical_floor, chainNonce}
         /\ canonical_floor' >= canonical_floor /\ canonical_floor' >= chainNonce
         /\ cmd'[x].start >= canonical_floor'
         /\ [id |-> x, start |-> cmd'[x].start, end |-> cmd'[x].end] \in live'
         /\ \A s \in live : s.id # x /\ s.end > canonical_floor' => s \in live'
         /\ \A y \in Xts \ {x} : Ranges(y)' \subseteq Ranges(y)
<1> USE DEF LaneInv
<1>1. Ranges(x) = {} /\ cmd[x].deps \in DepCounts /\ cmd[x].deps > 0
  BY DEF Reserving, IInv, Shape, TaskShape, Once, CommandedOnce
<1>2. /\ NMP!Next /\ NMP!IInv'
      /\ canonical_floor' \in {canonical_floor, chainNonce}
      /\ canonical_floor' >= canonical_floor /\ canonical_floor' >= chainNonce
      /\ \E r \in live' :
           /\ r.id = x /\ r.start \in Nonce /\ r.end \in Nonce
           /\ r = [id |-> x, start |-> r.start, end |-> r.end]
           /\ r.start >= canonical_floor'
           /\ live' = {s \in live : s.end > canonical_floor' /\ s.id # x}
                         \cup {r}
  BY <1>1, ReserveStep, Zenon DEF Reserving
<1>3. PICK r \in live' :
        /\ r.id = x /\ r.start \in Nonce /\ r.end \in Nonce
        /\ r = [id |-> x, start |-> r.start, end |-> r.end]
        /\ r.start >= canonical_floor'
        /\ live' = {s \in live : s.end > canonical_floor' /\ s.id # x}
                      \cup {r}
  BY <1>2, Zenon
<1>4. \A s \in live' : s.id = x => s = r
  BY <1>3, Zenon
<1>5. cmd'[x].start = r.start /\ cmd'[x].end = r.end
  <2> DEFINE c == CHOOSE c \in live' : c.id = x
  <2>1. c \in live' /\ c.id = x
    BY <1>3, Zenon
  <2>2. cmd'[x].start = c.start /\ cmd'[x].end = c.end
    BY Zenon DEF Reserving
  <2> HIDE DEF c
  <2> QED
    BY <1>4, <2>1, <2>2, Zenon
<1>6. \A y \in Xts \ {x} : Ranges(y)' \subseteq Ranges(y)
  BY <1>3, Zenon DEF Ranges
<1>7. chainNonce' \in Nonce
  BY Zenon DEF Reserving
<1>8. CarriesOwnRange'
  <2>1. ASSUME NEW y \in Xts \ {x}
        PROVE  /\ cmd'[y].pc = "release" => Carries(y, cmd[y])'
               /\ pool'[y].st = "released" => Carries(y, pool[y])'
    <3>1. cmd'[y] = cmd[y] /\ pool'[y] = pool[y] /\ Ranges(y)' \subseteq Ranges(y)
      BY <1>6, <2>1, Zenon DEF Reserving
    <3>2. ASSUME cmd[y].pc = "release"
          PROVE  Carries(y, cmd[y])'
      BY <3>1, <3>2, Zenon DEF CarriesOwnRange, Carries
    <3>3. ASSUME pool[y].st = "released"
          PROVE  Carries(y, pool[y])'
      BY <3>1, <3>3, ZenonT(30) DEF CarriesOwnRange, Carries
    <3> QED
      BY <3>1, <3>2, <3>3, Zenon
  <2>2. Carries(x, cmd[x])'
    BY <1>3, <1>4, <1>5, Zenon DEF Carries, Ranges
  <2>3. pool'[x].st # "released"
    BY Zenon DEF Reserving, IInv, Once, CommandedOnce
  <2> QED
    BY <2>1, <2>2, <2>3, Zenon DEF CarriesOwnRange
<1> QED
  BY <1>2, <1>3, <1>5, <1>6, <1>7, <1>8, ZenonT(30)

(* Giving back, confirming and forgetting nonces keep it, and so do an     *)
(* inclusion and a rollback: ranges only disappear, and the chain moves to *)
(* the end of a range or back to its start.                                *)
LEMMA ShrinkKeepsLane ==
  ASSUME LaneInv, IInv', NMP!IInv', chainNonce' \in Nonce, live' \subseteq live,
         \A y \in Xts :
           /\ cmd'[y].pc = "release" => cmd'[y] = cmd[y]
           /\ pool'[y].st = "released" => pool'[y] = pool[y]
  PROVE  LaneInv'
<1>1. \A y \in Xts : Ranges(y)' \subseteq Ranges(y)
  BY Zenon DEF Ranges
<1>2. \A y \in Xts : \A t : Carries(y, t) =>
        /\ t.start \in Nonce /\ t.end \in Nonce
        /\ \A r \in Ranges(y)' : r.start = t.start /\ r.end = t.end
  BY <1>1, ZenonT(30) DEF Carries
<1>3. CarriesOwnRange'
  BY <1>2 DEF LaneInv, CarriesOwnRange, Carries
<1> QED
  BY <1>3, Zenon DEF LaneInv

(* A release of aborted nonces keeps it, and removes one range.            *)
LEMMA FreeingKeepsLane ==
  ASSUME LaneInv, IInv', NEW x \in Xts, Freeing(x)
  PROVE  /\ LaneInv' /\ NMP!Next
         /\ live' = live \ Ranges(x) /\ canonical_floor' = canonical_floor
<1>1. /\ NMP!Next /\ NMP!IInv'
      /\ live' = live \ Ranges(x) /\ canonical_floor' = canonical_floor
  BY FreeStep, Zenon DEF LaneInv, Freeing
<1>2. LaneInv'
  BY <1>1, ShrinkKeepsLane, Zenon DEF LaneInv, Freeing
<1> QED
  BY <1>1, <1>2, Zenon

(* So does a confirmation, which moves the floor to the end of that range. *)
LEMMA ConfirmKeepsLane ==
  ASSUME LaneInv, IInv', NEW x \in Xts, ConfirmNonces(x)
  PROVE  /\ LaneInv' /\ NMP!Next /\ live' = live \ Ranges(x)
         /\ canonical_floor' \in {r.end : r \in Ranges(x)} \cup {canonical_floor}
         /\ UNCHANGED <<pool, chainNonce, cmd>> /\ conf[x] = "marked"
         /\ conf' = [conf EXCEPT ![x] = "done"]
<1>1. /\ NMP!Next /\ NMP!IInv' /\ live' = live \ Ranges(x)
      /\ canonical_floor' \in {r.end : r \in Ranges(x)} \cup {canonical_floor}
  BY ConfirmStep, Zenon DEF LaneInv, ConfirmNonces
<1>2. /\ UNCHANGED <<pool, chainNonce, cmd>> /\ conf[x] = "marked"
      /\ conf' = [conf EXCEPT ![x] = "done"]
  BY Zenon DEF ConfirmNonces, poolVars
<1>3. LaneInv'
  BY <1>1, <1>2, ShrinkKeepsLane, Zenon DEF LaneInv
<1> QED
  BY <1>1, <1>2, <1>3, Zenon

(* So does the reset, which removes every range.                           *)
LEMMA ResettingKeepsLane ==
  ASSUME LaneInv, IInv', Resetting
  PROVE  LaneInv' /\ NMP!Next /\ live' = {} /\ canonical_floor' = 0
<1>1. NMP!Next /\ NMP!IInv' /\ live' = {} /\ canonical_floor' = 0
  BY ResetStep, Zenon DEF LaneInv, Resetting
<1>2. LaneInv'
  BY <1>1, ShrinkKeepsLane, Zenon DEF LaneInv, Resetting
<1> QED
  BY <1>1, <1>2, Zenon

(* So does an inclusion, which moves the chain to the end of the range.    *)
LEMMA InclusionKeepsLane ==
  ASSUME LaneInv, IInv', NEW x \in Xts, BuilderIncludes(x)
  PROVE  /\ LaneInv' /\ UNCHANGED <<nonceVars, cmd>>
         /\ pool[x].st = "released" /\ pool'[x].st = "included"
         /\ chainNonce' >= chainNonce /\ chainNonce' >= pool[x].end
         /\ \/ chainNonce' = chainNonce
            \/ /\ chainNonce' = pool[x].end /\ pool[x].start = chainNonce
               /\ pool[x].start < pool[x].end
         /\ \A y \in Xts \ {x} : pool'[y] = pool[y] /\ conf'[y] = conf[y]
<1> USE DEF LaneInv
<1>1. /\ UNCHANGED <<nonceVars, cmd>> /\ pool[x].st = "released"
      /\ pool'[x].st = "included"
      /\ \A y \in Xts \ {x} : pool'[y] = pool[y] /\ conf'[y] = conf[y]
  BY ZenonT(30) DEF BuilderIncludes, IInv, Shape, BuilderShape, TaskShape
<1>2. chainNonce \in Nat /\ pool[x].end \in Nonce /\ pool[x].end \in Nat
  BY <1>1 DEF CarriesOwnRange, Carries, Nonce
<1>3. /\ chainNonce' \in Nonce
      /\ chainNonce' >= chainNonce /\ chainNonce' >= pool[x].end
      /\ \/ chainNonce' = chainNonce
         \/ /\ chainNonce' = pool[x].end /\ pool[x].start = chainNonce
            /\ pool[x].start < pool[x].end
  BY <1>2 DEF BuilderIncludes
<1>4. LaneInv'
  BY <1>1, <1>3, LaneFrame, ShrinkKeepsLane, Zenon DEF nonceVars
<1> QED
  BY <1>1, <1>3, <1>4, Zenon

(* So does a rollback of the chain, which puts nothing into the pool.      *)
LEMMA RollbackKeepsLane ==
  ASSUME LaneInv, IInv', PublisherRollsBack
  PROVE  LaneInv' /\ UNCHANGED nonceVars
<1> USE DEF LaneInv
<1>1. UNCHANGED <<nonceVars, cmd>> /\ chainNonce' = 0
  BY Zenon DEF PublisherRollsBack
<1>2. chainNonce' \in Nonce
  BY <1>1, CoordinatorAssumption DEF Nonce
<1>3. \A y \in Xts : pool'[y].st = "released" => pool'[y] = pool[y]
  BY Zenon DEF PublisherRollsBack, Absent
<1>4. NMP!IInv' /\ live' \subseteq live
  BY <1>1, LaneFrame, Zenon DEF nonceVars
<1> QED
  BY <1>1, <1>2, <1>3, <1>4, ShrinkKeepsLane, Zenon
-----------------------------------------------------------------------------
(* Every step keeps the invariant of the lane, and is a step of the nonce  *)
(* manager or none.                                                        *)
LEMMA NextLane ==
  ASSUME LaneInv, [Next]_vars
  PROVE  LaneInv' /\ (NMP!Next \/ UNCHANGED nonceVars)
<1>1. IInv' /\ LaneStep
  BY NextIInv, LaneSteps, Zenon DEF LaneInv
<1>2. QuietLane => UNCHANGED nonceVars
  BY Zenon DEF QuietLane
<1> QED
  BY <1>1, <1>2, QuietKeepsLane, ReservingKeepsLane, FreeingKeepsLane,
     ConfirmKeepsLane, ResettingKeepsLane, InclusionKeepsLane,
     RollbackKeepsLane, Zenon
     DEF LaneStep

(* The lane starts empty, at the chain's first nonce.                      *)
LEMMA InitLane == Init => LaneInv /\ NMP!Init
<1> SUFFICES ASSUME Init PROVE LaneInv /\ NMP!Init
  BY Zenon
<1>1. NMP!Init
  BY Zenon DEF Init, NM!Init, NMP!Init
<1>2. NMP!IInv
  BY <1>1, NMP!InitIInv, MostDeps, CoordinatorAssumption, Zenon
<1>3. chainNonce \in Nonce
  BY CoordinatorAssumption DEF Init, Nonce
<1>4. CarriesOwnRange
  BY Zenon DEF Init, CarriesOwnRange, NoCmd, Absent
<1> QED
  BY <1>1, <1>2, <1>3, <1>4, InitIInv, Zenon DEF LaneInv

(* In every reachable state the nonce manager's own invariant holds, and   *)
(* what is released at the builder carries the nonces of its XT.           *)
THEOREM LaneInvariant == Spec => []LaneInv
BY InitLane, NextLane, PTL DEF Spec

(* Both instances of the nonce manager take the same steps.                *)
LEMMA SameNonceManager == NMP!Next => NM!Next
<1>2. ASSUME NEW x, NEW n, NEW c, NMP!Owned(x) = {}, NMP!Reserve(x, n, c)
      PROVE  NM!Owned(x) = {} /\ NM!Reserve(x, n, c)
  BY <1>2, Zenon DEF NM!Reserve, NMP!Reserve, NM!RaisedFloor, NMP!RaisedFloor,
     NM!Start, NMP!Start, NM!Free, NMP!Free, NM!Kept, NMP!Kept, NM!LiveEnd,
     NMP!LiveEnd, NM!SaturatingAdd, NMP!SaturatingAdd, NM!Max, NMP!Max, NM!Min,
     NMP!Min, NM!Owned, NMP!Owned
<1>3. \A x : NMP!ReleaseConfirmed(x) => NM!ReleaseConfirmed(x)
  BY Zenon DEF NM!ReleaseConfirmed, NMP!ReleaseConfirmed, NM!Owned, NMP!Owned,
         NM!OwnedNonces, NMP!OwnedNonces, NM!Nonces, NMP!Nonces, NM!Max,
         NMP!Max
<1>4. \A x : NMP!ReleaseAborted(x) => NM!ReleaseAborted(x)
  BY Zenon DEF NM!ReleaseAborted, NMP!ReleaseAborted, NM!Owned, NMP!Owned,
         NM!OwnedNonces, NMP!OwnedNonces, NM!Nonces, NMP!Nonces
<1>5. NMP!Reset => NM!Reset
  BY Zenon DEF NMP!Reset, NM!Reset
<1>6. NMP!Nonce = NM!Nonce
  BY Zenon DEF NMP!Nonce, NM!Nonce
<1> QED
  BY <1>2, <1>3, <1>4, <1>5, <1>6, ZenonT(30) DEF NMP!Next, NM!Next

(* The coordinator implements the specification of the nonce manager: it   *)
(* reserves for an XT only while the XT owns no nonces, at a nonce and in  *)
(* a number the nonce manager admits.                                      *)
THEOREM LaneImplementsNonceManager == Spec => NM!Spec
<1>1. LaneInv /\ [Next]_vars => [NM!Next]_(NM!vars)
  BY NextLane, SameNonceManager, Zenon DEF NM!vars, nonceVars
<1>2. Init => NM!Init
  BY Zenon DEF Init
<1> QED
  BY <1>1, <1>2, LaneInvariant, PTL DEF Spec, NM!Spec
-----------------------------------------------------------------------------
(* The nonces of the lane are numbers.                                     *)
LEMMA LaneTypes ==
  ASSUME LaneInv
  PROVE  /\ canonical_floor \in Nat /\ chainNonce \in Nat
         /\ \A r \in live : r.start \in Nat /\ r.end \in Nat
BY DEF LaneInv, Nonce, NMP!IInv, NMP!TypeOK, NMP!Nonce, NMP!ReservedRange

(* An anchored lane stays at or below the chain: a reservation raises the  *)
(* floor to the chain's nonce at most, and a confirmed range ends there.   *)
LEMMA NextFloor ==
  ASSUME LaneInv, FloorBelowChain, [Next]_vars,
         Anchored' => Resetting \/ (Anchored /\ ~PublisherRollsBack)
  PROVE  FloorBelowChain'
<1> SUFFICES ASSUME Anchored'
             PROVE  /\ canonical_floor' <= chainNonce'
                    /\ \A y \in Xts : conf'[y] \in {"reported", "marked"} =>
                         \A r \in Ranges(y)' : r.end <= chainNonce'
  BY Zenon DEF FloorBelowChain
<1>1. LaneInv' /\ IInv' /\ LaneStep
  BY NextLane, NextIInv, LaneSteps, ZenonT(30) DEF LaneInv
<1>2. /\ canonical_floor \in Nat /\ chainNonce \in Nat
      /\ chainNonce' \in Nat /\ \A r \in live : r.end \in Nat
  BY <1>1, LaneTypes, SMTT(20) DEF LaneInv, Nonce
<1>3. CASE Resetting
  <2>1. live' = {} /\ canonical_floor' = 0
    BY <1>1, <1>3, ResettingKeepsLane, Zenon
  <2> QED
    BY <1>2, <2>1 DEF Ranges
<1>4. CASE Anchored /\ ~PublisherRollsBack
  <2>1. /\ canonical_floor <= chainNonce
        /\ \A y \in Xts : conf[y] \in {"reported", "marked"} =>
             \A r \in Ranges(y) : r.end <= chainNonce
    BY <1>4, Zenon DEF FloorBelowChain
  <2>2. CASE QuietLane
    BY <2>1, <2>2, ZenonT(30) DEF QuietLane, nonceVars, Ranges
  <2>3. ASSUME NEW x \in Xts, Reserving(x)
        PROVE  /\ canonical_floor' <= chainNonce'
               /\ \A y \in Xts : conf'[y] \in {"reported", "marked"} =>
                    \A r \in Ranges(y)' : r.end <= chainNonce'
    <3>1. /\ canonical_floor' \in {canonical_floor, chainNonce}
          /\ \A y \in Xts \ {x} : Ranges(y)' \subseteq Ranges(y)
      BY <1>1, <2>3, ReservingKeepsLane, Zenon
    <3>2. conf[x] = "none" /\ UNCHANGED <<chainNonce, conf>>
      BY <2>3, Zenon DEF Reserving, LaneInv, IInv, Once, CommandedOnce
    <3> QED
      BY <1>2, <2>1, <3>1, <3>2, SMTT(20)
  <2>4. ASSUME NEW x \in Xts, Freeing(x)
        PROVE  /\ canonical_floor' <= chainNonce'
               /\ \A y \in Xts : conf'[y] \in {"reported", "marked"} =>
                    \A r \in Ranges(y)' : r.end <= chainNonce'
    <3>1. /\ live' = live \ Ranges(x) /\ canonical_floor' = canonical_floor
          /\ UNCHANGED <<chainNonce, conf>>
      BY <1>1, <2>4, FreeingKeepsLane, Zenon DEF Freeing
    <3> QED
      BY <2>1, <3>1, ZenonT(30) DEF Ranges
  <2>5. ASSUME NEW x \in Xts, ConfirmNonces(x)
        PROVE  /\ canonical_floor' <= chainNonce'
               /\ \A y \in Xts : conf'[y] \in {"reported", "marked"} =>
                    \A r \in Ranges(y)' : r.end <= chainNonce'
    <3>1. /\ live' = live \ Ranges(x) /\ UNCHANGED chainNonce
          /\ canonical_floor' \in {r.end : r \in Ranges(x)} \cup {canonical_floor}
          /\ conf[x] = "marked" /\ conf' = [conf EXCEPT ![x] = "done"]
      BY <1>1, <2>5, ConfirmKeepsLane, Zenon
    <3>2. \A y \in Xts : conf'[y] = conf[y] \/ conf'[y] = "done"
      BY <3>1, Zenon DEF LaneInv, IInv, Shape, TaskShape
    <3>3. canonical_floor' <= chainNonce
      BY <2>1, <3>1, ZenonT(30)
    <3> QED
      BY <2>1, <3>1, <3>2, <3>3, ZenonT(30) DEF Ranges
  <2>6. ASSUME NEW x \in Xts, BuilderIncludes(x)
        PROVE  /\ canonical_floor' <= chainNonce'
               /\ \A y \in Xts : conf'[y] \in {"reported", "marked"} =>
                    \A r \in Ranges(y)' : r.end <= chainNonce'
    <3>1. /\ UNCHANGED nonceVars /\ pool[x].st = "released"
          /\ chainNonce' >= chainNonce /\ chainNonce' >= pool[x].end
          /\ \A y \in Xts \ {x} : conf'[y] = conf[y]
      BY <1>1, <2>6, InclusionKeepsLane, Zenon
    <3>2. \A r \in Ranges(x) : r.end = pool[x].end
      BY <3>1, Zenon DEF LaneInv, CarriesOwnRange, Carries
    <3>3. /\ UNCHANGED <<canonical_floor, live>>
          /\ \A y \in Xts : Ranges(y)' = Ranges(y) /\ Ranges(y) \subseteq live
      BY <3>1, Zenon DEF nonceVars, Ranges
    <3> QED
      BY <1>2, <2>1, <3>1, <3>2, <3>3, SMTT(20)
  <2> QED
    BY <1>1, <1>3, <1>4, <2>2, <2>3, <2>4, <2>5, <2>6, Zenon DEF LaneStep
<1> QED
  BY <1>3, <1>4, Zenon

(* While no call fails and the connection holds, a handled rollback leaves *)
(* the floor of the lane at or below the rewound chain: handle_rollback()  *)
(* ends with reset(), and no confirmation that was under way when the      *)
(* chain was rewound raises the floor above the chain again.               *)
THEOREM RollbackReanchors ==
  ASSUME FaultKinds = {}
  PROVE  Spec => []RollbackReanchorsLane
<1> DEFINE J == FloorBelowChain /\ connected
<1>1. Init => J
  BY DEF Init, NM!Init, FloorBelowChain, Ranges
<1>2. LaneInv /\ J /\ [Next]_vars => J'
  BY NextFloor, RewindSteps, Zenon DEF LaneInv
<1>3. J => RollbackReanchorsLane
  BY Zenon DEF FloorBelowChain, Anchored, Rewinding, RollbackReanchorsLane,
               RollbackMessage
<1> QED
  BY <1>1, <1>2, <1>3, LaneInvariant, PTL DEF Spec
-----------------------------------------------------------------------------
(* Without rollbacks and late releases, what is released carries nonces    *)
(* that are reserved for it and ahead of the chain.                        *)
LEMMA NextRangesHeld ==
  ASSUME LaneInv, FloorBelowChain, AbortedDead, RangesHeld, NoRollback,
         [Next]_vars, ~PublisherRollsBack, "late" \notin FaultKinds
  PROVE  RangesHeld'
<1>1. LaneInv' /\ IInv' /\ LaneStep /\ ~Resetting
  BY NextLane, NextIInv, LaneSteps, Zenon
     DEF LaneInv, NoRollback, Rewinding, Resetting
<1>2. /\ canonical_floor \in Nat /\ chainNonce \in Nat
      /\ canonical_floor <= chainNonce /\ chainNonce' \in Nat
  BY <1>1, LaneTypes, SMTT(20) DEF LaneInv, Nonce, FloorBelowChain, Anchored,
     NoRollback
<1>3. CASE QuietLane
  <2> SUFFICES ASSUME NEW y \in Xts
               PROVE  /\ cmd'[y].pc = "release" => Holds(y, cmd[y])'
                      /\ pool'[y].st = "released" => Holds(y, pool[y])'
                      /\ cmd'[y].pc = "free" => pool'[y].st # "released"
                      /\ conf'[y] \in {"reported", "marked"} =>
                           pool'[y].st = "included"
    BY Zenon DEF RangesHeld
  <2>1. UNCHANGED <<chainNonce, live>>
    BY <1>3, Zenon DEF QuietLane, nonceVars
  <2>2. cmd'[y].pc = "release" => Holds(y, cmd[y])'
    <3>1. CASE cmd'[y] = cmd[y]
      BY <2>1, <3>1, ZenonT(30) DEF RangesHeld, Holds
    <3>2. CASE cmd'[y].start = 0 /\ cmd'[y].end = 0
      BY <3>2 DEF Holds
    <3> QED
      BY <1>3, <3>1, <3>2, Zenon DEF QuietLane
  <2>3. pool'[y].st = "released" => Holds(y, pool[y])'
    BY <1>3, <2>1, Zenon DEF QuietLane, RangesHeld, Holds
  <2> QED
    BY <1>3, <2>2, <2>3, Zenon DEF QuietLane, RangesHeld
<1>4. ASSUME NEW x \in Xts, Reserving(x) PROVE RangesHeld'
  <2>1. /\ canonical_floor' \in {canonical_floor, chainNonce}
        /\ canonical_floor' >= chainNonce
        /\ cmd'[x].start >= canonical_floor'
        /\ [id |-> x, start |-> cmd'[x].start, end |-> cmd'[x].end] \in live'
        /\ \A s \in live : s.id # x /\ s.end > canonical_floor' => s \in live'
    BY <1>1, <1>4, ReservingKeepsLane, Zenon
  <2>2. /\ UNCHANGED <<pool, chainNonce, conf>>
        /\ \A y \in Xts \ {x} : cmd'[y] = cmd[y]
        /\ pool[x].st # "released" /\ conf[x] = "none"
    BY <1>4, ZenonT(30) DEF Reserving, LaneInv, IInv, Once, CommandedOnce
  <2>3. canonical_floor' = chainNonce
    BY <1>2, <2>1, SMTT(20)
  <2>4. ASSUME NEW y \in Xts \ {x}, NEW t, t.start \in Nonce, t.end \in Nonce,
               Holds(y, t), t.start < t.end
        PROVE  /\ [id |-> y, start |-> t.start, end |-> t.end] \in live'
               /\ t.start >= chainNonce
    <3> DEFINE s == [id |-> y, start |-> t.start, end |-> t.end]
    <3>1. s \in live /\ s.id # x /\ s.end = t.end /\ t.start >= chainNonce
      BY <2>4, Zenon DEF Holds
    <3>2. s.end > canonical_floor'
      BY <1>2, <2>3, <2>4, <3>1, SMTT(20) DEF Nonce
    <3> QED
      BY <2>1, <3>1, <3>2, Zenon
  <2>5. Holds(x, cmd[x])'
    BY <2>1, <2>2, <2>3, Zenon DEF Holds
  <2>6. ASSUME NEW y \in Xts \ {x}
        PROVE  /\ cmd'[y].pc = "release" => Holds(y, cmd[y])'
               /\ pool'[y].st = "released" => Holds(y, pool[y])'
    <3>1. /\ cmd[y].pc = "release" => Carries(y, cmd[y]) /\ Holds(y, cmd[y])
          /\ pool[y].st = "released" => Carries(y, pool[y]) /\ Holds(y, pool[y])
      BY Zenon DEF LaneInv, CarriesOwnRange, RangesHeld
    <3>2. cmd'[y].pc = "release" => Holds(y, cmd[y])'
      BY <2>2, <2>4, <3>1, Zenon DEF Holds, Carries
    <3>3. pool'[y].st = "released" => Holds(y, pool[y])'
      BY <2>2, <2>4, <3>1, Zenon DEF Holds, Carries
    <3> QED
      BY <3>2, <3>3, Zenon
  <2> QED
    BY <2>2, <2>5, <2>6, Zenon DEF RangesHeld
<1>5. ASSUME NEW x \in Xts, Freeing(x) PROVE RangesHeld'
  <2>1. /\ live' = live \ Ranges(x) /\ UNCHANGED <<pool, chainNonce, conf>>
        /\ \A y \in Xts : cmd'[y] = cmd[y] \/ cmd'[y].pc = "idle"
    BY <1>1, <1>5, FreeingKeepsLane, Zenon DEF Freeing
  <2>2. cmd[x].pc # "release" /\ pool[x].st # "released"
    BY <1>5, Zenon DEF Freeing, RangesHeld, AbortedDead, Dead
  <2>3. ASSUME NEW y \in Xts \ {x}, NEW t, Holds(y, t), t.start < t.end
        PROVE  [id |-> y, start |-> t.start, end |-> t.end] \in live'
    BY <2>1, <2>3, Zenon DEF Holds, Ranges
  <2>4. ASSUME NEW y \in Xts \ {x}
        PROVE  /\ cmd'[y].pc = "release" => Holds(y, cmd[y])'
               /\ pool'[y].st = "released" => Holds(y, pool[y])'
    BY <2>1, <2>3, Zenon DEF Holds, RangesHeld
  <2> QED
    BY <2>1, <2>2, <2>4, Zenon DEF RangesHeld
<1>6. ASSUME NEW x \in Xts, ConfirmNonces(x) PROVE RangesHeld'
  <2>1. /\ live' = live \ Ranges(x) /\ UNCHANGED <<pool, chainNonce, cmd>>
        /\ conf[x] = "marked" /\ conf' = [conf EXCEPT ![x] = "done"]
    BY <1>1, <1>6, ConfirmKeepsLane, Zenon DEF ConfirmNonces, poolVars
  <2>2. pool[x].st = "included" /\ cmd[x].pc # "release"
    BY <2>1, Zenon DEF RangesHeld, LaneInv, IInv, Once, CommandedOnce
  <2>3. ASSUME NEW y \in Xts \ {x}, NEW t, Holds(y, t), t.start < t.end
        PROVE  [id |-> y, start |-> t.start, end |-> t.end] \in live'
    BY <2>1, <2>3, Zenon DEF Holds, Ranges
  <2>4. ASSUME NEW y \in Xts \ {x}
        PROVE  /\ cmd'[y].pc = "release" => Holds(y, cmd[y])'
               /\ pool'[y].st = "released" => Holds(y, pool[y])'
    BY <2>1, <2>3, Zenon DEF Holds, RangesHeld
  <2>5. \A y \in Xts : conf'[y] \in {"reported", "marked"} => conf'[y] = conf[y]
    BY <2>1, Zenon DEF LaneInv, IInv, Shape, TaskShape
  <2> QED
    BY <2>1, <2>2, <2>4, <2>5, ZenonT(30) DEF RangesHeld
<1>7. ASSUME NEW x \in Xts, BuilderIncludes(x) PROVE RangesHeld'
  <2>1. /\ UNCHANGED <<cmd, live>> /\ pool[x].st = "released"
        /\ pool' = [pool EXCEPT ![x].st = "included"]
        /\ conf' = [conf EXCEPT ![x] = "reported"]
    BY <1>7, Zenon DEF BuilderIncludes, nonceVars
  <2>2. /\ pool'[x].st = "included" /\ cmd[x].pc # "release"
        /\ \A y \in Xts \ {x} : pool'[y] = pool[y] /\ conf'[y] = conf[y]
    <3>1. /\ DOMAIN pool = Xts /\ DOMAIN pool[x] = {"st", "start", "end"}
          /\ DOMAIN conf = Xts
      BY Zenon DEF LaneInv, IInv, Shape, TaskShape, BuilderShape
    <3>2. cmd[x].pc # "release"
      BY <2>1, Zenon DEF LaneInv, IInv, Once, CommandedOnce
    <3> QED
      BY <2>1, <3>1, <3>2, Zenon
  <2>3. ASSUME NEW y \in Xts \ {x}, NEW t, t.start \in Nonce, t.end \in Nonce,
               Holds(y, t), t.start < t.end
        PROVE  /\ [id |-> y, start |-> t.start, end |-> t.end] \in live'
               /\ t.start >= chainNonce'
    <3> DEFINE s == [id |-> y, start |-> t.start, end |-> t.end]
               r == [id |-> x, start |-> pool[x].start, end |-> pool[x].end]
    <3>1. s \in live /\ t.start >= chainNonce /\ s # r
      BY <2>3, Zenon DEF Holds
    <3>2. CASE chainNonce' = chainNonce
      BY <2>1, <3>1, <3>2, ZenonT(30)
    <3>3. CASE chainNonce' # chainNonce
      <4>1. /\ pool[x].start = chainNonce /\ pool[x].end > chainNonce
            /\ chainNonce' = pool[x].end
        BY <1>2, <1>7, <3>3, SMTT(20) DEF BuilderIncludes
      <4>2. r \in live
        BY <1>2, <2>1, <4>1, ZenonT(30) DEF RangesHeld, Holds
      <4>3. NMP!Nonces(r) \cap NMP!Nonces(s) = {}
        BY <3>1, <4>2, ZenonT(30) DEF LaneInv, NMP!IInv, NMP!LiveDisjoint
      <4>4. t.start \notin pool[x].start .. (pool[x].end - 1)
        BY <2>3, <4>3 DEF NMP!Nonces, Nonce
      <4>5. pool[x].end \in Nat
        BY <1>2, <4>1, Zenon
      <4> QED
        BY <1>2, <2>1, <2>3, <3>1, <4>1, <4>4, <4>5, SMTT(20) DEF Nonce
    <3> QED
      BY <3>2, <3>3, Zenon
  <2>4. ASSUME NEW y \in Xts \ {x}
        PROVE  /\ cmd'[y].pc = "release" => Holds(y, cmd[y])'
               /\ pool'[y].st = "released" => Holds(y, pool[y])'
    <3>1. /\ cmd[y].pc = "release" => Carries(y, cmd[y]) /\ Holds(y, cmd[y])
          /\ pool[y].st = "released" => Carries(y, pool[y]) /\ Holds(y, pool[y])
      BY Zenon DEF LaneInv, CarriesOwnRange, RangesHeld
    <3>2. cmd'[y].pc = "release" => Holds(y, cmd[y])'
      BY <2>1, <2>3, <3>1, Zenon DEF Holds, Carries
    <3>3. pool'[y].st = "released" => Holds(y, pool[y])'
      BY <2>2, <2>3, <3>1, Zenon DEF Holds, Carries
    <3> QED
      BY <3>2, <3>3, Zenon
  <2> QED
    BY <2>1, <2>2, <2>4, Zenon DEF RangesHeld
<1> QED
  BY <1>1, <1>3, <1>4, <1>5, <1>6, <1>7, Zenon DEF LaneStep

(* Ranges that are reserved, each for its own XT, are apart.               *)
LEMMA HeldUsable == ASSUME LaneInv, RangesHeld PROVE PutInboxNoncesUsable
<1> SUFFICES ASSUME NEW x \in Xts, pool[x].st = "released",
                    pool[x].start < pool[x].end
             PROVE  /\ pool[x].start >= chainNonce
                    /\ \A y \in Xts \ {x} :
                         pool[y].st = "released" =>
                           (pool[x].start .. (pool[x].end - 1))
                             \cap (pool[y].start .. (pool[y].end - 1)) = {}
  BY Zenon DEF PutInboxNoncesUsable
<1> DEFINE Carried(y) == [id |-> y, start |-> pool[y].start, end |-> pool[y].end]
<1>1. Carried(x) \in live /\ pool[x].start >= chainNonce
  BY Zenon DEF RangesHeld, Holds
<1>2. ASSUME NEW y \in Xts \ {x}, pool[y].st = "released"
      PROVE  (pool[x].start .. (pool[x].end - 1))
               \cap (pool[y].start .. (pool[y].end - 1)) = {}
  <2>1. pool[y].start \in Nonce /\ pool[y].end \in Nonce
    BY <1>2, Zenon DEF LaneInv, CarriesOwnRange, Carries
  <2>2. CASE pool[y].start < pool[y].end
    <3>1. Carried(y) \in live /\ Carried(y) # Carried(x)
      BY <1>2, <2>2, Zenon DEF RangesHeld, Holds
    <3>2. NMP!Nonces(Carried(x)) \cap NMP!Nonces(Carried(y)) = {}
      BY <1>1, <3>1, ZenonT(30) DEF LaneInv, NMP!IInv, NMP!LiveDisjoint
    <3> QED
      BY <3>2, Zenon DEF NMP!Nonces
  <2>3. CASE ~(pool[y].start < pool[y].end)
    BY <2>1, <2>3, SMTT(20) DEF Nonce
  <2> QED
    BY <2>2, <2>3, Zenon
<1> QED
  BY <1>1, <1>2, Zenon

(* While nothing is rolled back and no release the builder took is         *)
(* reported as failed, every putInbox transaction at the builder carries   *)
(* nonces that are ahead of the chain and that no other one at the builder *)
(* carries: release_xt(), the failure paths and the confirmations never    *)
(* free or reissue a nonce that is still in use.                           *)
THEOREM PutInboxUsable ==
  ASSUME Rollbacks = FALSE, "late" \notin FaultKinds
  PROVE  Spec => []PutInboxNoncesUsable
<1> DEFINE J == NoRollback /\ FloorBelowChain /\ AbortedDead /\ RangesHeld
<1>1. Init => J
  <2>1. Init => NoRollback
    <3>1. RollbackSweep \in SweepIds /\ ~NoSweep.on
      BY CoordinatorAssumption, SMTT(20) DEF RollbackSweep, SweepIds, NoSweep
    <3> QED
      BY <3>1, Zenon DEF Init, NoRollback, Rewinding
  <2>2. Init => FloorBelowChain
    BY SMTT(20) DEF Init, NM!Init, FloorBelowChain, Ranges
  <2>3. Init => AbortedDead
    BY SMTT(20) DEF Init, AbortedDead, Aborted, Swept, NoSweep, NoCmd
  <2>4. Init => RangesHeld
    BY DEF Init, RangesHeld, NoCmd, Absent
  <2> QED
    BY <2>1, <2>2, <2>3, <2>4, Zenon
<1>2. LaneInv /\ J /\ [Next]_vars => J'
  <2> SUFFICES ASSUME LaneInv, J, [Next]_vars PROVE J'
    BY Zenon
  <2>1. NoRollback' /\ ~PublisherRollsBack /\ ~HandleRollback
    BY NextNoRollback, Zenon DEF LaneInv
  <2>2. AbortedDead' /\ RangesHeld'
    BY <2>1, NextAbortedDead, NextRangesHeld, ZenonT(30) DEF LaneInv
  <2>3. Anchored
    BY Zenon DEF NoRollback, Anchored
  <2>4. FloorBelowChain'
    BY <2>1, <2>3, NextFloor, Zenon
  <2> QED
    BY <2>1, <2>2, <2>4, ZenonT(30)
<1>3. LaneInv /\ J => PutInboxNoncesUsable
  BY HeldUsable, Zenon
<1> QED
  BY <1>1, <1>2, <1>3, LaneInvariant, PTL DEF Spec
=============================================================================

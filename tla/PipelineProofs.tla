--------------------------- MODULE PipelineProofs ---------------------------
(***************************************************************************)
(* Proofs about process_xt(): for any number of XTs, transactions, keys    *)
(* and slots, and whatever a simulation finds.                             *)
(***************************************************************************)
EXTENDS Pipeline, WellFoundedInduction, TLAPS

(* The places of process_xt() after the checks and before its end.         *)
Working == {"lock", "refresh", "simulate", "record", "dispatch", "send", "wait"}

Messages == [key : Keys, payload : SUBSET Keys]

Results == [success : BOOLEAN, traced : BOOLEAN, dependencies : Seq(Keys),
            outbound : Seq(Messages)]

Origins == {None} \cup (Xts \X Nat)

XtRecords == [locked : BOOLEAN, vote : BOOLEAN \cup {None},
              decision : BOOLEAN \cup {None}, confirmed : BOOLEAN,
              mailbox : SUBSET Keys, deps : SUBSET Keys, fulfilled : SUBSET Keys,
              outbound : SUBSET Messages, sent : SUBSET Keys]

Tasks == [pc : {"start", "check", "vote", "end"} \cup Working, tx : Nat,
          overrides : [Slots -> Origins], fulfilled : SUBSET Keys, result : Results,
          to_send : SUBSET Nat, vote : BOOLEAN \cup {None}, passed : BOOLEAN,
          traced : SUBSET Nat]

Shape ==
  /\ \E u \in Setups : program = u.program /\ config = BuildCoordinator(u.args)
  /\ pending \subseteq Xts /\ xt \in [Xts -> XtRecords]
  /\ overlay \in [Slots -> Origins] /\ task \in [Xts -> Tasks]
  /\ handed \in [Xts -> Seq(Messages)]

(* The transactions recorded with overrides are those up to the current    *)
(* one, and the copy of the overrides shows the last writer among them.    *)
OwnWrites(x) ==
  /\ task[x].traced \subseteq 1 .. task[x].tx
  /\ \A s \in Slots :
       LET own == {i \in task[x].traced : s \in program[x][i].slots}
       IN  own # {} => task[x].overrides[s] = <<x, Max(own)>>

Key(x, i) == task[x].result.outbound[i].key

HandedKeys(x) == {handed[x][i].key : i \in 1 .. Len(handed[x])}

QueuedKeys(x) == {Key(x, i) : i \in task[x].to_send}

OutKeys(x) == {Key(x, i) : i \in 1 .. Len(task[x].result.outbound)}

(* What is queued is of the current result, has different keys, and has    *)
(* not been handed over; what was handed over or queued is marked as sent. *)
Queue(x) ==
  /\ At(x, "send") <=> task[x].to_send # {}
  /\ task[x].to_send \subseteq 1 .. Len(task[x].result.outbound)
  /\ \A i, j \in task[x].to_send : Key(x, i) = Key(x, j) => i = j
  /\ \A i, j \in 1 .. Len(handed[x]) :
       handed[x][i].key = handed[x][j].key => i = j
  /\ QueuedKeys(x) \cap HandedKeys(x) = {}
  /\ x \in pending => HandedKeys(x) \cup QueuedKeys(x) \subseteq xt[x].sent

(* A result is that of the current transaction.                            *)
Current(x) ==
  LET o == Outcome[<<Tx(x).call, task[x].fulfilled, config.mailbox>>]
  IN  /\ task[x].result.success = o.success
      /\ task[x].result.dependencies = o.dependencies
      /\ task[x].result.outbound = o.outbound

(* The way to a yes: the task knows what is fulfilled, all of which was    *)
(* asked for, and what is marked as sent was handed over or is queued.     *)
Way(x) ==
  /\ task[x].pc \in {"start", "check"} => task[x].tx = 1 /\ task[x].traced = {}
  /\ task[x].pc \in Working \cup {"check"} => task[x].tx \in Txs(x)
  /\ task[x].pc \in Working => task[x].passed
  /\ task[x].pc \in {"record", "dispatch", "send", "wait"} => Current(x)
  /\ xt[x].fulfilled \subseteq xt[x].deps
  /\ x \in pending =>
       /\ task[x].pc \in {"simulate", "record", "dispatch", "send", "wait"} =>
            task[x].fulfilled = xt[x].fulfilled
       /\ task[x].pc \in {"dispatch", "send", "wait"} =>
            Range(task[x].result.dependencies) \subseteq xt[x].deps
       /\ At(x, "send") => OutKeys(x) \subseteq xt[x].sent
       /\ task[x].pc \in Working \cup {"start", "check"} =>
            xt[x].sent \subseteq HandedKeys(x) \cup QueuedKeys(x)

(* Transaction i has succeeded, and its messages were handed over.         *)
Earned(x, i) ==
  config.simulator /\ config.mailbox =>
    /\ Succeeds(x, i, xt[x].fulfilled)
    /\ config.sender =>
         KeysOf(program[x][i].call, xt[x].fulfilled, "write") \subseteq HandedKeys(x)

(* A yes, cast or to be cast, is earned by all transactions, and so is the *)
(* place of the task by those before the current one.                      *)
Ballots(x) ==
  /\ x \in pending /\ task[x].pc \in Working => \A i \in 1 .. task[x].tx - 1 : Earned(x, i)
  /\ x \in pending /\ At(x, "vote") /\ task[x].vote = TRUE =>
       task[x].passed /\ \A i \in Txs(x) : Earned(x, i)
  /\ xt[x].vote = TRUE =>
       /\ x \in pending /\ task[x].pc = "end" /\ task[x].passed
       /\ \A i \in Txs(x) : Earned(x, i)

Local(x) == OwnWrites(x) /\ Queue(x) /\ Way(x)

PipelineInv == Shape /\ \A x \in Xts : Local(x)
-----------------------------------------------------------------------------
(* A non-empty set of numbers has a least element, and Min is it.          *)
LEMMA LeastElement ==
  ASSUME NEW S \in SUBSET Nat, S # {}
  PROVE  Min(S) \in S /\ \A n \in S : Min(S) <= n
<1>1. PICK n \in S : \A k \in S : ~(<<k, n>> \in OpToRel(<, Nat))
  BY WFMin, NatLessThanWellFounded, Zenon
<1>2. \A k \in S : ~(k < n)
  BY <1>1, Zenon DEF OpToRel
<1>3. \E m \in S : \A k \in S : m <= k
  BY <1>2
<1> QED
  BY <1>3, Zenon DEF Min

(* The greatest element of a set is its Max.                               *)
LEMMA GreatestElement ==
  ASSUME NEW S \in SUBSET Nat, NEW m \in S, \A n \in S : n <= m
  PROVE  Max(S) = m
<1>1. Max(S) \in S /\ \A n \in S : Max(S) >= n
  BY Zenon DEF Max
<1>2. Max(S) >= m /\ Max(S) <= m /\ Max(S) \in Nat /\ m \in Nat
  BY <1>1, Zenon
<1> QED
  BY <1>2

(* The table of outcomes holds results of the simulator.                   *)
LEMMA OutcomeType ==
  ASSUME NEW call \in Calls, NEW have \in SUBSET Keys, NEW mailbox \in BOOLEAN
  PROVE  Outcome[<<call, have, mailbox>>] \in Results
BY PipelineAssumption, Zenon DEF Results, Messages

(* Sequences are numbered from one.                                        *)
LEMMA Elements ==
  ASSUME NEW S, NEW q \in Seq(S)
  PROVE  Len(q) \in Nat /\ \A i \in 1 .. Len(q) : q[i] \in S
OBVIOUS

(* The transactions of an XT are a sequence of calls the simulator knows.  *)
LEMMA Programs ==
  ASSUME Shape, NEW x \in Xts
  PROVE  /\ Len(program[x]) \in Nat
         /\ config.simulator \in BOOLEAN /\ config.mailbox \in BOOLEAN
         /\ config.sender \in BOOLEAN
         /\ \A i \in Txs(x) : /\ program[x][i].call \in Calls
                              /\ program[x][i].slots \in SUBSET Slots
<1>1. PICK u \in Setups : program = u.program /\ config = BuildCoordinator(u.args)
  BY Zenon DEF Shape
<1>2. program[x] \in Seq([call : Calls, slots : SUBSET Slots])
  BY <1>1, PipelineAssumption, Zenon
<1>3. /\ Len(program[x]) \in Nat
      /\ \A i \in Txs(x) : program[x][i] \in [call : Calls, slots : SUBSET Slots]
  BY <1>2, Elements, Zenon DEF Txs
<1>4. /\ config.simulator \in BOOLEAN /\ config.mailbox \in BOOLEAN
      /\ config.sender \in BOOLEAN
  BY <1>1, Zenon DEF BuildCoordinator
<1> QED
  BY <1>3, <1>4, Zenon
-----------------------------------------------------------------------------
(* A new task, a ballot and a new PendingXt have their types.              *)
LEMMA NewTypes ==
  /\ NewXt \in XtRecords /\ NoResult \in Results
  /\ NoOverlay \in [Slots -> Origins] /\ NewTask \in Tasks
<1>1. /\ <<>> \in Seq(Keys) /\ <<>> \in Seq(Messages)
  OBVIOUS
<1>2. NewXt \in XtRecords
  BY Zenon DEF NewXt, XtRecords
<1>3. NoResult \in Results
  BY <1>1, Zenon DEF NoResult, Results
<1>4. NoOverlay \in [Slots -> Origins]
  BY Zenon DEF NoOverlay, Origins
<1>5. NewTask \in Tasks
  BY <1>3, <1>4, Zenon DEF NewTask, Tasks
<1> QED
  BY <1>2, <1>3, <1>4, <1>5, Zenon

(* The task of an XT that leaves the work.                                 *)
LEMMA LeaveType ==
  ASSUME Shape, NEW x \in Xts, NEW p \in {"vote", "end"},
         NEW v \in BOOLEAN \cup {None}
  PROVE  /\ Leave(x, p, v) \in Tasks
         /\ Leave(x, p, v).pc = p /\ Leave(x, p, v).vote = v
         /\ Leave(x, p, v).passed = task[x].passed
         /\ Leave(x, p, v).to_send = {} /\ Leave(x, p, v).traced = {}
         /\ Leave(x, p, v).result = NoResult
<1>1. task[x].passed \in BOOLEAN
  BY Zenon DEF Shape, Tasks
<1>2. NewTask \in Tasks /\ NewTask.to_send = {} /\ NewTask.traced = {}
      /\ NewTask.result = NoResult
  BY NewTypes, Zenon DEF NewTask
<1> QED
  BY <1>1, <1>2, Zenon DEF Leave, Tasks

(* What merge_overrides() gives shows the writer it is told of.            *)
LEMMA MergeType ==
  ASSUME NEW base \in [Slots -> Origins], NEW x \in Xts, NEW i \in Nat
  PROVE  Merge(base, x, i) \in [Slots -> Origins]
BY Zenon DEF Merge, Origins

(* A step of x's task touches nothing of other XTs.                        *)
OnlyAt(x) ==
  /\ UNCHANGED <<program, config, pending>>
  /\ task' = [task EXCEPT ![x] = task'[x]]
  /\ xt' = [xt EXCEPT ![x] = xt'[x]]
  /\ handed' = [handed EXCEPT ![x] = handed'[x]]
  /\ task'[x] \in Tasks /\ xt'[x] \in XtRecords /\ handed'[x] \in Seq(Messages)

(* The task ends, or goes to cast a vote v.                                *)
Leaves(x, v) ==
  /\ task'[x].pc \in {"vote", "end"} /\ (task'[x].pc = "end" => v = None)
  /\ task'[x].vote = v /\ task'[x].passed = task[x].passed
  /\ task'[x].to_send = {} /\ task'[x].traced = {}

(* Such a step keeps the shape.                                            *)
LEMMA OnlyAtShape ==
  ASSUME Shape, NEW x \in Xts, OnlyAt(x), overlay' \in [Slots -> Origins]
  PROVE  Shape'
BY Zenon DEF Shape, OnlyAt

(* Steps that leave only the task changed.                                 *)
LEMMA TaskOnly ==
  ASSUME Shape, NEW x \in Xts, NEW t \in Tasks, task' = [task EXCEPT ![x] = t],
         UNCHANGED <<program, config, pending, xt, handed>>
  PROVE  OnlyAt(x) /\ task'[x] = t /\ xt'[x] = xt[x] /\ handed'[x] = handed[x]
BY Zenon DEF Shape, OnlyAt

(* A task that was put to Leave() has left the work.                       *)
LEMMA LeaveIsLeaving ==
  ASSUME Shape, NEW x \in Xts, NEW p \in {"vote", "end"},
         NEW v \in BOOLEAN \cup {None}, p = "end" => v = None,
         task'[x] = Leave(x, p, v)
  PROVE  Leaves(x, v)
BY LeaveType DEF Leaves

(* Steps that only leave the work.                                         *)
LEMMA Leaving ==
  ASSUME Shape, NEW x \in Xts, NEW p \in {"vote", "end"},
         NEW v \in BOOLEAN \cup {None}, p = "end" => v = None,
         task' = [task EXCEPT ![x] = Leave(x, p, v)],
         UNCHANGED <<program, config, pending, xt, handed>>
  PROVE  OnlyAt(x) /\ Leaves(x, v) /\ xt'[x] = xt[x] /\ handed'[x] = handed[x]
<1>1. Leave(x, p, v) \in Tasks
  BY LeaveType, Zenon
<1>2. /\ OnlyAt(x) /\ task'[x] = Leave(x, p, v)
      /\ xt'[x] = xt[x] /\ handed'[x] = handed[x]
  BY <1>1, TaskOnly, Zenon
<1> QED
  BY <1>2, LeaveIsLeaving, Zenon

(* What the steps before the first simulation do.                          *)
LEMMA StartEffect ==
  ASSUME Shape, NEW x \in Xts, Start(x)
  PROVE  /\ OnlyAt(x) /\ UNCHANGED <<overlay, xt, handed>> /\ task[x].pc = "start"
         /\ \/ Leaves(x, None) \/ Leaves(x, FALSE)
            \/ /\ x \in pending /\ program[x] # <<>>
               /\ task'[x] = [task[x] EXCEPT !.pc = "check", !.overrides = overlay]
<1>1. task[x] \in Tasks /\ overlay \in [Slots -> Origins]
  BY Zenon DEF Shape
<1>2. /\ UNCHANGED <<program, config, pending, overlay, xt, handed>>
      /\ task[x].pc = "start"
  BY Zenon DEF Start, stateVars, worldVars, At
<1>3. CASE x \notin pending
  <2>1. task' = [task EXCEPT ![x] = Leave(x, "end", None)]
    BY <1>2, <1>3, Zenon DEF Start, GoEnd
  <2> QED
    BY <1>2, <2>1, Leaving, Zenon
<1>4. CASE x \in pending /\ program[x] = <<>>
  <2>1. task' = [task EXCEPT ![x] = Leave(x, "vote", FALSE)]
    BY <1>2, <1>4, Zenon DEF Start, GoVote, Ballot
  <2> QED
    BY <1>2, <2>1, Leaving, Zenon
<1>5. CASE x \in pending /\ program[x] # <<>>
  <2> DEFINE t == [task[x] EXCEPT !.pc = "check", !.overrides = overlay]
  <2>1. task' = [task EXCEPT ![x] = t]
    BY <1>1, <1>2, <1>5, Zenon DEF Start
  <2>2. t \in Tasks
    BY <1>1, Zenon DEF Tasks
  <2> QED
    BY <1>2, <1>5, <2>1, <2>2, TaskOnly, Zenon
<1> QED
  BY <1>3, <1>4, <1>5, Zenon

(* Passing both checks is remembered.                                      *)
LEMMA CheckEffect ==
  ASSUME Shape, NEW x \in Xts, Check(x)
  PROVE  /\ OnlyAt(x) /\ UNCHANGED <<overlay, xt, handed>> /\ task[x].pc = "check"
         /\ task'[x] = [task[x] EXCEPT !.pc = "lock", !.passed = TRUE]
<1> DEFINE t == [task[x] EXCEPT !.pc = "lock", !.passed = TRUE]
<1>1. task[x] \in Tasks
  BY Zenon DEF Shape
<1>2. /\ UNCHANGED <<program, config, pending, overlay, xt, handed>>
      /\ task[x].pc = "check" /\ task' = [task EXCEPT ![x] = t]
  BY <1>1, Zenon DEF Check, stateVars, worldVars, At
<1>3. t \in Tasks
  BY <1>1, Zenon DEF Tasks, Working
<1> QED
  BY <1>2, <1>3, TaskOnly, Zenon

(* A step that fails, or finds no more time, leaves with a no.             *)
LEMMA FailureEffect ==
  ASSUME Shape, NEW x \in Xts,
         CheckRejects(x) \/ SimulateFails(x) \/ SendFails(x) \/ WaitTimesOut(x)
  PROVE  /\ OnlyAt(x) /\ UNCHANGED <<overlay, xt, handed>>
         /\ task[x].pc \in {"check", "simulate", "send", "wait"} /\ Leaves(x, FALSE)
<1>1. /\ UNCHANGED <<program, config, pending, overlay, xt, handed>>
      /\ task[x].pc \in {"check", "simulate", "send", "wait"}
      /\ task' = [task EXCEPT ![x] = Leave(x, "vote", FALSE)]
  BY Zenon DEF CheckRejects, SimulateFails, SendFails, WaitTimesOut, GoVote,
     Ballot, stateVars, worldVars, At
<1> QED
  BY <1>1, Leaving, Zenon

(* The lock is taken, or an XT without a simulator is voted for.           *)
LEMMA LockEffect ==
  ASSUME Shape, NEW x \in Xts, Lock(x)
  PROVE  /\ OnlyAt(x) /\ UNCHANGED <<overlay, handed>> /\ task[x].pc = "lock"
         /\ \/ xt'[x] = xt[x]
            \/ x \in pending /\ xt'[x] = [xt[x] EXCEPT !.locked = TRUE]
         /\ \/ task'[x] = [task[x] EXCEPT !.pc = "refresh"]
            \/ ~config.simulator /\ Leaves(x, TRUE)
<1>1. task[x] \in Tasks /\ xt[x] \in XtRecords /\ handed[x] \in Seq(Messages)
  BY Zenon DEF Shape
<1>2. /\ UNCHANGED <<program, config, pending, overlay, handed>>
      /\ task[x].pc = "lock"
  BY Zenon DEF Lock, stateVars, worldVars, At
<1>3. /\ xt' = [xt EXCEPT ![x] = xt'[x]] /\ xt'[x] \in XtRecords
      /\ \/ xt'[x] = xt[x]
         \/ x \in pending /\ xt'[x] = [xt[x] EXCEPT !.locked = TRUE]
  BY <1>1, Zenon DEF Lock, Shape, XtRecords
<1>4. /\ task' = [task EXCEPT ![x] = task'[x]]
      /\ \/ task'[x] = [task[x] EXCEPT !.pc = "refresh"]
         \/ ~config.simulator /\ task'[x] = Leave(x, "vote", TRUE)
  BY <1>1, Zenon DEF Lock, Goto, GoVote, Ballot, Shape
<1>5. task'[x] \in Tasks
  <2>1. [task[x] EXCEPT !.pc = "refresh"] \in Tasks
    BY <1>1, Zenon DEF Tasks, Working
  <2>2. Leave(x, "vote", TRUE) \in Tasks
    BY LeaveType, Zenon
  <2> QED
    BY <1>4, <2>1, <2>2, Zenon
<1>6. task'[x] = Leave(x, "vote", TRUE) => Leaves(x, TRUE)
  BY LeaveIsLeaving, Zenon
<1> QED
  BY <1>1, <1>2, <1>3, <1>4, <1>5, <1>6, Zenon DEF OnlyAt, Shape

(* Refreshing copies what is fulfilled, or ends for a forgotten XT.        *)
LEMMA RefreshEffect ==
  ASSUME Shape, NEW x \in Xts, Refresh(x)
  PROVE  /\ OnlyAt(x) /\ UNCHANGED <<overlay, xt, handed>> /\ task[x].pc = "refresh"
         /\ \/ x \notin pending /\ Leaves(x, None)
            \/ task'[x] = [task[x] EXCEPT !.pc = "simulate",
                                          !.fulfilled = xt[x].fulfilled]
<1> DEFINE t == [task[x] EXCEPT !.pc = "simulate", !.fulfilled = xt[x].fulfilled]
<1>1. task[x] \in Tasks /\ xt[x] \in XtRecords
  BY Zenon DEF Shape
<1>2. /\ UNCHANGED <<program, config, pending, overlay, xt, handed>>
      /\ task[x].pc = "refresh"
  BY Zenon DEF Refresh, stateVars, worldVars, At
<1>3. CASE x \in pending
  <2>1. task' = [task EXCEPT ![x] = t]
    BY <1>1, <1>3, Zenon DEF Refresh
  <2>2. t \in Tasks
    BY <1>1, Zenon DEF Tasks, XtRecords, Working
  <2> QED
    BY <1>2, <2>1, <2>2, TaskOnly, Zenon
<1>4. CASE x \notin pending
  <2>1. task' = [task EXCEPT ![x] = Leave(x, "end", None)]
    BY <1>4, Zenon DEF Refresh, GoEnd
  <2> QED
    BY <1>2, <1>4, <2>1, Leaving, Zenon
<1> QED
  BY <1>3, <1>4, Zenon

(* A simulation gives a result of the transaction it is at.                *)
LEMMA SimulateEffect ==
  ASSUME Shape, NEW x \in Xts, NEW traced \in BOOLEAN, Simulate(x, traced),
         task[x].tx \in Txs(x)
  PROVE  /\ OnlyAt(x) /\ UNCHANGED <<overlay, xt, handed>> /\ task[x].pc = "simulate"
         /\ task'[x] = [task[x] EXCEPT !.pc = "record", !.result = task'[x].result]
         /\ Current(x)'
<1> DEFINE o == Outcome[<<Tx(x).call, task[x].fulfilled, config.mailbox>>]
           r == [o EXCEPT !.traced = traced]
           t == [task[x] EXCEPT !.pc = "record", !.result = r]
<1>1. task[x] \in Tasks
  BY Zenon DEF Shape
<1>2. /\ UNCHANGED <<program, config, pending, overlay, xt, handed>>
      /\ task[x].pc = "simulate" /\ task' = [task EXCEPT ![x] = t]
  BY <1>1, Zenon DEF Simulate, stateVars, worldVars, At
<1>3. o \in Results
  <2>1. Tx(x).call \in Calls /\ config.mailbox \in BOOLEAN
    BY Programs, Zenon DEF Tx
  <2>2. task[x].fulfilled \in SUBSET Keys
    BY <1>1, Zenon DEF Tasks
  <2> QED
    BY <2>1, <2>2, OutcomeType, Zenon
<1> HIDE DEF o
<1>4. /\ r \in Results /\ r.success = o.success /\ r.outbound = o.outbound
      /\ r.dependencies = o.dependencies
  BY <1>3, Zenon DEF Results
<1> HIDE DEF r
<1>5. t \in Tasks /\ t.tx = task[x].tx /\ t.fulfilled = task[x].fulfilled /\ t.result = r
  BY <1>1, <1>4, Zenon DEF Tasks, Working
<1>6. OnlyAt(x) /\ task'[x] = t
  BY <1>2, <1>5, TaskOnly, Zenon
<1>7. Current(x)'
  BY <1>2, <1>4, <1>5, <1>6, Zenon DEF Current, Tx, o
<1> QED
  BY <1>2, <1>5, <1>6, <1>7, Zenon

(* A result is recorded: what the simulation wrote is pushed, what it asks *)
(* for and sends is noted.                                                 *)
LEMMA RecordEffect ==
  ASSUME Shape, NEW x \in Xts, RecordSimulationState(x)
  PROVE  /\ OnlyAt(x) /\ UNCHANGED handed /\ task[x].pc = "record"
         /\ overlay' \in [Slots -> Origins]
         /\ overlay' = overlay \/ overlay' = Merge(overlay, x, task[x].tx)
         /\ \/ x \notin pending /\ xt'[x] = xt[x]
            \/ /\ x \in pending
               /\ xt'[x] = [xt[x] EXCEPT !.deps = xt'[x].deps,
                                         !.outbound = xt'[x].outbound]
               /\ xt[x].deps \cup Range(task[x].result.dependencies) = xt'[x].deps
         /\ \/ Leaves(x, FALSE)
            \/ /\ task'[x] = [task[x] EXCEPT !.pc = task'[x].pc,
                     !.overrides = task'[x].overrides, !.traced = task'[x].traced]
               /\ task'[x].pc \in {"dispatch", "wait"}
               /\ \/ UNCHANGED <<task[x].overrides, task[x].traced>>
                  \/ /\ task'[x].overrides = Merge(task[x].overrides, x, task[x].tx)
                     /\ task'[x].traced = task[x].traced \cup {task[x].tx}
<1> DEFINE result == task[x].result
           pushes == x \in pending /\ result.success /\ result.traced
           after  == [task[x] EXCEPT
                        !.pc = Onward(x, result),
                        !.overrides = IF pushes THEN OverridesAfter(x) ELSE @,
                        !.traced = IF pushes THEN @ \cup {task[x].tx} ELSE @]
<1>1. /\ task[x] \in Tasks /\ xt[x] \in XtRecords /\ handed[x] \in Seq(Messages)
      /\ overlay \in [Slots -> Origins] /\ result \in Results
  BY Zenon DEF Shape, Tasks
<1>2. /\ UNCHANGED <<program, config, pending, handed>> /\ task[x].pc = "record"
      /\ overlay' = IF pushes THEN OverlayAfter(x) ELSE overlay
      /\ xt' = IF x \notin pending THEN xt
               ELSE [xt EXCEPT ![x].deps = @ \cup Range(result.dependencies),
                               ![x].outbound = @ \cup NewMessages(x, result.outbound)]
      /\ IF after.pc = "vote" THEN GoVote(x, FALSE) ELSE task' = [task EXCEPT ![x] = after]
  BY Zenon DEF RecordSimulationState, worldVars, At
<1>3. /\ Merge(overlay, x, task[x].tx) \in [Slots -> Origins]
      /\ Merge(task[x].overrides, x, task[x].tx) \in [Slots -> Origins]
  BY <1>1, MergeType, Zenon DEF Tasks
<1>4. /\ overlay' \in [Slots -> Origins]
      /\ overlay' = overlay \/ overlay' = Merge(overlay, x, task[x].tx)
  BY <1>1, <1>2, <1>3, Zenon DEF OverlayAfter
<1>5. /\ Range(result.dependencies) \in SUBSET Keys
      /\ NewMessages(x, result.outbound) \in SUBSET Messages
  <2>1. result.dependencies \in Seq(Keys) /\ result.outbound \in Seq(Messages)
    BY <1>1, Zenon DEF Results
  <2> QED
    BY <2>1, Elements DEF Range, NewMessages
<1>6. /\ xt' = [xt EXCEPT ![x] = xt'[x]] /\ xt'[x] \in XtRecords
      /\ \/ x \notin pending /\ xt'[x] = xt[x]
         \/ /\ x \in pending
            /\ xt'[x] = [xt[x] EXCEPT !.deps = xt'[x].deps, !.outbound = xt'[x].outbound]
            /\ xt[x].deps \cup Range(result.dependencies) = xt'[x].deps
  <2>1. CASE x \notin pending
    BY <1>1, <1>2, <2>1, Zenon DEF Shape
  <2>2. CASE x \in pending
    <3> DEFINE d == xt[x].deps \cup Range(result.dependencies)
               m == xt[x].outbound \cup NewMessages(x, result.outbound)
               r == [xt[x] EXCEPT !.deps = d, !.outbound = m]
    <3>1. xt' = [xt EXCEPT ![x] = r]
      BY <1>1, <1>2, <2>2, Zenon DEF Shape
    <3>2. d \in SUBSET Keys /\ m \in SUBSET Messages
      BY <1>1, <1>5, Zenon DEF XtRecords
    <3> HIDE DEF d, m
    <3>3. r \in XtRecords /\ r.deps = d /\ r.outbound = m
      BY <1>1, <3>2, Zenon DEF XtRecords
    <3>4. xt'[x] = r
      BY <3>1, Zenon DEF Shape
    <3> QED
      BY <2>2, <3>1, <3>3, <3>4, Zenon DEF d
  <2> QED
    BY <2>1, <2>2, Zenon
<1>7. CASE after.pc = "vote"
  <2>1. task' = [task EXCEPT ![x] = Leave(x, "vote", FALSE)]
    BY <1>2, <1>7, Zenon DEF GoVote, Ballot
  <2>2. task'[x] = Leave(x, "vote", FALSE) /\ Leave(x, "vote", FALSE) \in Tasks
    BY <2>1, LeaveType, ZenonT(30) DEF Shape
  <2>3. Leaves(x, FALSE) /\ OnlyAt(x)
    BY <1>1, <1>2, <1>6, <2>1, <2>2, LeaveIsLeaving, Zenon DEF OnlyAt, Shape
  <2> QED
    BY <1>2, <1>4, <1>6, <2>3, Zenon
<1>8. CASE after.pc # "vote"
  <2>1. task' = [task EXCEPT ![x] = after] /\ task'[x] = after
    BY <1>2, <1>8, Zenon DEF Shape
  <2>2. Onward(x, result) \in {"dispatch", "wait"}
    BY <1>1, <1>8, Zenon DEF Onward, Tasks
  <2>3. task[x].traced \cup {task[x].tx} \in SUBSET Nat
    BY <1>1, Zenon DEF Tasks
  <2>4. /\ after \in Tasks /\ after.pc \in {"dispatch", "wait"}
        /\ after = [task[x] EXCEPT !.pc = after.pc, !.overrides = after.overrides,
                                   !.traced = after.traced]
        /\ \/ after.overrides = task[x].overrides /\ after.traced = task[x].traced
           \/ /\ after.overrides = Merge(task[x].overrides, x, task[x].tx)
              /\ after.traced = task[x].traced \cup {task[x].tx}
    BY <1>1, <1>3, <2>2, <2>3, ZenonT(30) DEF OverridesAfter, Tasks, Working
  <2> HIDE DEF after
  <2>5. OnlyAt(x)
    BY <1>1, <1>2, <1>6, <2>1, <2>4, Zenon DEF OnlyAt, Shape
  <2> QED
    BY <1>2, <1>4, <1>6, <2>1, <2>4, <2>5, Zenon
<1> QED
  BY <1>7, <1>8, Zenon

(* With nothing left to send the task goes on.                             *)
Proceeds(x) ==
  \/ /\ ~task[x].result.success
     /\ task'[x] = [task[x] EXCEPT !.pc = "wait", !.to_send = {}]
  \/ task[x].result.success /\ task[x].tx = Len(program[x]) /\ Leaves(x, TRUE)
  \/ /\ task[x].result.success /\ task[x].tx # Len(program[x])
     /\ task'[x] = [task[x] EXCEPT !.pc = "simulate", !.tx = task[x].tx + 1,
                                   !.result = NoResult, !.to_send = {}]

(* With a queue the task sends, without one it goes on or leaves.          *)
LEMMA QueuedEffect ==
  ASSUME Shape, NEW x \in Xts, NEW queue \in SUBSET Nat,
         task' = [task EXCEPT ![x] = Queued(x, queue)]
  PROVE  /\ task' = [task EXCEPT ![x] = task'[x]] /\ task'[x] \in Tasks
         /\ queue = {} => Proceeds(x)
         /\ queue # {} => task'[x] = [task[x] EXCEPT !.pc = "send", !.to_send = queue]
<1>1. task[x] \in Tasks /\ task'[x] = Queued(x, queue)
  BY Zenon DEF Shape
<1>2. CASE queue # {}
  <2>1. task'[x] = [task[x] EXCEPT !.pc = "send", !.to_send = queue]
    BY <1>1, <1>2, Zenon DEF Queued
  <2>2. [task[x] EXCEPT !.pc = "send", !.to_send = queue] \in Tasks
    BY <1>1, Zenon DEF Tasks, Working
  <2> QED
    BY <1>1, <1>2, <2>1, <2>2, Zenon
<1>3. CASE queue = {}
  <2>1. task'[x] = Dispatched(x)
    BY <1>1, <1>3, Zenon DEF Queued
  <2>2. CASE ~task[x].result.success
    <3>1. task'[x] = [task[x] EXCEPT !.pc = "wait", !.to_send = {}]
      BY <2>1, <2>2, Zenon DEF Dispatched
    <3>2. [task[x] EXCEPT !.pc = "wait", !.to_send = {}] \in Tasks
      BY <1>1, Zenon DEF Tasks, Working
    <3> QED
      BY <1>1, <1>3, <2>2, <3>1, <3>2, Zenon DEF Proceeds
  <2>3. CASE task[x].result.success /\ task[x].tx = Len(program[x])
    <3>1. task'[x] = Leave(x, "vote", TRUE)
      BY <2>1, <2>3, Zenon DEF Dispatched, Ballot
    <3>2. Leave(x, "vote", TRUE) \in Tasks
      BY LeaveType, Zenon
    <3>3. Leaves(x, TRUE)
      BY <3>1, LeaveIsLeaving, Zenon
    <3> QED
      BY <1>1, <1>3, <2>3, <3>1, <3>2, <3>3, Zenon DEF Proceeds
  <2>4. CASE task[x].result.success /\ task[x].tx # Len(program[x])
    <3> DEFINE t == [task[x] EXCEPT !.pc = "simulate", !.tx = task[x].tx + 1,
                                    !.result = NoResult, !.to_send = {}]
    <3>1. task'[x] = t
      BY <2>1, <2>4, Zenon DEF Dispatched
    <3>2. NoResult \in Results /\ task[x].tx + 1 \in Nat
      BY <1>1, NewTypes DEF Tasks
    <3>3. t \in Tasks
      BY <1>1, <3>2, Zenon DEF Tasks, Working
    <3> QED
      BY <1>1, <1>3, <2>4, <3>1, <3>3, Zenon DEF Proceeds
  <2> QED
    BY <2>2, <2>3, <2>4, Zenon
<1> QED
  BY <1>2, <1>3, Zenon

(* Dispatching queues the fresh messages and marks all as sent.            *)
LEMMA DispatchEffect ==
  ASSUME Shape, NEW x \in Xts, Dispatch(x)
  PROVE  /\ OnlyAt(x) /\ UNCHANGED <<overlay, handed>> /\ task[x].pc = "dispatch"
         /\ \/ /\ ~(config.sender /\ x \in pending)
               /\ xt'[x] = xt[x] /\ Proceeds(x)
            \/ /\ config.sender /\ x \in pending
               /\ xt'[x] = [xt[x] EXCEPT !.sent = @ \cup OutKeys(x)]
               /\ LET queue == Fresh(x, task[x].result.outbound)
                  IN  /\ queue = {} => Proceeds(x)
                      /\ queue # {} => task'[x] =
                           [task[x] EXCEPT !.pc = "send", !.to_send = queue]
<1> DEFINE msgs == task[x].result.outbound
           queue == Fresh(x, msgs)
<1>1. /\ task[x] \in Tasks /\ xt[x] \in XtRecords /\ handed[x] \in Seq(Messages)
      /\ msgs \in Seq(Messages)
  BY Zenon DEF Shape, Tasks, Results
<1>2. UNCHANGED <<program, config, pending, overlay, handed>> /\ task[x].pc = "dispatch"
  BY Zenon DEF Dispatch, worldVars, At
<1>3. CASE ~(config.sender /\ x \in pending)
  <2>1. task' = [task EXCEPT ![x] = Queued(x, {})] /\ UNCHANGED xt
    BY <1>3, Zenon DEF Dispatch, Queued
  <2> DEFINE none == {}
  <2>4. none \in SUBSET Nat /\ task' = [task EXCEPT ![x] = Queued(x, none)] /\ none = {}
    BY <2>1, Zenon
  <2> HIDE DEF none
  <2>2. /\ task' = [task EXCEPT ![x] = task'[x]] /\ task'[x] \in Tasks
        /\ Proceeds(x)
    BY <2>4, QueuedEffect, Zenon
  <2>3. OnlyAt(x)
    BY <1>1, <1>2, <2>1, <2>2, Zenon DEF OnlyAt, Shape
  <2> QED
    BY <1>2, <1>3, <2>1, <2>2, <2>3, Zenon
<1>4. CASE config.sender /\ x \in pending
  <2> DEFINE r == [xt[x] EXCEPT !.sent = @ \cup OutKeys(x)]
  <2>1. queue \in SUBSET Nat
    BY <1>1, Elements DEF Fresh
  <2>2. task' = [task EXCEPT ![x] = Queued(x, queue)]
    BY <1>4, Zenon DEF Dispatch
  <2>3. xt' = [xt EXCEPT ![x] = r]
    BY <1>4, Zenon DEF Dispatch, OutKeys, Key
  <2>4. OutKeys(x) \in SUBSET Keys
    <3>1. \A i \in 1 .. Len(msgs) : msgs[i] \in Messages
      BY <1>1, Elements, Zenon
    <3> QED
      BY <3>1, Zenon DEF OutKeys, Key, Messages
  <2>5. r \in XtRecords /\ xt'[x] = r
    BY <1>1, <2>3, <2>4, Zenon DEF XtRecords, Shape
  <2> HIDE DEF queue
  <2>6. /\ task' = [task EXCEPT ![x] = task'[x]] /\ task'[x] \in Tasks
        /\ queue = {} => Proceeds(x)
        /\ queue # {} => task'[x] = [task[x] EXCEPT !.pc = "send", !.to_send = queue]
    BY <2>1, <2>2, QueuedEffect, Zenon
  <2>7. OnlyAt(x)
    BY <1>1, <1>2, <2>3, <2>5, <2>6, Zenon DEF OnlyAt, Shape
  <2> QED
    BY <1>2, <1>4, <2>5, <2>6, <2>7, Zenon DEF queue
<1> QED
  BY <1>3, <1>4, Zenon

(* Sending hands over the first message of the queue.                      *)
LEMMA SendEffect ==
  ASSUME Shape, NEW x \in Xts, Send(x), task[x].to_send # {},
         task[x].to_send \subseteq 1 .. Len(task[x].result.outbound)
  PROVE  /\ OnlyAt(x) /\ UNCHANGED <<overlay, xt>> /\ task[x].pc = "send"
         /\ First(x) \in task[x].to_send
         /\ handed'[x] = Append(handed[x], task[x].result.outbound[First(x)])
         /\ LET queue == task[x].to_send \ {First(x)}
            IN  /\ queue = {} => Proceeds(x)
                /\ queue # {} => task'[x] =
                     [task[x] EXCEPT !.pc = "send", !.to_send = queue]
<1> DEFINE msgs == task[x].result.outbound
           queue == task[x].to_send \ {First(x)}
<1>1. /\ task[x] \in Tasks /\ xt[x] \in XtRecords /\ handed[x] \in Seq(Messages)
      /\ msgs \in Seq(Messages) /\ task[x].to_send \in SUBSET Nat
  BY Zenon DEF Shape, Tasks, Results
<1>2. /\ UNCHANGED <<program, config, pending, overlay, xt>> /\ task[x].pc = "send"
      /\ handed' = [handed EXCEPT ![x] = Append(@, msgs[First(x)])]
      /\ task' = [task EXCEPT ![x] = Queued(x, queue)]
  BY Zenon DEF Send, stateVars, At
<1>3. First(x) \in task[x].to_send
  BY <1>1, LeastElement, Zenon DEF First
<1>4. msgs[First(x)] \in Messages
  BY <1>1, <1>3, Elements, Zenon
<1>5. handed'[x] = Append(handed[x], msgs[First(x)]) /\ handed'[x] \in Seq(Messages)
  BY <1>1, <1>2, <1>4 DEF Shape
<1>6. queue \in SUBSET Nat
  BY <1>1, Zenon
<1> HIDE DEF queue
<1>7. /\ task' = [task EXCEPT ![x] = task'[x]] /\ task'[x] \in Tasks
      /\ queue = {} => Proceeds(x)
      /\ queue # {} => task'[x] = [task[x] EXCEPT !.pc = "send", !.to_send = queue]
  BY <1>2, <1>6, QueuedEffect, Zenon
<1>8. OnlyAt(x)
  BY <1>1, <1>2, <1>5, <1>7, Zenon DEF OnlyAt, Shape
<1> QED
  BY <1>2, <1>3, <1>5, <1>7, <1>8, Zenon DEF queue

(* A wait that is answered moves messages to the fulfilled ones.           *)
LEMMA FulfillEffect ==
  ASSUME Shape, NEW x \in Xts, FulfillDependencies(x)
  PROVE  /\ OnlyAt(x) /\ UNCHANGED <<overlay, handed>> /\ task[x].pc = "wait"
         /\ x \in pending
         /\ Answered(x) \subseteq Range(task[x].result.dependencies)
         /\ xt'[x] = [xt[x] EXCEPT !.fulfilled = @ \cup Answered(x),
                                   !.mailbox = @ \ Answered(x)]
         /\ task'[x] = [task[x] EXCEPT !.pc = "refresh", !.result = NoResult]
<1> DEFINE r == [xt[x] EXCEPT !.fulfilled = @ \cup Answered(x),
                              !.mailbox = @ \ Answered(x)]
           t == [task[x] EXCEPT !.pc = "refresh", !.result = NoResult]
<1>1. task[x] \in Tasks /\ xt[x] \in XtRecords /\ handed[x] \in Seq(Messages)
  BY Zenon DEF Shape
<1>2. /\ UNCHANGED <<program, config, pending, overlay, handed>> /\ task[x].pc = "wait"
      /\ x \in pending
  BY Zenon DEF FulfillDependencies, worldVars, At
<1>3. xt' = [xt EXCEPT ![x] = r] /\ task' = [task EXCEPT ![x] = t]
  BY <1>1, Zenon DEF FulfillDependencies, Shape
<1>4. Answered(x) \subseteq Range(task[x].result.dependencies) /\ Answered(x) \in SUBSET Keys
  BY <1>1, Zenon DEF Answered, XtRecords
<1>5. r \in XtRecords /\ t \in Tasks
  BY <1>1, <1>4, NewTypes, Zenon DEF XtRecords, Tasks, Working
<1> HIDE DEF r, t
<1>6. xt'[x] = r /\ task'[x] = t
  BY <1>3, Zenon DEF Shape
<1>7. OnlyAt(x)
  BY <1>1, <1>2, <1>3, <1>5, <1>6, Zenon DEF OnlyAt, Shape
<1> QED
  BY <1>2, <1>4, <1>6, <1>7, Zenon DEF r, t

(* What a task knows of its own writes stays while its overrides do.       *)
LEMMA OwnWritesKept ==
  ASSUME NEW x \in Xts, OwnWrites(x), task'[x].traced \subseteq 1 .. task'[x].tx,
         UNCHANGED <<program, task[x].traced, task[x].overrides>>
  PROVE  OwnWrites(x)'
<1>1. \A s \in Slots : {i \in task'[x].traced : s \in program'[x][i].slots}
                        = {i \in task[x].traced : s \in program[x][i].slots}
  BY Zenon
<1> QED
  BY <1>1, Zenon DEF OwnWrites

(* A vote is recorded if it is the first of an XT that is still there.     *)
LEMMA VoteEffect ==
  ASSUME Shape, NEW x \in Xts, NEW d \in {None} \cup BOOLEAN, SendVote(x, d)
  PROVE  /\ OnlyAt(x) /\ UNCHANGED <<overlay, handed>> /\ task[x].pc = "vote"
         /\ task'[x].pc = "end" /\ Leaves(x, None)
         /\ \/ xt'[x] = xt[x]
            \/ /\ x \in pending /\ xt[x].vote = None
               /\ xt'[x] = [xt[x] EXCEPT !.vote = task[x].vote, !.locked = TRUE,
                                         !.decision = xt'[x].decision]
               /\ xt[x].decision # None => xt'[x].decision = xt[x].decision
<1> DEFINE e == IF xt[x].decision = None THEN d ELSE xt[x].decision
           r == [xt[x] EXCEPT !.vote = task[x].vote, !.locked = TRUE, !.decision = e]
<1>1. task[x] \in Tasks /\ xt[x] \in XtRecords /\ handed[x] \in Seq(Messages)
  BY Zenon DEF Shape
<1>2. /\ UNCHANGED <<program, config, pending, overlay, handed>> /\ task[x].pc = "vote"
      /\ task' = [task EXCEPT ![x] = Leave(x, "end", None)]
      /\ \/ UNCHANGED xt
         \/ x \in pending /\ xt[x].vote = None /\ xt' = [xt EXCEPT ![x] = r]
  BY <1>1, Zenon DEF SendVote, worldVars, At, GoEnd, Shape
<1>3. /\ task'[x] = Leave(x, "end", None) /\ Leave(x, "end", None) \in Tasks
      /\ Leave(x, "end", None).pc = "end"
  BY <1>2, LeaveType DEF Shape
<1>4. Leaves(x, None)
  BY <1>3, LeaveIsLeaving, Zenon
<1>5. e \in BOOLEAN \cup {None} /\ (xt[x].decision # None => e = xt[x].decision)
  BY <1>1, Zenon DEF XtRecords
<1> HIDE DEF e
<1>6. r \in XtRecords /\ r.decision = e
  BY <1>1, <1>5, Zenon DEF XtRecords, Tasks
<1> HIDE DEF r
<1>7. xt' = [xt EXCEPT ![x] = xt'[x]] /\ (xt' = [xt EXCEPT ![x] = r] => xt'[x] = r)
  BY <1>2, Zenon DEF Shape
<1>8. OnlyAt(x)
  BY <1>1, <1>2, <1>3, <1>6, <1>7, Zenon DEF OnlyAt, Shape
<1>9. \/ xt'[x] = xt[x]
      \/ /\ x \in pending /\ xt[x].vote = None /\ xt'[x] = r
         /\ xt[x].decision # None => xt'[x].decision = xt[x].decision
  BY <1>2, <1>5, <1>6, <1>7, Zenon
<1> QED
  BY <1>2, <1>3, <1>4, <1>6, <1>8, <1>9, Zenon DEF r
-----------------------------------------------------------------------------
(* A step leaves alone what an XT has asked for, received, sent and voted. *)
Quiet(y) ==
  /\ UNCHANGED <<program, config, task[y], handed[y]>>
  /\ UNCHANGED <<xt[y].fulfilled, xt[y].deps, xt[y].sent, xt[y].vote>>
  /\ y \in pending' <=> y \in pending

(* The invariant of an XT rests on nothing that a quiet step changes.      *)
LEMMA QuietKept ==
  ASSUME NEW y \in Xts, Quiet(y)
  PROVE  (Local(y) => Local(y)') /\ (Ballots(y) => Ballots(y)')
<1>1. /\ HandedKeys(y)' = HandedKeys(y) /\ QueuedKeys(y)' = QueuedKeys(y)
      /\ OutKeys(y)' = OutKeys(y) /\ Txs(y)' = Txs(y)
  BY Zenon DEF HandedKeys, QueuedKeys, OutKeys, Key, Txs, Quiet
<1>2. Current(y)' <=> Current(y)
  BY Zenon DEF Current, Tx, Quiet
<1>3. \A i : Earned(y, i)' <=> Earned(y, i)
  BY <1>1, Zenon DEF Earned, Succeeds, Quiet
<1>4. \A i : Key(y, i)' = Key(y, i)
  BY Zenon DEF Key, Quiet
<1>5. OwnWrites(y) => OwnWrites(y)'
  BY Zenon DEF OwnWrites, Quiet
<1>6. Queue(y) => Queue(y)'
  BY <1>1, <1>4 DEF Queue, At, Quiet
<1>7. Way(y) => Way(y)'
  BY <1>1, <1>2, Zenon DEF Way, At, Quiet
<1>8. Ballots(y) => Ballots(y)'
  BY <1>1, <1>3, Zenon DEF Ballots, At, Quiet
<1> QED
  BY <1>5, <1>6, <1>7, <1>8, Zenon DEF Local

(* A step of one XT's task is none of another XT.                          *)
LEMMA OthersKept ==
  ASSUME Shape, NEW x \in Xts, NEW y \in Xts, x # y, OnlyAt(x)
  PROVE  (Local(y) => Local(y)') /\ (Ballots(y) => Ballots(y)')
<1>1. Quiet(y)
  BY Zenon DEF OnlyAt, Shape, Quiet
<1> QED
  BY <1>1, QuietKept, Zenon

(* Handed over once, and what was handed over is marked as sent.           *)
HandedOnce(x) ==
  /\ \A i, j \in 1 .. Len(handed[x]) : handed[x][i].key = handed[x][j].key => i = j
  /\ x \in pending => HandedKeys(x) \subseteq xt[x].sent

(* A task that leaves keeps only the record of what was handed over.       *)
LEMMA LeftLocal ==
  ASSUME NEW x \in Xts, NEW v, Leaves(x, v), HandedOnce(x)',
         xt'[x].fulfilled \subseteq xt'[x].deps
  PROVE  Local(x)'
<1>1. /\ task'[x].pc \in {"vote", "end"} /\ task'[x].to_send = {}
      /\ task'[x].traced = {}
  BY Zenon DEF Leaves
<1>2. OwnWrites(x)'
  BY <1>1, Zenon DEF OwnWrites
<1>3. QueuedKeys(x)' = {}
  BY <1>1, Zenon DEF QueuedKeys
<1>4. Queue(x)'
  BY <1>1, <1>3, Zenon DEF Queue, HandedOnce, At
<1>5. Way(x)'
  BY <1>1, Zenon DEF Way, At, Working
<1> QED
  BY <1>2, <1>4, <1>5, Zenon DEF Local

(* A task that leaves hands nothing over.                                  *)
LEMMA LeftKept ==
  ASSUME NEW x \in Xts, NEW v, Leaves(x, v), Local(x),
         UNCHANGED <<handed[x], pending, xt[x].sent, xt[x].fulfilled>>,
         xt[x].deps \subseteq xt'[x].deps
  PROVE  Local(x)'
<1>1. HandedKeys(x)' = HandedKeys(x)
  BY Zenon DEF HandedKeys
<1>2. HandedOnce(x)'
  BY <1>1, Zenon DEF HandedOnce, Local, Queue
<1>3. xt'[x].fulfilled \subseteq xt'[x].deps
  BY Zenon DEF Local, Way
<1> QED
  BY <1>2, <1>3, LeftLocal, Zenon

(* A step between which nothing is queued keeps what was handed over.      *)
LEMMA NothingQueued ==
  ASSUME NEW x \in Xts, Queue(x), ~At(x, "send"), task'[x].to_send = {},
         task'[x].pc # "send", UNCHANGED <<handed[x], pending>>,
         xt'[x].sent = xt[x].sent
  PROVE  /\ Queue(x)' /\ HandedKeys(x)' = HandedKeys(x)
         /\ QueuedKeys(x) = {} /\ QueuedKeys(x)' = {}
<1>1. task[x].to_send = {}
  BY Zenon DEF Queue
<1>2. QueuedKeys(x) = {} /\ QueuedKeys(x)' = {}
  BY <1>1, Zenon DEF QueuedKeys
<1>3. HandedKeys(x)' = HandedKeys(x)
  BY Zenon DEF HandedKeys
<1>4. Queue(x)'
  BY <1>2, <1>3, Zenon DEF Queue, At
<1> QED
  BY <1>2, <1>3, <1>4, Zenon

(* The steps of process_xt(), one after the other.                         *)
LEMMA StartLocal ==
  ASSUME Shape, NEW x \in Xts, Local(x), Start(x)
  PROVE  Local(x)'
<1>1. /\ OnlyAt(x) /\ UNCHANGED <<overlay, xt, handed>> /\ task[x].pc = "start"
      /\ \/ Leaves(x, None) \/ Leaves(x, FALSE)
         \/ /\ x \in pending /\ program[x] # <<>>
            /\ task'[x] = [task[x] EXCEPT !.pc = "check", !.overrides = overlay]
  BY StartEffect, Zenon
<1>2. Queue(x) /\ Way(x) /\ UNCHANGED <<program, config, pending>> /\ task[x] \in Tasks
  BY <1>1, Zenon DEF Local, OnlyAt, Shape
<1>3. CASE Leaves(x, None) \/ Leaves(x, FALSE)
  BY <1>1, <1>2, <1>3, LeftKept, Zenon
<1>4. CASE /\ x \in pending /\ program[x] # <<>>
           /\ task'[x] = [task[x] EXCEPT !.pc = "check", !.overrides = overlay]
  <2>1. /\ task[x].tx = 1 /\ task[x].traced = {} /\ task[x].to_send = {}
        /\ xt[x].fulfilled \subseteq xt[x].deps
        /\ xt[x].sent \subseteq HandedKeys(x) \cup QueuedKeys(x)
    BY <1>1, <1>2, <1>4, Zenon DEF Way, Queue, At
  <2>2. /\ task'[x].pc = "check" /\ task'[x].tx = 1 /\ task'[x].traced = {}
        /\ task'[x].to_send = {}
    BY <1>2, <1>4, <2>1, Zenon DEF Tasks
  <2>3. OwnWrites(x)'
    BY <2>2, Zenon DEF OwnWrites
  <2>4. Queue(x)' /\ HandedKeys(x)' = HandedKeys(x) /\ QueuedKeys(x) = {}
    BY <1>1, <1>2, <2>2, NothingQueued, Zenon DEF At
  <2>5. 1 \in Txs(x)
    BY <1>4, Programs DEF Txs
  <2>6. Way(x)'
    BY <1>1, <1>2, <2>1, <2>2, <2>4, <2>5, Zenon DEF Way, At, Working, Txs
  <2> QED
    BY <2>3, <2>4, <2>6, Zenon DEF Local
<1> QED
  BY <1>1, <1>3, <1>4, Zenon

(* Passing the checks keeps the invariant of the XT.                       *)
LEMMA CheckLocal ==
  ASSUME Shape, NEW x \in Xts, Local(x), Check(x)
  PROVE  Local(x)'
<1>1. /\ OnlyAt(x) /\ UNCHANGED <<overlay, xt, handed>> /\ task[x].pc = "check"
      /\ task'[x] = [task[x] EXCEPT !.pc = "lock", !.passed = TRUE]
  BY CheckEffect, Zenon
<1>2. Queue(x) /\ Way(x) /\ UNCHANGED <<program, config, pending>> /\ task[x] \in Tasks
  BY <1>1, Zenon DEF Local, OnlyAt, Shape
<1>3. /\ task'[x].pc = "lock" /\ task'[x].passed /\ task'[x].to_send = task[x].to_send
      /\ UNCHANGED <<task[x].tx, task[x].traced, task[x].overrides>>
  BY <1>1, <1>2, Zenon DEF Tasks
<1>4. OwnWrites(x)'
  BY <1>2, <1>3, Zenon DEF Local, OwnWrites
<1>5. Queue(x)' /\ HandedKeys(x)' = HandedKeys(x) /\ QueuedKeys(x) = {}
  BY <1>1, <1>2, <1>3, NothingQueued, Zenon DEF At, Queue
<1>6. Way(x)'
  BY <1>1, <1>2, <1>3, <1>5, Zenon DEF Way, At, Working, Txs
<1> QED
  BY <1>4, <1>5, <1>6, Zenon DEF Local

(* So does a failure, which only leaves the work.                          *)
LEMMA FailureLocal ==
  ASSUME Shape, NEW x \in Xts, Local(x),
         CheckRejects(x) \/ SimulateFails(x) \/ SendFails(x) \/ WaitTimesOut(x)
  PROVE  Local(x)'
<1>1. OnlyAt(x) /\ UNCHANGED <<xt, handed>> /\ Leaves(x, FALSE)
  BY FailureEffect, Zenon
<1> QED
  BY <1>1, LeftKept, Zenon DEF OnlyAt

(* So does the lock.                                                       *)
LEMMA LockLocal ==
  ASSUME Shape, NEW x \in Xts, Local(x), Lock(x)
  PROVE  Local(x)'
<1>1. /\ OnlyAt(x) /\ UNCHANGED <<overlay, handed>> /\ task[x].pc = "lock"
      /\ \/ xt'[x] = xt[x]
         \/ x \in pending /\ xt'[x] = [xt[x] EXCEPT !.locked = TRUE]
      /\ \/ task'[x] = [task[x] EXCEPT !.pc = "refresh"]
         \/ ~config.simulator /\ Leaves(x, TRUE)
  BY LockEffect, Zenon
<1>2. /\ Queue(x) /\ Way(x) /\ UNCHANGED <<program, config, pending>>
      /\ task[x] \in Tasks /\ xt[x] \in XtRecords
  BY <1>1, Zenon DEF Local, OnlyAt, Shape
<1>3. UNCHANGED <<xt[x].fulfilled, xt[x].deps, xt[x].sent>>
  BY <1>1, <1>2, Zenon DEF XtRecords
<1>4. CASE Leaves(x, TRUE)
  BY <1>1, <1>2, <1>3, <1>4, LeftKept, Zenon
<1>5. CASE task'[x] = [task[x] EXCEPT !.pc = "refresh"]
  <2>1. /\ task'[x].pc = "refresh"
        /\ UNCHANGED <<task[x].tx, task[x].traced, task[x].overrides,
                       task[x].to_send, task[x].passed>>
    BY <1>2, <1>5, Zenon DEF Tasks
  <2>2. OwnWrites(x)'
    BY <1>2, <2>1, Zenon DEF Local, OwnWrites
  <2>3. Queue(x)' /\ HandedKeys(x)' = HandedKeys(x) /\ QueuedKeys(x) = {}
    BY <1>1, <1>2, <1>3, <2>1, NothingQueued, Zenon DEF At, Queue
  <2>4. Way(x)'
    BY <1>1, <1>2, <1>3, <2>1, <2>3, Zenon DEF Way, At, Working, Txs
  <2> QED
    BY <2>2, <2>3, <2>4, Zenon DEF Local
<1> QED
  BY <1>1, <1>4, <1>5, Zenon

(* So does refreshing the copy of what is fulfilled.                       *)
LEMMA RefreshLocal ==
  ASSUME Shape, NEW x \in Xts, Local(x), Refresh(x)
  PROVE  Local(x)'
<1>1. /\ OnlyAt(x) /\ UNCHANGED <<overlay, xt, handed>> /\ task[x].pc = "refresh"
      /\ \/ x \notin pending /\ Leaves(x, None)
         \/ task'[x] = [task[x] EXCEPT !.pc = "simulate", !.fulfilled = xt[x].fulfilled]
  BY RefreshEffect, Zenon
<1>2. Queue(x) /\ Way(x) /\ UNCHANGED <<program, config, pending>> /\ task[x] \in Tasks
  BY <1>1, Zenon DEF Local, OnlyAt, Shape
<1>3. CASE Leaves(x, None)
  BY <1>1, <1>2, <1>3, LeftKept, Zenon
<1>4. CASE task'[x] = [task[x] EXCEPT !.pc = "simulate", !.fulfilled = xt[x].fulfilled]
  <2>1. /\ task'[x].pc = "simulate" /\ task'[x].fulfilled = xt[x].fulfilled
        /\ UNCHANGED <<task[x].tx, task[x].traced, task[x].overrides,
                       task[x].to_send, task[x].passed>>
    BY <1>2, <1>4, Zenon DEF Tasks
  <2>2. OwnWrites(x)'
    BY <1>2, <2>1, Zenon DEF Local, OwnWrites
  <2>3. Queue(x)' /\ HandedKeys(x)' = HandedKeys(x) /\ QueuedKeys(x) = {}
    BY <1>1, <1>2, <2>1, NothingQueued, Zenon DEF At, Queue
  <2>4. Way(x)'
    BY <1>1, <1>2, <2>1, <2>3, Zenon DEF Way, At, Working, Txs
  <2> QED
    BY <2>2, <2>3, <2>4, Zenon DEF Local
<1> QED
  BY <1>1, <1>3, <1>4, Zenon

(* So does a simulation, whose result is that of the transaction.          *)
LEMMA SimulateLocal ==
  ASSUME Shape, NEW x \in Xts, Local(x), NEW traced \in BOOLEAN, Simulate(x, traced)
  PROVE  Local(x)' /\ OnlyAt(x) /\ UNCHANGED <<overlay, xt, handed>>
         /\ task[x].pc = "simulate" /\ task'[x].pc = "record"
         /\ task'[x].tx = task[x].tx
<1>0. task[x].pc = "simulate" /\ task[x].tx \in Txs(x)
  BY Zenon DEF Simulate, At, Local, Way, Working
<1>1. /\ OnlyAt(x) /\ UNCHANGED <<overlay, xt, handed>>
      /\ task'[x] = [task[x] EXCEPT !.pc = "record", !.result = task'[x].result]
      /\ Current(x)'
  BY <1>0, SimulateEffect, Zenon
<1>2. Queue(x) /\ Way(x) /\ UNCHANGED <<program, config, pending>> /\ task[x] \in Tasks
  BY <1>1, Zenon DEF Local, OnlyAt, Shape
<1>3. /\ task'[x].pc = "record"
      /\ UNCHANGED <<task[x].tx, task[x].traced, task[x].overrides,
                     task[x].fulfilled, task[x].to_send, task[x].passed>>
  BY <1>1, <1>2, Zenon DEF Tasks
<1>4. OwnWrites(x)'
  BY <1>2, <1>3, Zenon DEF Local, OwnWrites
<1>5. Queue(x)' /\ HandedKeys(x)' = HandedKeys(x) /\ QueuedKeys(x) = {}
  BY <1>0, <1>1, <1>2, <1>3, NothingQueued, Zenon DEF At, Queue
<1>6. Way(x)'
  BY <1>0, <1>1, <1>2, <1>3, <1>5, Zenon DEF Way, At, Working, Txs
<1> QED
  BY <1>0, <1>1, <1>3, <1>4, <1>5, <1>6, Zenon DEF Local

(* merge_overrides() puts the transaction that was recorded last in front. *)
LEMMA OwnWritesMerged ==
  ASSUME Shape, NEW x \in Xts, OwnWrites(x), UNCHANGED program,
         task'[x].tx = task[x].tx,
         task'[x].overrides = Merge(task[x].overrides, x, task[x].tx),
         task'[x].traced = task[x].traced \cup {task[x].tx}, task[x].tx \in Txs(x)
  PROVE  OwnWrites(x)'
<1>1. /\ task[x].tx \in Nat /\ task[x].traced \in SUBSET Nat /\ task[x].tx >= 1
      /\ task[x].traced \subseteq 1 .. task[x].tx
  BY Programs DEF Shape, Tasks, OwnWrites, Txs
<1>2. task'[x].traced \subseteq 1 .. task'[x].tx
  BY <1>1
<1>3. ASSUME NEW s \in Slots
      PROVE  LET own == {i \in task'[x].traced : s \in program[x][i].slots}
             IN  own # {} => task'[x].overrides[s] = <<x, Max(own)>>
  <2> DEFINE old == {i \in task[x].traced : s \in program[x][i].slots}
             own == {i \in task'[x].traced : s \in program[x][i].slots}
  <2>1. CASE s \in program[x][task[x].tx].slots
    <3>1. task[x].tx \in own /\ own \in SUBSET Nat /\ \A n \in own : n <= task[x].tx
      BY <1>1, <2>1
    <3>2. Max(own) = task[x].tx
      BY <3>1, GreatestElement, Zenon
    <3>3. task'[x].overrides[s] = <<x, task[x].tx>>
      BY <2>1, Zenon DEF Merge
    <3> QED
      BY <3>2, <3>3, Zenon
  <2>2. CASE s \notin program[x][task[x].tx].slots
    <3>1. own = old
      BY <2>2, Zenon
    <3>2. task'[x].overrides[s] = task[x].overrides[s]
      BY <2>2, Zenon DEF Merge
    <3>3. old # {} => task[x].overrides[s] = <<x, Max(old)>>
      BY Zenon DEF OwnWrites
    <3> QED
      BY <3>1, <3>2, <3>3, Zenon
  <2> QED
    BY <2>1, <2>2, Zenon
<1> QED
  BY <1>2, <1>3, Zenon DEF OwnWrites

(* So does recording a result, with or without overrides.                  *)
LEMMA RecordLocal ==
  ASSUME Shape, NEW x \in Xts, Local(x), RecordSimulationState(x)
  PROVE  Local(x)'
<1>1. /\ OnlyAt(x) /\ UNCHANGED handed /\ task[x].pc = "record"
      /\ \/ x \notin pending /\ xt'[x] = xt[x]
         \/ /\ x \in pending
            /\ xt'[x] = [xt[x] EXCEPT !.deps = xt'[x].deps, !.outbound = xt'[x].outbound]
            /\ xt[x].deps \cup Range(task[x].result.dependencies) = xt'[x].deps
      /\ \/ Leaves(x, FALSE)
         \/ /\ task'[x] = [task[x] EXCEPT !.pc = task'[x].pc,
                  !.overrides = task'[x].overrides, !.traced = task'[x].traced]
            /\ task'[x].pc \in {"dispatch", "wait"}
            /\ \/ UNCHANGED <<task[x].overrides, task[x].traced>>
               \/ /\ task'[x].overrides = Merge(task[x].overrides, x, task[x].tx)
                  /\ task'[x].traced = task[x].traced \cup {task[x].tx}
  BY RecordEffect, Zenon
<1>2. /\ Queue(x) /\ Way(x) /\ UNCHANGED <<program, config, pending>>
      /\ task[x] \in Tasks /\ xt[x] \in XtRecords
  BY <1>1, Zenon DEF Local, OnlyAt, Shape
<1>3. /\ UNCHANGED <<xt[x].fulfilled, xt[x].sent>> /\ xt[x].deps \subseteq xt'[x].deps
      /\ x \in pending => Range(task[x].result.dependencies) \subseteq xt'[x].deps
  BY <1>1, <1>2, Zenon DEF XtRecords
<1>4. CASE Leaves(x, FALSE)
  BY <1>1, <1>2, <1>3, <1>4, LeftKept, Zenon
<1>5. CASE /\ task'[x] = [task[x] EXCEPT !.pc = task'[x].pc,
                !.overrides = task'[x].overrides, !.traced = task'[x].traced]
           /\ task'[x].pc \in {"dispatch", "wait"}
           /\ \/ UNCHANGED <<task[x].overrides, task[x].traced>>
              \/ /\ task'[x].overrides = Merge(task[x].overrides, x, task[x].tx)
                 /\ task'[x].traced = task[x].traced \cup {task[x].tx}
  <2>1. UNCHANGED <<task[x].tx, task[x].fulfilled, task[x].result, task[x].to_send,
                    task[x].passed>>
    BY <1>2, <1>5, Zenon DEF Tasks
  <2>2. task[x].tx \in Txs(x) /\ task[x].passed /\ Current(x)
    BY <1>1, <1>2, Zenon DEF Way, Working
  <2>3. OwnWrites(x)'
    <3>1. CASE UNCHANGED <<task[x].overrides, task[x].traced>>
      <4>1. task'[x].traced \subseteq 1 .. task'[x].tx
        BY <1>2, <2>1, <3>1, Zenon DEF Local, OwnWrites
      <4> QED
        BY <1>2, <2>1, <3>1, <4>1, OwnWritesKept, Zenon DEF Local
    <3>2. CASE /\ task'[x].overrides = Merge(task[x].overrides, x, task[x].tx)
               /\ task'[x].traced = task[x].traced \cup {task[x].tx}
      BY <1>2, <2>1, <2>2, <3>2, OwnWritesMerged, Zenon DEF Local
    <3> QED
      BY <1>5, <3>1, <3>2, Zenon
  <2>4. Queue(x)' /\ HandedKeys(x)' = HandedKeys(x) /\ QueuedKeys(x) = {}
    BY <1>1, <1>2, <1>3, <1>5, <2>1, NothingQueued, Zenon DEF At, Queue
  <2>5. Current(x)'
    BY <1>2, <2>1, <2>2, Zenon DEF Current, Tx
  <2>6. Way(x)'
    BY <1>1, <1>2, <1>3, <1>5, <2>1, <2>2, <2>4, <2>5 DEF Way, At, Working, Txs
  <2> QED
    BY <2>3, <2>4, <2>6, Zenon DEF Local
<1> QED
  BY <1>1, <1>4, <1>5, Zenon

(* So does the end of a wait.                                              *)
LEMMA FulfillLocal ==
  ASSUME Shape, NEW x \in Xts, Local(x), FulfillDependencies(x)
  PROVE  Local(x)'
<1>1. /\ OnlyAt(x) /\ UNCHANGED <<overlay, handed>> /\ task[x].pc = "wait"
      /\ x \in pending
      /\ Answered(x) \subseteq Range(task[x].result.dependencies)
      /\ xt'[x] = [xt[x] EXCEPT !.fulfilled = @ \cup Answered(x),
                                !.mailbox = @ \ Answered(x)]
      /\ task'[x] = [task[x] EXCEPT !.pc = "refresh", !.result = NoResult]
  BY FulfillEffect, Zenon
<1>2. /\ Queue(x) /\ Way(x) /\ UNCHANGED <<program, config, pending>>
      /\ task[x] \in Tasks /\ xt[x] \in XtRecords
  BY <1>1, Zenon DEF Local, OnlyAt, Shape
<1>3. /\ UNCHANGED <<xt[x].deps, xt[x].sent>>
      /\ xt'[x].fulfilled = xt[x].fulfilled \cup Answered(x)
  BY <1>1, <1>2, Zenon DEF XtRecords
<1>4. /\ task'[x].pc = "refresh"
      /\ UNCHANGED <<task[x].tx, task[x].traced, task[x].overrides,
                     task[x].to_send, task[x].passed>>
  BY <1>1, <1>2, Zenon DEF Tasks
<1>5. OwnWrites(x)'
  BY <1>2, <1>4, Zenon DEF Local, OwnWrites
<1>6. Queue(x)' /\ HandedKeys(x)' = HandedKeys(x) /\ QueuedKeys(x) = {}
  BY <1>1, <1>2, <1>3, <1>4, NothingQueued, Zenon DEF At, Queue
<1>7. Way(x)'
  BY <1>1, <1>2, <1>3, <1>4, <1>6 DEF Way, At, Working, Txs
<1> QED
  BY <1>5, <1>6, <1>7, Zenon DEF Local

(* So does the vote.                                                       *)
LEMMA VoteLocal ==
  ASSUME Shape, NEW x \in Xts, Local(x), NEW d \in {None} \cup BOOLEAN, SendVote(x, d)
  PROVE  Local(x)'
<1>1. /\ OnlyAt(x) /\ UNCHANGED handed /\ Leaves(x, None)
      /\ \/ xt'[x] = xt[x]
         \/ xt'[x] = [xt[x] EXCEPT !.vote = task[x].vote, !.locked = TRUE,
                                   !.decision = xt'[x].decision]
  BY VoteEffect, Zenon
<1>2. UNCHANGED <<xt[x].fulfilled, xt[x].deps, xt[x].sent>>
  BY <1>1, Zenon DEF Shape, XtRecords
<1> QED
  BY <1>1, <1>2, LeftKept, Zenon DEF OnlyAt

(* Every key that is to be sent was sent before, or is queued at the place *)
(* where it comes first; and nothing is queued twice.                      *)
LEMMA FreshCovers ==
  ASSUME Shape, NEW x \in Xts
  PROVE  LET queue == Fresh(x, task[x].result.outbound)
         IN  /\ queue \subseteq 1 .. Len(task[x].result.outbound)
             /\ OutKeys(x) \subseteq xt[x].sent \cup {Key(x, i) : i \in queue}
             /\ \A i \in queue : Key(x, i) \notin xt[x].sent /\ Key(x, i) \in OutKeys(x)
             /\ \A i, j \in queue : Key(x, i) = Key(x, j) => i = j
<1> DEFINE msgs == task[x].result.outbound
           queue == Fresh(x, msgs)
<1>1. Len(msgs) \in Nat
  BY Elements, Zenon DEF Shape, Tasks, Results
<1>2. ASSUME NEW i \in 1 .. Len(msgs), Key(x, i) \notin xt[x].sent
      PROVE  \E j \in queue : Key(x, j) = Key(x, i)
  <2> DEFINE same == {j \in 1 .. Len(msgs) : Key(x, j) = Key(x, i)}
  <2>1. i \in same /\ same \in SUBSET Nat
    BY <1>1
  <2>2. Min(same) \in same /\ \A n \in same : Min(same) <= n
    BY <2>1, LeastElement, Zenon
  <2>3. PICK j \in same : \A n \in same : j <= n
    BY <2>2, Zenon
  <2>4. /\ j \in 1 .. Len(msgs) /\ msgs[j].key = msgs[i].key
        /\ \A h \in 1 .. Len(msgs) : msgs[h].key = msgs[i].key => j <= h
    BY <2>3, Zenon DEF Key
  <2>5. \A h \in 1 .. j - 1 : msgs[h].key # msgs[j].key
    BY <1>1, <2>4
  <2>6. j \in queue
    BY <1>2, <2>4, <2>5, Zenon DEF Fresh, Key
  <2> QED
    BY <2>4, <2>6, Zenon DEF Key
<1>3. queue \subseteq 1 .. Len(msgs)
  BY Zenon DEF Fresh
<1>4. \A i \in queue : Key(x, i) \notin xt[x].sent /\ Key(x, i) \in OutKeys(x)
  BY Zenon DEF Fresh, Key, OutKeys
<1>5. ASSUME NEW i \in queue, NEW j \in queue, Key(x, i) = Key(x, j)
      PROVE  i = j
  <2>1. /\ \A h \in 1 .. i - 1 : msgs[h].key # msgs[i].key
        /\ \A h \in 1 .. j - 1 : msgs[h].key # msgs[j].key
        /\ i \in 1 .. Len(msgs) /\ j \in 1 .. Len(msgs) /\ msgs[i].key = msgs[j].key
    BY <1>5, Zenon DEF Fresh, Key
  <2> QED
    BY <1>1, <2>1
<1>6. OutKeys(x) \subseteq xt[x].sent \cup {Key(x, i) : i \in queue}
  BY <1>2, Zenon DEF OutKeys
<1> QED
  BY <1>3, <1>4, <1>5, <1>6, Zenon

(* With everything handed over the task waits, votes, or turns to the next *)
(* transaction.                                                            *)
LEMMA ProceedLocal ==
  ASSUME Shape, NEW x \in Xts, Local(x), task[x].pc \in {"dispatch", "send"},
         OnlyAt(x), Proceeds(x), HandedOnce(x)',
         UNCHANGED <<xt[x].fulfilled, xt[x].deps>>,
         x \in pending => xt'[x].sent \subseteq HandedKeys(x)'
  PROVE  Local(x)'
<1>1. /\ OwnWrites(x) /\ Way(x) /\ UNCHANGED <<program, config, pending>>
      /\ task[x] \in Tasks
  BY Zenon DEF Local, OnlyAt, Shape
<1>2. task[x].tx \in Txs(x) /\ task[x].passed /\ Current(x)
  BY <1>1, Zenon DEF Way, Working
<1>3. CASE task'[x] = [task[x] EXCEPT !.pc = "wait", !.to_send = {}]
  <2>1. /\ task'[x].pc = "wait" /\ task'[x].to_send = {}
        /\ UNCHANGED <<task[x].tx, task[x].traced, task[x].overrides,
                       task[x].fulfilled, task[x].result, task[x].passed>>
    BY <1>1, <1>3, Zenon DEF Tasks
  <2>2. OwnWrites(x)'
    <3>1. task'[x].traced \subseteq 1 .. task'[x].tx
      BY <1>1, <2>1, Zenon DEF OwnWrites
    <3> QED
      BY <1>1, <2>1, <3>1, OwnWritesKept, Zenon
  <2>3. QueuedKeys(x)' = {}
    BY <2>1, Zenon DEF QueuedKeys
  <2>4. Queue(x)'
    BY <2>1, <2>3, Zenon DEF Queue, HandedOnce, At
  <2>5. Current(x)'
    BY <1>1, <1>2, <2>1, Zenon DEF Current, Tx
  <2>6. Way(x)'
    BY <1>1, <1>2, <2>1, <2>5, Zenon DEF Way, At, Working, Txs
  <2> QED
    BY <2>2, <2>4, <2>6, Zenon DEF Local
<1>4. CASE Leaves(x, TRUE)
  <2>1. xt'[x].fulfilled \subseteq xt'[x].deps
    BY <1>1, Zenon DEF Way
  <2> QED
    BY <1>4, <2>1, LeftLocal, Zenon
<1>5. CASE /\ task[x].tx # Len(program[x])
           /\ task'[x] = [task[x] EXCEPT !.pc = "simulate", !.tx = task[x].tx + 1,
                                         !.result = NoResult, !.to_send = {}]
  <2>1. /\ task'[x].pc = "simulate" /\ task'[x].to_send = {}
        /\ task'[x].tx = task[x].tx + 1
        /\ UNCHANGED <<task[x].traced, task[x].overrides, task[x].fulfilled,
                       task[x].passed>>
    BY <1>1, <1>5, Zenon DEF Tasks
  <2>2. OwnWrites(x)'
    <3>1. task[x].traced \subseteq 1 .. task[x].tx /\ task[x].tx \in Nat
      BY <1>1, Zenon DEF OwnWrites, Tasks
    <3>2. task'[x].traced \subseteq 1 .. task'[x].tx
      BY <2>1, <3>1
    <3> QED
      BY <1>1, <2>1, <3>2, OwnWritesKept, Zenon
  <2>3. QueuedKeys(x)' = {}
    BY <2>1, Zenon DEF QueuedKeys
  <2>4. Queue(x)'
    BY <2>1, <2>3, Zenon DEF Queue, HandedOnce, At
  <2>5. task'[x].tx \in Txs(x)
    BY <1>2, <1>5, <2>1, Programs DEF Txs
  <2>6. Way(x)'
    BY <1>1, <1>2, <2>1, <2>5, Zenon DEF Way, At, Working, Txs
  <2> QED
    BY <2>2, <2>4, <2>6, Zenon DEF Local
<1> QED
  BY <1>3, <1>4, <1>5, Zenon DEF Proceeds

(* The task goes on with a queue of its own result.                        *)
LEMMA QueueLocal ==
  ASSUME Shape, NEW x \in Xts, Local(x), task[x].pc \in {"dispatch", "send"},
         OnlyAt(x), HandedOnce(x)', UNCHANGED <<xt[x].fulfilled, xt[x].deps>>,
         NEW queue \in SUBSET (1 .. Len(task[x].result.outbound)), queue # {},
         task'[x] = [task[x] EXCEPT !.pc = "send", !.to_send = queue],
         \A i, j \in queue : Key(x, i) = Key(x, j) => i = j,
         \A i \in queue : Key(x, i) \notin HandedKeys(x)',
         x \in pending => /\ OutKeys(x) \subseteq xt'[x].sent
                          /\ xt'[x].sent \subseteq
                               HandedKeys(x)' \cup {Key(x, i) : i \in queue}
  PROVE  Local(x)'
<1>1. /\ OwnWrites(x) /\ Way(x) /\ UNCHANGED <<program, config, pending>>
      /\ task[x] \in Tasks /\ task'[x] \in Tasks
  BY Zenon DEF Local, OnlyAt, Shape
<1>2. /\ task[x].tx \in Txs(x) /\ task[x].passed /\ Current(x)
  BY <1>1, Zenon DEF Way, Working
<1>3. /\ task'[x].pc = "send" /\ task'[x].to_send = queue
      /\ UNCHANGED <<task[x].tx, task[x].traced, task[x].overrides,
                     task[x].fulfilled, task[x].result, task[x].passed>>
  BY <1>1, Zenon DEF Tasks
<1>4. OwnWrites(x)'
  BY <1>1, <1>3 DEF OwnWrites
<1>5. /\ \A i : Key(x, i)' = Key(x, i)
      /\ OutKeys(x)' = OutKeys(x) /\ QueuedKeys(x)' = {Key(x, i) : i \in queue}
  BY <1>3 DEF Key, OutKeys, QueuedKeys
<1>6. {Key(x, i) : i \in queue} \subseteq OutKeys(x)
  BY Zenon DEF OutKeys
<1>7. Queue(x)'
  BY <1>1, <1>3, <1>5, <1>6 DEF Queue, HandedOnce, At
<1>8. Current(x)'
  BY <1>1, <1>2, <1>3, Zenon DEF Current, Tx
<1>9. Way(x)'
  BY <1>1, <1>2, <1>3, <1>5, <1>8, Zenon DEF Way, At, Working, Txs
<1> QED
  BY <1>4, <1>7, <1>9, Zenon DEF Local

(* What a step of the dispatch does for the votes: only with all messages  *)
(* of the result handed over does the task proceed.                        *)
HandsOver(x) ==
  /\ OnlyAt(x) /\ UNCHANGED <<overlay, xt[x].fulfilled, xt[x].vote>>
  /\ HandedKeys(x) \subseteq HandedKeys(x)'
  /\ \/ Proceeds(x) /\ (config.sender /\ x \in pending => OutKeys(x) \subseteq HandedKeys(x)')
     \/ \E queue \in SUBSET Nat :
          task'[x] = [task[x] EXCEPT !.pc = "send", !.to_send = queue]

(* So does dispatching: fresh messages have not been handed over.          *)
LEMMA DispatchLocal ==
  ASSUME Shape, NEW x \in Xts, Local(x), Dispatch(x)
  PROVE  Local(x)' /\ HandsOver(x) /\ task[x].pc = "dispatch"
<1> DEFINE queue == Fresh(x, task[x].result.outbound)
<1>1. /\ OnlyAt(x) /\ UNCHANGED <<overlay, handed>> /\ task[x].pc = "dispatch"
      /\ \/ /\ ~(config.sender /\ x \in pending)
            /\ xt'[x] = xt[x] /\ Proceeds(x)
         \/ /\ config.sender /\ x \in pending
            /\ xt'[x] = [xt[x] EXCEPT !.sent = @ \cup OutKeys(x)]
            /\ queue = {} => Proceeds(x)
            /\ queue # {} => task'[x] = [task[x] EXCEPT !.pc = "send", !.to_send = queue]
  BY DispatchEffect, Zenon
<1>2. /\ Queue(x) /\ Way(x) /\ UNCHANGED <<program, config, pending>>
      /\ xt[x] \in XtRecords
  BY <1>1, Zenon DEF Local, OnlyAt, Shape
<1>3. HandedKeys(x)' = HandedKeys(x)
  BY <1>1 DEF HandedKeys
<1>4. task[x].to_send = {}
  BY <1>1, <1>2, Zenon DEF Queue, At
<1>5. x \in pending => xt[x].sent = HandedKeys(x)
  <2>1. QueuedKeys(x) = {}
    BY <1>4, Zenon DEF QueuedKeys
  <2> QED
    BY <1>1, <1>2, <2>1, Zenon DEF Way, Queue, Working
<1>6. \A i, j \in 1 .. Len(handed'[x]) : handed'[x][i].key = handed'[x][j].key => i = j
  BY <1>1, <1>2, Zenon DEF Queue
<1>7. CASE ~(config.sender /\ x \in pending) /\ xt'[x] = xt[x] /\ Proceeds(x)
  <2>1. HandedOnce(x)'
    BY <1>2, <1>3, <1>5, <1>6, <1>7, Zenon DEF HandedOnce
  <2>2. Local(x)'
    BY <1>1, <1>3, <1>5, <1>7, <2>1, ProceedLocal, Zenon
  <2> QED
    BY <1>1, <1>3, <1>7, <2>2, Zenon DEF HandsOver
<1>8. CASE /\ config.sender /\ x \in pending
           /\ xt'[x] = [xt[x] EXCEPT !.sent = @ \cup OutKeys(x)]
           /\ queue = {} => Proceeds(x)
           /\ queue # {} => task'[x] = [task[x] EXCEPT !.pc = "send", !.to_send = queue]
  <2>1. /\ xt'[x].sent = xt[x].sent \cup OutKeys(x)
        /\ UNCHANGED <<xt[x].fulfilled, xt[x].deps, xt[x].vote>>
    BY <1>2, <1>8, Zenon DEF XtRecords
  <2>2. /\ queue \subseteq 1 .. Len(task[x].result.outbound)
        /\ OutKeys(x) \subseteq xt[x].sent \cup {Key(x, i) : i \in queue}
        /\ \A i \in queue : Key(x, i) \notin xt[x].sent /\ Key(x, i) \in OutKeys(x)
        /\ \A i, j \in queue : Key(x, i) = Key(x, j) => i = j
    BY FreshCovers, Zenon
  <2> HIDE DEF queue
  <2>3. HandedOnce(x)'
    BY <1>2, <1>3, <1>5, <1>6, <1>8, <2>1, Zenon DEF HandedOnce
  <2>4. CASE queue = {}
    <3>1. OutKeys(x) \subseteq HandedKeys(x)' /\ xt'[x].sent \subseteq HandedKeys(x)'
      BY <1>3, <1>5, <1>8, <2>1, <2>2, <2>4
    <3>2. Local(x)'
      BY <1>1, <1>8, <2>1, <2>3, <2>4, <3>1, ProceedLocal, Zenon
    <3> QED
      BY <1>1, <1>3, <1>8, <2>1, <2>4, <3>1, <3>2, Zenon DEF HandsOver
  <2>5. CASE queue # {}
    <3>1. /\ \A i \in queue : Key(x, i) \notin HandedKeys(x)'
          /\ OutKeys(x) \subseteq xt'[x].sent
          /\ xt'[x].sent \subseteq HandedKeys(x)' \cup {Key(x, i) : i \in queue}
      BY <1>3, <1>5, <1>8, <2>1, <2>2, Zenon
    <3>2. Local(x)'
      BY <1>1, <1>8, <2>1, <2>2, <2>3, <2>5, <3>1, QueueLocal, Zenon
    <3>3. queue \in SUBSET Nat
      BY <2>2
    <3> QED
      BY <1>1, <1>3, <1>8, <2>1, <2>5, <3>2, <3>3, Zenon DEF HandsOver
  <2> QED
    BY <2>4, <2>5, Zenon
<1> QED
  BY <1>1, <1>7, <1>8, Zenon

(* So does sending: the message was queued under a key of its own.         *)
LEMMA SendLocal ==
  ASSUME Shape, NEW x \in Xts, Local(x), Send(x)
  PROVE  Local(x)' /\ HandsOver(x) /\ task[x].pc = "send"
<1> DEFINE queue == task[x].to_send \ {First(x)}
           msg == task[x].result.outbound[First(x)]
<1>1. /\ At(x, "send") /\ Queue(x) /\ Way(x) /\ task[x].to_send # {}
      /\ task[x].to_send \subseteq 1 .. Len(task[x].result.outbound)
  BY Zenon DEF Send, Local, Queue
<1>2. /\ OnlyAt(x) /\ UNCHANGED <<overlay, xt>> /\ task[x].pc = "send"
      /\ First(x) \in task[x].to_send /\ handed'[x] = Append(handed[x], msg)
      /\ queue = {} => Proceeds(x)
      /\ queue # {} => task'[x] = [task[x] EXCEPT !.pc = "send", !.to_send = queue]
  BY <1>1, SendEffect, Zenon
<1>3. UNCHANGED <<program, config, pending>> /\ handed[x] \in Seq(Messages)
  BY <1>2, Zenon DEF OnlyAt, Shape
<1>4. msg.key = Key(x, First(x))
  BY Zenon DEF Key
<1> HIDE DEF msg
<1>5. /\ Len(handed'[x]) = Len(handed[x]) + 1 /\ Len(handed[x]) \in Nat
      /\ handed'[x][Len(handed[x]) + 1] = msg
      /\ \A i \in 1 .. Len(handed[x]) : handed'[x][i] = handed[x][i]
  BY <1>2, <1>3
<1>6. HandedKeys(x)' = HandedKeys(x) \cup {Key(x, First(x))}
  <2> DEFINE n == Len(handed[x])
  <2>1. /\ HandedKeys(x)' = {handed'[x][i].key : i \in 1 .. n + 1}
        /\ HandedKeys(x) = {handed[x][i].key : i \in 1 .. n}
    BY <1>5, Zenon DEF HandedKeys
  <2>2. 1 .. n + 1 = (1 .. n) \cup {n + 1}
    BY <1>5
  <2>3. handed'[x][n + 1].key = Key(x, First(x))
    BY <1>4, <1>5, Zenon
  <2>4. \A i \in 1 .. n : handed'[x][i].key = handed[x][i].key
    BY <1>5, Zenon
  <2> HIDE DEF n
  <2> QED
    BY <2>1, <2>2, <2>3, <2>4, Zenon
<1>7. QueuedKeys(x) = {Key(x, First(x))} \cup {Key(x, i) : i \in queue}
  BY <1>2, Zenon DEF QueuedKeys
<1>8. \A i \in queue : Key(x, i) # Key(x, First(x))
  BY <1>1, <1>2, Zenon DEF Queue
<1>9. Key(x, First(x)) \notin HandedKeys(x) /\ \A i \in queue : Key(x, i) \notin HandedKeys(x)
  BY <1>1, <1>7, Zenon DEF Queue
<1>10. \A i, j \in 1 .. Len(handed'[x]) : handed'[x][i].key = handed'[x][j].key => i = j
  <2>1. /\ \A i, j \in 1 .. Len(handed[x]) : handed[x][i].key = handed[x][j].key => i = j
        /\ \A i \in 1 .. Len(handed[x]) : handed[x][i].key # msg.key
    BY <1>1, <1>4, <1>9, Zenon DEF Queue, HandedKeys
  <2> DEFINE n == Len(handed[x])
  <2>2. \A i \in 1 .. Len(handed'[x]) : i \in 1 .. n \/ i = n + 1
    BY <1>5
  <2>3. ASSUME NEW i \in 1 .. Len(handed'[x]), NEW j \in 1 .. Len(handed'[x]),
               handed'[x][i].key = handed'[x][j].key
        PROVE  i = j
    <3>1. CASE i \in 1 .. n /\ j \in 1 .. n
      BY <1>5, <2>1, <2>3, <3>1, Zenon
    <3>2. CASE i \in 1 .. n /\ j = n + 1
      BY <1>5, <2>1, <2>3, <3>2, Zenon
    <3>3. CASE i = n + 1 /\ j \in 1 .. n
      BY <1>5, <2>1, <2>3, <3>3, Zenon
    <3> QED
      BY <2>2, <3>1, <3>2, <3>3, Zenon
  <2> QED
    BY <2>3, Zenon
<1>11. x \in pending => /\ HandedKeys(x)' \subseteq xt[x].sent
                        /\ OutKeys(x) \subseteq xt[x].sent
                        /\ xt[x].sent \subseteq HandedKeys(x)' \cup {Key(x, i) : i \in queue}
  BY <1>1, <1>2, <1>6, <1>7, Zenon DEF Queue, Way, At, Working
<1>12. HandedOnce(x)'
  BY <1>2, <1>3, <1>10, <1>11, Zenon DEF HandedOnce
<1>13. CASE queue = {}
  <2>1. x \in pending => /\ xt'[x].sent \subseteq HandedKeys(x)'
                         /\ OutKeys(x) \subseteq HandedKeys(x)'
    BY <1>2, <1>11, <1>13, Zenon
  <2>2. Local(x)'
    BY <1>2, <1>12, <1>13, <2>1, ProceedLocal, Zenon
  <2> QED
    BY <1>2, <1>6, <1>13, <2>1, <2>2, Zenon DEF HandsOver
<1>14. CASE queue # {}
  <2>1. /\ queue \subseteq 1 .. Len(task[x].result.outbound)
        /\ \A i, j \in queue : Key(x, i) = Key(x, j) => i = j
        /\ \A i \in queue : Key(x, i) \notin HandedKeys(x)'
    BY <1>1, <1>6, <1>8, <1>9, Zenon DEF Queue
  <2> HIDE DEF queue
  <2>2. Local(x)'
    BY <1>2, <1>11, <1>12, <1>14, <2>1, QueueLocal, Zenon
  <2>3. queue \in SUBSET Nat
    BY <2>1
  <2> QED
    BY <1>2, <1>6, <1>14, <2>2, <2>3, Zenon DEF HandsOver
<1> QED
  BY <1>13, <1>14, Zenon
-----------------------------------------------------------------------------
(* What a client polls moves on: decisions stay or turn into an abort, and *)
(* nothing that was noted is forgotten.                                    *)
Forward(x) ==
  /\ xt[x].decision # None => xt'[x].decision \in {xt[x].decision, FALSE}
  /\ xt[x].vote # None => xt'[x].vote # None
  /\ xt[x].locked => xt'[x].locked
  /\ xt[x].confirmed => xt'[x].confirmed

(* A step of process_xt() pushes at most the writes of the transaction     *)
(* that is recorded.                                                       *)
Pushes(x) ==
  /\ overlay' \in [Slots -> Origins]
  /\ \/ overlay' = overlay
     \/ At(x, "record") /\ overlay' = Merge(overlay, x, task[x].tx)

(* A step of process_xt().                                                 *)
LEMMA ProcessStep ==
  ASSUME Shape, NEW x \in Xts, Local(x), ProcessXt(x)
  PROVE  OnlyAt(x) /\ Local(x)' /\ Pushes(x) /\ Forward(x)
<1>1. overlay \in [Slots -> Origins] /\ xt[x] \in XtRecords
  BY Zenon DEF Shape
<1>2. CASE Start(x)
  <2>1. OnlyAt(x) /\ UNCHANGED <<overlay, xt>>
    BY <1>2, StartEffect, Zenon
  <2> QED
    BY <1>1, <1>2, <2>1, StartLocal, Zenon DEF Pushes, Forward
<1>3. CASE Check(x)
  <2>1. OnlyAt(x) /\ UNCHANGED <<overlay, xt>>
    BY <1>3, CheckEffect, Zenon
  <2> QED
    BY <1>1, <1>3, <2>1, CheckLocal, Zenon DEF Pushes, Forward
<1>4. CASE CheckRejects(x) \/ SimulateFails(x) \/ SendFails(x) \/ WaitTimesOut(x)
  <2>1. OnlyAt(x) /\ UNCHANGED <<overlay, xt>>
    BY <1>4, FailureEffect, Zenon
  <2> QED
    BY <1>1, <1>4, <2>1, FailureLocal, Zenon DEF Pushes, Forward
<1>5. CASE Lock(x)
  <2>1. /\ OnlyAt(x) /\ UNCHANGED overlay
        /\ xt'[x] = xt[x] \/ xt'[x] = [xt[x] EXCEPT !.locked = TRUE]
    BY <1>5, LockEffect, Zenon
  <2>2. Forward(x)
    BY <1>1, <2>1, Zenon DEF Forward, XtRecords
  <2> QED
    BY <1>1, <1>5, <2>1, <2>2, LockLocal, Zenon DEF Pushes
<1>6. CASE Refresh(x)
  <2>1. OnlyAt(x) /\ UNCHANGED <<overlay, xt>>
    BY <1>6, RefreshEffect, Zenon
  <2> QED
    BY <1>1, <1>6, <2>1, RefreshLocal, Zenon DEF Pushes, Forward
<1>7. ASSUME NEW traced \in BOOLEAN, Simulate(x, traced)
      PROVE  OnlyAt(x) /\ Local(x)' /\ Pushes(x) /\ Forward(x)
  <2>1. OnlyAt(x) /\ UNCHANGED <<overlay, xt>> /\ Local(x)'
    BY <1>7, SimulateLocal, Zenon
  <2> QED
    BY <1>1, <2>1, Zenon DEF Pushes, Forward
<1>8. CASE RecordSimulationState(x)
  <2>1. /\ OnlyAt(x) /\ task[x].pc = "record" /\ overlay' \in [Slots -> Origins]
        /\ overlay' = overlay \/ overlay' = Merge(overlay, x, task[x].tx)
        /\ \/ xt'[x] = xt[x]
           \/ xt'[x] = [xt[x] EXCEPT !.deps = xt'[x].deps, !.outbound = xt'[x].outbound]
    BY <1>8, RecordEffect, Zenon
  <2>2. Forward(x)
    BY <1>1, <2>1, Zenon DEF Forward, XtRecords
  <2> QED
    BY <1>8, <2>1, <2>2, RecordLocal, Zenon DEF Pushes, At
<1>9. CASE Dispatch(x)
  <2>1. /\ OnlyAt(x) /\ UNCHANGED overlay
        /\ xt'[x] = xt[x] \/ xt'[x] = [xt[x] EXCEPT !.sent = @ \cup OutKeys(x)]
    BY <1>9, DispatchEffect, Zenon
  <2>2. Forward(x)
    BY <1>1, <2>1, Zenon DEF Forward, XtRecords
  <2> QED
    BY <1>1, <1>9, <2>1, <2>2, DispatchLocal, Zenon DEF Pushes
<1>10. CASE Send(x)
  <2>1. UNCHANGED xt
    BY <1>10, Zenon DEF Send, stateVars
  <2>2. Local(x)' /\ OnlyAt(x) /\ UNCHANGED overlay
    BY <1>10, SendLocal, Zenon DEF HandsOver
  <2> QED
    BY <1>1, <2>1, <2>2, Zenon DEF Pushes, Forward
<1>11. CASE FulfillDependencies(x)
  <2>1. /\ OnlyAt(x) /\ UNCHANGED overlay
        /\ xt'[x] = [xt[x] EXCEPT !.fulfilled = @ \cup Answered(x),
                                  !.mailbox = @ \ Answered(x)]
    BY <1>11, FulfillEffect, Zenon
  <2>2. Forward(x)
    BY <1>1, <2>1, Zenon DEF Forward, XtRecords
  <2> QED
    BY <1>1, <1>11, <2>1, <2>2, FulfillLocal, Zenon DEF Pushes
<1>12. ASSUME NEW d \in {None} \cup BOOLEAN, SendVote(x, d)
       PROVE  OnlyAt(x) /\ Local(x)' /\ Pushes(x) /\ Forward(x)
  <2>1. /\ OnlyAt(x) /\ UNCHANGED overlay
        /\ \/ xt'[x] = xt[x]
           \/ /\ xt[x].vote = None
              /\ xt'[x] = [xt[x] EXCEPT !.vote = task[x].vote, !.locked = TRUE,
                                        !.decision = xt'[x].decision]
              /\ xt[x].decision # None => xt'[x].decision = xt[x].decision
    BY <1>12, VoteEffect, Zenon
  <2>2. \/ xt'[x] = xt[x]
        \/ /\ xt[x].vote = None /\ xt'[x].locked
           /\ xt'[x].confirmed = xt[x].confirmed
           /\ xt[x].decision # None => xt'[x].decision = xt[x].decision
    BY <1>1, <2>1, Zenon DEF XtRecords
  <2>3. Forward(x)
    BY <2>2, Zenon DEF Forward
  <2>4. Local(x)'
    BY <1>12, VoteLocal, Zenon
  <2> QED
    BY <1>1, <2>1, <2>3, <2>4, Zenon DEF Pushes
<1> QED
  BY <1>2, <1>3, <1>4, <1>5, <1>6, <1>7, <1>8, <1>9, <1>10, <1>11, <1>12, Zenon
     DEF ProcessXt

(* cleanup() forgets an XT.                                                *)
Forgotten(y) ==
  /\ UNCHANGED <<program, config, task[y], handed[y]>>
  /\ xt'[y] = NewXt /\ y \notin pending'

(* Forgetting an XT keeps its invariant.                                   *)
LEMMA ForgottenKept ==
  ASSUME NEW y \in Xts, Forgotten(y), Local(y)
  PROVE  Local(y)' /\ Ballots(y)'
<1>1. /\ xt'[y].fulfilled = {} /\ xt'[y].deps = {} /\ xt'[y].vote = None
  BY DEF Forgotten, NewXt
<1>2. /\ HandedKeys(y)' = HandedKeys(y) /\ QueuedKeys(y)' = QueuedKeys(y)
      /\ \A i : Key(y, i)' = Key(y, i)
  BY Zenon DEF HandedKeys, QueuedKeys, Key, Forgotten
<1>3. Current(y)' <=> Current(y)
  BY Zenon DEF Current, Tx, Forgotten
<1>4. OwnWrites(y)'
  BY Zenon DEF Local, OwnWrites, Forgotten
<1>5. Queue(y)'
  BY <1>2 DEF Local, Queue, At, Forgotten
<1>6. Way(y)'
  BY <1>1, <1>3, Zenon DEF Local, Way, Txs, Forgotten
<1>7. Ballots(y)'
  BY <1>1, PipelineAssumption, Zenon DEF Ballots, Forgotten
<1> QED
  BY <1>4, <1>5, <1>6, <1>7, Zenon DEF Local

(* A step of the environment: what an XT has is left alone or forgotten,   *)
(* and the overlay is left alone or dropped.                               *)
LEMMA EnvironmentStep ==
  ASSUME Shape, Environment
  PROVE  /\ Shape' /\ UNCHANGED task
         /\ overlay' = overlay \/ overlay' = NoOverlay
         /\ \A y \in Xts : \/ Quiet(y) /\ Forward(y)
                           \/ Forgotten(y)
<1>1. /\ NoOverlay \in [Slots -> Origins] /\ NewXt \in XtRecords
      /\ \A y \in Xts : xt[y] \in XtRecords
  BY NewTypes, Zenon DEF Shape
<1> DEFINE Goal == /\ Shape' /\ UNCHANGED task
                   /\ overlay' = overlay \/ overlay' = NoOverlay
                   /\ \A y \in Xts : (Quiet(y) /\ Forward(y)) \/ Forgotten(y)
<1>2. ASSUME NEW x \in Xts, NEW r \in XtRecords, xt' = [xt EXCEPT ![x] = r],
             UNCHANGED <<program, config, pending, task, handed>>,
             overlay' = overlay \/ overlay' = NoOverlay,
             r.fulfilled = xt[x].fulfilled, r.deps = xt[x].deps, r.sent = xt[x].sent,
             r.vote = xt[x].vote, r.locked = xt[x].locked,
             xt[x].confirmed => r.confirmed,
             xt[x].decision # None => r.decision = xt[x].decision
      PROVE  Goal
  <2>1. Shape'
    BY <1>1, <1>2, Zenon DEF Shape
  <2>2. \A y \in Xts : xt'[y] = IF y = x THEN r ELSE xt[y]
    BY <1>2, Zenon DEF Shape
  <2>3. \A y \in Xts : Quiet(y) /\ Forward(y)
    BY <1>2, <2>2, ZenonT(30) DEF Quiet, Forward
  <2> QED
    BY <1>2, <2>1, <2>3, Zenon
<1>3. ASSUME NEW x \in Xts, NEW k \in Keys, Receive(x, k)
      PROVE  Goal
  <2> DEFINE r == [xt[x] EXCEPT !.mailbox = @ \cup {k}]
  <2>1. /\ r \in XtRecords /\ r.fulfilled = xt[x].fulfilled /\ r.deps = xt[x].deps
        /\ r.sent = xt[x].sent /\ r.vote = xt[x].vote /\ r.locked = xt[x].locked
        /\ r.confirmed = xt[x].confirmed /\ r.decision = xt[x].decision
    BY <1>1, Zenon DEF XtRecords
  <2>2. /\ UNCHANGED <<program, config, pending, overlay, task, handed>>
        /\ xt' = [xt EXCEPT ![x] = r]
    BY <1>3, Zenon DEF Receive, worldVars
  <2> HIDE DEF r
  <2> QED
    BY <1>2, <2>1, <2>2, Zenon
<1>4. ASSUME NEW x \in Xts, NEW d \in BOOLEAN, OnDecision(x, d) \/ PeerVoteDecides(x, d)
      PROVE  Goal
  <2> DEFINE r == [xt[x] EXCEPT !.decision = d]
  <2>1. /\ r \in XtRecords /\ r.fulfilled = xt[x].fulfilled /\ r.deps = xt[x].deps
        /\ r.sent = xt[x].sent /\ r.vote = xt[x].vote /\ r.locked = xt[x].locked
        /\ r.confirmed = xt[x].confirmed
    BY <1>1, Zenon DEF XtRecords
  <2>2. /\ UNCHANGED <<program, config, pending, task, handed>>
        /\ overlay' = overlay \/ overlay' = NoOverlay
        /\ xt' = [xt EXCEPT ![x] = r] /\ xt[x].decision = None
    BY <1>4, Zenon DEF OnDecision, PeerVoteDecides, worldVars
  <2> HIDE DEF r
  <2> QED
    BY <1>2, <2>1, <2>2, Zenon
<1>5. ASSUME NEW x \in Xts, Confirm(x)
      PROVE  Goal
  <2> DEFINE r == [xt[x] EXCEPT !.confirmed = TRUE]
  <2>1. /\ r \in XtRecords /\ r.fulfilled = xt[x].fulfilled /\ r.deps = xt[x].deps
        /\ r.sent = xt[x].sent /\ r.vote = xt[x].vote /\ r.locked = xt[x].locked
        /\ r.confirmed /\ r.decision = xt[x].decision
    BY <1>1, Zenon DEF XtRecords
  <2>2. /\ UNCHANGED <<program, config, pending, overlay, task, handed>>
        /\ xt' = [xt EXCEPT ![x] = r]
    BY <1>5, Zenon DEF Confirm, worldVars
  <2> HIDE DEF r
  <2> QED
    BY <1>2, <2>1, <2>2, Zenon
<1>6. ASSUME NEW x \in Xts, Cleanup(x)
      PROVE  Goal
  <2>1. /\ UNCHANGED <<program, config, overlay, task, handed>>
        /\ pending' = pending \ {x} /\ xt' = [xt EXCEPT ![x] = NewXt]
    BY <1>6, Zenon DEF Cleanup, worldVars
  <2>2. Shape'
    BY <1>1, <2>1, Zenon DEF Shape
  <2>3. \A y \in Xts : xt'[y] = IF y = x THEN NewXt ELSE xt[y]
    BY <2>1, Zenon DEF Shape
  <2>4. \A y \in Xts : (Quiet(y) /\ Forward(y)) \/ Forgotten(y)
    BY <2>1, <2>3, Zenon DEF Quiet, Forward, Forgotten
  <2> QED
    BY <2>1, <2>2, <2>4, Zenon
<1>7. ASSUME NEW hit \in SUBSET Xts, Clear(hit)
      PROVE  Goal
  <2>1. /\ UNCHANGED <<program, config, pending, task, handed>> /\ overlay' = NoOverlay
        /\ xt' = [x \in Xts |-> IF x \in hit THEN [xt[x] EXCEPT !.decision = FALSE]
                                ELSE xt[x]]
    BY <1>7, Zenon DEF Clear
  <2>2. ASSUME NEW y \in Xts
        PROVE  xt'[y] \in XtRecords /\ Quiet(y) /\ Forward(y)
    <3>1. xt'[y] = IF y \in hit THEN [xt[y] EXCEPT !.decision = FALSE] ELSE xt[y]
      BY <2>1, Zenon
    <3>2. /\ xt'[y] \in XtRecords
          /\ UNCHANGED <<xt[y].fulfilled, xt[y].deps, xt[y].sent, xt[y].vote,
                         xt[y].locked, xt[y].confirmed>>
          /\ xt'[y].decision \in {xt[y].decision, FALSE}
      <4>1. CASE y \in hit
        BY <1>1, <3>1, <4>1, ZenonT(30) DEF XtRecords
      <4>2. CASE y \notin hit
        BY <1>1, <3>1, <4>2, Zenon
      <4> QED
        BY <4>1, <4>2, Zenon
    <3> QED
      BY <2>1, <3>2, Zenon DEF Quiet, Forward
  <2>3. Shape'
    BY <1>1, <2>1, <2>2, Zenon DEF Shape
  <2> QED
    BY <2>1, <2>2, <2>3, Zenon
<1>8. CASE HandleStartPeriod \/ HandleRollback
  <2>1. PICK hit \in SUBSET Xts : Clear(hit)
    BY <1>8, Zenon DEF HandleStartPeriod, HandleRollback, Shape
  <2> QED
    BY <1>7, <2>1, Zenon
<1> QED
  BY <1>3, <1>4, <1>5, <1>6, <1>8, Zenon DEF Environment

(* The invariant holds at the start and every step keeps it.               *)
LEMMA PipelineInit ==
  ASSUME Init
  PROVE  PipelineInv /\ \A x \in Xts : Ballots(x)
<1>1. /\ pending = Xts /\ xt = [x \in Xts |-> NewXt] /\ overlay = NoOverlay
      /\ task = [x \in Xts |-> NewTask] /\ handed = [x \in Xts |-> <<>>]
      /\ \E u \in Setups : program = u.program /\ config = BuildCoordinator(u.args)
  BY Zenon DEF Init
<1>2. <<>> \in Seq(Messages)
  OBVIOUS
<1>3. Shape
  BY <1>1, <1>2, NewTypes, Zenon DEF Shape
<1>4. ASSUME NEW x \in Xts
      PROVE  Local(x) /\ Ballots(x)
  <2>1. task[x] = NewTask /\ xt[x] = NewXt /\ handed[x] = <<>>
    BY <1>1, Zenon
  <2>2. /\ task[x].pc = "start" /\ task[x].tx = 1 /\ task[x].traced = {}
        /\ task[x].to_send = {}
    BY <2>1 DEF NewTask
  <2>3. /\ xt[x].fulfilled = {} /\ xt[x].deps = {} /\ xt[x].sent = {}
        /\ xt[x].vote = None
    BY <2>1 DEF NewXt
  <2>4. HandedKeys(x) = {} /\ QueuedKeys(x) = {} /\ Len(handed[x]) = 0
    BY <2>1, <2>2 DEF HandedKeys, QueuedKeys
  <2>5. OwnWrites(x)
    BY <2>2, Zenon DEF OwnWrites
  <2>6. Queue(x)
    BY <2>2, <2>4 DEF Queue, At
  <2>7. Way(x)
    BY <2>2, <2>3, Zenon DEF Way, Working, At
  <2>8. Ballots(x)
    BY <2>2, <2>3, PipelineAssumption, Zenon DEF Ballots, Working, At
  <2> QED
    BY <2>5, <2>6, <2>7, <2>8, Zenon DEF Local
<1> QED
  BY <1>3, <1>4, Zenon DEF PipelineInv

(* Every step keeps the invariant.                                         *)
LEMMA PipelineInductive ==
  PipelineInv /\ [Next]_vars => PipelineInv'
<1> SUFFICES ASSUME PipelineInv, [Next]_vars
             PROVE  PipelineInv'
  BY Zenon
<1>1. Shape /\ \A x \in Xts : Local(x)
  BY Zenon DEF PipelineInv
<1>2. ASSUME NEW x \in Xts, ProcessXt(x)
      PROVE  PipelineInv'
  <2>1. OnlyAt(x) /\ Local(x)' /\ Pushes(x)
    BY <1>1, <1>2, ProcessStep, Zenon
  <2>2. Shape'
    BY <1>1, <2>1, OnlyAtShape, Zenon DEF Pushes
  <2>3. \A y \in Xts : Local(y)'
    BY <1>1, <2>1, OthersKept, Zenon
  <2> QED
    BY <2>2, <2>3, Zenon DEF PipelineInv
<1>3. CASE Environment
  <2>1. Shape' /\ \A y \in Xts : Quiet(y) \/ Forgotten(y)
    BY <1>1, <1>3, EnvironmentStep, Zenon
  <2>2. \A y \in Xts : Local(y)'
    BY <1>1, <2>1, QuietKept, ForgottenKept, Zenon
  <2> QED
    BY <2>1, <2>2, Zenon DEF PipelineInv
<1>4. CASE UNCHANGED vars
  <2>1. /\ UNCHANGED <<program, config, pending, xt, overlay, task, handed>>
    BY <1>4, Zenon DEF vars
  <2>2. Shape' /\ \A y \in Xts : Quiet(y)
    BY <1>1, <2>1, Zenon DEF Shape, Quiet
  <2>3. \A y \in Xts : Local(y)'
    BY <1>1, <2>2, QuietKept, Zenon
  <2> QED
    BY <2>2, <2>3, Zenon DEF PipelineInv
<1> QED
  BY <1>2, <1>3, <1>4, Zenon DEF Next

(* The inductive invariant of process_xt().                                *)
THEOREM PipelineInvariant == Spec => []PipelineInv
<1>1. Init => PipelineInv
  BY PipelineInit, Zenon
<1> QED
  BY <1>1, PipelineInductive, PTL DEF Spec

(* The transactions of an XT see what the earlier ones wrote: for any      *)
(* number of transactions and slots, whatever other XTs push and whenever  *)
(* the overlay is cleared.                                                 *)
THEOREM OwnWritesAreVisible == Spec => []OwnWritesVisible
<1>1. PipelineInv => OwnWritesVisible
  <2>1. ASSUME PipelineInv, NEW x \in pending, At(x, "simulate"), NEW s \in Slots
        PROVE  LET own == {i \in task[x].traced : s \in program[x][i].slots}
               IN  own # {} => task[x].overrides[s] = <<x, Max(own)>>
    <3>1. x \in Xts
      BY <2>1, Zenon DEF PipelineInv, Shape
    <3> QED
      BY <2>1, <3>1, Zenon DEF PipelineInv, Local, OwnWrites
  <2> QED
    BY <2>1, Zenon DEF OwnWritesVisible
<1> QED
  BY <1>1, PipelineInvariant, PTL

(* sent_mailbox_keys: a message is handed over at most once, for any       *)
(* number of simulations, waits and transactions.                          *)
THEOREM SentOnlyOnce == Spec => []SentOnce
<1>1. PipelineInv => SentOnce
  BY Zenon DEF PipelineInv, Local, Queue, SentOnce
<1> QED
  BY <1>1, PipelineInvariant, PTL

(* record_simulation_state() pushes what the transaction wrote and nothing *)
(* of the copy that the task started from.                                 *)
THEOREM OverlayNeverGoesBack == Spec => OverlayMovesForward
<1>1. ASSUME PipelineInv, [Next]_vars, NEW s \in Slots, overlay'[s] # overlay[s]
      PROVE  \/ overlay' = NoOverlay
             \/ \E x \in Xts : At(x, "record") /\ overlay'[s] = <<x, task[x].tx>>
  <2>1. Shape /\ \A x \in Xts : Local(x)
    BY <1>1, Zenon DEF PipelineInv
  <2>2. ASSUME NEW x \in Xts, ProcessXt(x)
        PROVE  At(x, "record") /\ overlay'[s] = <<x, task[x].tx>>
    <3>1. At(x, "record") /\ overlay' = Merge(overlay, x, task[x].tx)
      BY <1>1, <2>1, <2>2, ProcessStep, Zenon DEF Pushes
    <3> QED
      BY <1>1, <3>1, Zenon DEF Merge
  <2>3. CASE Environment
    BY <1>1, <2>1, <2>3, EnvironmentStep, Zenon
  <2>4. CASE UNCHANGED vars
    BY <1>1, <2>4, Zenon DEF vars
  <2> QED
    BY <1>1, <2>2, <2>3, <2>4, Zenon DEF Next
<1>2. PipelineInv /\ [Next]_vars =>
        [\A s \in Slots : overlay'[s] # overlay[s] =>
           \/ overlay' = NoOverlay
           \/ \E x \in Xts : At(x, "record") /\ overlay'[s] = <<x, task[x].tx>>]_vars
  BY <1>1, Zenon
<1> QED
  BY <1>2, PipelineInvariant, PTL DEF Spec, OverlayMovesForward

(* The place of a status in the order.                                     *)
LEMMA Ranks ==
  /\ Rank("pending") = 1 /\ Rank("simulating") = 2 /\ Rank("voted") = 3
  /\ Rank("committed") = 4 /\ Rank("aborted") = 5
<1> DEFINE order == <<"pending", "simulating", "voted", "committed", "aborted">>
<1>1. /\ order[1] = "pending" /\ order[2] = "simulating" /\ order[3] = "voted"
      /\ order[4] = "committed" /\ order[5] = "aborted"
  BY Zenon
<1>2. \A n \in 1 .. 5 : n = 1 \/ n = 2 \/ n = 3 \/ n = 4 \/ n = 5
  OBVIOUS
<1> HIDE DEF order
<1>3. ASSUME NEW k \in 1 .. 5, \A n \in 1 .. 5 : order[k] = order[n] => k = n
      PROVE  (CHOOSE n \in 1 .. 5 : order[k] = order[n]) = k
  BY <1>3, Zenon
<1>4. \A k, n \in 1 .. 5 : order[k] = order[n] => k = n
  BY <1>1, <1>2, Zenon
<1>5. \A k \in 1 .. 5 : (CHOOSE n \in 1 .. 5 : order[k] = order[n]) = k
  BY <1>3, <1>4, Zenon
<1>6. \A k \in 1 .. 5 : Rank(order[k]) = k
  BY <1>5, Zenon DEF Rank, order
<1> QED
  BY <1>1, <1>6

(* What moves on does not fall back in the order.                          *)
LEMMA StatusMoves ==
  ASSUME NEW x \in Xts, xt[x] \in XtRecords, xt'[x] \in XtRecords, Forward(x)
  PROVE  Rank(DetermineXtStatus(x)) <= Rank(DetermineXtStatus(x)')
<1>1. /\ None # TRUE /\ None # FALSE
      /\ xt[x].decision \in {TRUE, FALSE, None} /\ xt'[x].decision \in {TRUE, FALSE, None}
  BY PipelineAssumption, Zenon DEF XtRecords
<1>2. CASE DetermineXtStatus(x) = "pending"
  BY <1>2, Ranks DEF DetermineXtStatus
<1>3. CASE DetermineXtStatus(x) = "simulating"
  <2>1. DetermineXtStatus(x)' # "pending"
    BY <1>1, <1>3, Zenon DEF DetermineXtStatus, Forward
  <2> QED
    BY <1>3, <2>1, Ranks DEF DetermineXtStatus
<1>4. CASE DetermineXtStatus(x) = "voted"
  <2>1. DetermineXtStatus(x)' \in {"voted", "committed", "aborted"}
    BY <1>1, <1>4, Zenon DEF DetermineXtStatus, Forward
  <2> QED
    BY <1>4, <2>1, Ranks
<1>5. CASE DetermineXtStatus(x) = "committed"
  <2>1. DetermineXtStatus(x)' \in {"committed", "aborted"}
    BY <1>1, <1>5, Zenon DEF DetermineXtStatus, Forward
  <2> QED
    BY <1>5, <2>1, Ranks
<1>6. CASE DetermineXtStatus(x) = "aborted"
  <2>1. DetermineXtStatus(x)' = "aborted"
    BY <1>1, <1>6, Zenon DEF DetermineXtStatus, Forward
  <2> QED
    BY <1>6, <2>1, Ranks
<1> QED
  BY <1>2, <1>3, <1>4, <1>5, <1>6, Zenon DEF DetermineXtStatus

(* The status that clients poll never falls back, whichever of the vote,   *)
(* the decision, the confirmation and an abort comes first.                *)
THEOREM StatusNeverFallsBack == Spec => StatusForward
<1>1. ASSUME PipelineInv, PipelineInv', [Next]_vars, NEW x \in pending \cap pending'
      PROVE  Rank(DetermineXtStatus(x)) <= Rank(DetermineXtStatus(x)')
  <2>1. /\ Shape /\ (\A y \in Xts : Local(y)) /\ x \in Xts
        /\ xt[x] \in XtRecords /\ xt'[x] \in XtRecords
    BY <1>1, Zenon DEF PipelineInv, Shape
  <2>2. ASSUME NEW y \in Xts, ProcessXt(y)
        PROVE  Forward(x)
    <3>1. OnlyAt(y) /\ Forward(y)
      BY <2>1, <2>2, ProcessStep, Zenon
    <3>2. x # y => xt'[x] = xt[x]
      BY <2>1, <3>1, Zenon DEF OnlyAt, Shape
    <3> QED
      BY <3>1, <3>2, Zenon DEF Forward
  <2>3. ASSUME Environment
        PROVE  Forward(x)
    BY <1>1, <2>1, <2>3, EnvironmentStep, Zenon DEF Forgotten
  <2>4. ASSUME UNCHANGED vars
        PROVE  Forward(x)
    BY <2>4, Zenon DEF vars, Forward
  <2>5. Forward(x)
    BY <1>1, <2>2, <2>3, <2>4, Zenon DEF Next
  <2> QED
    BY <2>1, <2>5, StatusMoves, Zenon
<1>2. PipelineInv /\ PipelineInv' /\ [Next]_vars =>
        [\A x \in pending \cap pending' :
           Rank(DetermineXtStatus(x)) <= Rank(DetermineXtStatus(x)')]_vars
  BY <1>1, Zenon
<1> QED
  BY <1>2, PipelineInvariant, PTL DEF Spec, StatusForward
-----------------------------------------------------------------------------
(* What was earned stays earned when more is delivered and handed over.    *)
LEMMA EarnedKept ==
  ASSUME DeliveryMonotone, Shape, NEW x \in Xts, NEW i \in Txs(x), Earned(x, i),
         UNCHANGED <<program, config>>, xt[x].fulfilled \subseteq xt'[x].fulfilled,
         xt'[x].fulfilled \in SUBSET Keys, HandedKeys(x) \subseteq HandedKeys(x)'
  PROVE  Earned(x, i)'
<1> DEFINE call == program[x][i].call
           have == xt[x].fulfilled
           more == xt'[x].fulfilled
<1>1. call \in Calls
  BY Programs, Zenon
<1>2. GoesThrough[<<call, have>>] =>
        /\ GoesThrough[<<call, more>>]
        /\ KeysOf(call, more, "write") \subseteq KeysOf(call, have, "write")
  BY <1>1, Zenon DEF DeliveryMonotone
<1>3. Earned(x, i) <=>
        (config.simulator /\ config.mailbox =>
           /\ GoesThrough[<<call, have>>]
           /\ config.sender => KeysOf(call, have, "write") \subseteq HandedKeys(x))
  BY Zenon DEF Earned, Succeeds
<1>4. Earned(x, i)' <=>
        (config.simulator /\ config.mailbox =>
           /\ GoesThrough[<<call, more>>]
           /\ config.sender => KeysOf(call, more, "write") \subseteq HandedKeys(x)')
  BY Zenon DEF Earned, Succeeds
<1> HIDE DEF call, have, more
<1> QED
  BY <1>2, <1>3, <1>4, Zenon

(* The current transaction has earned its yes with a successful simulation *)
(* all of whose messages were handed over.                                 *)
LEMMA EarnedNow ==
  ASSUME SimulationSound, Shape, NEW x \in Xts, NEW i \in Txs(x), i = task[x].tx,
         Current(x), task[x].result.success, task[x].fulfilled = xt[x].fulfilled,
         UNCHANGED <<program, config, xt[x].fulfilled>>,
         config.sender => OutKeys(x) \subseteq HandedKeys(x)'
  PROVE  Earned(x, i)'
<1> DEFINE call == program[x][i].call
           have == xt[x].fulfilled
           o == Outcome[<<call, have, TRUE>>]
<1>1. call \in Calls /\ have \in SUBSET Keys
  BY Programs, Zenon DEF Shape, XtRecords
<1>2. SUFFICES ASSUME config.mailbox
               PROVE  /\ GoesThrough[<<call, have>>]
                      /\ config.sender =>
                           KeysOf(call, have, "write") \subseteq HandedKeys(x)'
  BY Zenon DEF Earned, Succeeds
<1>3. config.mailbox = TRUE
  BY <1>2, Programs, Zenon
<1>4. o.success /\ task[x].result.outbound = o.outbound
  BY <1>3, Zenon DEF Current, Tx
<1>5. /\ o.success => GoesThrough[<<call, have>>]
      /\ KeysOf(call, have, "write") \subseteq {m.key : m \in Range(o.outbound)}
  BY <1>1, Zenon DEF SimulationSound
<1>6. {m.key : m \in Range(o.outbound)} \subseteq OutKeys(x)
  <2>1. task[x].result.outbound \in Seq(Messages)
    BY Zenon DEF Shape, Tasks, Results
  <2> HIDE DEF o
  <2> QED
    BY <1>4, <2>1 DEF OutKeys, Key, Range
<1> QED
  BY <1>4, <1>5, <1>6, Zenon

(* A step on which the task casts no yes and turns to no new transaction.  *)
LEMMA BallotsKept ==
  ASSUME Shape, NEW x \in Xts, Way(x), Ballots(x), OnlyAt(x), task[x].pc # "end",
         xt'[x].vote = xt[x].vote,
         task'[x].pc = "vote" => task'[x].vote # TRUE,
         task'[x].pc \in Working =>
           task'[x].tx = task[x].tx /\ task[x].pc \in Working \cup {"check"},
         \A i \in Txs(x) : Earned(x, i) => Earned(x, i)'
  PROVE  Ballots(x)'
<1>1. UNCHANGED <<program, config, pending>> /\ Txs(x)' = Txs(x)
  BY Zenon DEF OnlyAt, Txs
<1>2. xt'[x].vote # TRUE
  BY Zenon DEF Ballots
<1>3. ASSUME x \in pending, task'[x].pc \in Working, NEW i \in 1 .. task[x].tx - 1
      PROVE  Earned(x, i)'
  <2>1. task[x].tx \in Txs(x) /\ task[x].tx \in Nat /\ Len(program[x]) \in Nat
    BY <1>3, Programs, Zenon DEF Way, Shape, Tasks
  <2>2. i \in Txs(x)
    BY <2>1 DEF Txs
  <2>3. CASE task[x].pc = "check"
    <3>1. task[x].tx = 1
      BY <2>3, Zenon DEF Way
    <3> QED
      BY <3>1
  <2>4. CASE task[x].pc \in Working
    <3>1. Earned(x, i)
      BY <1>3, <2>4, Zenon DEF Ballots
    <3> QED
      BY <2>2, <3>1, Zenon
  <2> QED
    BY <1>3, <2>3, <2>4, Zenon
<1> QED
  BY <1>1, <1>2, <1>3, Zenon DEF Ballots, At

(* A yes to be cast.                                                       *)
LEMMA YesCast ==
  ASSUME Shape, NEW x \in Xts, Ballots(x), OnlyAt(x), task[x].pc # "end",
         xt'[x].vote = xt[x].vote, Leaves(x, TRUE), task[x].passed,
         x \in pending => \A i \in Txs(x) : Earned(x, i)'
  PROVE  Ballots(x)'
<1>1. UNCHANGED <<program, config, pending>> /\ Txs(x)' = Txs(x)
  BY Zenon DEF OnlyAt, Txs
<1>2. xt'[x].vote # TRUE
  BY Zenon DEF Ballots
<1>3. task'[x].pc \notin Working /\ task'[x].passed
  BY Zenon DEF Leaves, Working
<1> QED
  BY <1>1, <1>2, <1>3, Zenon DEF Ballots

(* With everything handed over, what the task has done is earned.          *)
LEMMA ProceedBallots ==
  ASSUME SimulationSound, DeliveryMonotone, Shape, NEW x \in Xts, Local(x), Ballots(x),
         HandsOver(x), task[x].pc \in {"dispatch", "send"}
  PROVE  Ballots(x)'
<1>1. /\ OnlyAt(x) /\ UNCHANGED <<program, config, pending, xt[x].fulfilled, xt[x].vote>>
      /\ HandedKeys(x) \subseteq HandedKeys(x)' /\ Way(x)
      /\ task[x] \in Tasks /\ xt'[x].fulfilled \in SUBSET Keys
  BY Zenon DEF HandsOver, OnlyAt, Local, Shape, XtRecords
<1>2. \A i \in Txs(x) : Earned(x, i) => Earned(x, i)'
  BY <1>1, EarnedKept, Zenon
<1>3. /\ task[x].pc \in Working /\ task[x].pc # "end"
      /\ task[x].tx \in Txs(x) /\ task[x].passed /\ Current(x)
      /\ x \in pending => task[x].fulfilled = xt[x].fulfilled
  BY <1>1, Zenon DEF Way, Working
<1>4. ASSUME NEW queue \in SUBSET Nat,
             task'[x] = [task[x] EXCEPT !.pc = "send", !.to_send = queue]
      PROVE  Ballots(x)'
  <2>1. task'[x].pc = "send" /\ task'[x].tx = task[x].tx
    BY <1>1, <1>4, Zenon DEF Tasks
  <2> QED
    BY <1>1, <1>2, <1>3, <2>1, BallotsKept, Zenon
<1>5. CASE /\ Proceeds(x)
           /\ config.sender /\ x \in pending => OutKeys(x) \subseteq HandedKeys(x)'
  <2>1. ASSUME x \in pending, task[x].result.success, NEW i \in 1 .. task[x].tx
        PROVE  Earned(x, i)'
    <3>1. task[x].tx \in Nat /\ Len(program[x]) \in Nat /\ i \in Txs(x)
      BY <1>1, <1>3, Programs DEF Tasks, Txs
    <3>2. CASE i = task[x].tx
      BY <1>1, <1>3, <1>5, <2>1, <3>1, <3>2, EarnedNow, Zenon
    <3>3. CASE i # task[x].tx
      <4>1. i \in 1 .. task[x].tx - 1
        BY <3>1, <3>3
      <4>2. Earned(x, i)
        BY <1>3, <2>1, <4>1, Zenon DEF Ballots
      <4> QED
        BY <1>2, <3>1, <4>2, Zenon
    <3> QED
      BY <3>2, <3>3, Zenon
  <2>2. CASE task'[x] = [task[x] EXCEPT !.pc = "wait", !.to_send = {}]
    <3>1. task'[x].pc = "wait" /\ task'[x].tx = task[x].tx
      BY <1>1, <2>2, Zenon DEF Tasks
    <3> QED
      BY <1>1, <1>2, <1>3, <3>1, BallotsKept, Zenon
  <2>3. CASE task[x].result.success /\ task[x].tx = Len(program[x]) /\ Leaves(x, TRUE)
    <3>1. x \in pending => \A i \in Txs(x) : Earned(x, i)'
      BY <2>1, <2>3, Zenon DEF Txs
    <3> QED
      BY <1>1, <1>3, <2>3, <3>1, YesCast, Zenon
  <2>4. CASE /\ task[x].result.success
             /\ task'[x] = [task[x] EXCEPT !.pc = "simulate", !.tx = task[x].tx + 1,
                                           !.result = NoResult, !.to_send = {}]
    <3>1. task'[x].pc = "simulate" /\ task'[x].tx = task[x].tx + 1 /\ task[x].tx \in Nat
      BY <1>1, <2>4, ZenonT(30) DEF Tasks
    <3>2. xt'[x].vote # TRUE
      BY <1>1, <1>3, Zenon DEF Ballots
    <3>3. x \in pending => \A i \in 1 .. task'[x].tx - 1 : Earned(x, i)'
      BY <2>1, <2>4, <3>1
    <3> QED
      BY <1>1, <3>1, <3>2, <3>3, Zenon DEF Ballots, At
  <2> QED
    BY <1>5, <2>2, <2>3, <2>4, Zenon DEF Proceeds
<1> QED
  BY <1>4, <1>5, Zenon DEF HandsOver

(* Every step of process_xt() keeps the votes earned.                      *)
LEMMA ProcessBallots ==
  ASSUME SimulationSound, DeliveryMonotone, Shape, NEW x \in Xts, Local(x), Ballots(x),
         ProcessXt(x)
  PROVE  Ballots(x)'
<1>1. /\ OnlyAt(x) /\ Way(x) /\ task[x] \in Tasks /\ xt[x] \in XtRecords
      /\ xt'[x].fulfilled \in SUBSET Keys /\ UNCHANGED <<program, config, pending>>
  BY ProcessStep, Zenon DEF OnlyAt, Local, Shape, XtRecords
<1>2. ASSUME xt[x].fulfilled \subseteq xt'[x].fulfilled, handed'[x] = handed[x]
      PROVE  \A i \in Txs(x) : Earned(x, i) => Earned(x, i)'
  <2>1. HandedKeys(x)' = HandedKeys(x)
    BY <1>2, Zenon DEF HandedKeys
  <2> QED
    BY <1>1, <1>2, <2>1, EarnedKept, Zenon
<1>3. ASSUME NEW v, Leaves(x, v), v # TRUE, task[x].pc # "end", handed'[x] = handed[x],
             xt'[x].fulfilled = xt[x].fulfilled, xt'[x].vote = xt[x].vote
      PROVE  Ballots(x)'
  <2>1. task'[x].pc \notin Working /\ task'[x].vote # TRUE
    BY <1>3, Zenon DEF Leaves, Working
  <2> QED
    BY <1>1, <1>2, <1>3, <2>1, BallotsKept, Zenon
<1>4. CASE Start(x)
  <2>1. /\ UNCHANGED <<xt, handed>> /\ task[x].pc = "start"
        /\ \/ Leaves(x, None) \/ Leaves(x, FALSE)
           \/ task'[x] = [task[x] EXCEPT !.pc = "check", !.overrides = overlay]
    BY <1>4, StartEffect, Zenon
  <2>2. CASE task'[x] = [task[x] EXCEPT !.pc = "check", !.overrides = overlay]
    <3>1. task'[x].pc = "check"
      BY <1>1, <2>2, Zenon DEF Tasks
    <3> QED
      BY <1>1, <1>2, <2>1, <3>1, BallotsKept, Zenon DEF Working
  <2> QED
    BY <1>3, <2>1, <2>2, PipelineAssumption, Zenon
<1>5. CASE Check(x)
  <2>1. /\ UNCHANGED <<xt, handed>> /\ task[x].pc = "check"
        /\ task'[x] = [task[x] EXCEPT !.pc = "lock", !.passed = TRUE]
    BY <1>5, CheckEffect, Zenon
  <2>2. task'[x].pc = "lock" /\ task'[x].tx = task[x].tx
    BY <1>1, <2>1, Zenon DEF Tasks
  <2> QED
    BY <1>1, <1>2, <2>1, <2>2, BallotsKept, Zenon
<1>6. CASE CheckRejects(x) \/ SimulateFails(x) \/ SendFails(x) \/ WaitTimesOut(x)
  <2>1. /\ UNCHANGED <<xt, handed>> /\ Leaves(x, FALSE)
        /\ task[x].pc \in {"check", "simulate", "send", "wait"}
    BY <1>6, FailureEffect, Zenon
  <2> QED
    BY <1>3, <2>1, Zenon
<1>7. CASE Lock(x)
  <2>1. /\ UNCHANGED handed /\ task[x].pc = "lock"
        /\ xt'[x] = xt[x] \/ xt'[x] = [xt[x] EXCEPT !.locked = TRUE]
        /\ \/ task'[x] = [task[x] EXCEPT !.pc = "refresh"]
           \/ ~config.simulator /\ Leaves(x, TRUE)
    BY <1>7, LockEffect, Zenon
  <2>2. UNCHANGED <<xt[x].fulfilled, xt[x].vote>>
    BY <1>1, <2>1, Zenon DEF XtRecords
  <2>3. CASE task'[x] = [task[x] EXCEPT !.pc = "refresh"]
    <3>1. task'[x].pc = "refresh" /\ task'[x].tx = task[x].tx
      BY <1>1, <2>3, Zenon DEF Tasks
    <3> QED
      BY <1>1, <1>2, <2>1, <2>2, <3>1, BallotsKept, Zenon DEF Working
  <2>4. CASE ~config.simulator /\ Leaves(x, TRUE)
    <3>1. \A i \in Txs(x) : Earned(x, i)'
      BY <1>1, <2>4, Zenon DEF Earned
    <3>2. task[x].passed
      BY <1>1, <2>1, Zenon DEF Way, Working
    <3> QED
      BY <1>1, <2>1, <2>2, <2>4, <3>1, <3>2, YesCast, Zenon
  <2> QED
    BY <2>1, <2>3, <2>4, Zenon
<1>8. CASE Refresh(x)
  <2>1. /\ UNCHANGED <<xt, handed>> /\ task[x].pc = "refresh"
        /\ \/ Leaves(x, None)
           \/ task'[x] = [task[x] EXCEPT !.pc = "simulate", !.fulfilled = xt[x].fulfilled]
    BY <1>8, RefreshEffect, Zenon
  <2>2. CASE task'[x] = [task[x] EXCEPT !.pc = "simulate", !.fulfilled = xt[x].fulfilled]
    <3>1. task'[x].pc = "simulate" /\ task'[x].tx = task[x].tx
      BY <1>1, <2>2, Zenon DEF Tasks
    <3> QED
      BY <1>1, <1>2, <2>1, <3>1, BallotsKept, Zenon DEF Working
  <2> QED
    BY <1>3, <2>1, <2>2, PipelineAssumption, Zenon
<1>9. ASSUME NEW traced \in BOOLEAN, Simulate(x, traced)
      PROVE  Ballots(x)'
  <2>1. /\ UNCHANGED <<xt, handed>> /\ task[x].pc = "simulate"
        /\ task'[x].pc = "record" /\ task'[x].tx = task[x].tx
    BY <1>9, SimulateLocal, Zenon
  <2> QED
    BY <1>1, <1>2, <2>1, BallotsKept, Zenon DEF Working
<1>10. CASE RecordSimulationState(x)
  <2>1. /\ UNCHANGED handed /\ task[x].pc = "record"
        /\ \/ xt'[x] = xt[x]
           \/ xt'[x] = [xt[x] EXCEPT !.deps = xt'[x].deps, !.outbound = xt'[x].outbound]
        /\ \/ Leaves(x, FALSE)
           \/ /\ task'[x] = [task[x] EXCEPT !.pc = task'[x].pc,
                    !.overrides = task'[x].overrides, !.traced = task'[x].traced]
              /\ task'[x].pc \in {"dispatch", "wait"}
    BY <1>10, RecordEffect, Zenon
  <2>2. UNCHANGED <<xt[x].fulfilled, xt[x].vote>>
    BY <1>1, <2>1, Zenon DEF XtRecords
  <2>3. CASE /\ task'[x] = [task[x] EXCEPT !.pc = task'[x].pc,
                  !.overrides = task'[x].overrides, !.traced = task'[x].traced]
             /\ task'[x].pc \in {"dispatch", "wait"}
    <3>1. task'[x].tx = task[x].tx
      BY <1>1, <2>3, Zenon DEF Tasks
    <3> QED
      BY <1>1, <1>2, <2>1, <2>2, <2>3, <3>1, BallotsKept, Zenon DEF Working
  <2> QED
    BY <1>3, <2>1, <2>2, <2>3, Zenon
<1>11. CASE Dispatch(x) \/ Send(x)
  BY <1>11, DispatchLocal, SendLocal, ProceedBallots, Zenon
<1>12. CASE FulfillDependencies(x)
  <2>1. /\ UNCHANGED handed /\ task[x].pc = "wait"
        /\ xt'[x] = [xt[x] EXCEPT !.fulfilled = @ \cup Answered(x),
                                  !.mailbox = @ \ Answered(x)]
        /\ task'[x] = [task[x] EXCEPT !.pc = "refresh", !.result = NoResult]
    BY <1>12, FulfillEffect, Zenon
  <2>2. xt[x].fulfilled \subseteq xt'[x].fulfilled /\ xt'[x].vote = xt[x].vote
    BY <1>1, <2>1, Zenon DEF XtRecords
  <2>3. task'[x].pc = "refresh" /\ task'[x].tx = task[x].tx
    BY <1>1, <2>1, Zenon DEF Tasks
  <2> QED
    BY <1>1, <1>2, <2>1, <2>2, <2>3, BallotsKept, Zenon DEF Working
<1>13. ASSUME NEW d \in {None} \cup BOOLEAN, SendVote(x, d)
       PROVE  Ballots(x)'
  <2>1. /\ UNCHANGED handed /\ task[x].pc = "vote" /\ task'[x].pc = "end"
        /\ Leaves(x, None)
        /\ \/ xt'[x] = xt[x]
           \/ /\ x \in pending
              /\ xt'[x] = [xt[x] EXCEPT !.vote = task[x].vote, !.locked = TRUE,
                                        !.decision = xt'[x].decision]
    BY <1>13, VoteEffect, Zenon
  <2>2. CASE xt'[x] = xt[x]
    BY <1>3, <2>1, <2>2, PipelineAssumption, Zenon
  <2>3. CASE /\ x \in pending
             /\ xt'[x] = [xt[x] EXCEPT !.vote = task[x].vote, !.locked = TRUE,
                                       !.decision = xt'[x].decision]
    <3>1. xt'[x].vote = task[x].vote /\ xt'[x].fulfilled = xt[x].fulfilled
      BY <1>1, <2>3, Zenon DEF XtRecords
    <3>2. \A i \in Txs(x) : Earned(x, i) => Earned(x, i)'
      BY <1>2, <2>1, <3>1, Zenon
    <3>3. task'[x].passed = task[x].passed /\ Txs(x)' = Txs(x)
      BY <1>1, <2>1, Zenon DEF Leaves, Txs
    <3> QED
      BY <1>1, <2>1, <2>3, <3>1, <3>2, <3>3, Zenon DEF Ballots, At, Working
  <2> QED
    BY <2>1, <2>2, <2>3, Zenon
<1> QED
  BY <1>4, <1>5, <1>6, <1>7, <1>8, <1>9, <1>10, <1>11, <1>12, <1>13, Zenon DEF
     ProcessXt

(* A yes vote is earned, for any number of XTs, transactions and messages: *)
(* if the simulator overlooks neither a failure nor a message, and no      *)
(* message delivered later makes a transaction fail or write elsewhere.    *)
THEOREM YesVotesAreEarned ==
  ASSUME SimulationSound, DeliveryMonotone
  PROVE  Spec => []YesVoteEarned
<1> DEFINE Inv == PipelineInv /\ \A x \in Xts : Ballots(x)
<1>1. Init => Inv
  BY PipelineInit, Zenon
<1>2. Inv /\ [Next]_vars => Inv'
  <2> SUFFICES ASSUME Inv, [Next]_vars
               PROVE  \A y \in Xts : Ballots(y)'
    BY PipelineInductive, Zenon
  <2>1. Shape /\ \A y \in Xts : Local(y) /\ Ballots(y)
    BY Zenon DEF PipelineInv
  <2>2. ASSUME NEW x \in Xts, ProcessXt(x)
        PROVE  \A y \in Xts : Ballots(y)'
    <3>1. OnlyAt(x) /\ Ballots(x)'
      BY <2>1, <2>2, ProcessStep, ProcessBallots, Zenon
    <3> QED
      BY <2>1, <3>1, OthersKept, Zenon
  <2>3. CASE Environment
    BY <2>1, <2>3, EnvironmentStep, QuietKept, ForgottenKept, Zenon
  <2>4. CASE UNCHANGED vars
    <3>1. \A y \in Xts : Quiet(y)
      BY <2>4, Zenon DEF vars, Quiet
    <3> QED
      BY <2>1, <3>1, QuietKept, Zenon
  <2> QED
    BY <2>2, <2>3, <2>4, Zenon DEF Next
<1>3. Inv => YesVoteEarned
  <2> SUFFICES ASSUME Inv, NEW x \in Xts, xt[x].vote = TRUE
               PROVE  /\ task[x].passed
                      /\ xt[x].fulfilled \subseteq xt[x].deps
                      /\ config.simulator /\ config.mailbox => \A i \in Txs(x) :
                           /\ Succeeds(x, i, xt[x].fulfilled)
                           /\ config.sender =>
                                KeysOf(program[x][i].call, xt[x].fulfilled, "write")
                                  \subseteq {m.key : m \in Range(handed[x])}
    BY Zenon DEF YesVoteEarned
  <2>1. task[x].passed /\ \A i \in Txs(x) : Earned(x, i)
    BY Zenon DEF Ballots
  <2>2. xt[x].fulfilled \subseteq xt[x].deps /\ handed[x] \in Seq(Messages)
    BY Zenon DEF PipelineInv, Local, Way, Shape
  <2>3. HandedKeys(x) \subseteq {m.key : m \in Range(handed[x])}
    BY <2>2 DEF HandedKeys, Range
  <2> QED
    BY <2>1, <2>2, <2>3, Zenon DEF Earned
<1> HIDE DEF Inv
<1> QED
  BY <1>1, <1>2, <1>3, PTL DEF Spec
=============================================================================

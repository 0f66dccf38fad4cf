------------------------------ MODULE Pipeline ------------------------------
(***************************************************************************)
(* process_xt() at one sidecar: one task per XT checks the XT, simulates   *)
(* its local transactions one after the other on top of the overlay of the *)
(* chain, hands outbound mailbox messages to the peers, waits for inbound  *)
(* ones, and votes.  Decisions, a new period, a rollback and cleanup() run *)
(* between its steps.                                                      *)
(*                                                                         *)
(* Each section under the state lock is one action, and so is each call of *)
(* the verification service, the builder's RPC and a peer.  The overlay    *)
(* and the overrides of a task map a slot to its last writer, <<XT, index  *)
(* of the transaction>>; StateOverrides has their details.  How a wait is  *)
(* woken is in MailboxWait, how votes become decisions in Coordinator and  *)
(* Standalone.  What a simulation finds is a parameter of this module;     *)
(* TracedPipeline puts the parser of CallTrace in its place.               *)
(***************************************************************************)
EXTENDS Naturals, Sequences, FiniteSetsExt, Functions, TLC

CONSTANTS
  Xts,        \* instance ids
  Keys,       \* mailbox keys
  Slots,      \* storage slots of the local chain
  Setups,     \* the choices of [program, args]: the local transactions of each
              \* XT, [call, slots], and the arguments the sidecar is started with
  TraceCall(_, _),        \* a call with these messages in the inbox: the frames
                          \* of its trace, [fn, key, payload, error], in order
  SimulateCall(_, _, _),  \* what simulate_with_mailbox() makes of it, with or
                          \* without the address of the mailbox
  None,       \* Option::None
  MaxFaults,  \* bound: calls that fail or are rejected
  MaxClears   \* bound: periods that start and rollbacks

(* The calls of the transactions.                                          *)
Calls == UNION {UNION {{u.program[x][i].call : i \in 1 .. Len(u.program[x])} :
                         x \in Xts} : u \in Setups}

VARIABLES
  program,  \* per XT: raw_txs of the local chain
  config,   \* which optional parts the coordinator was built with
  pending,  \* the XTs that are registered
  xt,       \* per XT: its PendingXt
  overlay,  \* chain_overlay of the local chain
  task,     \* per XT: the local variables of process_xt()
  handed,   \* ghost, per XT: the messages peers accepted, in order
  faults,   \* calls that failed so far
  late,     \* ghost: has a wait for a missing message timed out?
  clears    \* periods started and rollbacks so far

vars == <<program, config, pending, xt, overlay, task, handed, faults, late, clears>>
-----------------------------------------------------------------------------
(* Tables of the two (with @@ TLC evaluates them once).                    *)
Trace == [c \in Calls \X (SUBSET Keys) |-> TraceCall(c[1], c[2])] @@ <<>>

Outcome == [c \in Calls \X (SUBSET Keys) \X BOOLEAN |->
              SimulateCall(c[1], c[2], c[3])] @@ <<>>

ASSUME PipelineAssumption ==
  /\ MaxFaults \in Nat /\ MaxClears \in Nat
  /\ None \notin BOOLEAN
  /\ \A u \in Setups : \A x \in Xts :
       u.program[x] \in Seq([call : Calls, slots : SUBSET Slots])
  /\ \A call \in Calls, have \in SUBSET Keys, mailbox \in BOOLEAN :
       Outcome[<<call, have, mailbox>>] \in
         [success : BOOLEAN, traced : BOOLEAN, dependencies : Seq(Keys),
          outbound : Seq([key : Keys, payload : SUBSET Keys])]

(* The mailbox keys that a call reads, or writes, with its messages there. *)
KeysOf(call, have, fn) == {f.key : f \in {g \in Range(Trace[<<call, have>>]) : g.fn = fn}}

Reads == [call \in Calls |-> KeysOf(call, Keys, "read")] @@ <<>>

NoOverlay == [s \in Slots |-> None]

(* build_coordinator() of main.rs: the optional parts of the coordinator.   *)
(* A mailbox address that does not parse is left out.                      *)
BuildCoordinator(args) ==
  [simulator |-> args.builder_rpc # "",
   mailbox   |-> args.mailbox = "address",
   sender    |-> args.peers # {}]

(* PendingXt::new().  Sets of keys stand for the lists and their dedup     *)
(* sets; outbound_messages holds one message per key.                      *)
NewXt == [locked |-> FALSE, vote |-> None, decision |-> None, confirmed |-> FALSE,
          mailbox |-> {}, deps |-> {}, fulfilled |-> {}, outbound |-> {}, sent |-> {}]

NoResult == [success |-> FALSE, traced |-> FALSE, dependencies |-> <<>>, outbound |-> <<>>]

(* The locals of process_xt(): the transaction it is at, current_overrides *)
(* and fulfilled_deps, the last result, to_send (positions in its outbound *)
(* messages) and the vote to cast.  Ghosts: were the checks passed, and    *)
(* which transactions were recorded with overrides.                        *)
NewTask == [pc |-> "start", tx |-> 1, overrides |-> NoOverlay, fulfilled |-> {},
            result |-> NoResult, to_send |-> {}, vote |-> None,
            passed |-> FALSE, traced |-> {}]

Init ==
  /\ \E u \in Setups : program = u.program /\ config = BuildCoordinator(u.args)
  /\ pending = Xts
  /\ xt = [x \in Xts |-> NewXt]
  /\ overlay = NoOverlay
  /\ task = [x \in Xts |-> NewTask]
  /\ handed = [x \in Xts |-> <<>>]
  /\ faults = 0 /\ late = FALSE /\ clears = 0

Txs(x) == 1 .. Len(program[x])

Tx(x) == program[x][task[x].tx]

At(x, pc) == task[x].pc = pc

Fault == faults < MaxFaults /\ faults' = faults + 1

(* The task goes on at pc, or casts a vote, or returns.                    *)
Goto(x, pc) == task' = [task EXCEPT ![x].pc = pc]

Leave(x, pc, vote) == [NewTask EXCEPT !.pc = pc, !.vote = vote, !.passed = task[x].passed]

Ballot(x, vote) == Leave(x, "vote", vote)

GoVote(x, vote) == task' = [task EXCEPT ![x] = Ballot(x, vote)]

GoEnd(x) == task' = [task EXCEPT ![x] = Leave(x, "end", None)]

stateVars == <<pending, xt, overlay>>
worldVars == <<program, config, handed, late, clears>>
-----------------------------------------------------------------------------
(* The transactions and a copy of the overlay are taken in one section; an *)
(* XT without local transactions is voted down.                            *)
Start(x) ==
  /\ At(x, "start")
  /\ IF x \notin pending THEN GoEnd(x)
     ELSE IF program[x] = <<>> THEN GoVote(x, FALSE)
     ELSE task' = [task EXCEPT ![x].pc = "check", ![x].overrides = overlay]
  /\ UNCHANGED <<stateVars, worldVars, faults>>

(* verify_xt() and then check_xt_permissions(), which look at nothing of   *)
(* the state that changes: both pass, or one rejects and the vote is no.   *)
Check(x) ==
  /\ At(x, "check")
  /\ task' = [task EXCEPT ![x].pc = "lock", ![x].passed = TRUE]
  /\ UNCHANGED <<stateVars, worldVars, faults>>

(* The mutant returns without a vote.                                      *)
MutantRejectionEnds(x) ==
  /\ At(x, "check")
  /\ Fault
  /\ GoEnd(x)
  /\ UNCHANGED <<stateVars, worldVars>>

CheckRejects(x) ==
  /\ At(x, "check")
  /\ Fault
  /\ GoVote(x, FALSE)
  /\ UNCHANGED <<stateVars, worldVars>>

(* The local chain is locked; without a simulator the vote is yes.         *)
Lock(x) ==
  /\ At(x, "lock")
  /\ xt' = IF x \in pending THEN [xt EXCEPT ![x].locked = TRUE] ELSE xt
  /\ IF config.simulator THEN Goto(x, "refresh") ELSE GoVote(x, TRUE)
  /\ UNCHANGED <<pending, overlay, worldVars, faults>>

(* The local copy of fulfilled_deps, before the first simulation and after *)
(* each wait.  The mutant keeps the first copy.                            *)
MutantNotRefreshed(x) ==
  /\ At(x, "refresh")
  /\ IF x \in pending THEN Goto(x, "simulate") ELSE GoEnd(x)
  /\ UNCHANGED <<stateVars, worldVars, faults>>

Refresh(x) ==
  /\ At(x, "refresh")
  /\ IF x \in pending
     THEN task' = [task EXCEPT ![x].pc = "simulate", ![x].fulfilled = xt[x].fulfilled]
     ELSE GoEnd(x)
  /\ UNCHANGED <<stateVars, worldVars, faults>>
-----------------------------------------------------------------------------
(* simulate_with_mailbox(): the transaction runs with the fulfilled        *)
(* messages in its inbox.  The prestate trace may fail on its own.         *)
Simulate(x, traced) ==
  /\ At(x, "simulate")
  /\ IF traced THEN UNCHANGED faults ELSE Fault
  /\ task' = [task EXCEPT ![x].pc = "record",
       ![x].result = [Outcome[<<Tx(x).call, task[x].fulfilled, config.mailbox>>]
                        EXCEPT !.traced = traced]]
  /\ UNCHANGED <<stateVars, worldVars>>

SimulateFails(x) ==
  /\ At(x, "simulate")
  /\ Fault
  /\ GoVote(x, FALSE)
  /\ UNCHANGED <<stateVars, worldVars>>

(* merge_overrides() of what transaction i of x wrote.                     *)
Merge(base, x, i) == [s \in Slots |-> IF s \in program[x][i].slots THEN <<x, i>> ELSE base[s]]

(* What record_simulation_state() leaves in the overlay of the chain, and  *)
(* what it returns for the next simulation.  The mutants push the merged   *)
(* overrides, and take up the overlay again.                               *)
MutantPushesAll(x) == Merge(task[x].overrides, x, task[x].tx)

OverlayAfter(x) == Merge(overlay, x, task[x].tx)

MutantRereads(x) == overlay

OverridesAfter(x) == Merge(task[x].overrides, x, task[x].tx)

(* The messages of msgs whose key is not yet in outbound_messages.         *)
NewMessages(x, msgs) ==
  {msgs[i] : i \in {j \in 1 .. Len(msgs) :
     /\ \A m \in xt[x].outbound : m.key # msgs[j].key
     /\ \A h \in 1 .. j - 1 : msgs[h].key # msgs[j].key}}

(* Where process_xt() goes with a recorded result.                         *)
Onward(x, result) ==
  IF result.success THEN "dispatch"
  ELSE IF Range(result.dependencies) \subseteq task[x].fulfilled THEN "vote"
  ELSE IF result.outbound # <<>> THEN "dispatch"
  ELSE "wait"

RecordSimulationState(x) ==
  LET result == task[x].result
      pushes == x \in pending /\ result.success /\ result.traced
      after  == [task[x] EXCEPT
                   !.pc = Onward(x, result),
                   !.overrides = IF pushes THEN OverridesAfter(x) ELSE @,
                   !.traced = IF pushes THEN @ \cup {task[x].tx} ELSE @]
  IN  /\ At(x, "record")
      /\ overlay' = IF pushes THEN OverlayAfter(x) ELSE overlay
      /\ xt' = IF x \notin pending THEN xt
               ELSE [xt EXCEPT
                 ![x].deps = @ \cup Range(result.dependencies),
                 ![x].outbound = @ \cup NewMessages(x, result.outbound)]
      /\ IF after.pc = "vote" THEN GoVote(x, FALSE) ELSE task' = [task EXCEPT ![x] = after]
      /\ UNCHANGED <<pending, worldVars, faults>>
-----------------------------------------------------------------------------
(* dispatch_outbound_mailbox(): the messages whose key was not sent before *)
(* are marked as sent and queued, in their order.  The mutant queues all.  *)
MutantResends(x, msgs) == 1 .. Len(msgs)

Fresh(x, msgs) ==
  {i \in 1 .. Len(msgs) : /\ msgs[i].key \notin xt[x].sent
                          /\ \A h \in 1 .. i - 1 : msgs[h].key # msgs[i].key}

(* With nothing left to send: the next transaction, the vote, or the wait. *)
Dispatched(x) ==
  IF ~task[x].result.success THEN [task[x] EXCEPT !.pc = "wait", !.to_send = {}]
  ELSE IF task[x].tx = Len(program[x]) THEN Ballot(x, TRUE)
  ELSE [task[x] EXCEPT !.pc = "simulate", !.tx = @ + 1, !.result = NoResult,
                       !.to_send = {}]

Queued(x, queue) ==
  IF queue = {} THEN Dispatched(x) ELSE [task[x] EXCEPT !.pc = "send", !.to_send = queue]

Dispatch(x) ==
  LET msgs == task[x].result.outbound
  IN  /\ At(x, "dispatch")
      /\ IF config.sender /\ x \in pending
         THEN /\ task' = [task EXCEPT ![x] = Queued(x, Fresh(x, msgs))]
              /\ xt' = [xt EXCEPT ![x].sent = @ \cup {msgs[i].key : i \in 1 .. Len(msgs)}]
         ELSE task' = [task EXCEPT ![x] = Dispatched(x)] /\ UNCHANGED xt
      /\ UNCHANGED <<pending, overlay, worldVars, faults>>

(* PeerMailboxSender::send() of the next message; the first error is       *)
(* returned and the rest of the queue is dropped.  The mutant goes on.     *)
First(x) == Min(task[x].to_send)

Send(x) ==
  /\ At(x, "send")
  /\ handed' = [handed EXCEPT ![x] = Append(@, task[x].result.outbound[First(x)])]
  /\ task' = [task EXCEPT ![x] = Queued(x, task[x].to_send \ {First(x)})]
  /\ UNCHANGED <<stateVars, program, config, late, clears, faults>>

MutantSendErrorIgnored(x) ==
  /\ At(x, "send")
  /\ Fault
  /\ task' = [task EXCEPT ![x] = Queued(x, task[x].to_send \ {First(x)})]
  /\ UNCHANGED <<stateVars, worldVars>>

SendFails(x) ==
  /\ At(x, "send")
  /\ Fault
  /\ GoVote(x, FALSE)
  /\ UNCHANGED <<stateVars, worldVars>>
-----------------------------------------------------------------------------
(* wait_for_dependencies(): it returns when messages answer some of the    *)
(* dependencies, or when the CIRC timeout is over; the mailbox is not      *)
(* looked at again after the timeout.                                      *)
Answered(x) == (Range(task[x].result.dependencies) \ xt[x].fulfilled) \cap xt[x].mailbox

Fulfilled(x) == Range(task[x].result.dependencies) \subseteq xt[x].fulfilled

FulfillDependencies(x) ==
  /\ At(x, "wait") /\ x \in pending /\ Answered(x) # {}
  /\ xt' = [xt EXCEPT ![x].fulfilled = @ \cup Answered(x),
                      ![x].mailbox = @ \ Answered(x)]
  /\ task' = [task EXCEPT ![x].pc = "refresh", ![x].result = NoResult]
  /\ UNCHANGED <<pending, overlay, worldVars, faults>>

WaitTimesOut(x) ==
  /\ At(x, "wait")
  /\ late' = (late \/ x \notin pending \/ ~Fulfilled(x))
  /\ GoVote(x, FALSE)
  /\ UNCHANGED <<stateVars, program, config, handed, clears, faults>>

(* send_vote(): the first vote of an XT stands.  In standalone mode the    *)
(* same section may find the votes complete and decide.                    *)
Decisions(vote) == {None} \cup (IF vote THEN BOOLEAN ELSE {FALSE})

SendVote(x, decision) ==
  /\ At(x, "vote")
  /\ IF x \in pending /\ xt[x].vote = None
     THEN /\ decision \in Decisions(task[x].vote)
          /\ xt' = [xt EXCEPT ![x].vote = task[x].vote, ![x].locked = TRUE,
                     ![x].decision = IF @ = None THEN decision ELSE @]
     ELSE decision = None /\ UNCHANGED xt
  /\ GoEnd(x)
  /\ UNCHANGED <<pending, overlay, worldVars, faults>>
-----------------------------------------------------------------------------
(* handle_mailbox_message() for a registered XT: one message per key that  *)
(* its transactions read.                                                  *)
Receive(x, k) ==
  /\ x \in pending
  /\ \E i \in Txs(x) : k \in Reads[program[x][i].call]
  /\ k \notin xt[x].mailbox \cup xt[x].fulfilled
  /\ xt' = [xt EXCEPT ![x].mailbox = @ \cup {k}]
  /\ UNCHANGED <<pending, overlay, task, worldVars, faults>>

(* on_decision(): an abort drops the overlay.                              *)
OnDecision(x, d) ==
  /\ x \in pending /\ xt[x].decision = None
  /\ d => xt[x].vote = TRUE
  /\ xt' = [xt EXCEPT ![x].decision = d]
  /\ overlay' = IF d THEN overlay ELSE NoOverlay
  /\ UNCHANGED <<pending, task, worldVars, faults>>

(* handle_peer_vote() in standalone mode: a no decides at once, a yes when *)
(* it completes the votes.  The overlay stays as it is.                    *)
PeerVoteDecides(x, d) ==
  /\ x \in pending /\ xt[x].decision = None
  /\ d => xt[x].vote = TRUE
  /\ xt' = [xt EXCEPT ![x].decision = d]
  /\ UNCHANGED <<pending, overlay, task, worldVars, faults>>

(* confirm_included_xts(), whatever was decided.  A second confirmation    *)
(* only changes the time.                                                  *)
Confirm(x) ==
  /\ x \in pending /\ ~xt[x].confirmed
  /\ xt' = [xt EXCEPT ![x].confirmed = TRUE]
  /\ UNCHANGED <<pending, overlay, task, worldVars, faults>>

(* handle_start_period() aborts the undecided XTs of earlier periods (none *)
(* that a peer forwarded, whose period is zero), handle_rollback() all     *)
(* that is pending; both clear the overlay.                                *)
Clear(hit) ==
  /\ clears < MaxClears /\ clears' = clears + 1
  /\ xt' = [x \in Xts |-> IF x \in hit THEN [xt[x] EXCEPT !.decision = FALSE] ELSE xt[x]]
  /\ overlay' = NoOverlay
  /\ UNCHANGED <<pending, task, program, config, handed, late, faults>>

HandleStartPeriod == \E stale \in SUBSET {x \in pending : xt[x].decision = None} : Clear(stale)

HandleRollback == Clear(pending)

(* cleanup() of an XT that was confirmed or decided long ago.              *)
Cleanup(x) ==
  /\ x \in pending
  /\ xt[x].confirmed \/ xt[x].decision # None
  /\ pending' = pending \ {x}
  /\ xt' = [xt EXCEPT ![x] = NewXt]
  /\ UNCHANGED <<overlay, task, worldVars, faults>>
-----------------------------------------------------------------------------
ProcessXt(x) ==
  \/ Start(x)
  \/ Check(x)
  \/ CheckRejects(x)
  \/ Lock(x)
  \/ Refresh(x)
  \/ \E traced \in BOOLEAN : Simulate(x, traced)
  \/ SimulateFails(x)
  \/ RecordSimulationState(x)
  \/ Dispatch(x)
  \/ Send(x)
  \/ SendFails(x)
  \/ FulfillDependencies(x)
  \/ WaitTimesOut(x)
  \/ \E decision \in {None} \cup BOOLEAN : SendVote(x, decision)

Environment ==
  \/ \E x \in Xts, k \in Keys : Receive(x, k)
  \/ \E x \in Xts, d \in BOOLEAN : OnDecision(x, d) \/ PeerVoteDecides(x, d)
  \/ \E x \in Xts : Confirm(x) \/ Cleanup(x)
  \/ HandleStartPeriod
  \/ HandleRollback

Next == (\E x \in Xts : ProcessXt(x)) \/ Environment

Spec == Init /\ [][Next]_vars

(* The runtime polls every task that can go on, and calls return; peers    *)
(* send the messages that an XT reads.                                     *)
Fairness ==
  /\ \A x \in Xts : WF_vars(ProcessXt(x))
  /\ \A x \in Xts : WF_vars(\E k \in Keys : Receive(x, k))

FairSpec == Spec /\ Fairness
-----------------------------------------------------------------------------
(* determine_xt_status().  simulated_at is set with the local vote.  The   *)
(* mutant looks at the vote before an abort.                               *)
MutantVoteFirst(x) ==
  IF xt[x].confirmed THEN "committed"
  ELSE IF xt[x].vote # None THEN "voted"
  ELSE IF xt[x].decision = FALSE THEN "aborted"
  ELSE IF xt[x].locked THEN "simulating"
  ELSE "pending"

DetermineXtStatus(x) ==
  IF xt[x].decision = FALSE THEN "aborted"
  ELSE IF xt[x].decision = TRUE /\ xt[x].confirmed THEN "committed"
  ELSE IF xt[x].decision = TRUE \/ xt[x].vote # None THEN "voted"
  ELSE IF xt[x].locked THEN "simulating"
  ELSE "pending"

(* The trace of transaction i of x with the messages of `have' delivered.  *)
Traced(x, i, have) == Trace[<<program[x][i].call, have>>]

(* A transaction goes through: the top call does, and so does every        *)
(* mailbox read, also one whose failure would be caught.                   *)
GoesThrough ==
  [c \in Calls \X (SUBSET Keys) |->
     \A n \in 1 .. Len(Trace[c]) :
       n = 1 \/ Trace[c][n].fn = "read" => ~Trace[c][n].error] @@ <<>>

Succeeds(x, i, have) == GoesThrough[<<program[x][i].call, have>>]

(* What the simulation calls successful did go through, and no message     *)
(* that a transaction writes is overlooked.                                *)
SimulationSound ==
  \A call \in Calls, have \in SUBSET Keys :
    /\ Outcome[<<call, have, TRUE>>].success => GoesThrough[<<call, have>>]
    /\ KeysOf(call, have, "write") \subseteq
         {m.key : m \in Range(Outcome[<<call, have, TRUE>>].outbound)}

(* A transaction that goes through also does with further messages in the  *)
(* inbox, and writes to no other keys.                                     *)
DeliveryMonotone ==
  \A call \in Calls : \A more \in SUBSET Keys : \A have \in SUBSET more :
    GoesThrough[<<call, have>>] =>
      /\ GoesThrough[<<call, more>>]
      /\ KeysOf(call, more, "write") \subseteq KeysOf(call, have, "write")

(* A yes vote is earned, whatever was decided, cleared and delivered in    *)
(* between: both checks passed, every local transaction succeeds with the  *)
(* messages that the putInbox transactions will deliver, all of which were *)
(* asked for, and for every message these transactions write a peer        *)
(* accepted one with its key.                                              *)
YesVoteEarned ==
  \A x \in Xts : xt[x].vote = TRUE =>
    /\ task[x].passed
    /\ xt[x].fulfilled \subseteq xt[x].deps
    /\ config.simulator /\ config.mailbox => \A i \in Txs(x) :
         /\ Succeeds(x, i, xt[x].fulfilled)
         /\ config.sender =>
              KeysOf(program[x][i].call, xt[x].fulfilled, "write")
                \subseteq {m.key : m \in Range(handed[x])}

(* A message is handed over at most once, however often its transaction is *)
(* simulated (sent_mailbox_keys).                                          *)
SentOnce ==
  \A x \in Xts : \A i, j \in 1 .. Len(handed[x]) :
    handed[x][i].key = handed[x][j].key => i = j

(* The transactions of an XT see what the earlier ones wrote, also when    *)
(* other XTs push into the overlay, or the overlay is cleared, in between. *)
OwnWritesVisible ==
  \A x \in pending : At(x, "simulate") => \A s \in Slots :
    LET own == {i \in task[x].traced : s \in program[x][i].slots}
    IN  own # {} => task[x].overrides[s] = <<x, Max(own)>>

(* A slot of the overlay changes only when the overlay is dropped, and to  *)
(* what the transaction that was just simulated wrote: a task that started *)
(* from an old copy never brings back an older write.                      *)
OverlayMovesForward ==
  [][\A s \in Slots : overlay'[s] # overlay[s] =>
       \/ overlay' = NoOverlay
       \/ \E x \in Xts : At(x, "record") /\ overlay'[s] = <<x, task[x].tx>>]_vars

(* The order of the status that clients poll.                              *)
Rank(status) ==
  CHOOSE n \in 1 .. 5 :
    status = <<"pending", "simulating", "voted", "committed", "aborted">>[n]

(* The status that clients poll never falls back, whichever of the vote,   *)
(* the decision, the confirmation and an abort comes first.                *)
StatusForward ==
  [][\A x \in pending \cap pending' :
       Rank(DetermineXtStatus(x)) <= Rank(DetermineXtStatus(x)')]_vars

(* Every XT gets the local vote, unless it was decided and cleaned up      *)
(* before: each way out of process_xt() votes.                             *)
EveryXtVoted == \A x \in Xts : []<>(xt[x].vote # None \/ x \notin pending)

(* No call has failed and no wait for a missing message has timed out.     *)
Smooth == faults = 0 /\ ~late

(* All transactions succeed with all their messages.                       *)
Healthy(x) == program[x] # <<>> /\ \A i \in Txs(x) : Succeeds(x, i, Keys)

(* If no call fails and no wait for a missing message times out, an XT     *)
(* whose transactions succeed with all their messages is voted for,        *)
(* through any number of waits that are answered in part.  A simulator     *)
(* needs the address of the mailbox for it: without one it finds no        *)
(* dependencies, and an XT that waits for a message is voted down.         *)
CleanRunVotesYes ==
  \A x \in Xts :
    []<>(Smooth /\ Healthy(x) /\ (config.simulator => config.mailbox)
           => xt[x].vote = TRUE \/ x \notin pending)
-----------------------------------------------------------------------------
(* What comments say and the code does not always do.                      *)

(* model/chain_overlay.rs: the overlay is the "post-state of previously    *)
(* committed local XTs".  An XT that was aborted while it was simulated    *)
(* still pushes, and standalone mode drops nothing on an abort.            *)
OverlayOfCommitted ==
  \A s \in Slots : overlay[s] # None => xt[overlay[s][1]].decision # FALSE

=============================================================================

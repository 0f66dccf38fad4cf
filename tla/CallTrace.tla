----------------------------- MODULE CallTrace -----------------------------
(***************************************************************************)
(* What the simulator reads off the call trace of a transaction: the       *)
(* mailbox reads that reverted, which become dependencies, and the mailbox *)
(* writes, which become outbound messages.                                 *)
(*                                                                         *)
(* A transaction is a tree of calls.  A call is                            *)
(*   [fn, key, payload, catches, reverts, calls]                           *)
(* where fn is "write" or "read" for a call of the mailbox contract that   *)
(* decodes, and "other" for any other call; the mailbox key stands for the *)
(* six fields of a message header.  Running the tree gives a trace, a tree *)
(* of frames [fn, key, payload, error, calls].                             *)
(***************************************************************************)
EXTENDS Naturals, SequencesExt

CONSTANT MaxTraceDepth  \* MAX_TRACE_DEPTH, and the depth limit of EVM calls

ASSUME TraceAssumption == MaxTraceDepth \in Nat
-----------------------------------------------------------------------------
(* debug_traceCall: a read fails when its key is not in the inbox, a call  *)
(* stops at the first inner call that fails and fails with it, unless it   *)
(* catches the failure (ERC-4337 handleOps does).  The payload of a write  *)
(* may depend on the messages that are delivered.                          *)
RECURSIVE Execute(_, _)
Execute(call, have) ==
  LET frames  == [i \in 1 .. Len(call.calls) |-> Execute(call.calls[i], have)]
      failing == {i \in 1 .. Len(frames) : frames[i].error}
      stop    == IF call.catches \/ failing = {} THEN Len(frames) ELSE Min(failing)
  IN  [fn |-> call.fn, key |-> call.key, payload |-> call.payload \cap have,
       error |-> \/ call.reverts
                 \/ call.fn = "read" /\ call.key \notin have
                 \/ ~call.catches /\ failing # {},
       calls |-> SubSeq(frames, 1, stop)]

(* The frames of a trace in the order the calls were made.                 *)
RECURSIVE Frames(_)
Frames(frame) ==
  <<frame>> \o FlattenSeq([i \in 1 .. Len(frame.calls) |-> Frames(frame.calls[i])])

RECURSIVE Depth(_)
Depth(call) ==
  IF call.calls = <<>> THEN 0
  ELSE 1 + Max({Depth(call.calls[i]) : i \in 1 .. Len(call.calls)})
-----------------------------------------------------------------------------
(* visit_node(): what a frame adds to the parsed reads and writes.         *)
VisitNode(frame, state) ==
  CASE frame.fn = "write" -> [state EXCEPT !.writes = Append(@, frame)]
    [] frame.fn = "read"  -> [state EXCEPT !.reads = Append(@, frame)]
    [] OTHER              -> state

(* The children that parse_call_trace() pushes, last pushed first popped.  *)
(* The mutants push the leftmost child first, and stop a level too early.  *)
MutantLeftmostPushedFirst(frame, depth) ==
  IF depth >= MaxTraceDepth THEN <<>>
  ELSE [i \in 1 .. Len(frame.calls) |-> <<frame.calls[i], depth + 1>>]

MutantStopsEarly(frame, depth) ==
  IF depth + 1 >= MaxTraceDepth THEN <<>>
  ELSE Reverse([i \in 1 .. Len(frame.calls) |-> <<frame.calls[i], depth + 1>>])

Pushed(frame, depth) ==
  IF depth >= MaxTraceDepth THEN <<>>
  ELSE Reverse([i \in 1 .. Len(frame.calls) |-> <<frame.calls[i], depth + 1>>])

(* parse_call_trace(): the loop over the explicit stack.                   *)
RECURSIVE Walk(_, _)
Walk(stack, state) ==
  IF stack = <<>> THEN state
  ELSE LET frame == Last(stack)[1]
           depth == Last(stack)[2]
       IN  Walk(Front(stack) \o Pushed(frame, depth), VisitNode(frame, state))

ParseCallTrace(trace) ==
  Walk(<< <<trace, 0>> >>, [reads |-> <<>>, writes |-> <<>>])

Reverted(frame) == frame.error

KeyOf(frame) == frame.key

Message(frame) == [key |-> frame.key, payload |-> frame.payload]

Map(seq, Op(_)) == [i \in 1 .. Len(seq) |-> Op(seq[i])]

(* extract_mailbox_data(): only reads that reverted are dependencies, all  *)
(* writes are outbound messages.  A simulator that was not given the       *)
(* address of the mailbox sees neither.                                    *)
ExtractMailboxData(trace, mailbox) ==
  LET parsed == ParseCallTrace(trace)
  IN  IF mailbox
      THEN [dependencies |-> Map(SelectSeq(parsed.reads, Reverted), KeyOf),
            outbound |-> Map(parsed.writes, Message)]
      ELSE [dependencies |-> <<>>, outbound |-> <<>>]

(* result_from_traces(): a transaction that hides the failure of a mailbox *)
(* read did not succeed.  `traced' says whether the prestate trace gave    *)
(* state overrides.                                                        *)
ResultFromTraces(trace, mailbox, traced) ==
  LET data == ExtractMailboxData(trace, mailbox)
  IN  [success |-> ~trace.error /\ data.dependencies = <<>>,
       traced |-> traced,
       dependencies |-> data.dependencies,
       outbound |-> data.outbound]

(* simulate_with_mailbox() of the simulator, with the messages of `have'   *)
(* in the inbox and a prestate trace that succeeds.                        *)
SimulateWithMailbox(call, have, mailbox) ==
  ResultFromTraces(Execute(call, have), mailbox, TRUE)
=============================================================================

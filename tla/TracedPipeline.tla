--------------------------- MODULE TracedPipeline ---------------------------
(***************************************************************************)
(* Pipeline with the simulator of CallTrace: a configuration says          *)
(*   TraceCall <- TraceOf   SimulateCall <- SimulateWithMailbox            *)
(***************************************************************************)
EXTENDS Pipeline, CallTrace

ASSUME TracedAssumption ==
  /\ \A call \in Calls : Depth(call) <= MaxTraceDepth
  /\ SimulationSound /\ DeliveryMonotone
-----------------------------------------------------------------------------
TraceOf(call, have) == Frames(Execute(call, have))

(* parse_call_trace() with its explicit stack and its depth bound reports  *)
(* what a recursive walk over the whole trace finds, in the order the      *)
(* calls were made: the reads that failed and all the writes.              *)
ParsedAsExecuted ==
  \A x \in Xts : At(x, "record") /\ config.mailbox =>
    LET frames == Traced(x, task[x].tx, task[x].fulfilled)
        FailedRead(f) == f.fn = "read" /\ f.error
        Write(f) == f.fn = "write"
    IN  /\ task[x].result.dependencies = Map(SelectSeq(frames, FailedRead), KeyOf)
        /\ task[x].result.outbound = Map(SelectSeq(frames, Write), Message)

-----------------------------------------------------------------------------
(* What comments say and the code does not always do.                      *)

(* mailbox/src/parser.rs: writes with one key "fall under last-in-wins on  *)
(* the receiver".  The receiver only gets the first.                       *)
LastWriteWins ==
  \A x \in Xts : xt[x].vote = TRUE /\ config.simulator /\ config.mailbox /\ config.sender =>
    \A i \in Txs(x) :
      LET frames == Traced(x, i, xt[x].fulfilled)
      IN  \A n \in 1 .. Len(frames) :
            /\ frames[n].fn = "write"
            /\ \A h \in n + 1 .. Len(frames) :
                 frames[h].fn = "write" => frames[h].key # frames[n].key
            => Message(frames[n]) \in Range(handed[x])
=============================================================================

----------------------------- MODULE Transport -----------------------------
(***************************************************************************)
(* The QUIC client that connects a sidecar to the shared publisher, and    *)
(* the tasks that share it: any number of tasks that send() votes and      *)
(* submissions, and the receive loop of main.rs.                           *)
(*                                                                         *)
(* The connection sits behind one mutex, which is held for single steps    *)
(* only: each section under it is one action.  A second mutex,             *)
(* connect_lock, is held from the check that there is no connection until  *)
(* a new one is installed.  A task works on its own handle of a            *)
(* connection, which may be lost, closed by another task or no longer the  *)
(* current one by the time the task reports it lost.                       *)
(*                                                                         *)
(* Connections are numbered as the endpoint numbers them (stable_id).      *)
(***************************************************************************)
EXTENDS Naturals

CONSTANTS
  Senders,      \* tasks that send
  Receiver,     \* the receive loop
  Conns,        \* bound: connections that can be made
  None,         \* Option::None
  MaxRetries,   \* max_retries; 0 means no limit
  MaxSize,      \* max_message_size
  Sizes,        \* sizes of the messages sent and received
  MaxRefusals   \* bound: failing attempts to connect

ASSUME TransportAssumption ==
  /\ Receiver \notin Senders
  /\ Conns \subseteq Nat /\ None \notin Conns /\ None \notin Senders \cup {Receiver}
  /\ MaxRetries \in Nat /\ MaxSize \in Nat /\ Sizes \subseteq Nat
  /\ MaxRefusals \in Nat

Tasks == Senders \cup {Receiver}

VARIABLES
  connection,    \* the current connection
  connected,     \* the flag is_connected() reads
  connect_lock,  \* the task that holds it
  link,          \* per connection: unused, up, down (lost) or closed (by us)
  task,          \* per task: its next step, its handle of a connection, the
                 \* round of send() and the failed tries of
                 \* connect_with_retry()
  booting,       \* the receive loop has not begun
  refusals       \* budget

vars == <<connection, connected, connect_lock, link, task, booting, refusals>>
-----------------------------------------------------------------------------
Idle == [pc |-> "idle", conn |-> None, attempt |-> 1, tries |-> 0]

At(pc) == [Idle EXCEPT !.pc = pc]

(* QuicClient::new(), and main.rs spawning the task of the receive loop,   *)
(* which starts in connect_with_retry().                                   *)
Init ==
  /\ connection = None /\ connected = FALSE /\ connect_lock = None
  /\ link = [c \in Conns |-> "unused"]
  /\ task = [t \in Tasks |-> IF t = Receiver THEN At("peek") ELSE Idle]
  /\ booting = TRUE
  /\ refusals = 0

(* A connection goes only while another can be made.                       *)
Spare == \E c \in Conns : link[c] = "unused"

(* conn.close().  The mutant lets go of the handle only.                   *)
MutantNotClosed(l, c) == l

Closed(l, c) == [l EXCEPT ![c] = "closed"]

(* guard.take() and what follows: no current connection is left open.      *)
Disconnect ==
  /\ connection' = None /\ connected' = FALSE
  /\ link' = IF connection = None THEN link ELSE Closed(link, connection)

(* mark_disconnected() clears the connection it was called for, not one    *)
(* that took its place in the meantime.  The mutant does not compare.      *)
MutantClearsAny(t) == connection # None

ShouldClear(t) == connection # None /\ connection = task[t].conn

MarkDisconnected(t) ==
  IF ShouldClear(t) THEN Disconnect
                    ELSE UNCHANGED <<connection, connected, link>>

(* What an Err does: the caller of send() gets it, the receive loop ends.  *)
Failed(t) == At(IF t = Receiver THEN "ended" ELSE "idle")

(* connect_with_retry() returned Ok: main.rs enters its loop; else         *)
(* ensure_connected() looks at the connection again.                       *)
Established(t) ==
  /\ task' = [task EXCEPT ![t] =
       [@ EXCEPT !.pc = IF t = Receiver /\ booting THEN "ensure" ELSE "reread",
                 !.conn = None, !.tries = 0]]
  /\ booting' = (booting /\ t # Receiver)

(* A sender task begins a send().                                          *)
Send(t) ==
  /\ t \in Senders /\ task[t].pc = "idle"
  /\ task' = [task EXCEPT ![t] = At("ensure")]
  /\ UNCHANGED <<connection, connected, connect_lock, link, booting, refusals>>

(* ensure_connected(): the current connection, or a new one.               *)
EnsureConnected(t) ==
  /\ task[t].pc = "ensure"
  /\ task' = [task EXCEPT ![t] =
       [@ EXCEPT !.pc = IF connection # None THEN "use" ELSE "peek",
                 !.conn = connection]]
  /\ UNCHANGED <<connection, connected, connect_lock, link, booting, refusals>>

(* The head of connect_with_retry().                                       *)
ConnectWithRetry(t) ==
  /\ task[t].pc = "peek"
  /\ \/ connection # None /\ Established(t)
     \/ /\ connection = None
        /\ task' = [task EXCEPT ![t].pc = "lock"]
        /\ UNCHANGED booting
  /\ UNCHANGED <<connection, connected, connect_lock, link, refusals>>

(* connect() takes connect_lock; connect_once_locked() is done if there is *)
(* a connection by then.                                                   *)
Connect(t) ==
  /\ task[t].pc = "lock" /\ connect_lock = None
  /\ \/ connection # None /\ Established(t) /\ UNCHANGED connect_lock
     \/ /\ connection = None
        /\ connect_lock' = t
        /\ task' = [task EXCEPT ![t].pc = "dial"]
        /\ UNCHANGED booting
  /\ UNCHANGED <<connection, connected, link, refusals>>

(* Name lookup, handshake and the frame with the client id, all of which   *)
(* succeed or count as one failed attempt.                                 *)
Dial(t, c) ==
  /\ task[t].pc = "dial" /\ link[c] = "unused"
  /\ \A d \in Conns : link[d] = "unused" => c <= d
  /\ link' = [link EXCEPT ![c] = "up"]
  /\ task' = [task EXCEPT ![t] = [@ EXCEPT !.pc = "install", !.conn = c]]
  /\ UNCHANGED <<connection, connected, connect_lock, booting, refusals>>

Exhausted(n) == MaxRetries > 0 /\ n >= MaxRetries

(* A failed attempt gives the lock back; the mutant does not.              *)
MutantLockKept(t) == t

Unlocked(t) == None

DialFails(t) ==
  LET n == task[t].tries + 1
  IN  /\ task[t].pc = "dial" /\ refusals < MaxRefusals
      /\ refusals' = refusals + 1
      /\ connect_lock' = Unlocked(t)
      /\ task' = [task EXCEPT ![t] = IF Exhausted(n) THEN Failed(t)
                   ELSE [@ EXCEPT !.pc = "lock", !.tries = n]]
      /\ UNCHANGED <<connection, connected, link, booting>>

(* The end of connect_once_locked(): the new connection replaces the old   *)
(* one, if any, and the lock is released.  The flag, which the code stores *)
(* after the connection and inside the same section, changes in this step  *)
(* too: only is_connected() reads it without the mutex.                    *)
Install(t) ==
  /\ task[t].pc = "install"
  /\ connection' = task[t].conn /\ connected' = TRUE
  /\ link' = IF connection = None THEN link ELSE Closed(link, connection)
  /\ connect_lock' = None
  /\ Established(t)
  /\ UNCHANGED refusals

(* The end of ensure_connected(): Err(ConnectionClosed) if the connection  *)
(* is gone again.                                                          *)
Reread(t) ==
  /\ task[t].pc = "reread"
  /\ task' = [task EXCEPT ![t] = IF connection = None THEN Failed(t)
               ELSE [@ EXCEPT !.pc = "use", !.conn = connection]]
  /\ UNCHANGED <<connection, connected, connect_lock, link, booting, refusals>>
-----------------------------------------------------------------------------
(* LengthPrefixCodec: encode() and decode_length() refuse what is too      *)
(* large.                                                                  *)
Fits(n) == n <= MaxSize

Working(t) == task[t].pc = "use" /\ link[task[t].conn] = "up"

(* open_bi(), write_all() and finish() on the task's connection.  Ok, a    *)
(* message that does not fit, and a stream the publisher stopped all end   *)
(* send(); a failing finish() takes the connection for lost.               *)
Transmit(t) ==
  /\ t \in Senders /\ Working(t)
  /\ task' = [task EXCEPT ![t] = Idle]
  /\ UNCHANGED <<connection, connected, connect_lock, link, booting, refusals>>

FinishFails(t) ==
  /\ t \in Senders /\ Working(t) /\ Spare
  /\ task' = [task EXCEPT ![t].pc = "unfinished"]
  /\ UNCHANGED <<connection, connected, connect_lock, link, booting, refusals>>

(* recv() gets a stream with a frame of n bytes, or one that breaks off.   *)
(* main.rs spawns a handler for a complete frame and calls recv() again;   *)
(* a length that is too large is an Err.                                   *)
ReceiveFrame(n) ==
  /\ Working(Receiver)
  /\ task' = [task EXCEPT ![Receiver] = IF Fits(n) THEN At("ensure")
                                                   ELSE Failed(Receiver)]
  /\ UNCHANGED <<connection, connected, connect_lock, link, booting, refusals>>

(* Any call on a connection that was lost or closed fails.                 *)
ConnectionError(t) ==
  /\ task[t].pc = "use" /\ ~Working(t)
  /\ task' = [task EXCEPT ![t].pc = "mark"]
  /\ UNCHANGED <<connection, connected, connect_lock, link, booting, refusals>>

(* After mark_disconnected(): recv() goes round its loop, send() once.     *)
(* The mutant stays with the lost connection.                              *)
MutantStaysOnLost(t, r) ==
  CASE t = Receiver                  -> [r EXCEPT !.pc = "use"]
    [] t # Receiver /\ r.attempt = 1 -> [At("ensure") EXCEPT !.attempt = 2]
    [] OTHER                         -> Idle

AfterMark(t, r) ==
  CASE t = Receiver                  -> At("ensure")
    [] t # Receiver /\ r.attempt = 1 -> [At("ensure") EXCEPT !.attempt = 2]
    [] OTHER                         -> Idle

ReportLost(t) ==
  /\ task[t].pc \in {"mark", "unfinished"}
  /\ MarkDisconnected(t)
  /\ task' = [task EXCEPT ![t] = AfterMark(t, @)]
  /\ UNCHANGED <<connect_lock, booting, refusals>>

(* close(): waits for connect_lock, then mark_disconnected(None).          *)
Close ==
  /\ connect_lock = None
  /\ Spare
  /\ Disconnect
  /\ UNCHANGED <<connect_lock, task, booting, refusals>>

(* The network or the publisher drops a connection.                        *)
ConnectionLost(c) ==
  /\ link[c] = "up" /\ Spare
  /\ link' = [link EXCEPT ![c] = "down"]
  /\ UNCHANGED <<connection, connected, connect_lock, task, booting, refusals>>
-----------------------------------------------------------------------------
Step(t) ==
  \/ EnsureConnected(t)
  \/ ConnectWithRetry(t)
  \/ Connect(t)
  \/ \E c \in Conns : Dial(t, c)
  \/ DialFails(t)
  \/ Install(t)
  \/ Reread(t)
  \/ Transmit(t)
  \/ FinishFails(t)
  \/ ConnectionError(t)
  \/ ReportLost(t)

Next ==
  \/ \E t \in Tasks : Send(t) \/ Step(t)
  \/ \E n \in Sizes : ReceiveFrame(n)
  \/ Close
  \/ \E c \in Conns : ConnectionLost(c)

Spec == Init /\ [][Next]_vars

(* Tasks run.                                                              *)
Fairness == \A t \in Tasks : WF_vars(Step(t))

FairSpec == Spec /\ Fairness
-----------------------------------------------------------------------------
Steps == {"idle", "ensure", "peek", "lock", "dial", "install", "reread", "use",
          "unfinished", "mark", "ended"}

(* The shape of the client and of its tasks; send() makes two attempts.    *)
TypeOK ==
  /\ connection \in Conns \cup {None} /\ connected \in BOOLEAN
  /\ connect_lock \in Tasks \cup {None}
  /\ link \in [Conns -> {"unused", "up", "down", "closed"}]
  /\ task \in [Tasks -> [pc : Steps, conn : Conns \cup {None},
                         attempt : {1, 2}, tries : Nat]]
  /\ booting \in BOOLEAN /\ refusals \in Nat

(* No task shuts a connection that works because an older one was lost,    *)
(* and no two tasks connect at the same time, so that one replaces the     *)
(* connection of the other: a current connection that is up stays until    *)
(* close() is called or a stream on that connection cannot be finished.    *)
HealthyKept ==
  [][ connection # None /\ link[connection] = "up" /\ connection' # connection
        => \/ Close
           \/ \E t \in Tasks : task[t].pc = "unfinished" /\ task[t].conn = connection ]_vars

(* No connection is left open behind: one that is up is the current one,   *)
(* or about to be; and outside the sections under the connection mutex the *)
(* flag of is_connected() tells whether there is a current one.            *)
NoneLeftOpen ==
  /\ connected <=> connection # None
  /\ \A c \in Conns : link[c] = "up" =>
       c = connection \/ \E t \in Tasks : task[t].pc = "install" /\ task[t].conn = c

(* Every send() returns: connect_lock is not held forever, and a lost      *)
(* connection is retried finitely often.                                   *)
SendReturns ==
  \A t \in Senders : (task[t].pc # "idle") ~> (task[t].pc = "idle")

(* A connection made by any task, a sender's retry included, is soon the   *)
(* one the receive loop waits on, as long as the loop runs.                *)
ReceiverFollows ==
  \A c \in Conns :
    (connection = c) ~> \/ connection # c
                        \/ task[Receiver].conn = c /\ task[Receiver].pc = "use"
                        \/ task[Receiver].pc = "ended"
-----------------------------------------------------------------------------
(* What a comment of the repository says and the code does not always do.  *)

(* transport/src/config.rs, max_retries: "0 = unlimited": the receive loop *)
(* outlives every reconnection.  A connection lost between                 *)
(* connect_with_retry() and the second look of ensure_connected() ends it. *)
LoopOutlivesReconnects ==
  MaxRetries = 0 /\ (\A n \in Sizes : Fits(n)) => task[Receiver].pc # "ended"
=============================================================================

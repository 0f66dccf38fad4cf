-------------------------- MODULE TransportProofs --------------------------
(***************************************************************************)
(* Proofs about the QUIC client, for any number of sending tasks and any   *)
(* connections, limits and message sizes.                                  *)
(***************************************************************************)
EXTENDS Transport, TLAPS

(* A task holds a connection or none.                                      *)
Handle == Conns \cup {None}

(* The local state of a task.                                              *)
Task == [pc : Steps, conn : Handle, attempt : {1, 2}, tries : Nat]

(* The lock is held from the check for a connection to the installation of *)
(* a new one, and there is no connection meanwhile.                        *)
LockInv ==
  connect_lock # None =>
    connection = None /\ task[connect_lock].pc \in {"dial", "install"}

(* What a task at a step knows: who dials holds the lock; the connection   *)
(* at hand was made; one that is reported lost does not come back.         *)
TaskInv(t) ==
  /\ task[t].pc \in {"dial", "install"} => connect_lock = t
  /\ task[t].pc \in {"install", "use", "mark", "unfinished"} =>
       task[t].conn \in Conns /\ link[task[t].conn] # "unused"
  /\ task[t].pc = "mark" => link[task[t].conn] # "up"

(* The inductive invariant.                                                *)
IInv ==
  /\ TypeOK
  /\ NoneLeftOpen
  /\ LockInv
  /\ connection # None => link[connection] # "unused"
  /\ \A t \in Tasks : TaskInv(t)

USE TransportAssumption

(* The local states have their type.                                       *)
LEMMA TypeTask == TypeOK => task \in [Tasks -> Task]
  BY DEF TypeOK, Task, Handle

(* None is a handle.                                                       *)
LEMMA NoneHandle == None \in Handle
  BY DEF Handle

(* A task that goes on keeps its type.                                     *)
LEMMA WithPc ==
  ASSUME NEW r \in Task, NEW pc \in Steps
  PROVE  /\ [r EXCEPT !.pc = pc] \in Task
         /\ [r EXCEPT !.pc = pc].pc = pc
         /\ [r EXCEPT !.pc = pc].conn = r.conn
  BY DEF Task

(* A task that counts an attempt keeps its type.                           *)
LEMMA WithTries ==
  ASSUME NEW r \in Task, NEW pc \in Steps, NEW k \in Nat
  PROVE  /\ [r EXCEPT !.pc = pc, !.tries = k] \in Task
         /\ [r EXCEPT !.pc = pc, !.tries = k].pc = pc
  BY Zenon DEF Task

(* A task with fresh locals.                                               *)
LEMMA AtTask == \A pc \in Steps : At(pc) \in Task /\ At(pc).pc = pc
  BY DEF At, Idle, Task, Handle

(* The invariant holds at the start.                                       *)
LEMMA InitIInv == Init => IInv
<1> SUFFICES ASSUME Init PROVE IInv
  OBVIOUS
<1>1. Idle \in Task /\ Idle.pc = "idle" /\ At("peek") \in Task /\ At("peek").pc = "peek"
  BY AtTask DEF Idle, Task, Handle, Steps
<1>2. task \in [Tasks -> Task] /\ \A t \in Tasks : task[t].pc \in {"idle", "peek"}
  BY <1>1 DEF Init
<1>3. TypeOK
  BY <1>2, Zenon DEF Init, TypeOK, Task, Handle
<1>4. \A t \in Tasks : TaskInv(t)
  BY <1>2 DEF TaskInv
<1>5. NoneLeftOpen /\ LockInv /\ connection = None
  BY DEF Init, NoneLeftOpen, LockInv
<1>6. QED
  BY <1>3, <1>4, <1>5 DEF IInv

(* A step that moves one task without touching connections or the lock.    *)
LEMMA TaskMoves ==
  ASSUME IInv, NEW t \in Tasks, NEW n \in Task, task' = [task EXCEPT ![t] = n],
         UNCHANGED <<connection, connected, connect_lock, link>>,
         booting' \in BOOLEAN, refusals' \in Nat,
         task[t].pc \notin {"dial", "install"}, n.pc \notin {"dial", "install"},
         n.pc \in {"use", "mark", "unfinished"} => n.conn \in Conns /\ link[n.conn] # "unused",
         n.pc = "mark" => link[n.conn] # "up"
  PROVE  IInv'
<1>1. /\ task \in [Tasks -> Task] /\ task' \in [Tasks -> Task] /\ task'[t] = n
      /\ \A u \in Tasks : u # t => task'[u] = task[u]
  BY TypeTask DEF IInv
<1>2. TypeOK'
  BY <1>1 DEF IInv, TypeOK, Task, Handle
<1>3. NoneLeftOpen'
  BY <1>1 DEF IInv, NoneLeftOpen
<1>4. LockInv'
  BY <1>1 DEF IInv, LockInv, TypeOK
<1>5. \A u \in Tasks : TaskInv(u)'
  BY <1>1 DEF IInv, TaskInv
<1>6. QED
  BY <1>2, <1>3, <1>4, <1>5 DEF IInv

(* Where a task goes after mark_disconnected().                            *)
LEMMA AfterMarkTask ==
  ASSUME NEW t, NEW r \in Task
  PROVE  AfterMark(t, r) \in Task /\ AfterMark(t, r).pc \in {"ensure", "idle"}
<1>1. /\ At("ensure") \in Task /\ At("ensure").pc = "ensure"
      /\ Idle \in Task /\ Idle.pc = "idle"
      /\ [At("ensure") EXCEPT !.attempt = 2] \in Task
      /\ [At("ensure") EXCEPT !.attempt = 2].pc = "ensure"
  BY Zenon DEF At, Idle, Task, Handle, Steps
<1>2. QED
  BY <1>1 DEF AfterMark

(* The current connection is closed and a task may start over.             *)
LEMMA Disconnects ==
  ASSUME IInv, Disconnect, UNCHANGED <<connect_lock, booting, refusals>>, NEW t \in Tasks,
         task' \in [Tasks -> Task], \A u \in Tasks : u # t => task'[u] = task[u],
         task'[t] = task[t] \/ /\ task'[t].pc \in {"ensure", "idle"}
                               /\ task[t].pc \in {"mark", "unfinished"}
  PROVE  IInv'
<1>1. connection' = None /\ connected' = FALSE /\ TypeOK
  BY DEF Disconnect, IInv
<1>2. /\ link' \in [Conns -> {"unused", "up", "down", "closed"}]
      /\ connection # None => link'[connection] = "closed"
      /\ \A c \in Conns : c # connection => link'[c] = link[c]
  BY <1>1 DEF Disconnect, Closed, TypeOK
<1>3. TypeOK'
  BY <1>1, <1>2, Zenon DEF TypeOK, Task, Handle
<1>4. NoneLeftOpen'
  <2>1. \A c \in Conns : link'[c] = "up" => link[c] = "up" /\ c # connection
    BY <1>1, <1>2
  <2>2. \A u \in Tasks : task[u].pc = "install" => task'[u] = task[u]
    OBVIOUS
  <2>3. QED
    BY <1>1, <2>1, <2>2 DEF IInv, NoneLeftOpen
<1>5. LockInv'
  BY <1>1 DEF IInv, LockInv, TypeOK
<1>6. ASSUME NEW u \in Tasks PROVE TaskInv(u)'
  <2>1. TaskInv(u) /\ connect_lock' = connect_lock
    BY DEF IInv
  <2>2. CASE task'[u] = task[u]
    BY <1>2, <2>1, <2>2, Zenon DEF TaskInv
  <2>3. CASE task'[u].pc \in {"ensure", "idle"}
    BY <2>3 DEF TaskInv
  <2>4. QED
    BY <2>2, <2>3
<1>7. QED
  BY <1>1, <1>3, <1>4, <1>5, <1>6 DEF IInv

(* Every step keeps the invariant.                                         *)
LEMMA NextIInv == IInv /\ [Next]_vars => IInv'
<1> SUFFICES ASSUME IInv, [Next]_vars PROVE IInv'
  OBVIOUS
<1>0. task \in [Tasks -> Task] /\ TypeOK
  BY TypeTask DEF IInv
<1>1. CASE UNCHANGED vars
  BY <1>1 DEF vars, IInv, TypeOK, NoneLeftOpen, LockInv, TaskInv
<1>2. ASSUME NEW t \in Tasks, Send(t) PROVE IInv'
  BY <1>0, <1>2, TaskMoves, AtTask, Zenon DEF Send, Steps, TypeOK
<1>3. ASSUME NEW t \in Tasks, EnsureConnected(t) PROVE IInv'
  <2> DEFINE p == IF connection # None THEN "use" ELSE "peek"
             n == [task[t] EXCEPT !.pc = p, !.conn = connection]
  <2>1. n \in Task /\ n.conn = connection /\ n.pc = p
    <3>1. p \in Steps
      BY DEF Steps
    <3>2. task[t] \in Task /\ connection \in Handle
      BY <1>0 DEF TypeOK, Handle
    <3> HIDE DEF p
    <3>3. QED
      BY <3>1, <3>2, Zenon DEF Task
  <2>2. task' = [task EXCEPT ![t] = n] /\ task[t].pc = "ensure"
        /\ UNCHANGED <<connection, connected, connect_lock, link, booting, refusals>>
    BY <1>3 DEF EnsureConnected
  <2>3. connection # None => connection \in Conns /\ link[connection] # "unused"
    BY DEF IInv, TypeOK
  <2> HIDE DEF n
  <2>4. QED
    BY <1>0, <2>1, <2>2, <2>3, TaskMoves, Zenon DEF TypeOK
<1>4. ASSUME NEW t \in Tasks, Established(t), task[t].pc \notin {"dial", "install"},
             UNCHANGED <<connection, connected, connect_lock, link, refusals>>
      PROVE  IInv'
  <2> DEFINE n == [task[t] EXCEPT !.pc = IF t = Receiver /\ booting THEN "ensure" ELSE "reread",
                                  !.conn = None, !.tries = 0]
  <2>1. n \in Task /\ n.pc \in {"ensure", "reread"}
    BY <1>0, NoneHandle, ZenonT(30) DEF Task, Steps
  <2>2. task' = [task EXCEPT ![t] = n] /\ booting' \in BOOLEAN /\ refusals' \in Nat
    BY <1>0, <1>4 DEF Established, TypeOK
  <2> HIDE DEF n
  <2>3. QED
    BY <1>4, <2>1, <2>2, TaskMoves, Zenon
<1>5. ASSUME NEW t \in Tasks, ConnectWithRetry(t) PROVE IInv'
  <2>1. CASE Established(t)
    BY <1>4, <1>5, <2>1 DEF ConnectWithRetry
  <2>2. CASE task' = [task EXCEPT ![t].pc = "lock"] /\ UNCHANGED booting
    <3> DEFINE n == [task[t] EXCEPT !.pc = "lock"]
    <3>1. n \in Task /\ n.pc = "lock" /\ task' = [task EXCEPT ![t] = n]
      BY <1>0, <2>2 DEF Task, Handle, Steps
    <3> HIDE DEF n
    <3>2. QED
      BY <1>0, <1>5, <2>2, <3>1, TaskMoves, Zenon DEF ConnectWithRetry, TypeOK
  <2>3. QED
    BY <1>5, <2>1, <2>2 DEF ConnectWithRetry
<1>6. ASSUME NEW t \in Tasks, Connect(t) PROVE IInv'
  <2>1. CASE Established(t) /\ UNCHANGED connect_lock
    BY <1>4, <1>6, <2>1 DEF Connect
  <2>2. CASE connection = None /\ connect_lock' = t
             /\ task' = [task EXCEPT ![t].pc = "dial"] /\ UNCHANGED booting
    <3>1. UNCHANGED <<connection, connected, link, refusals>> /\ connect_lock = None
      BY <1>6 DEF Connect
    <3>2. /\ task' \in [Tasks -> Task] /\ task'[t].pc = "dial"
          /\ \A u \in Tasks : u # t => task'[u] = task[u]
      BY <1>0, <2>2 DEF Task, Handle, Steps
    <3>3. TypeOK'
      BY <1>0, <2>2, <3>1, <3>2 DEF TypeOK, Task, Handle
    <3>4. \A u \in Tasks : task[u].pc \notin {"dial", "install"}
      BY <3>1 DEF IInv, TaskInv, Tasks
    <3>5. NoneLeftOpen'
      BY <3>1, <3>4 DEF IInv, NoneLeftOpen
    <3>6. LockInv'
      BY <2>2, <3>1, <3>2 DEF LockInv
    <3>7. \A u \in Tasks : TaskInv(u)'
      BY <2>2, <3>1, <3>2, <3>4 DEF IInv, TaskInv
    <3>8. QED
      BY <2>2, <3>1, <3>3, <3>5, <3>6, <3>7 DEF IInv
  <2>3. QED
    BY <1>6, <2>1, <2>2 DEF Connect
<1>7. ASSUME NEW t \in Tasks, NEW c \in Conns, Dial(t, c) PROVE IInv'
  <2>1. /\ task[t].pc = "dial" /\ link[c] = "unused" /\ connect_lock = t
        /\ link' = [link EXCEPT ![c] = "up"]
        /\ UNCHANGED <<connection, connected, connect_lock, booting, refusals>>
    BY <1>7 DEF Dial, IInv, TaskInv
  <2>2. /\ task' \in [Tasks -> Task] /\ task'[t].pc = "install" /\ task'[t].conn = c
        /\ \A u \in Tasks : u # t => task'[u] = task[u]
    BY <1>0, <1>7, Zenon DEF Dial, Task, Handle, Steps
  <2>3. /\ link' \in [Conns -> {"unused", "up", "down", "closed"}] /\ link'[c] = "up"
        /\ \A d \in Conns : d # c => link'[d] = link[d]
    BY <1>0, <2>1 DEF TypeOK
  <2>4. TypeOK'
    BY <1>0, <2>1, <2>2, <2>3 DEF TypeOK, Task, Handle
  <2>5. NoneLeftOpen'
    <3>1. \A d \in Conns : link'[d] = "up" /\ d # c =>
            d = connection \/ \E u \in Tasks : task[u].pc = "install" /\ task[u].conn = d
      BY <2>3, Zenon DEF IInv, NoneLeftOpen
    <3>2. \A d \in Conns : link'[d] = "up" /\ d # c =>
            d = connection \/ \E u \in Tasks : task'[u].pc = "install" /\ task'[u].conn = d
      BY <2>1, <2>2, <3>1
    <3>3. QED
      BY <2>1, <2>2, <3>2, Zenon DEF IInv, NoneLeftOpen
  <2>6. LockInv' /\ connection = None
    BY <2>1, <2>2 DEF IInv, LockInv, Tasks
  <2>7. \A u \in Tasks : TaskInv(u)'
    <3>1. ASSUME NEW u \in Tasks, u # t PROVE TaskInv(u)'
      BY <2>1, <2>2, <2>3, <3>1 DEF IInv, TaskInv
    <3>2. QED
      BY <2>1, <2>2, <2>3, <3>1 DEF TaskInv
  <2>8. QED
    BY <2>1, <2>4, <2>5, <2>6, <2>7 DEF IInv
<1>8. ASSUME NEW t \in Tasks, DialFails(t) PROVE IInv'
  <2> DEFINE k == task[t].tries + 1
             n == IF Exhausted(k) THEN Failed(t) ELSE [task[t] EXCEPT !.pc = "lock", !.tries = k]
  <2>1. /\ task[t].pc = "dial" /\ connect_lock = t /\ connect_lock' = None
        /\ task' = [task EXCEPT ![t] = n]
        /\ UNCHANGED <<connection, connected, link, booting>> /\ refusals' = refusals + 1
    BY <1>8 DEF DialFails, Unlocked, IInv, TaskInv
  <2>2. n \in Task /\ n.pc \in {"ended", "idle", "lock"}
    <3>1. Failed(t) \in Task /\ Failed(t).pc \in {"ended", "idle"}
      BY AtTask DEF Failed, Steps
    <3>2. "lock" \in Steps /\ task[t] \in Task /\ k \in Nat
      BY <1>0, NoneHandle DEF Task, Steps
    <3>3. [task[t] EXCEPT !.pc = "lock", !.tries = k] \in Task
          /\ [task[t] EXCEPT !.pc = "lock", !.tries = k].pc = "lock"
      BY <3>2, WithTries, Zenon
    <3>4. QED
      BY <3>1, <3>3
  <2> HIDE DEF n
  <2>3. /\ task' \in [Tasks -> Task] /\ task'[t] = n
        /\ \A u \in Tasks : u # t => task'[u] = task[u]
    BY <1>0, <2>1, <2>2
  <2>4. TypeOK'
    BY <1>0, <2>1, <2>3 DEF TypeOK, Task, Handle
  <2>5. NoneLeftOpen'
    BY <2>1, <2>3 DEF IInv, NoneLeftOpen
  <2>6. \A u \in Tasks : TaskInv(u)'
    BY <2>1, <2>2, <2>3 DEF IInv, TaskInv
  <2>7. QED
    BY <2>1, <2>4, <2>5, <2>6 DEF IInv, LockInv
<1>9. ASSUME NEW t \in Tasks, Install(t) PROVE IInv'
  <2> DEFINE c == task[t].conn
  <2>1. /\ connect_lock = t /\ connection = None /\ c \in Conns /\ link[c] # "unused"
        /\ task[t].pc = "install" /\ t # None
    BY <1>9 DEF Install, IInv, LockInv, TaskInv, Tasks
  <2>2. /\ connection' = c /\ connected' = TRUE /\ link' = link /\ connect_lock' = None
        /\ refusals' = refusals /\ Established(t)
    BY <1>9, <2>1 DEF Install
  <2>3. /\ task' \in [Tasks -> Task] /\ task'[t].pc \in {"ensure", "reread"}
        /\ \A u \in Tasks : u # t => task'[u] = task[u]
    <3> DEFINE n == [task[t] EXCEPT !.pc = IF t = Receiver /\ booting THEN "ensure" ELSE "reread",
                                    !.conn = None, !.tries = 0]
    <3>1. n \in Task /\ n.pc \in {"ensure", "reread"}
      BY <1>0, NoneHandle, ZenonT(30) DEF Task, Steps
    <3>2. task' = [task EXCEPT ![t] = n]
      BY <2>2 DEF Established
    <3> HIDE DEF n
    <3>3. QED
      BY <1>0, <3>1, <3>2
  <2>4. TypeOK'
    BY <1>0, <2>1, <2>2, <2>3 DEF TypeOK, Task, Handle, Established
  <2>5. \A u \in Tasks : u # t => task[u].pc \notin {"dial", "install"}
    BY <2>1 DEF IInv, TaskInv
  <2>6. NoneLeftOpen'
    BY <2>1, <2>2, <2>3, <2>5 DEF IInv, NoneLeftOpen
  <2>7. \A u \in Tasks : TaskInv(u)'
    BY <2>2, <2>3, <2>5 DEF IInv, TaskInv
  <2>8. QED
    BY <2>1, <2>2, <2>4, <2>6, <2>7 DEF IInv, LockInv
<1>10. ASSUME NEW t \in Tasks, Reread(t) PROVE IInv'
  <2> DEFINE n == IF connection = None THEN Failed(t)
                  ELSE [task[t] EXCEPT !.pc = "use", !.conn = connection]
  <2>1. task' = [task EXCEPT ![t] = n] /\ task[t].pc = "reread"
        /\ UNCHANGED <<connection, connected, connect_lock, link, booting, refusals>>
    BY <1>10 DEF Reread
  <2>2. CASE connection = None
    <3>1. n \in Task /\ n.pc \in {"ended", "idle"}
      BY <2>2, AtTask DEF Failed, Steps
    <3> HIDE DEF n
    <3>2. QED
      BY <1>0, <2>1, <3>1, TaskMoves, Zenon DEF TypeOK
  <2>3. CASE connection # None
    <3>1. "use" \in Steps /\ task[t] \in Task /\ connection \in Handle
      BY <1>0 DEF TypeOK, Handle, Steps
    <3> DEFINE m == [task[t] EXCEPT !.pc = "use", !.conn = connection]
    <3>2. m \in Task /\ m.pc = "use" /\ m.conn = connection
      BY <3>1, Zenon DEF Task
    <3>3. n = m
      BY <2>3
    <3> HIDE DEF m
    <3>4. n \in Task /\ n.pc = "use" /\ n.conn = connection
      BY <3>2, <3>3
    <3>5. connection \in Conns /\ link[connection] # "unused"
      BY <2>3 DEF IInv, TypeOK
    <3> HIDE DEF n
    <3>6. QED
      BY <1>0, <2>1, <3>4, <3>5, TaskMoves, Zenon DEF TypeOK
  <2>4. QED
    BY <2>2, <2>3
<1>11. ASSUME NEW t \in Tasks, Transmit(t) PROVE IInv'
  BY <1>0, <1>11, TaskMoves, AtTask, Zenon DEF Transmit, Working, Steps, TypeOK,
     Idle, Task, Handle
<1>12. ASSUME NEW t \in Tasks, FinishFails(t) PROVE IInv'
  <2> DEFINE n == [task[t] EXCEPT !.pc = "unfinished"]
  <2>1. n \in Task /\ n.pc = "unfinished" /\ n.conn = task[t].conn
    <3>1. task[t] \in Task /\ "unfinished" \in Steps /\ "mark" \in Steps
      BY <1>0 DEF Steps
    <3>2. QED
      BY <3>1, WithPc
  <2>2. /\ task' = [task EXCEPT ![t] = n] /\ task[t].pc = "use"
        /\ UNCHANGED <<connection, connected, connect_lock, link, booting, refusals>>
    BY <1>12 DEF FinishFails, Working
  <2>3. n.conn \in Conns /\ link[n.conn] # "unused"
    BY <2>1, <2>2 DEF IInv, TaskInv
  <2> HIDE DEF n
  <2>4. QED
    BY <1>0, <2>1, <2>2, <2>3, TaskMoves, Zenon DEF TypeOK
<1>13. ASSUME NEW n \in Sizes, ReceiveFrame(n) PROVE IInv'
  <2> DEFINE m == IF Fits(n) THEN At("ensure") ELSE Failed(Receiver)
  <2>1. m \in Task /\ m.pc \in {"ensure", "ended"}
    BY AtTask DEF Failed, Steps
  <2>2. /\ Receiver \in Tasks /\ task' = [task EXCEPT ![Receiver] = m]
        /\ task[Receiver].pc = "use"
        /\ UNCHANGED <<connection, connected, connect_lock, link, booting, refusals>>
    BY <1>13 DEF ReceiveFrame, Working, Tasks
  <2> HIDE DEF m
  <2>3. QED
    BY <1>0, <2>1, <2>2, TaskMoves, Zenon DEF TypeOK
<1>14. ASSUME NEW t \in Tasks, ConnectionError(t) PROVE IInv'
  <2> DEFINE n == [task[t] EXCEPT !.pc = "mark"]
  <2>1. n \in Task /\ n.pc = "mark" /\ n.conn = task[t].conn
    <3>1. task[t] \in Task /\ "unfinished" \in Steps /\ "mark" \in Steps
      BY <1>0 DEF Steps
    <3>2. QED
      BY <3>1, WithPc
  <2>2. /\ task' = [task EXCEPT ![t] = n] /\ task[t].pc = "use" /\ link[task[t].conn] # "up"
        /\ UNCHANGED <<connection, connected, connect_lock, link, booting, refusals>>
    BY <1>14 DEF ConnectionError, Working
  <2>3. n.conn \in Conns /\ link[n.conn] # "unused" /\ link[n.conn] # "up"
    BY <2>1, <2>2 DEF IInv, TaskInv
  <2> HIDE DEF n
  <2>4. QED
    BY <1>0, <2>1, <2>2, <2>3, TaskMoves, Zenon DEF TypeOK
<1>15. ASSUME NEW t \in Tasks, ReportLost(t) PROVE IInv'
  <2>1. CASE ~ShouldClear(t)
    <3> DEFINE n == AfterMark(t, task[t])
    <3>1. n \in Task /\ n.pc \in {"ensure", "idle"}
      BY <1>0, AfterMarkTask
    <3>2. /\ task' = [task EXCEPT ![t] = n] /\ task[t].pc \in {"mark", "unfinished"}
          /\ UNCHANGED <<connection, connected, connect_lock, link, booting, refusals>>
      BY <1>15, <2>1 DEF ReportLost, MarkDisconnected
    <3> HIDE DEF n
    <3>3. QED
      BY <1>0, <3>1, <3>2, TaskMoves, Zenon DEF TypeOK
  <2>2. CASE ShouldClear(t)
    <3>1. AfterMark(t, task[t]) \in Task /\ AfterMark(t, task[t]).pc \in {"ensure", "idle"}
      BY <1>0, AfterMarkTask
    <3>2. Disconnect /\ UNCHANGED <<connect_lock, booting, refusals>>
      BY <1>15, <2>2 DEF ReportLost, MarkDisconnected
    <3>3. /\ task' \in [Tasks -> Task] /\ task'[t].pc \in {"ensure", "idle"}
          /\ task[t].pc \in {"mark", "unfinished"}
          /\ \A u \in Tasks : u # t => task'[u] = task[u]
      BY <1>0, <1>15, <3>1 DEF ReportLost
    <3>4. QED
      BY <3>2, <3>3, Disconnects
  <2>3. QED
    BY <2>1, <2>2
<1>16. ASSUME Close PROVE IInv'
  <2>1. task' = task /\ Receiver \in Tasks
    BY <1>16 DEF Close, Tasks
  <2>2. QED
    BY <1>0, <1>16, <2>1, Disconnects DEF Close
<1>17. ASSUME NEW c \in Conns, ConnectionLost(c) PROVE IInv'
  <2>1. /\ link[c] = "up" /\ link' = [link EXCEPT ![c] = "down"]
        /\ UNCHANGED <<connection, connected, connect_lock, task, booting, refusals>>
    BY <1>17 DEF ConnectionLost
  <2>2. /\ link' \in [Conns -> {"unused", "up", "down", "closed"}] /\ link'[c] = "down"
        /\ \A d \in Conns : d # c => link'[d] = link[d]
    BY <1>0, <2>1 DEF TypeOK
  <2>3. TypeOK'
    BY <1>0, <2>1, <2>2 DEF TypeOK
  <2>4. NoneLeftOpen'
    BY <2>1, <2>2 DEF IInv, NoneLeftOpen
  <2>5. \A u \in Tasks : TaskInv(u)'
    BY <2>1, <2>2 DEF IInv, TaskInv
  <2>6. LockInv' /\ (connection' # None => link'[connection'] # "unused")
    BY <2>1, <2>2, <1>0 DEF IInv, LockInv, TypeOK
  <2>7. QED
    BY <2>3, <2>4, <2>5, <2>6 DEF IInv
<1>18. QED
  BY <1>1, <1>2, <1>3, <1>5, <1>6, <1>7, <1>8, <1>9, <1>10, <1>11, <1>12, <1>13, <1>14,
     <1>15, <1>16, <1>17 DEF Next, Step

(* The client's shape is kept, its flag tells whether there is a current   *)
(* connection, and no connection is left open behind.                      *)
THEOREM ClientInvariant == Spec => [](TypeOK /\ NoneLeftOpen)
<1>1. IInv => TypeOK /\ NoneLeftOpen
  BY DEF IInv
<1>2. QED
  BY <1>1, InitIInv, NextIInv, PTL DEF Spec

(* A current connection that works is given up only by close(), or by a    *)
(* sender that could not finish a stream on it.                            *)
THEOREM HealthyStays == Spec => HealthyKept
<1> DEFINE Keeps ==
      connection # None /\ link[connection] = "up" /\ connection' # connection
        => \/ Close
           \/ \E t \in Tasks : task[t].pc = "unfinished" /\ task[t].conn = connection
<1>1. IInv /\ [Next]_vars => [Keeps]_vars
  <2> SUFFICES ASSUME IInv, Next, connection # None, link[connection] = "up",
                      connection' # connection, ~Close
               PROVE  \E t \in Tasks : task[t].pc = "unfinished" /\ task[t].conn = connection
    OBVIOUS
  <2>1. PICK t \in Tasks : Install(t) \/ ReportLost(t)
    BY Zenon DEF Next, Step, Send, EnsureConnected, ConnectWithRetry, Connect,
       Dial, DialFails, Reread, Transmit, FinishFails, ConnectionError,
       ReceiveFrame, ConnectionLost
  <2>2. ~Install(t)
    BY DEF Install, IInv, LockInv, TaskInv, Tasks
  <2>3. ShouldClear(t) /\ task[t].pc \in {"mark", "unfinished"}
    BY <2>1, <2>2 DEF ReportLost, MarkDisconnected
  <2>4. task[t].pc # "mark"
    BY <2>3 DEF IInv, TaskInv, ShouldClear
  <2>5. QED
    BY <2>3, <2>4 DEF ShouldClear
<1>2. QED
  BY <1>1, InitIInv, NextIInv, PTL DEF Spec, HealthyKept
=============================================================================

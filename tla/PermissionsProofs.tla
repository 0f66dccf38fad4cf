------------------------- MODULE PermissionsProofs -------------------------
(***************************************************************************)
(* Proofs about the permission engine, for any requests, any number of     *)
(* tasks and any payloads: answers are justified although the engine has   *)
(* no lock, and the stream only ever applies whole and newer snapshots.    *)
(***************************************************************************)
EXTENDS Permissions, TLAPS

(* The local state of a request.                                           *)
Task == [pc : {"idle", "flag", "load", "done"}, req : Requests \cup {None},
         next : Nat, answer : {None, "allow", "deny", "error", "gone"}]

(* What is known of a request in progress.  Its window has what is in      *)
(* force now.  Between the two loads the flag may have fallen again, but   *)
(* the snapshot the second load will find was in force since the first:    *)
(* it was there then, or the stream stored it, which it does only while    *)
(* connected.                                                              *)
InProgress(t) ==
  LET r == task[t].req
      n == task[t].next
  IN  /\ task[t].pc # "idle" => InForce(connected, snapshot) \in window[t]
      /\ task[t].pc \in {"flag", "load"} =>
           /\ enabled /\ r \in Requests /\ n \in DOMAIN r.senders
           /\ task[t].answer = None
           /\ \A i \in DOMAIN r.senders :
                i < n => \E p \in window[t] : Permits(p, r, r.senders[i])
      /\ task[t].pc = "load" => snapshot \in window[t]
      /\ task[t].pc = "idle" => task[t].answer = None

(* An answer of a request rests on what was in force during it.            *)
Justified(t) ==
  LET r == task[t].req
  IN  /\ task[t].answer = "allow" =>
           \A i \in DOMAIN r.senders : \E p \in window[t] : Permits(p, r, r.senders[i])
      /\ task[t].answer = "deny" =>
           \E i \in DOMAIN r.senders :
             \/ ~Recovered(r.senders[i])
             \/ \E p \in window[t] : ~Permits(p, r, r.senders[i])

(* The inductive invariant.                                                *)
IInv ==
  /\ connected \in BOOLEAN
  /\ connected => stream.pc = "up"
  /\ stream.pc = "up" => connected
  /\ task \in [Tasks -> Task]
  /\ \A t \in Tasks : InProgress(t) /\ (enabled => Justified(t))

(* The invariant holds at the start.                                       *)
LEMMA InitIInv == Init => IInv
<1> SUFFICES ASSUME Init PROVE IInv
  BY Zenon
<1>1. Idle \in Task /\ Idle.pc = "idle" /\ Idle.answer = None
  BY Zenon DEF Idle, Task
<1>2. task \in [Tasks -> Task] /\ \A t \in Tasks : task[t] = Idle
  BY <1>1, Zenon DEF Init
<1>3. \A t \in Tasks : InProgress(t) /\ Justified(t)
  BY <1>1, <1>2, PermissionsAssumption, Zenon DEF InProgress, Justified
<1>4. QED
  BY <1>2, <1>3, Zenon DEF Init, IInv

(* A step of the stream, the server or the clock leaves the requests       *)
(* alone, widens their windows by what is in force after it, and stores a  *)
(* snapshot only while connected.                                          *)
LEMMA StreamStep ==
  ASSUME IInv, Observe, UNCHANGED <<task, enabled>>,
         connected' \in BOOLEAN, connected' => stream'.pc = "up",
         stream'.pc = "up" => connected',
         snapshot' # snapshot => connected'
  PROVE  IInv'
<1>1. \A t \in Tasks : task'[t].pc # "idle" =>
        window'[t] = window[t] \cup {InForce(connected', snapshot')}
  BY Zenon DEF Observe
<1>2. \A t \in Tasks : task[t].pc # "idle" => window[t] \subseteq window'[t]
  BY <1>1, Zenon
<1>3. ASSUME NEW t \in Tasks PROVE InProgress(t)'
  <2>1. InProgress(t)
    BY Zenon DEF IInv
  <2>2. task[t].pc # "idle" => InForce(connected', snapshot') \in window'[t]
    BY <1>1, Zenon
  <2>3. task[t].pc = "load" => snapshot' \in window'[t]
    BY <1>1, <1>2, <2>1, Zenon DEF InProgress, InForce
  <2>4. QED
    BY <1>2, <2>1, <2>2, <2>3, Zenon DEF InProgress
<1>4. ASSUME NEW t \in Tasks, enabled' PROVE Justified(t)'
  <2>1. InProgress(t) /\ Justified(t)
    BY <1>4, Zenon DEF IInv
  <2>2. task[t].answer # None => task[t].pc # "idle"
    BY <2>1, Zenon DEF InProgress
  <2>3. QED
    BY <1>2, <2>1, <2>2, PermissionsAssumption, Zenon DEF Justified
<1>5. QED
  BY <1>3, <1>4, Zenon DEF IInv

(* A step of one request: the engine is as before, the others go on.       *)
LEMMA OthersGoOn ==
  ASSUME IInv, Observe, UNCHANGED streamVars, NEW u \in Tasks,
         task' \in [Tasks -> Task], \A t \in Tasks : t # u => task'[t] = task[t],
         InProgress(u)', enabled' => Justified(u)'
  PROVE  IInv'
<1>1. ASSUME NEW t \in Tasks, t # u PROVE InProgress(t)' /\ (enabled' => Justified(t)')
  <2>1. InProgress(t) /\ (enabled => Justified(t)) /\ task'[t] = task[t]
    BY <1>1, Zenon DEF IInv
  <2>2. task[t].pc # "idle" => window[t] \subseteq window'[t]
                               /\ InForce(connected', snapshot') \in window'[t]
    BY <2>1, Zenon DEF Observe
  <2>3. connected' = connected /\ snapshot' = snapshot /\ enabled' = enabled
    BY Zenon DEF streamVars
  <2>4. InProgress(t)'
    BY <2>1, <2>2, <2>3, Zenon DEF InProgress
  <2>5. QED
    BY <2>1, <2>2, <2>3, <2>4, PermissionsAssumption, Zenon DEF InProgress,
       Justified
<1>2. QED
  BY <1>1, Zenon DEF IInv, streamVars

(* Every step keeps the invariant.                                         *)
LEMMA NextIInv == IInv /\ [Next]_vars => IInv'
<1> SUFFICES ASSUME IInv, [Next]_vars PROVE IInv'
  BY Zenon
<1>1. CASE UNCHANGED vars
  BY <1>1, Zenon DEF vars, IInv, InProgress, Justified
<1>2. ASSUME Next PROVE Step /\ Observe
  BY <1>2, Zenon DEF Next
<1>3. ASSUME NEW w \in Wires, Publish(w), Observe PROVE IInv'
  BY <1>3, StreamStep, Zenon DEF Publish, IInv
<1>4. ASSUME GoSilent \/ SendOther \/ Subscribe \/ OnConnected \/ OnMessage, Observe PROVE IInv'
  <2>1. CASE GoSilent
    BY <1>4, <2>1, StreamStep, Zenon DEF GoSilent, IInv
  <2>2. CASE SendOther
    BY <1>4, <2>2, StreamStep, Zenon DEF SendOther, IInv
  <2>3. CASE Subscribe
    BY <1>4, <2>3, StreamStep, Zenon DEF Subscribe, IInv
  <2>4. CASE OnConnected
    BY <1>4, <2>4, StreamStep DEF OnConnected, IInv
  <2>5. CASE OnMessage
    BY <1>4, <2>5, StreamStep, Zenon DEF OnMessage, IInv
  <2>6. QED
    BY <1>4, <2>1, <2>2, <2>3, <2>4, <2>5, Zenon
<1>5. ASSUME ConnectFails \/ StreamEnds \/ IdleTimeout, Observe PROVE IInv'
  <2>1. Disconnected
    BY <1>5, Zenon DEF ConnectFails, StreamEnds, IdleTimeout
  <2>2. QED
    BY <1>5, <2>1, StreamStep, Zenon DEF Disconnected, IInv
<1>6. ASSUME NEW u \in Tasks, NEW r \in Requests,
             Request(u, r) \/ RequestForGoneXt(u, r), Observe
      PROVE  IInv'
  <2> DEFINE n == task'[u]
  <2>1. /\ n \in Task /\ n.req = r /\ n.next = 1
        /\ n.pc \in {"flag", "done"}
        /\ n.pc = "flag" => n.answer = None /\ enabled
        /\ n.pc = "done" => \/ n.answer \in {"error", "gone"}
                            \/ n.answer = "allow" /\ ~enabled
    <3>1. task \in [Tasks -> Task] /\ u \in DOMAIN task
      BY Zenon DEF IInv
    <3>2. \/ n = Accepted(r, "done", "error")
          \/ n = Accepted(r, "done", "allow") /\ ~enabled
          \/ n = Accepted(r, "flag", None) /\ enabled
          \/ n = Accepted(r, "done", "gone")
      BY <1>6, <3>1, Zenon DEF Request, RequestForGoneXt
    <3>3. CASE n = Accepted(r, "done", "error")
      BY <3>3, PermissionsAssumption DEF Accepted, Task
    <3>4. CASE n = Accepted(r, "done", "allow") /\ ~enabled
      BY <3>4, PermissionsAssumption DEF Accepted, Task
    <3>5. CASE n = Accepted(r, "flag", None) /\ enabled
      BY <3>5, PermissionsAssumption DEF Accepted, Task
    <3>6. CASE n = Accepted(r, "done", "gone")
      BY <3>6, PermissionsAssumption DEF Accepted, Task
    <3>7. QED
      BY <3>2, <3>3, <3>4, <3>5, <3>6, Zenon
  <2>2. task' \in [Tasks -> Task] /\ \A t \in Tasks : t # u => task'[t] = task[t]
    BY <1>6, <2>1, Zenon DEF Request, RequestForGoneXt, IInv
  <2>3. InForce(connected', snapshot') \in window'[u]
    BY <1>6, <2>1, Zenon DEF Observe
  <2>4. 1 \in DOMAIN r.senders /\ \A i \in DOMAIN r.senders : ~(i < 1)
    BY PermissionsAssumption
  <2>5. InProgress(u)' /\ enabled' = enabled
    BY <1>6, <2>1, <2>3, <2>4, Zenon DEF InProgress, Request, RequestForGoneXt,
       streamVars
  <2>6. enabled' => Justified(u)'
    BY <2>1, <2>5, PermissionsAssumption, Zenon DEF Justified
  <2>7. QED
    BY <1>6, <2>2, <2>5, <2>6, OthersGoOn, Zenon DEF Request, RequestForGoneXt
<1>7. ASSUME NEW u \in Tasks, LoadConnected(u), Observe PROVE IInv'
  <2>1. InProgress(u) /\ task[u] \in Task /\ task \in [Tasks -> Task]
    BY Zenon DEF IInv
  <2>2. UNCHANGED streamVars /\ connected' = connected /\ snapshot' = snapshot
        /\ enabled' = enabled
    BY <1>7, Zenon DEF LoadConnected, streamVars
  <2> DEFINE r == task[u].req
             w == r.senders[task[u].next]
  <2>3. r \in Requests /\ task[u].next \in DOMAIN r.senders /\ task[u].answer = None
    BY <1>7, <2>1, Zenon DEF InProgress, LoadConnected
  <2>4. CASE Recovered(w) /\ StreamLive
    <3>1. task' = [task EXCEPT ![u].pc = "load"]
      BY <1>7, <2>4, Zenon DEF LoadConnected
    <3>2. /\ task'[u].pc = "load" /\ task'[u].req = r /\ task'[u].next = task[u].next
          /\ task'[u].answer = None
      BY <2>1, <2>3, <3>1, Zenon DEF Task
    <3>3. task' \in [Tasks -> Task] /\ \A t \in Tasks : t # u => task'[t] = task[t]
      BY <2>1, <3>1, Zenon DEF Task
    <3>4. window'[u] = window[u] \cup {InForce(connected, snapshot)}
      BY <1>7, <2>2, <3>2, Zenon DEF Observe
    <3>5. snapshot = InForce(connected, snapshot)
      BY <2>4, Zenon DEF StreamLive, InForce
    <3>6. InProgress(u)'
      BY <1>7, <2>1, <2>2, <2>3, <3>2, <3>4, <3>5, Zenon DEF InProgress,
         LoadConnected
    <3>7. Justified(u)'
      BY <3>2, PermissionsAssumption, Zenon DEF Justified
    <3>8. QED
      BY <1>7, <2>2, <3>3, <3>6, <3>7, OthersGoOn, Zenon
  <2>5. CASE ~(Recovered(w) /\ StreamLive)
    <3>1. task' = Answered(u, "deny")
      BY <1>7, <2>5, Zenon DEF LoadConnected
    <3>2. /\ task'[u].pc = "done" /\ task'[u].req = r /\ task'[u].answer = "deny"
      BY <2>1, <3>1, Zenon DEF Task, Answered
    <3>3. task' \in [Tasks -> Task] /\ \A t \in Tasks : t # u => task'[t] = task[t]
      BY <2>1, <3>1, Zenon DEF Task, Answered
    <3>4. window'[u] = window[u] \cup {InForce(connected, snapshot)}
      BY <1>7, <2>2, <3>2, Zenon DEF Observe
    <3>5. ~StreamLive => None \in window'[u] /\ ~Permits(None, r, w)
      BY <3>4, Zenon DEF StreamLive, InForce, Permits
    <3>6. InProgress(u)' /\ Justified(u)'
      BY <2>2, <2>3, <2>5, <3>2, <3>4, <3>5, Zenon DEF InProgress, Justified
    <3>7. QED
      BY <1>7, <2>2, <3>3, <3>6, OthersGoOn, Zenon
  <2>6. QED
    BY <2>4, <2>5, Zenon
<1>8. ASSUME NEW u \in Tasks, LoadSnapshot(u), Observe PROVE IInv'
  <2>1. InProgress(u) /\ task[u] \in Task /\ task \in [Tasks -> Task]
    BY Zenon DEF IInv
  <2>2. UNCHANGED streamVars /\ connected' = connected /\ snapshot' = snapshot
        /\ enabled' = enabled
    BY <1>8, Zenon DEF LoadSnapshot, streamVars
  <2> DEFINE r == task[u].req
             k == task[u].next
             w == r.senders[k]
  <2>3. /\ r \in Requests /\ k \in DOMAIN r.senders /\ task[u].answer = None
        /\ snapshot \in window[u] /\ enabled
        /\ \A i \in DOMAIN r.senders :
             i < k => \E p \in window[u] : Permits(p, r, r.senders[i])
    BY <1>8, <2>1, Zenon DEF InProgress, LoadSnapshot
  <2>4. CASE ~Permits(snapshot, r, w)
    <3>1. task' = Answered(u, "deny")
      BY <1>8, <2>4, Zenon DEF LoadSnapshot
    <3>2. /\ task'[u].pc = "done" /\ task'[u].req = r /\ task'[u].answer = "deny"
      BY <2>1, <3>1, Zenon DEF Task, Answered
    <3>3. task' \in [Tasks -> Task] /\ \A t \in Tasks : t # u => task'[t] = task[t]
      BY <2>1, <3>1, Zenon DEF Task, Answered
    <3>4. window'[u] = window[u] \cup {InForce(connected, snapshot)}
      BY <1>8, <2>2, <3>2, Zenon DEF Observe
    <3>5. InProgress(u)' /\ Justified(u)'
      BY <2>2, <2>3, <2>4, <3>2, <3>4, Zenon DEF InProgress, Justified
    <3>6. QED
      BY <1>8, <2>2, <3>3, <3>5, OthersGoOn, Zenon
  <2>5. CASE Permits(snapshot, r, w) /\ k = Len(r.senders)
    <3>1. task' = Answered(u, "allow")
      BY <1>8, <2>5, Zenon DEF LoadSnapshot
    <3>2. /\ task'[u].pc = "done" /\ task'[u].req = r /\ task'[u].answer = "allow"
      BY <2>1, <3>1, Zenon DEF Task, Answered
    <3>3. task' \in [Tasks -> Task] /\ \A t \in Tasks : t # u => task'[t] = task[t]
      BY <2>1, <3>1, Zenon DEF Task, Answered
    <3>4. window'[u] = window[u] \cup {InForce(connected, snapshot)}
      BY <1>8, <2>2, <3>2, Zenon DEF Observe
    <3>5. \A i \in DOMAIN r.senders : i < k \/ i = k
      BY <2>3, <2>5, PermissionsAssumption
    <3>6. \A i \in DOMAIN r.senders : \E p \in window[u] : Permits(p, r, r.senders[i])
      BY <2>3, <2>5, <3>5, Zenon
    <3>7. InProgress(u)' /\ Justified(u)'
      BY <2>2, <3>2, <3>4, <3>6, Zenon DEF InProgress, Justified
    <3>8. QED
      BY <1>8, <2>2, <3>3, <3>7, OthersGoOn, Zenon
  <2>6. CASE Permits(snapshot, r, w) /\ k # Len(r.senders)
    <3>1. task' = [task EXCEPT ![u].pc = "flag", ![u].next = k + 1]
      BY <1>8, <2>6, Zenon DEF LoadSnapshot
    <3>2. /\ task'[u].pc = "flag" /\ task'[u].req = r /\ task'[u].next = k + 1
          /\ task'[u].answer = None
      BY <2>1, <2>3, <3>1, Zenon DEF Task
    <3>3. task' \in [Tasks -> Task] /\ \A t \in Tasks : t # u => task'[t] = task[t]
      BY <2>1, <3>1 DEF Task
    <3>4. window'[u] = window[u] \cup {InForce(connected, snapshot)}
      BY <1>8, <2>2, <3>2, Zenon DEF Observe
    <3>5. k + 1 \in DOMAIN r.senders /\ \A i \in DOMAIN r.senders : i < k + 1 => i < k \/ i = k
      BY <2>3, <2>6, PermissionsAssumption
    <3>6. \A i \in DOMAIN r.senders :
            i < k + 1 => \E p \in window[u] : Permits(p, r, r.senders[i])
      BY <2>3, <2>6, <3>5, Zenon
    <3>7. InProgress(u)' /\ Justified(u)'
      BY <2>2, <2>3, <3>2, <3>4, <3>5, <3>6, PermissionsAssumption, Zenon DEF
         InProgress, Justified
    <3>8. QED
      BY <1>8, <2>2, <3>3, <3>7, OthersGoOn, Zenon
  <2>7. QED
    BY <2>4, <2>5, <2>6, Zenon
<1>9. ASSUME NEW u \in Tasks, Return(u), Observe PROVE IInv'
  <2>1. task' = [task EXCEPT ![u] = Idle] /\ UNCHANGED streamVars
    BY <1>9, Zenon DEF Return
  <2>2. task'[u] = Idle /\ Idle \in Task
    BY <2>1, Zenon DEF IInv, Idle, Task
  <2>3. task' \in [Tasks -> Task] /\ \A t \in Tasks : t # u => task'[t] = task[t]
    BY <2>1, <2>2, Zenon DEF IInv
  <2>4. InProgress(u)' /\ Justified(u)'
    BY <2>2, PermissionsAssumption DEF InProgress, Justified, Idle
  <2>5. QED
    BY <1>9, <2>1, <2>3, <2>4, OthersGoOn, Zenon
<1>10. QED
  BY <1>1, <1>2, <1>3, <1>4, <1>5, <1>6, <1>7, <1>8, <1>9, Zenon DEF Step,
     StreamTask

(* The invariant implies the property.                                     *)
LEMMA IInvJustified == IInv => DecisionJustified
  BY Zenon DEF IInv, DecisionJustified, Justified

(* Every answer of the engine follows from policies in force while the     *)
(* request was handled, whatever the stream does between its loads.        *)
THEOREM AnswersJustified == Spec => []DecisionJustified
<1>1. Spec => []IInv
  BY InitIInv, NextIInv, PTL DEF Spec
<1>2. QED
  BY <1>1, IInvJustified, PTL

(* The engine's flag is up exactly while the stream task is in its receive *)
(* loop.                                                                   *)
THEOREM FlagFollowsStream == Spec => [](connected = (stream.pc = "up"))
<1>1. Spec => []IInv
  BY InitIInv, NextIInv, PTL DEF Spec
<1>2. IInv => connected = (stream.pc = "up")
  BY Zenon DEF IInv
<1>3. QED
  BY <1>1, <1>2, PTL
-----------------------------------------------------------------------------
(* The stream.  The snapshot held is the one published under its version,  *)
(* and the frames on the connection carry ever newer versions, all newer   *)
(* than what is held: the query with which the stream resumes asks for     *)
(* nothing the engine already has.                                         *)
Frame == [type : {"snapshot", "other"}, version : Nat]

SnapshotPublished ==
  snapshot # None => /\ snapshot.version \in DOMAIN feed
                     /\ snapshot = Published(snapshot.version)

FramesNewer ==
  \A i \in 1 .. Len(frames) : frames[i].type = "snapshot" =>
    frames[i].version \in 1 .. Len(feed) /\ frames[i].version > Version

FramesInOrder ==
  \A i, j \in 1 .. Len(frames) :
    i < j /\ frames[i].type = "snapshot" /\ frames[j].type = "snapshot" =>
      frames[i].version < frames[j].version

StreamInv ==
  /\ feed \in Seq(Wires) /\ frames \in Seq(Frame)
  /\ SnapshotPublished /\ FramesNewer /\ FramesInOrder
  /\ DOMAIN stream = {"pc", "since"}
  /\ stream.pc = "dialing" => stream.since = Version

(* A newer snapshot replaces an older one, never the other way round.      *)
PolicyForward == [][snapshot' # snapshot => Version' > Version]_vars

(* What FromWire() indexes keeps the version of the payload.               *)
LEMMA IndexedVersion ==
  ASSUME NEW w, NEW v, FromWire(w, v) # None
  PROVE  FromWire(w, v).version = v
BY Zenon DEF FromWire, Indexed

(* The invariant of the stream does not depend on the requests.            *)
LEMMA StreamFrame ==
  ASSUME StreamInv, UNCHANGED <<feed, frames, snapshot>>,
         \/ UNCHANGED stream
         \/ DOMAIN stream' = {"pc", "since"} /\ (stream'.pc = "dialing" =>
                                                   stream'.since = Version)
  PROVE  StreamInv'
<1>1. Version' = Version
  BY Zenon DEF Version
<1>2. (SnapshotPublished /\ FramesNewer /\ FramesInOrder)'
  BY <1>1, Zenon DEF StreamInv, SnapshotPublished, Published, FramesNewer,
     FramesInOrder
<1> QED
  BY <1>1, <1>2, Zenon DEF StreamInv

(* Publishing keeps what was published, and sends a newer version.         *)
LEMMA PublishStep ==
  ASSUME StreamInv, NEW w \in Wires, Publish(w)
  PROVE  StreamInv' /\ UNCHANGED snapshot
<1> DEFINE f == [type |-> "snapshot", version |-> Len(feed) + 1]
<1>0. /\ feed \in Seq(Wires) /\ frames \in Seq(Frame) /\ Len(feed) \in Nat
      /\ feed' = Append(feed, w) /\ UNCHANGED <<snapshot, stream>>
      /\ frames' = frames \/ frames' = Append(frames, f)
      /\ f \in Frame /\ f.type = "snapshot" /\ f.version = Len(feed) + 1
  BY DEF Publish, StreamInv, Frame
<1>1. /\ feed' \in Seq(Wires) /\ Len(feed') = Len(feed) + 1
      /\ \A v \in 1 .. Len(feed) : feed'[v] = feed[v]
  BY <1>0
<1>2. Version' = Version /\ Version \in Nat /\ Version <= Len(feed)
  BY <1>0 DEF Version, StreamInv, SnapshotPublished
<1> HIDE DEF f
<1>3. /\ frames' \in Seq(Frame)
      /\ \A i \in 1 .. Len(frames') :
           \/ i \in 1 .. Len(frames) /\ frames'[i] = frames[i]
           \/ i = Len(frames) + 1 /\ frames'[i] = f
  <2>1. CASE frames' = frames
    BY <1>0, <2>1, Zenon
  <2>2. CASE frames' = Append(frames, f)
    <3>1. /\ frames' \in Seq(Frame) /\ Len(frames') = Len(frames) + 1
          /\ Len(frames) \in Nat /\ frames'[Len(frames) + 1] = f
          /\ \A i \in 1 .. Len(frames) : frames'[i] = frames[i]
      BY <1>0, <2>2
    <3> QED
      BY <3>1
  <2> QED
    BY <1>0, <2>1, <2>2, Zenon
<1>4. FramesNewer'
  BY <1>0, <1>1, <1>2, <1>3, SMTT(20) DEF StreamInv, FramesNewer
<1>5. FramesInOrder'
  <2>1. ASSUME NEW i \in 1 .. Len(frames'), NEW j \in 1 .. Len(frames'), i < j,
               frames'[i].type = "snapshot", frames'[j].type = "snapshot"
        PROVE  frames'[i].version < frames'[j].version
    <3>0. i \in Nat /\ j \in Nat /\ Len(frames) \in Nat
      BY <1>0, <1>3
    <3>1. i \in 1 .. Len(frames) /\ frames'[i] = frames[i]
      BY <1>3, <2>1, <3>0, SMTT(20)
    <3>2. frames[i].version \in 1 .. Len(feed)
      BY <2>1, <3>1, Zenon DEF StreamInv, FramesNewer
    <3>3. CASE j \in 1 .. Len(frames) /\ frames'[j] = frames[j]
      BY <2>1, <3>1, <3>3, Zenon DEF StreamInv, FramesInOrder
    <3>4. CASE frames'[j] = f
      BY <1>0, <3>1, <3>2, <3>4, SMTT(20)
    <3> QED
      BY <1>3, <3>3, <3>4, Zenon
  <2> QED
    BY <2>1, Zenon DEF FramesInOrder
<1>6. SnapshotPublished'
  BY <1>0, <1>1 DEF StreamInv, SnapshotPublished, Published
<1> QED
  BY <1>0, <1>1, <1>2, <1>3, <1>4, <1>5, <1>6, Zenon DEF StreamInv

(* So do a silent server, a foreign frame, a new connection and a lost     *)
(* one: the frames there are then were there, or carry the latest version. *)
LEMMA ConnectionStep ==
  ASSUME StreamInv,
         GoSilent \/ SendOther \/ OnConnected \/ Disconnected
  PROVE  StreamInv' /\ UNCHANGED snapshot
<1>0. /\ feed \in Seq(Wires) /\ frames \in Seq(Frame) /\ Len(feed) \in Nat
      /\ UNCHANGED <<feed, snapshot>>
  BY DEF StreamInv, GoSilent, SendOther, OnConnected, Disconnected
<1>1. Version' = Version
  BY <1>0, Zenon DEF Version
<1>2. SnapshotPublished'
  BY <1>0, Zenon DEF StreamInv, SnapshotPublished, Published
<1>3. /\ DOMAIN stream' = {"pc", "since"}
      /\ stream'.pc = "dialing" => stream'.since = Version
  BY DEF StreamInv, GoSilent, SendOther, OnConnected, Disconnected
<1>4. CASE GoSilent \/ Disconnected
  <2>1. frames' = <<>>
    BY <1>4, Zenon DEF GoSilent, Disconnected
  <2> QED
    BY <1>0, <1>1, <1>2, <1>3, <2>1, SMTT(20) DEF StreamInv, FramesNewer,
       FramesInOrder
<1>5. CASE SendOther
  <2> DEFINE f == [type |-> "other", version |-> 0]
  <2>0. f \in Frame /\ f.type = "other" /\ frames' = Append(frames, f)
    BY <1>5, Zenon DEF SendOther, Frame
  <2> HIDE DEF f
  <2>1. /\ frames' \in Seq(Frame)
        /\ \A i \in 1 .. Len(frames') : frames'[i].type = "snapshot" =>
             i \in 1 .. Len(frames) /\ frames'[i] = frames[i]
    BY <1>0, <2>0
  <2> QED
    BY <1>0, <1>1, <1>2, <1>3, <2>1, Zenon DEF StreamInv, FramesNewer,
       FramesInOrder
<1>6. CASE OnConnected
  <2> DEFINE f == [type |-> "snapshot", version |-> Len(feed)]
  <2>0. /\ f \in Frame /\ f.version = Len(feed)
        /\ frames' = <<>> \/ (Len(feed) > Version /\ frames' = <<f>>)
    BY <1>0, <1>6, Zenon DEF OnConnected, StreamInv, Frame
  <2>1. Version \in Nat
    BY <1>0 DEF Version, StreamInv, SnapshotPublished
  <2> HIDE DEF f
  <2>2. /\ frames' \in Seq(Frame)
        /\ \A i \in 1 .. Len(frames') :
             i = 1 /\ frames'[i] = f /\ Len(feed) > Version
    <3>1. CASE frames' = <<>>
      BY <3>1
    <3>2. CASE Len(feed) > Version /\ frames' = <<f>>
      BY <2>0, <3>2
    <3> QED
      BY <2>0, <3>1, <3>2, ZenonT(30)
  <2> QED
    BY <1>0, <1>1, <1>2, <1>3, <2>0, <2>1, <2>2, SMTT(20) DEF StreamInv,
       FramesNewer, FramesInOrder
<1> QED
  BY <1>0, <1>4, <1>5, <1>6, ZenonT(30)

(* on_message(): what is stored is newer than what was held, and older     *)
(* than what is still to come.                                             *)
LEMMA MessageStep ==
  ASSUME StreamInv, OnMessage
  PROVE  StreamInv' /\ (snapshot' # snapshot => Version' > Version)
<1> DEFINE f == Head(frames)
           s == FromWire(feed[f.version], f.version)
<1>0. /\ feed \in Seq(Wires) /\ frames \in Seq(Frame) /\ Len(feed) \in Nat
      /\ frames # <<>> /\ frames' = Tail(frames)
      /\ UNCHANGED <<feed, stream>> /\ stream.pc = "up"
  BY DEF StreamInv, OnMessage
<1>1. /\ f = frames[1] /\ 1 \in 1 .. Len(frames) /\ frames' \in Seq(Frame)
      /\ \A i \in 1 .. Len(frames') :
           i + 1 \in 1 .. Len(frames) /\ frames'[i] = frames[i + 1]
  BY <1>0
<1>2. \/ UNCHANGED snapshot
      \/ snapshot' = s /\ s # None /\ f.type = "snapshot"
  BY Zenon DEF OnMessage
<1>3. Version \in Nat
  BY <1>0 DEF Version, StreamInv, SnapshotPublished
<1> HIDE DEF f, s
<1>4. FramesInOrder'
  BY <1>0, <1>1 DEF StreamInv, FramesInOrder
<1>5. CASE UNCHANGED snapshot
  <2>1. Version' = Version
    BY <1>5, Zenon DEF Version
  <2>2. FramesNewer'
    BY <1>0, <1>1, <2>1, SMTT(20) DEF StreamInv, FramesNewer
  <2>3. SnapshotPublished'
    BY <1>0, <1>5, Zenon DEF StreamInv, SnapshotPublished, Published
  <2> QED
    BY <1>0, <1>1, <1>4, <1>5, <2>1, <2>2, <2>3, Zenon DEF StreamInv
<1>6. CASE snapshot' = s /\ s # None /\ f.type = "snapshot"
  <2>1. s.version = f.version
    BY <1>6, IndexedVersion, Zenon DEF s
  <2>2. f.version \in 1 .. Len(feed) /\ f.version > Version
    BY <1>1, <1>6, Zenon DEF StreamInv, FramesNewer
  <2>3. Version' = f.version
    BY <1>6, <2>1, Zenon DEF Version
  <2>4. SnapshotPublished'
    <3>1. f.version \in DOMAIN feed'
      BY <1>0, <2>2
    <3> QED
      BY <1>0, <1>6, <2>1, <3>1, ZenonT(30) DEF SnapshotPublished, Published, s
  <2>5. ASSUME NEW i \in 1 .. Len(frames'), frames'[i].type = "snapshot"
        PROVE  /\ frames'[i].version \in 1 .. Len(feed')
               /\ frames'[i].version > Version'
    <3>1. /\ i + 1 \in 1 .. Len(frames) /\ frames'[i] = frames[i + 1]
          /\ f = frames[1] /\ 1 \in 1 .. Len(frames)
      BY <1>1, Zenon
    <3>a. 1 < i + 1
      OBVIOUS
    <3>2. frames[1].version < frames[i + 1].version
      BY <1>6, <2>5, <3>1, <3>a, Zenon DEF StreamInv, FramesInOrder
    <3>3. frames[i + 1].version \in 1 .. Len(feed)
      BY <2>5, <3>1, Zenon DEF StreamInv, FramesNewer
    <3> QED
      BY <1>0, <2>2, <2>3, <3>1, <3>2, <3>3, Zenon
  <2> QED
    BY <1>0, <1>1, <1>4, <2>2, <2>3, <2>4, <2>5, ZenonT(30) DEF StreamInv,
       FramesNewer
<1> QED
  BY <1>2, <1>5, <1>6, Zenon

(* Every step keeps the invariant of the stream and the order of versions. *)
LEMMA NextStream ==
  StreamInv /\ [Next]_vars
    => StreamInv' /\ (snapshot' # snapshot => Version' > Version)
<1> SUFFICES ASSUME StreamInv, [Next]_vars
             PROVE  StreamInv' /\ (snapshot' # snapshot => Version' > Version)
  BY Zenon
<1>1. CASE UNCHANGED streamVars
  BY <1>1, StreamFrame, Zenon DEF streamVars
<1>2. CASE Subscribe
  <2>1. /\ UNCHANGED <<feed, frames, snapshot>> /\ DOMAIN stream' = {"pc", "since"}
        /\ stream'.since = Version
    BY <1>2, Zenon DEF Subscribe, ResumeQuery
  <2> QED
    BY <2>1, StreamFrame, Zenon
<1>3. UNCHANGED vars => UNCHANGED streamVars
  BY Zenon DEF vars, streamVars
<1>4. ConnectFails \/ StreamEnds \/ IdleTimeout => Disconnected
  BY Zenon DEF ConnectFails, StreamEnds, IdleTimeout
<1>5. ASSUME NEW t \in Tasks,
             \/ \E r \in Requests : Request(t, r) \/ RequestForGoneXt(t, r)
             \/ LoadConnected(t) \/ LoadSnapshot(t) \/ Return(t)
      PROVE  UNCHANGED streamVars
  BY <1>5, Zenon DEF Request, RequestForGoneXt, LoadConnected, LoadSnapshot, Return
<1> QED
  BY <1>1, <1>2, <1>3, <1>4, <1>5, PublishStep, ConnectionStep, MessageStep, Zenon
     DEF Next, Step, StreamTask

(* The stream starts with nothing.                                         *)
LEMMA InitStream == Init => StreamInv
BY DEF Init, StreamInv, SnapshotPublished, FramesNewer, FramesInOrder

(* The policy the engine enforces is what one published payload is indexed *)
(* to, as a whole: on_message() never applies part of a payload, nor one   *)
(* that from_wire() rejects.                                               *)
THEOREM PolicyIsPublished == Spec => []SnapshotPublished
<1>1. StreamInv => SnapshotPublished
  BY Zenon DEF StreamInv
<1> QED
  BY <1>1, InitStream, NextStream, PTL DEF Spec

(* Every entry of the payload whose policy is enforced is well-formed.     *)
NothingMalformed ==
  snapshot # None =>
    LET w == feed[snapshot.version]
    IN  \A i \in DOMAIN w.entities : WellFormedEntity(Groups(w), w.entities[i])

(* from_wire() and on_message() together: one address that does not parse  *)
(* or one unknown group keeps all of a payload from being enforced.        *)
THEOREM MalformedNeverEnforced == Spec => []NothingMalformed
<1>1. SnapshotPublished => NothingMalformed
  BY Zenon DEF SnapshotPublished, NothingMalformed, Published, FromWire
<1> QED
  BY <1>1, PolicyIsPublished, PTL

(* The policy never goes back to an older version, although every          *)
(* connection starts with the latest payload again and what was on a lost  *)
(* connection is gone.                                                     *)
THEOREM PolicyMovesForward == Spec => PolicyForward
<1>1. StreamInv /\ [Next]_vars => [snapshot' # snapshot => Version' > Version]_vars
  BY NextStream, Zenon
<1>2. StreamInv /\ [Next]_vars => StreamInv'
  BY NextStream, Zenon
<1> QED
  BY <1>1, <1>2, InitStream, PTL DEF Spec, PolicyForward
=============================================================================

---------------------------- MODULE Permissions ----------------------------
(***************************************************************************)
(* Permission enforcement: the policy server's stream of snapshots, the    *)
(* websocket client that follows it, the engine that holds the latest      *)
(* snapshot, and the requests that are answered from it: check-tx, the     *)
(* check of an XT before its simulation, and the readiness probe.          *)
(*                                                                         *)
(* The engine has no lock.  A request loads the flag `connected' and then  *)
(* the snapshot, and does so once for every transaction it checks; the     *)
(* stream task changes both in between.                                    *)
(*                                                                         *)
(* The config_version a check-tx answer reports is loaded once more at the *)
(* end and left out here: it may be newer than the policy that decided.    *)
(***************************************************************************)
EXTENDS Naturals, Sequences, SequencesExt

CONSTANTS
  Tasks,       \* HTTP handlers and XT tasks
  Requests,    \* what they may be asked
  Wallets,     \* addresses; what is not among them does not parse
  Local,       \* the local chain
  Wires,       \* payloads of snapshots the server publishes
  None,        \* Option::None
  MaxVersion,  \* bound: snapshots published
  MaxFaults    \* bound: lost or refused connections and foreign frames

ASSUME PermissionsAssumption ==
  /\ MaxVersion \in Nat /\ MaxFaults \in Nat
  /\ None \notin Requests /\ None \notin {"allow", "deny", "error", "gone"}
  /\ \A r \in Requests : Len(r.senders) \in Nat \ {0} /\ DOMAIN r.senders = 1 .. Len(r.senders)

VARIABLES
  enabled,    \* is there an engine (and a stream)?
  feed,       \* the payloads published; a version is an index
  frames,     \* frames on the websocket
  silent,     \* the server or the network went silent without closing it
  stream,     \* the stream task: start, dialing or up, and its `since'
  connected,  \* the engine's flag
  snapshot,   \* the engine's snapshot
  task,       \* the requests in progress
  window,     \* per request: the policies in force since it came in
  faults      \* budget

vars == <<enabled, feed, frames, silent, stream, connected, snapshot, task, window,
          faults>>

streamVars == <<enabled, feed, frames, silent, stream, connected, snapshot, faults>>
-----------------------------------------------------------------------------
(* NetworkScope::parse().                                                  *)
Scope(raw) == IF raw \in {"restricted", "Restricted"} THEN "Restricted" ELSE "All"

Default(v, d) == IF v = None THEN d ELSE v

(* A rule group as indexed; an absent permission is granted.               *)
RuleGroup(g) ==
  [send_native         |-> Default(g.send_native, TRUE),
   can_deploy_contract |-> Default(g.can_deploy_contract, TRUE),
   network_scope       |-> Scope(g.network_scope),
   allowed_peers       |-> g.rollups]

Put(map, key, value) ==
  [k \in DOMAIN map \cup {key} |-> IF k = key THEN value ELSE map[k]]

NoEntries == [k \in {} |-> None]

(* The groups by id, and the wallets of an entity.  An entity without a    *)
(* group id has no group, whatever the groups are called; one that names   *)
(* an unknown group and an address that does not parse make the snapshot   *)
(* malformed.                                                              *)
Groups(w) ==
  FoldLeft(LAMBDA m, g : Put(m, g.rule_group_id, RuleGroup(g)), NoEntries, w.rule_groups)

WellFormedEntity(groups, e) ==
  /\ e.rule_group_id # "" => e.rule_group_id \in DOMAIN groups
  /\ \A i \in DOMAIN e.wallet_addresses : e.wallet_addresses[i] \in Wallets

WalletPolicy(groups, e) ==
  [entity_active |-> e.is_active,
   group |-> IF e.rule_group_id = "" THEN None ELSE groups[e.rule_group_id]]

Entity(groups, wallets, e) ==
  FoldLeft(LAMBDA m, a : Put(m, a, WalletPolicy(groups, e)), wallets, e.wallet_addresses)

Indexed(w, version) ==
  LET groups == Groups(w)
  IN  [version |-> version,
       wallets |-> FoldLeft(LAMBDA m, e : Entity(groups, m, e), NoEntries, w.entities)]

(* PolicySnapshot::from_wire(): the indexed snapshot, or nothing.  The     *)
(* mutant skips the addresses that do not parse and takes the rest.        *)
MutantSkipsInvalid(w, version) ==
  LET Parsed(e) == [e EXCEPT !.wallet_addresses = SelectSeq(@, LAMBDA a : a \in Wallets)]
      rest == [w EXCEPT !.entities = [i \in DOMAIN @ |-> Parsed(@[i])]]
  IN  IF \E i \in DOMAIN rest.entities : ~WellFormedEntity(Groups(w), rest.entities[i])
      THEN None ELSE Indexed(rest, version)

FromWire(w, version) ==
  IF \E i \in DOMAIN w.entities : ~WellFormedEntity(Groups(w), w.entities[i])
  THEN None ELSE Indexed(w, version)
-----------------------------------------------------------------------------
(* What is in force for a request that loads flag and snapshot now.        *)
(* resolve_group() denies everything when there is nothing.                *)
InForce(c, s) == IF c THEN s ELSE None

(* evaluate_tx() and evaluate_xt() for a sender under a policy, and        *)
(* is_ready().  A wallet the policy does not list, and one whose entity    *)
(* has no group, may do everything.                                        *)
GroupPermits(g, r) ==
  IF r.kind = "tx"
  THEN (r.has_value => g.send_native) /\ (r.is_create => g.can_deploy_contract)
  ELSE g.network_scope = "Restricted" =>
         \A c \in r.involved : c # Local => c \in g.allowed_peers

Permits(p, r, w) ==
  /\ p # None
  /\ r.kind # "ready" /\ w \in DOMAIN p.wallets =>
       /\ p.wallets[w].entity_active
       /\ p.wallets[w].group # None => GroupPermits(p.wallets[w].group, r)

(* The sender of a transaction is known; the probe asks for some wallet.   *)
Recovered(w) == w \in Wallets
-----------------------------------------------------------------------------
Idle == [pc |-> "idle", req |-> None, next |-> 1, answer |-> None]

(* main.rs: no engine and no stream unless enforcement is enabled.         *)
Init ==
  /\ enabled \in BOOLEAN
  /\ feed = <<>> /\ frames = <<>> /\ silent = FALSE
  /\ stream = [pc |-> "start", since |-> 0]
  /\ connected = FALSE /\ snapshot = None
  /\ task = [t \in Tasks |-> Idle]
  /\ window = [t \in Tasks |-> {}]
  /\ faults = 0

(* The requests in progress see what is in force after every step.         *)
Observe ==
  window' = [t \in Tasks |-> IF task'[t].pc = "idle" THEN {}
                             ELSE window[t] \cup {InForce(connected', snapshot')}]
-----------------------------------------------------------------------------
(* The policy server publishes a snapshot and sends it to a subscriber.    *)
Publish(w) ==
  /\ Len(feed) < MaxVersion
  /\ feed' = Append(feed, w)
  /\ frames' = IF stream.pc = "up" /\ ~silent
               THEN Append(frames, [type |-> "snapshot", version |-> Len(feed) + 1])
               ELSE frames
  /\ UNCHANGED <<enabled, silent, stream, connected, snapshot, task, faults>>

(* It, or the network, goes silent; or it sends a frame of another type,   *)
(* or one that does not parse.                                             *)
GoSilent ==
  /\ stream.pc = "up" /\ ~silent /\ faults < MaxFaults
  /\ silent' = TRUE /\ frames' = <<>> /\ faults' = faults + 1
  /\ UNCHANGED <<enabled, feed, stream, connected, snapshot, task>>

SendOther ==
  /\ stream.pc = "up" /\ ~silent /\ faults < MaxFaults
  /\ frames' = Append(frames, [type |-> "other", version |-> 0])
  /\ faults' = faults + 1
  /\ UNCHANGED <<enabled, feed, silent, stream, connected, snapshot, task>>

(* stream_once(): the resume query, `since' the version held, is taken     *)
(* before the connection is made.  The mutant asks from one version later. *)
Version == IF snapshot = None THEN 0 ELSE snapshot.version

MutantResumeAfterNext == Version + 1

ResumeQuery == Version

Subscribe ==
  /\ enabled /\ stream.pc = "start"
  /\ stream' = [pc |-> "dialing", since |-> ResumeQuery]
  /\ UNCHANGED <<enabled, feed, frames, silent, connected, snapshot, task, faults>>

(* run(), after stream_once(): on_disconnected() and the backoff.  What    *)
(* was on the connection is lost.                                          *)
Disconnected ==
  /\ connected' = FALSE
  /\ stream' = [pc |-> "start", since |-> 0]
  /\ frames' = <<>> /\ silent' = FALSE
  /\ UNCHANGED <<enabled, feed, snapshot, task>>

(* connect_async() fails.                                                  *)
ConnectFails ==
  /\ stream.pc = "dialing" /\ faults < MaxFaults
  /\ faults' = faults + 1
  /\ Disconnected

(* It succeeds: on_connected(); the server sends the latest snapshot if    *)
(* the subscriber does not have it.                                        *)
OnConnected ==
  /\ stream.pc = "dialing"
  /\ stream' = [stream EXCEPT !.pc = "up"]
  /\ connected' = TRUE
  /\ frames' = IF Len(feed) > stream.since
               THEN <<[type |-> "snapshot", version |-> Len(feed)]>> ELSE <<>>
  /\ UNCHANGED <<enabled, feed, silent, snapshot, task, faults>>

(* on_message(): a well-formed snapshot replaces the one held; everything  *)
(* else is dropped.                                                        *)
OnMessage ==
  /\ stream.pc = "up" /\ frames # <<>>
  /\ frames' = Tail(frames)
  /\ LET f == Head(frames)
         s == IF f.type = "snapshot" THEN FromWire(feed[f.version], f.version) ELSE None
     IN  snapshot' = IF s # None THEN s ELSE snapshot
  /\ UNCHANGED <<enabled, feed, silent, stream, connected, task, faults>>

(* The server closes the connection or it breaks.                          *)
StreamEnds ==
  /\ stream.pc = "up" /\ faults < MaxFaults
  /\ faults' = faults + 1
  /\ Disconnected

(* Nothing came for read_idle_timeout, which is longer than the server's   *)
(* keep-alive interval.                                                    *)
IdleElapsed == silent

IdleTimeout ==
  /\ stream.pc = "up" /\ IdleElapsed
  /\ Disconnected
  /\ UNCHANGED faults
-----------------------------------------------------------------------------
Accepted(r, pc, a) == [pc |-> pc, req |-> r, next |-> 1, answer |-> a]

(* A request comes in.  Without an engine, check-tx cannot be answered,    *)
(* and XTs and the probe pass; check-tx refuses an invalid address.        *)
Request(t, r) ==
  /\ task[t].pc = "idle"
  /\ task' = [task EXCEPT ![t] =
       IF r.kind = "tx" /\ (enabled => ~Recovered(r.senders[1])) THEN Accepted(r, "done", "error")
       ELSE IF ~enabled THEN Accepted(r, "done", "allow")
       ELSE Accepted(r, "flag", None)]
  /\ UNCHANGED streamVars

(* check_xt_permissions() finds the XT gone: it passes unchecked, to a     *)
(* task that will find it gone too.                                        *)
RequestForGoneXt(t, r) ==
  /\ task[t].pc = "idle" /\ r.kind = "xt" /\ enabled
  /\ task' = [task EXCEPT ![t] = Accepted(r, "done", "gone")]
  /\ UNCHANGED streamVars

Answered(t, a) == [task EXCEPT ![t] = [@ EXCEPT !.pc = "done", !.answer = a]]

(* fresh(), first half: the flag.  An XT's check first recovers the signer *)
(* of the transaction.  The mutant looks at the snapshot only.             *)
MutantAnySnapshot == connected \/ snapshot # None

StreamLive == connected

LoadConnected(t) ==
  /\ task[t].pc = "flag"
  /\ task' = IF Recovered(task[t].req.senders[task[t].next]) /\ StreamLive
             THEN [task EXCEPT ![t].pc = "load"] ELSE Answered(t, "deny")
  /\ UNCHANGED streamVars

(* fresh(), second half, and the evaluation: the first denial answers, and *)
(* so does the last transaction.                                           *)
LoadSnapshot(t) ==
  LET r == task[t].req
  IN  /\ task[t].pc = "load"
      /\ task' = IF ~Permits(snapshot, r, r.senders[task[t].next])
                 THEN Answered(t, "deny")
                 ELSE IF task[t].next = Len(r.senders) THEN Answered(t, "allow")
                 ELSE [task EXCEPT ![t].pc = "flag", ![t].next = task[t].next + 1]
      /\ UNCHANGED streamVars

(* The answer goes out: to the caller of check-tx or of the probe, or to   *)
(* process_xt().                                                           *)
Return(t) ==
  /\ task[t].pc = "done"
  /\ task' = [task EXCEPT ![t] = Idle]
  /\ UNCHANGED streamVars
-----------------------------------------------------------------------------
StreamTask == Subscribe \/ OnConnected \/ OnMessage \/ IdleTimeout

Step ==
  \/ \E w \in Wires : Publish(w)
  \/ GoSilent \/ SendOther \/ ConnectFails \/ StreamEnds
  \/ StreamTask
  \/ \E t \in Tasks : \E r \in Requests : Request(t, r) \/ RequestForGoneXt(t, r)
  \/ \E t \in Tasks : LoadConnected(t) \/ LoadSnapshot(t) \/ Return(t)

Next == Step /\ Observe

Spec == Init /\ [][Next]_vars

(* The stream task runs, the server accepts and its timers expire.         *)
Fairness == WF_vars(StreamTask /\ Observe)

FairSpec == Spec /\ Fairness
-----------------------------------------------------------------------------
(* The shape of the engine, the stream and the requests.                   *)
TypeOK ==
  /\ enabled \in BOOLEAN /\ silent \in BOOLEAN /\ connected \in BOOLEAN
  /\ feed \in Seq(Wires)
  /\ stream.pc \in {"start", "dialing", "up"} /\ stream.since \in Nat
  /\ (stream.pc = "up") = connected
  /\ \A i \in DOMAIN frames : frames[i].version \in 0 .. Len(feed)
  /\ \A t \in Tasks : /\ task[t].pc \in {"idle", "flag", "load", "done"}
                      /\ task[t].req \in Requests \cup {None}
                      /\ task[t].answer \in {None, "allow", "deny", "error", "gone"}

(* Every answer of an engine follows from policies that were in force      *)
(* while the request was handled, although flag and snapshot are loaded    *)
(* apart and change in between: an allowed request was permitted by one,   *)
(* for each of its transactions, and a denied one was refused by one, or   *)
(* met no policy.                                                          *)
DecisionJustified ==
  enabled => \A t \in Tasks :
    LET r == task[t].req
    IN  /\ task[t].answer = "allow" =>
             \A i \in DOMAIN r.senders : \E p \in window[t] : Permits(p, r, r.senders[i])
        /\ task[t].answer = "deny" =>
             \E i \in DOMAIN r.senders :
               \/ ~Recovered(r.senders[i])
               \/ \E p \in window[t] : ~Permits(p, r, r.senders[i])

(* What a payload says of a wallet: the last entity that lists it, with    *)
(* the last group of that id.                                              *)
LastIn(s, P(_)) == CHOOSE i \in DOMAIN s : P(s[i]) /\ \A j \in DOMAIN s : P(s[j]) => j <= i

Listed(w, a) == \E i \in DOMAIN w.entities :
                  \E j \in DOMAIN w.entities[i].wallet_addresses :
                    w.entities[i].wallet_addresses[j] = a

Owner(w, a) ==
  LET Lists(e) == \E j \in DOMAIN e.wallet_addresses : e.wallet_addresses[j] = a
  IN  w.entities[LastIn(w.entities, Lists)]

GroupNamed(w, id) ==
  LET Is(g) == g.rule_group_id = id IN RuleGroup(w.rule_groups[LastIn(w.rule_groups, Is)])

(* The engine's policy is that of one published snapshot as a whole, all   *)
(* of whose addresses parse and which names only groups it defines: of a   *)
(* snapshot with one malformed entry not even the rest is applied, nor a   *)
(* mixture of two.  An entity without a group id has no group.             *)
PolicyAsPublished ==
  snapshot # None =>
    LET w == feed[snapshot.version]
    IN  /\ \A i \in DOMAIN w.entities : \A j \in DOMAIN w.entities[i].wallet_addresses :
             w.entities[i].wallet_addresses[j] \in Wallets
        /\ \A i \in DOMAIN w.entities :
             w.entities[i].rule_group_id # "" =>
               \E j \in DOMAIN w.rule_groups :
                 w.rule_groups[j].rule_group_id = w.entities[i].rule_group_id
        /\ DOMAIN snapshot.wallets = {a \in Wallets : Listed(w, a)}
        /\ \A a \in DOMAIN snapshot.wallets :
             LET e == Owner(w, a)
             IN  /\ snapshot.wallets[a].entity_active = e.is_active
                 /\ snapshot.wallets[a].group =
                      IF e.rule_group_id = "" THEN None ELSE GroupNamed(w, e.rule_group_id)

(* The snapshot of a version, if it is well-formed.                        *)
Published(v) == IF v \in DOMAIN feed THEN FromWire(feed[v], v) ELSE None

(* The latest snapshot, if well-formed, comes into force unless the server *)
(* publishes another one: neither a lost connection nor one that went      *)
(* silent, nor what is dropped with it, makes the engine miss it.          *)
PolicyConverges ==
  \A v \in 1 .. MaxVersion :
    (enabled /\ Len(feed) = v /\ Published(v) # None)
      ~> (Len(feed) > v \/ InForce(connected, snapshot) = Published(v))
=============================================================================

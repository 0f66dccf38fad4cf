--------------------------- MODULE StateOverrides ---------------------------
(***************************************************************************)
(* How the effects of simulated transactions are carried from one          *)
(* simulation to the next.  debug_traceCall runs a transaction against the *)
(* pending state of the chain under state overrides; from the diff of the  *)
(* prestate tracer the simulator builds overrides that stand for the       *)
(* transaction, and record_simulation_state() merges them into the         *)
(* overrides of the chain.                                                 *)
(*                                                                         *)
(* An account is its storage and one more field, which stands for nonce,   *)
(* balance and code: the three are handled alike.  A dead account is zero  *)
(* everywhere.                                                             *)
(***************************************************************************)
CONSTANTS
  Addrs,    \* addresses
  Slots,    \* storage slots
  Values,   \* words
  Zero,     \* the word zero
  None,     \* Option::None
  Puts      \* the (address, slot) pairs that putInbox transactions write

ASSUME OverridesAssumption ==
  /\ Zero \in Values
  /\ None \notin Values
  /\ \A S \in SUBSET Slots : None \notin [S -> Values]
  /\ Puts \subseteq Addrs \X Slots

VARIABLES
  chain,      \* the pending state of the chain
  world,      \* the state after the transactions simulated so far
  overrides,  \* the accumulated overrides
  untraced    \* has a prestate trace failed?

vars == <<chain, world, overrides, untraced>>
-----------------------------------------------------------------------------
Maps == UNION {[S -> Values] : S \in SUBSET Slots}

Accounts == [storage : [Slots -> Values], field : Values]

NoSlots == [s \in {} |-> Zero]

Dead == [storage |-> [s \in Slots |-> Zero], field |-> Zero]

(* AccountOverride.  `state' replaces the storage, `state_diff' some slots *)
(* of it; an RPC call refuses an account with both.                        *)
AccountOverrides ==
  {o \in [state : Maps \cup {None}, state_diff : Maps \cup {None},
          field : Values \cup {None}] : o.state = None \/ o.state_diff = None}

NoOverride == [state |-> None, state_diff |-> None, field |-> None]

(* g written over f.                                                       *)
Insert(f, g) == [s \in DOMAIN f \cup DOMAIN g |->
                   IF s \in DOMAIN g THEN g[s] ELSE f[s]]

Or(v, w) == IF v # None THEN v ELSE w

(* One account in merge_overrides().  The mutant keeps the diff of an      *)
(* account whose storage is replaced.                                      *)
MutantMergeKeepsDiff(b, o) ==
  [state |-> Or(o.state, b.state),
   state_diff |-> Or(o.state_diff, b.state_diff),
   field |-> Or(o.field, b.field)]

MergeAccount(b, o) ==
  [state |-> IF o.state # None THEN o.state
             ELSE IF b.state # None /\ o.state_diff # None
                  THEN Insert(b.state, o.state_diff)
                  ELSE b.state,
   state_diff |-> IF o.state # None THEN None
                  ELSE IF b.state # None \/ o.state_diff = None THEN b.state_diff
                  ELSE Insert(Or(b.state_diff, NoSlots), o.state_diff),
   field |-> Or(o.field, b.field)]

(* merge_overrides(): addresses without an entry take the overlay's.       *)
Merge(base, overlay) ==
  [a \in DOMAIN base \cup DOMAIN overlay |->
     CASE a \notin DOMAIN overlay -> base[a]
       [] a \notin DOMAIN base    -> overlay[a]
       [] OTHER                   -> MergeAccount(base[a], overlay[a])]
-----------------------------------------------------------------------------
(* The state under overrides, as debug_traceCall applies them.             *)
ViewAccount(c, o) ==
  [storage |-> [s \in Slots |->
     IF o.state # None
     THEN IF s \in DOMAIN o.state THEN o.state[s] ELSE Zero
     ELSE IF o.state_diff # None
          THEN IF s \in DOMAIN o.state_diff THEN o.state_diff[s] ELSE c.storage[s]
          ELSE c.storage[s]],
   field |-> IF o.field # None THEN o.field ELSE c.field]

View(w, ov) == [a \in Addrs |-> IF a \in DOMAIN ov THEN ViewAccount(w[a], ov[a])
                                                   ELSE w[a]]

(* The diff of the prestate tracer between two states.  `pre' has the      *)
(* changed accounts that were alive, with the changed slots that were not  *)
(* zero; `post' has the changed accounts that are alive, with the changed  *)
(* slots that are not zero now and the field if it changed.                *)
Changed(p, q) == {a \in Addrs : p[a] # q[a]}

ChangedSlots(c, d) == {s \in Slots : c.storage[s] # d.storage[s]}

Pre(p, q) ==
  [a \in {a \in Changed(p, q) : p[a] # Dead} |->
     {s \in ChangedSlots(p[a], q[a]) : p[a].storage[s] # Zero}]

Post(p, q) ==
  [a \in {a \in Changed(p, q) : q[a] # Dead} |->
     [storage |-> [s \in {s \in ChangedSlots(p[a], q[a]) : q[a].storage[s] # Zero}
                     |-> q[a].storage[s]],
      field |-> IF p[a].field # q[a].field THEN q[a].field ELSE None]]

(* The slots an account had before and has no more were cleared.  The      *)
(* mutant takes the slots of the tracer's post state as they are.          *)
MutantClearedForgotten(before, storage) == storage

WithCleared(before, storage) ==
  Insert([s \in before |-> Zero], storage)

(* state_overrides_from_diff(): an account that is only in `pre' is gone,  *)
(* and one with nothing to override is left out.                           *)
Written(pre, post, a) ==
  LET diff == WithCleared(IF a \in DOMAIN pre THEN pre[a] ELSE {}, post[a].storage)
  IN  [state |-> None,
       state_diff |-> IF DOMAIN diff = {} THEN None ELSE diff,
       field |-> post[a].field]

Removed == [state |-> NoSlots, state_diff |-> None, field |-> Zero]

FromDiff(pre, post) ==
  [a \in {b \in DOMAIN post : Written(pre, post, b) # NoOverride}
           \cup (DOMAIN pre \ DOMAIN post) |->
     IF a \in DOMAIN post THEN Written(pre, post, a) ELSE Removed]
-----------------------------------------------------------------------------
(* What a transaction does to an account: destroy it, or write some slots  *)
(* and perhaps the field.                                                  *)
Destroy == [destroy |-> TRUE, storage |-> NoSlots, field |-> None]

Effects == {Destroy} \cup
           [destroy : {FALSE}, storage : Maps, field : Values \cup {None}]

RunOn(e, c) ==
  IF e.destroy THEN Dead
  ELSE [storage |-> Insert(c.storage, e.storage), field |-> Or(e.field, c.field)]

Run(tx, w) == [a \in Addrs |-> RunOn(tx[a], w[a])]

(* build_mailbox_state_overrides() for the messages of an XT's fulfilled   *)
(* dependencies, and the state after the putInbox transactions that carry  *)
(* them on chain in front of the XT.                                       *)
Delivered(puts, v) ==
  [a \in {p[1] : p \in puts} |->
     [NoOverride EXCEPT !.state_diff = [s \in {t \in Slots : <<a, t>> \in puts} |-> v]]]

AfterPuts(w, puts, v) ==
  [a \in Addrs |-> [w[a] EXCEPT !.storage =
     [s \in Slots |-> IF <<a, s>> \in puts THEN v ELSE @[s]]]]

Init ==
  /\ chain \in [Addrs -> Accounts]
  /\ world = chain
  /\ overrides = [a \in {} |-> NoOverride]
  /\ untraced = FALSE

(* simulate_with_mailbox() of an XT's transaction and                      *)
(* record_simulation_state(): the transaction runs under the overrides and *)
(* those of the mailbox, and the diff of the transaction is recorded.      *)
Simulate(tx, puts, v) ==
  LET pre  == View(chain, Merge(overrides, Delivered(puts, v)))
      post == Run(tx, pre)
  IN  /\ overrides' = Merge(overrides, FromDiff(Pre(pre, post), Post(pre, post)))
      /\ world' = Run(tx, AfterPuts(world, puts, v))
      /\ UNCHANGED <<chain, untraced>>

(* optional_trace_state_overrides(): the simulation stands when only the   *)
(* prestate trace failed, and nothing is recorded.                         *)
SimulateUntraced(tx, puts, v) ==
  /\ world' = Run(tx, AfterPuts(world, puts, v))
  /\ untraced' = TRUE
  /\ UNCHANGED <<chain, overrides>>

Next ==
  \E tx \in [Addrs -> Effects], puts \in SUBSET Puts, v \in Values :
    Simulate(tx, puts, v) \/ SimulateUntraced(tx, puts, v)

Spec == Init /\ [][Next]_vars
-----------------------------------------------------------------------------
(* The shape of the overrides: none with both `state' and `state_diff',    *)
(* which the RPC would refuse.                                             *)
TypeOK ==
  /\ chain \in [Addrs -> Accounts] /\ world \in [Addrs -> Accounts]
  /\ DOMAIN overrides \subseteq Addrs
  /\ \A a \in DOMAIN overrides : overrides[a] \in AccountOverrides
  /\ untraced \in BOOLEAN

(* Two states agree up to the inbox entries.                               *)
Agree(w, u) ==
  \A a \in Addrs :
    /\ w[a].field = u[a].field
    /\ \A s \in Slots : <<a, s>> \notin Puts => w[a].storage[s] = u[a].storage[s]

(* As long as the traces succeed, the next simulation starts from the      *)
(* state the transactions so far leave, up to the inbox entries that other *)
(* transactions write: the accumulated overrides over the chain show what  *)
(* was written, cleared, destroyed and created again.                      *)
OverlayIsPostState == untraced \/ Agree(View(chain, overrides), world)
-----------------------------------------------------------------------------
(* model/chain_overlay.rs: the overlay gives "the post-state of previously *)
(* committed local XTs", inbox entries included.  This does not hold: the  *)
(* putInbox transactions in front of an XT are not recorded.               *)
OverlayHasInbox == untraced \/ View(chain, overrides) = world
=============================================================================

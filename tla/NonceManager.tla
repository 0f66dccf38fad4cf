---------------------------- MODULE NonceManager ----------------------------
(***************************************************************************)
(* DeferredNonceManager: the per-XT reservations of the nonces with which  *)
(* the sidecar signs its putInbox transactions.  Every operation runs      *)
(* under one mutex, which reserve() keeps across its fetch of the          *)
(* canonical nonce, so each operation is one action.                       *)
(*                                                                         *)
(* The field `initialized' is written and never read, and is left out.  A  *)
(* reserve() whose fetch fails returns before it changes anything, so it   *)
(* is a stuttering step.                                                   *)
(***************************************************************************)
EXTENDS FiniteSetsExt

CONSTANTS
  Instances,    \* instance ids of the XTs that may own a reservation
  MaxU64,       \* the largest nonce of the width the code uses
  MaxCount      \* the largest number of nonces one XT asks for

ASSUME NonceAssumption ==
  /\ MaxU64 \in Nat
  /\ MaxCount \in Nat

VARIABLES
  canonical_floor,  \* lower bound of every nonce still to be handed out
  live,             \* the map instance id -> [start, end), as a set of entries
  recycled,         \* nonces of aborted reservations, free to be reissued
  consumed          \* ghost: nonces release_confirmed() reported as included

vars == <<canonical_floor, live, recycled, consumed>>

Nonce == 0 .. MaxU64

ReservedRange == [id : Instances, start : Nonce, end : Nonce]

Nonces(r) == r.start .. (r.end - 1)

(* Mutant: an addition that does not stop at the width of the nonce.       *)
MutantPlainAdd(a, b) == a + b

SaturatingAdd(a, b) == IF a + b > MaxU64 THEN MaxU64 ELSE a + b

(* Mutant: the cursor follows the floor and forgets the live ranges.       *)
MutantLiveEndIsFloor(ranges, floor) == floor

LiveEnd(ranges, floor) == Max({r.end : r \in ranges} \cup {floor})

(* Mutant: an exact resynchronisation with the fetched nonce.              *)
MutantExactResync(canonical) == canonical

RaisedFloor(canonical) == Max({canonical_floor, canonical})

Free(floor) == {n \in recycled : n >= floor}

Kept(floor) == {r \in live : r.end > floor}

(* A single nonce fills the lowest recycled gap; a longer run never does.  *)
Start(count, floor) ==
  IF count = 1 /\ Free(floor) # {} THEN Min(Free(floor))
                                   ELSE LiveEnd(Kept(floor), floor)

Owned(id) == {r \in live : r.id = id}

OwnedNonces(id) == UNION {Nonces(r) : r \in Owned(id)}
-----------------------------------------------------------------------------
Init ==
  /\ canonical_floor = 0
  /\ live = {}
  /\ recycled = {}
  /\ consumed = {}

(***************************************************************************)
(* The outcome of reserve(): the floor takes in the fetched nonce, entries *)
(* the chain has passed are trimmed, and the run starts at the lowest      *)
(* recycled nonce (for a single nonce only) or after the last live range.  *)
(***************************************************************************)
Reserve(id, count, canonical) ==
  LET floor == RaisedFloor(canonical)
      start == Start(count, floor)
      end   == SaturatingAdd(start, count)
  IN  /\ canonical_floor' = floor
      /\ recycled' = Free(floor) \ (start .. (end - 1))
      /\ live' = {r \in Kept(floor) : r.id # id}
                   \cup {[id |-> id, start |-> start, end |-> end]}
      /\ UNCHANGED consumed

(* Mutant: a confirmed range is dropped and the floor left behind.         *)
MutantConfirmKeepsFloor(id) ==
  /\ live' = live \ Owned(id)
  /\ consumed' = consumed \cup OwnedNonces(id)
  /\ UNCHANGED <<canonical_floor, recycled>>

ReleaseConfirmed(id) ==
  /\ live' = live \ Owned(id)
  /\ canonical_floor' = Max({r.end : r \in Owned(id)} \cup {canonical_floor})
  /\ consumed' = consumed \cup OwnedNonces(id)
  /\ UNCHANGED recycled

(* Mutant: the entry is removed and its nonces are forgotten.              *)
MutantAbortDropsNonces(id) ==
  /\ live' = live \ Owned(id)
  /\ UNCHANGED <<recycled, canonical_floor, consumed>>

ReleaseAborted(id) ==
  /\ live' = live \ Owned(id)
  /\ recycled' = recycled \cup {n \in OwnedNonces(id) : n >= canonical_floor}
  /\ UNCHANGED <<canonical_floor, consumed>>

Reset ==
  /\ canonical_floor' = 0
  /\ live' = {}
  /\ recycled' = {}
  /\ consumed' = {}

(***************************************************************************)
(* The coordinator releases an XT to the builder, and so reserves for it,  *)
(* once: when its decision becomes commit.  Hence no XT reserves while it  *)
(* still owns a range.  The fetched canonical nonce is whatever the chain  *)
(* endpoint answers, stale answers included.                               *)
(***************************************************************************)
Next ==
  \/ \E id \in Instances, count \in 1 .. MaxCount, canonical \in Nonce :
       Owned(id) = {} /\ Reserve(id, count, canonical)
  \/ \E id \in Instances : ReleaseConfirmed(id)
  \/ \E id \in Instances : ReleaseAborted(id)
  \/ Reset

Spec == Init /\ [][Next]_vars
-----------------------------------------------------------------------------
Live(n) == \E r \in live : n \in Nonces(r)

Held(n) == Live(n) \/ n \in recycled

(* The fields of Inner hold u64 values, ranges run forward, and an XT owns *)
(* at most one range.                                                      *)
TypeOK ==
  /\ canonical_floor \in Nonce
  /\ live \subseteq ReservedRange
  /\ \A r \in live : r.start <= r.end
  /\ \A r, s \in live : r.id = s.id => r = s
  /\ recycled \subseteq Nonce
  /\ consumed \subseteq Nonce

(* No nonce is reserved for two XTs at once: reserve() never hands out a   *)
(* nonce an in-flight putInbox transaction was signed with.                *)
LiveDisjoint ==
  \A r, s \in live : r # s => Nonces(r) \cap Nonces(s) = {}

(* A nonce in the recycled pool belongs to no live reservation, so that    *)
(* reissuing it cannot collide.                                            *)
RecycledNotLive == \A n \in recycled : ~Live(n)

(* Every nonce has at most one owner, one live reservation or the recycled *)
(* pool, whatever the order of reservations, confirmations and aborts.     *)
OneOwner == LiveDisjoint /\ RecycledNotLive

(* release_aborted() strands nothing: below any reserved or recycled nonce *)
(* every nonce down to the floor is itself reserved or recycled, so the    *)
(* lane has no gap that later putInbox transactions would wait behind.     *)
NoStrandedNonce ==
  \A n, m \in Nonce :
    canonical_floor <= n /\ n < m /\ Held(m) => Held(n)

(* A nonce the chain consumed is never reserved again before a reset, even *)
(* when reserve() fetches a canonical nonce that lags behind.              *)
ConsumedNotReissued == \A n \in consumed : ~Live(n)

(* Only reset() lowers the floor; and a range enters `live' entirely at or *)
(* above the floor of that moment.                                         *)
FloorRespected ==
  [][ \/ Reset
      \/ /\ canonical_floor' >= canonical_floor
         /\ \A r \in live' \ live : r.start >= canonical_floor' ]_vars

(* The module comment of nonce_manager.rs: aborted ranges are recycled "so *)
(* the next XT can reissue the same nonce".  A reservation leaves no       *)
(* recycled nonce behind below its own start.                              *)
AbortedNonceReissuedNext ==
  [][ \A r \in live' \ live : \A n \in recycled' : n >= r.start ]_vars
=============================================================================

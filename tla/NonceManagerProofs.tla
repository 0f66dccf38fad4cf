------------------------- MODULE NonceManagerProofs -------------------------
(***************************************************************************)
(* Proofs about the putInbox nonce lane, for every set of XT instances,    *)
(* every nonce width MaxU64 and every reservation size MaxCount.           *)
(***************************************************************************)
EXTENDS NonceManager, WellFoundedInduction, TLAPS

(***************************************************************************)
(* The strengthening that makes the invariants inductive.  Consumed nonces *)
(* lie below the floor, so no later reservation reaches them; and the last *)
(* nonce below the end of a range is itself held, also when the range is   *)
(* empty because its end saturated, so a new range that starts at the      *)
(* highest end leaves no gap behind.                                       *)
(***************************************************************************)
ConsumedBelowFloor == \A n \in consumed : n < canonical_floor

EndsHeld == \A r \in live : r.end > canonical_floor => Held(r.end - 1)

IInv ==
  /\ TypeOK
  /\ LiveDisjoint
  /\ RecycledNotLive
  /\ ConsumedBelowFloor
  /\ ConsumedNotReissued
  /\ NoStrandedNonce
  /\ EndsHeld
-----------------------------------------------------------------------------
(* A set of nonces has a least element, which is what Min chooses.         *)
LEMMA MinOfNonces ==
  ASSUME NEW S \in SUBSET Nonce, S # {}
  PROVE  Min(S) \in S /\ \A y \in S : Min(S) <= y
<1>1. S \subseteq Nat
  BY NonceAssumption DEF Nonce
<1>2. PICK x \in S : \A y \in S : ~(<<y, x>> \in OpToRel(<, Nat))
  BY <1>1, WFMin, NatLessThanWellFounded, Zenon
<1>3. \A y \in S : ~(y < x)
  BY <1>1, <1>2, Zenon DEF OpToRel
<1>4. \A y \in S : x <= y
  BY <1>1, <1>3
<1> QED
  BY <1>4 DEF Min

(* A set of nonces has a greatest element, which is what Max chooses: the  *)
(* nonce at the least distance from MaxU64.                                *)
LEMMA MaxOfNonces ==
  ASSUME NEW S \in SUBSET Nonce, S # {}
  PROVE  Max(S) \in S /\ \A y \in S : Max(S) >= y
<1> DEFINE T == {MaxU64 - x : x \in S}
<1>1. T \in SUBSET Nonce /\ T # {}
  <2>1. \A x \in S : MaxU64 - x \in Nonce
    BY NonceAssumption DEF Nonce
  <2> QED
    BY <2>1
<1>2. Min(T) \in T /\ \A y \in T : Min(T) <= y
  BY <1>1, MinOfNonces, Zenon
<1>3. PICK x \in S : Min(T) = MaxU64 - x
  BY <1>2, Zenon
<1>4. \A y \in S : x >= y
  <2> TAKE y \in S
  <2>1. MaxU64 - x <= MaxU64 - y
    BY <1>2, <1>3
  <2> QED
    BY <2>1, NonceAssumption DEF Nonce
<1> QED
  BY <1>4 DEF Max

(* Where reserve() starts: at a free recycled nonce, or at a cursor that   *)
(* no kept range reaches and below which every nonce down to the floor is  *)
(* already held.                                                           *)
LEMMA ReserveStart ==
  ASSUME IInv, NEW count \in 1 .. MaxCount, NEW canonical \in Nonce
  PROVE  LET floor == RaisedFloor(canonical)
             start == Start(count, floor)
             end   == SaturatingAdd(start, count)
         IN  /\ floor \in Nonce /\ floor >= canonical_floor
             /\ start \in Nonce /\ start >= floor
             /\ end \in Nonce /\ start <= end
             /\ \/ /\ start \in Free(floor)
                   /\ end <= start + 1
                \/ /\ \A r \in Kept(floor) : r.end <= start
                   /\ \A n \in Nonce : floor <= n /\ n < start => Held(n)
                   /\ start > floor => Held(start - 1)
<1> DEFINE floor == RaisedFloor(canonical)
           free  == Free(floor)
           kept  == Kept(floor)
           start == Start(count, floor)
           end   == SaturatingAdd(start, count)
<1>1. floor \in Nonce /\ floor >= canonical_floor
  <2>1. {canonical_floor, canonical} \in SUBSET Nonce
    BY DEF IInv, TypeOK
  <2> QED
    BY <2>1, MaxOfNonces DEF RaisedFloor
<1>2. free \in SUBSET Nonce /\ \A n \in free : n >= floor
  BY DEF IInv, TypeOK, Free
<1>3. \A r \in kept : r.end \in Nonce /\ r.end > floor
  BY DEF IInv, TypeOK, ReservedRange, Kept
<1>4. CASE count = 1 /\ free # {}
  <2>1. start \in free
    BY <1>2, <1>4, MinOfNonces DEF Start
  <2>2. end = SaturatingAdd(start, 1)
    BY <1>4
  <2> QED
    BY <1>1, <1>2, <2>1, <2>2, NonceAssumption DEF SaturatingAdd, Nonce
<1>5. CASE ~(count = 1 /\ free # {})
  <2> DEFINE S == {r.end : r \in kept} \cup {floor}
  <2>1. S \in SUBSET Nonce /\ S # {}
    BY <1>1, <1>3
  <2>2. start = Max(S)
    BY <1>5 DEF LiveEnd, Start
  <2> HIDE DEF S
  <2>3. start \in S /\ \A y \in S : start >= y
    BY <2>1, <2>2, MaxOfNonces
  <2> USE DEF S
  <2>4. start \in Nonce /\ start >= floor /\ \A r \in kept : r.end <= start
    BY <1>1, <1>3, <2>1, <2>3 DEF Nonce
  <2>5. end \in Nonce /\ start <= end
    BY <2>4, NonceAssumption DEF SaturatingAdd, Nonce
  <2>6. ASSUME start > floor
        PROVE  Held(start - 1)
    <3>1. PICK r \in kept : start = r.end
      BY <1>1, <2>3, <2>6 DEF Nonce
    <3>2. r \in live /\ r.end > canonical_floor
      BY <1>1, <1>3, <3>1 DEF IInv, TypeOK, Nonce, Kept
    <3> QED
      BY <3>1, <3>2 DEF IInv, EndsHeld
  <2>7. ASSUME NEW n \in Nonce, floor <= n, n < start
        PROVE  Held(n)
    <3>1. Held(start - 1)
      BY <1>1, <2>4, <2>6, <2>7 DEF Nonce
    <3>2. canonical_floor <= n /\ start - 1 \in Nonce
      BY <1>1, <2>4, <2>7, NonceAssumption DEF IInv, TypeOK, Nonce
    <3>3. n = start - 1 \/ n < start - 1
      BY <2>4, <2>7 DEF Nonce
    <3> QED
      BY <3>1, <3>2, <3>3 DEF IInv, NoStrandedNonce
  <2> QED
    BY <1>1, <2>4, <2>5, <2>6, <2>7
<1> QED
  BY <1>4, <1>5

(* reserve() for an XT that owns no range keeps the invariant.             *)
LEMMA ReserveKeepsIInv ==
  ASSUME IInv,
         NEW id \in Instances, NEW count \in 1 .. MaxCount,
         NEW canonical \in Nonce,
         Owned(id) = {}, Reserve(id, count, canonical)
  PROVE  IInv'
<1> DEFINE floor == RaisedFloor(canonical)
           free  == Free(floor)
           kept  == Kept(floor)
           start == Start(count, floor)
           end   == SaturatingAdd(start, count)
           new   == [id |-> id, start |-> start, end |-> end]
<1>1. /\ canonical_floor' = floor
      /\ recycled' = free \ (start .. (end - 1))
      /\ live' = {r \in kept : r.id # id} \cup {new}
      /\ consumed' = consumed
  BY DEF Reserve
<1>2. /\ floor \in Nonce /\ floor >= canonical_floor
      /\ start \in Nonce /\ start >= floor
      /\ end \in Nonce /\ start <= end
      /\ \/ /\ start \in free
            /\ end <= start + 1
         \/ /\ \A r \in kept : r.end <= start
            /\ \A n \in Nonce : floor <= n /\ n < start => Held(n)
            /\ start > floor => Held(start - 1)
  BY ReserveStart
<1>3. \A r \in live : r.id # id
  BY DEF Owned
<1>4. /\ new \in ReservedRange
      /\ new.id = id /\ new.start = start /\ new.end = end
  BY <1>2 DEF ReservedRange
<1>5. live' = kept \cup {new}
  BY <1>1, <1>3 DEF Kept
<1>6. \A r \in kept : r \in live /\ r.end > floor
  BY DEF Kept
<1>7. \A n \in free : n \in recycled /\ n >= floor
  BY DEF Free
<1>8. \A r \in live : r \in kept \/ ~(r.end > floor)
  BY DEF Kept
<1>9. \A n \in recycled : n \in free \/ ~(n >= floor)
  BY DEF Free
<1> HIDE DEF floor, free, kept, start, end, new
<1>10. \A r \in live : /\ r.start \in Nonce /\ r.end \in Nonce
                       /\ r.start <= r.end
  BY DEF IInv, TypeOK, ReservedRange
<1>11. canonical_floor \in Nonce /\ recycled \subseteq Nonce
  BY DEF IInv, TypeOK
<1>12. Nonces(new) = start .. (end - 1)
  BY <1>4 DEF Nonces
<1>13. TypeOK'
  BY <1>1, <1>2, <1>3, <1>4, <1>5, <1>6, <1>7 DEF IInv, TypeOK
<1>14. \A r \in kept : Nonces(r) \cap Nonces(new) = {}
  <2> SUFFICES ASSUME NEW r \in kept, NEW n \in Nonces(r), n \in Nonces(new)
               PROVE  FALSE
    OBVIOUS
  <2>1. r \in live /\ n \in Int /\ n < r.end
    BY <1>6, <1>10 DEF Nonces, Nonce
  <2>2. start <= n /\ n < end
    BY <1>2, <1>12, <2>1 DEF Nonce
  <2>3. CASE start \in free /\ end <= start + 1
    <3>1. n = start
      BY <1>2, <2>1, <2>2, <2>3 DEF Nonce
    <3> QED
      BY <1>7, <2>1, <2>3, <3>1 DEF IInv, RecycledNotLive, Live
  <2>4. CASE \A s \in kept : s.end <= start
    BY <1>2, <1>10, <2>1, <2>2, <2>4 DEF Nonce
  <2> QED
    BY <1>2, <2>3, <2>4
<1>15. LiveDisjoint'
  <2>1. \A r, s \in kept : r # s => Nonces(r) \cap Nonces(s) = {}
    BY <1>6 DEF IInv, LiveDisjoint
  <2>2. \A r, s \in live' : r # s => Nonces(r) \cap Nonces(s) = {}
    BY <1>5, <1>14, <2>1
  <2> QED
    BY <2>2 DEF LiveDisjoint, Nonces
<1>16. RecycledNotLive'
  <2>1. \A n \in recycled' : n \in recycled /\ n \notin Nonces(new)
    BY <1>1, <1>7, <1>12
  <2>2. \A n \in recycled : \A r \in kept : n \notin Nonces(r)
    BY <1>6 DEF IInv, RecycledNotLive, Live
  <2>3. \A n \in recycled' : \A r \in live' : n \notin Nonces(r)
    BY <1>5, <2>1, <2>2
  <2> QED
    BY <2>3 DEF RecycledNotLive, Live, Nonces
<1>17. ConsumedBelowFloor'
  BY <1>1, <1>2, <1>11 DEF IInv, TypeOK, ConsumedBelowFloor, Nonce
<1>18. ConsumedNotReissued'
  <2>1. \A n \in consumed : n < floor /\ n \in Nonce
    BY <1>2, <1>11 DEF IInv, TypeOK, ConsumedBelowFloor, Nonce
  <2>2. \A n \in consumed : n \notin Nonces(new)
    BY <1>2, <1>12, <2>1 DEF Nonce
  <2>3. \A n \in consumed : \A r \in kept : n \notin Nonces(r)
    BY <1>6 DEF IInv, ConsumedNotReissued, Live
  <2>4. \A n \in consumed' : \A r \in live' : n \notin Nonces(r)
    BY <1>1, <1>5, <2>2, <2>3
  <2> QED
    BY <2>4 DEF ConsumedNotReissued, Live, Nonces
<1>19. \A n \in Nonce : n >= floor /\ Held(n) => Held(n)'
  <2> SUFFICES ASSUME NEW n \in Nonce, n >= floor, Held(n)
               PROVE  Held(n)'
    OBVIOUS
  <2>1. CASE Live(n)
    <3>1. PICK r \in live : n \in Nonces(r)
      BY <2>1 DEF Live
    <3>2. r \in kept
      BY <1>2, <1>8, <1>10, <3>1 DEF Nonces, Nonce
    <3> QED
      BY <1>5, <3>1, <3>2 DEF Held, Live, Nonces
  <2>2. CASE n \in recycled
    <3>1. n \in recycled' \/ n \in Nonces(new)
      BY <1>1, <1>9, <1>12, <2>2
    <3> QED
      BY <1>5, <3>1 DEF Held, Live, Nonces
  <2> QED
    BY <2>1, <2>2 DEF Held
<1>20. \A n \in Nonce : Held(n)' => Held(n) \/ n \in Nonces(new)
  <2>1. \A n \in Nonce : Live(n)' => n \in Nonces(new) \/ Live(n)
    BY <1>5, <1>6 DEF Live, Nonces
  <2>2. recycled' \subseteq recycled
    BY <1>1, <1>7
  <2> QED
    BY <2>1, <2>2 DEF Held
<1>21. NoStrandedNonce'
  <2> SUFFICES ASSUME NEW n \in Nonce, NEW m \in Nonce,
                      floor <= n, n < m, Held(m)'
               PROVE  Held(n)'
    BY <1>1 DEF NoStrandedNonce
  <2>1. CASE Held(m)
    <3>1. Held(n)
      BY <1>2, <1>11, <2>1 DEF IInv, NoStrandedNonce, Nonce
    <3> QED
      BY <1>2, <1>19, <3>1 DEF Nonce
  <2>2. CASE m \in Nonces(new)
    <3>1. start <= m /\ m < end
      BY <1>2, <1>12, <2>2 DEF Nonce
    <3>2. CASE n >= start
      <4>1. n \in Nonces(new)
        BY <1>2, <1>12, <3>1, <3>2 DEF Nonce
      <4> QED
        BY <1>5, <4>1 DEF Held, Live, Nonces
    <3>3. CASE n < start
      <4>1. Held(n)
        <5>1. CASE start \in free
          <6>1. Held(start) /\ canonical_floor <= n
            BY <1>2, <1>7, <1>11, <5>1 DEF Held, Nonce
          <6> QED
            BY <1>2, <3>3, <6>1 DEF IInv, NoStrandedNonce
        <5>2. CASE \A k \in Nonce : floor <= k /\ k < start => Held(k)
          BY <3>3, <5>2
        <5> QED
          BY <1>2, <5>1, <5>2
      <4> QED
        BY <1>2, <1>19, <4>1 DEF Nonce
    <3> QED
      BY <1>2, <3>2, <3>3 DEF Nonce
  <2> QED
    BY <1>20, <2>1, <2>2
<1>22. EndsHeld'
  <2> SUFFICES ASSUME NEW r \in live', r.end > floor
               PROVE  Held(r.end - 1)'
    BY <1>1 DEF EndsHeld
  <2>1. CASE r \in kept
    <3>1. r.end > canonical_floor /\ r.end - 1 \in Nonce /\ r.end - 1 >= floor
      BY <1>2, <1>6, <1>10, <1>11, <2>1, NonceAssumption DEF Nonce
    <3>2. Held(r.end - 1)
      BY <1>6, <2>1, <3>1 DEF IInv, EndsHeld
    <3> QED
      BY <1>19, <3>1, <3>2
  <2>2. CASE r = new
    <3>1. CASE start < end
      <4>1. end - 1 \in Nonces(new)
        BY <1>2, <1>12, <3>1 DEF Nonce
      <4> QED
        BY <1>4, <1>5, <2>2, <4>1 DEF Held, Live, Nonces
    <3>2. CASE start = end
      <4>1. end - 1 \in Nonce /\ end - 1 >= floor
        BY <1>2, <1>4, <2>2, NonceAssumption DEF Nonce
      <4>2. Held(end - 1)
        <5>1. CASE start \in free
          <6>1. Held(start) /\ canonical_floor <= end - 1 /\ end - 1 < start
            BY <1>2, <1>7, <1>11, <3>2, <4>1, <5>1 DEF Held, Nonce
          <6> QED
            BY <1>2, <4>1, <6>1 DEF IInv, NoStrandedNonce
        <5>2. CASE start > floor => Held(start - 1)
          BY <1>2, <1>4, <2>2, <3>2, <5>2
        <5> QED
          BY <1>2, <5>1, <5>2
      <4> QED
        BY <1>4, <1>19, <2>2, <4>1, <4>2
    <3> QED
      BY <1>2, <3>1, <3>2 DEF Nonce
  <2> QED
    BY <1>5, <2>1, <2>2
<1> QED
  BY <1>13, <1>15, <1>16, <1>17, <1>18, <1>21, <1>22 DEF IInv

(* The floor after release_confirmed(): not below the old one, nor below   *)
(* the end of the range it removes.                                        *)
LEMMA ConfirmedFloor ==
  ASSUME TypeOK, NEW id \in Instances, ReleaseConfirmed(id)
  PROVE  /\ canonical_floor' \in Nonce
         /\ canonical_floor' >= canonical_floor
         /\ \A r \in Owned(id) : canonical_floor' >= r.end
<1> DEFINE S == {r.end : r \in Owned(id)} \cup {canonical_floor}
<1>1. S \in SUBSET Nonce /\ S # {}
  BY DEF TypeOK, ReservedRange, Owned
<1>2. canonical_floor' = Max(S)
  BY DEF ReleaseConfirmed
<1> HIDE DEF S
<1>3. canonical_floor' \in S /\ \A y \in S : canonical_floor' >= y
  BY <1>1, <1>2, MaxOfNonces
<1> QED
  BY <1>1, <1>3 DEF S

(* release_confirmed() keeps the invariant.                                *)
LEMMA ConfirmKeepsIInv ==
  ASSUME IInv, NEW id \in Instances, ReleaseConfirmed(id)
  PROVE  IInv'
<1>1. /\ live' = live \ Owned(id)
      /\ recycled' = recycled
      /\ consumed' = consumed \cup OwnedNonces(id)
  BY DEF ReleaseConfirmed
<1>2. /\ canonical_floor' \in Nonce
      /\ canonical_floor' >= canonical_floor
      /\ \A r \in Owned(id) : canonical_floor' >= r.end
  BY ConfirmedFloor DEF IInv
<1>3. \A r \in live : /\ r.start \in Nonce /\ r.end \in Nonce
                      /\ r.start <= r.end
  BY DEF IInv, TypeOK, ReservedRange
<1>4. Owned(id) \subseteq live
  BY DEF Owned
<1>5. \A n \in OwnedNonces(id) : n \in Nonce /\ n < canonical_floor'
  <2> SUFFICES ASSUME NEW r \in Owned(id), NEW n \in Nonces(r)
               PROVE  n \in Nonce /\ n < canonical_floor'
    BY DEF OwnedNonces
  <2>1. r.start \in Nonce /\ r.end \in Nonce /\ canonical_floor' >= r.end
    BY <1>2, <1>3, <1>4
  <2> QED
    BY <1>2, <2>1, NonceAssumption DEF Nonces, Nonce
<1>6. TypeOK'
  BY <1>1, <1>2, <1>5 DEF IInv, TypeOK
<1>7. LiveDisjoint'
  BY <1>1 DEF IInv, LiveDisjoint, Nonces
<1>8. RecycledNotLive'
  BY <1>1 DEF IInv, RecycledNotLive, Live, Nonces
<1>9. ConsumedBelowFloor'
  <2>1. \A n \in consumed : n < canonical_floor'
    BY <1>2 DEF IInv, TypeOK, ConsumedBelowFloor, Nonce
  <2> QED
    BY <1>1, <1>5, <2>1 DEF ConsumedBelowFloor
<1>10. ConsumedNotReissued'
  <2>1. \A n \in consumed : \A r \in live : n \notin Nonces(r)
    BY DEF IInv, ConsumedNotReissued, Live
  <2>2. \A n \in OwnedNonces(id) : \A r \in live' : n \notin Nonces(r)
    <3> SUFFICES ASSUME NEW q \in Owned(id), NEW n \in Nonces(q),
                        NEW r \in live', n \in Nonces(r)
                 PROVE  FALSE
      BY DEF OwnedNonces
    <3>1. q \in live /\ r \in live /\ q # r
      BY <1>1, <1>4
    <3> QED
      BY <3>1 DEF IInv, LiveDisjoint
  <2>3. \A n \in consumed' : \A r \in live' : n \notin Nonces(r)
    BY <1>1, <2>1, <2>2
  <2> QED
    BY <2>3 DEF ConsumedNotReissued, Live, Nonces
<1>11. \A n \in Nonce : n >= canonical_floor' /\ Held(n) => Held(n)'
  <2> SUFFICES ASSUME NEW n \in Nonce, n >= canonical_floor', Live(n)
               PROVE  Live(n)'
    BY <1>1 DEF Held
  <2>1. PICK r \in live : n \in Nonces(r)
    BY DEF Live
  <2>2. r \notin Owned(id)
    BY <1>2, <1>3, <2>1 DEF Nonces, Nonce
  <2> QED
    BY <1>1, <2>1, <2>2 DEF Live, Nonces
<1>12. \A n \in Nonce : Held(n)' => Held(n)
  BY <1>1 DEF Held, Live, Nonces
<1>13. NoStrandedNonce'
  <2> SUFFICES ASSUME NEW n \in Nonce, NEW m \in Nonce,
                      canonical_floor' <= n, n < m, Held(m)'
               PROVE  Held(n)'
    BY DEF NoStrandedNonce
  <2>1. Held(m) /\ canonical_floor <= n
    BY <1>2, <1>12 DEF IInv, TypeOK, Nonce
  <2>2. Held(n)
    BY <2>1 DEF IInv, NoStrandedNonce
  <2> QED
    BY <1>2, <1>11, <2>2 DEF Nonce
<1>14. EndsHeld'
  <2> SUFFICES ASSUME NEW r \in live', r.end > canonical_floor'
               PROVE  Held(r.end - 1)'
    BY DEF EndsHeld
  <2>1. /\ r \in live /\ r.end > canonical_floor
        /\ r.end - 1 \in Nonce /\ r.end - 1 >= canonical_floor'
    BY <1>1, <1>2, <1>3, NonceAssumption DEF IInv, TypeOK, Nonce
  <2>2. Held(r.end - 1)
    BY <2>1 DEF IInv, EndsHeld
  <2> QED
    BY <1>11, <2>1, <2>2
<1> QED
  BY <1>6, <1>7, <1>8, <1>9, <1>10, <1>13, <1>14 DEF IInv

(* release_aborted() keeps the invariant: it moves nonces from a range to  *)
(* the recycled pool, and holds on to every one at or above the floor.     *)
LEMMA AbortKeepsIInv ==
  ASSUME IInv, NEW id \in Instances, ReleaseAborted(id)
  PROVE  IInv'
<1>1. /\ live' = live \ Owned(id)
      /\ recycled' = recycled \cup
                       {n \in OwnedNonces(id) : n >= canonical_floor}
      /\ canonical_floor' = canonical_floor
      /\ consumed' = consumed
  BY DEF ReleaseAborted
<1>2. \A r \in live : /\ r.start \in Nonce /\ r.end \in Nonce
                      /\ r.start <= r.end
  BY DEF IInv, TypeOK, ReservedRange
<1>3. Owned(id) \subseteq live
  BY DEF Owned
<1>4. \A n \in OwnedNonces(id) : n \in Nonce /\ Live(n)
  BY <1>2, <1>3, NonceAssumption DEF OwnedNonces, Nonces, Nonce, Live
<1>5. TypeOK'
  BY <1>1, <1>4 DEF IInv, TypeOK
<1>6. LiveDisjoint'
  BY <1>1 DEF IInv, LiveDisjoint, Nonces
<1>7. RecycledNotLive'
  <2>1. \A n \in recycled : \A r \in live : n \notin Nonces(r)
    BY DEF IInv, RecycledNotLive, Live
  <2>2. \A n \in OwnedNonces(id) : \A r \in live' : n \notin Nonces(r)
    <3> SUFFICES ASSUME NEW q \in Owned(id), NEW n \in Nonces(q),
                        NEW r \in live', n \in Nonces(r)
                 PROVE  FALSE
      BY DEF OwnedNonces
    <3>1. q \in live /\ r \in live /\ q # r
      BY <1>1, <1>3
    <3> QED
      BY <3>1 DEF IInv, LiveDisjoint
  <2>3. \A n \in recycled' : \A r \in live' : n \notin Nonces(r)
    BY <1>1, <2>1, <2>2
  <2> QED
    BY <2>3 DEF RecycledNotLive, Live, Nonces
<1>8. ConsumedBelowFloor' /\ ConsumedNotReissued'
  BY <1>1 DEF IInv, ConsumedBelowFloor, ConsumedNotReissued, Live, Nonces
<1>9. \A n \in Nonce : n >= canonical_floor /\ Held(n) => Held(n)'
  <2> SUFFICES ASSUME NEW n \in Nonce, n >= canonical_floor, Live(n)
               PROVE  Held(n)'
    BY <1>1 DEF Held
  <2>1. PICK r \in live : n \in Nonces(r)
    BY DEF Live
  <2>2. CASE r \in Owned(id)
    BY <1>1, <2>1, <2>2 DEF Held, OwnedNonces
  <2>3. CASE r \notin Owned(id)
    BY <1>1, <2>1, <2>3 DEF Held, Live, Nonces
  <2> QED
    BY <2>2, <2>3
<1>10. \A n \in Nonce : Held(n)' => Held(n)
  BY <1>1, <1>4 DEF Held, Live, Nonces
<1>11. NoStrandedNonce'
  BY <1>1, <1>9, <1>10 DEF IInv, NoStrandedNonce
<1>12. EndsHeld'
  <2> SUFFICES ASSUME NEW r \in live', r.end > canonical_floor
               PROVE  Held(r.end - 1)'
    BY <1>1 DEF EndsHeld
  <2>1. /\ r \in live /\ r.end - 1 \in Nonce
        /\ r.end - 1 >= canonical_floor
    BY <1>1, <1>2, NonceAssumption DEF IInv, TypeOK, Nonce
  <2>2. Held(r.end - 1)
    BY <2>1 DEF IInv, EndsHeld
  <2> QED
    BY <1>9, <2>1, <2>2
<1> QED
  BY <1>5, <1>6, <1>7, <1>8, <1>11, <1>12 DEF IInv
-----------------------------------------------------------------------------
(* A new nonce manager, Inner::default(), satisfies the invariant.         *)
LEMMA InitIInv == Init => IInv
BY NonceAssumption
   DEF Init, IInv, TypeOK, LiveDisjoint, RecycledNotLive, ConsumedBelowFloor,
       ConsumedNotReissued, NoStrandedNonce, EndsHeld, Held, Live, Nonce

(* Every operation of the nonce manager keeps the invariant.               *)
LEMMA NextIInv == IInv /\ [Next]_vars => IInv'
<1> SUFFICES ASSUME IInv, [Next]_vars PROVE IInv'
  OBVIOUS
<1>1. CASE \E id \in Instances, count \in 1 .. MaxCount, canonical \in Nonce :
             Owned(id) = {} /\ Reserve(id, count, canonical)
  BY <1>1, ReserveKeepsIInv
<1>2. CASE \E id \in Instances : ReleaseConfirmed(id)
  BY <1>2, ConfirmKeepsIInv
<1>3. CASE \E id \in Instances : ReleaseAborted(id)
  BY <1>3, AbortKeepsIInv
<1>4. CASE Reset
  BY <1>4, NonceAssumption
     DEF Reset, IInv, TypeOK, LiveDisjoint, RecycledNotLive,
         ConsumedBelowFloor, ConsumedNotReissued, NoStrandedNonce, EndsHeld,
         Held, Live, Nonce
<1>5. CASE UNCHANGED vars
  BY <1>5
     DEF vars, IInv, TypeOK, LiveDisjoint, RecycledNotLive,
         ConsumedBelowFloor, ConsumedNotReissued, NoStrandedNonce, EndsHeld,
         Held, Live, Nonces
<1> QED
  BY <1>1, <1>2, <1>3, <1>4, <1>5 DEF Next

(* The strengthened invariant holds in every reachable state of the lane.  *)
THEOREM NonceLaneInvariant == Spec => []IInv
BY InitIInv, NextIInv, PTL DEF Spec

(* No nonce is reserved for two XTs at once, whatever the interleaving of  *)
(* reserve(), release_confirmed(), release_aborted() and reset().          *)
THEOREM NonceExclusive == Spec => []OneOwner
<1>1. IInv => OneOwner
  BY DEF IInv, OneOwner
<1> QED
  BY <1>1, NonceLaneInvariant, PTL

(* The state of the manager keeps its type: no nonce leaves the u64 range. *)
THEOREM NonceType == Spec => []TypeOK
<1>1. IInv => TypeOK
  BY DEF IInv
<1> QED
  BY <1>1, NonceLaneInvariant, PTL

(* release_aborted() never strands the lane behind a permanent gap.        *)
THEOREM NonceLaneHasNoGap == Spec => []NoStrandedNonce
<1>1. IInv => NoStrandedNonce
  BY DEF IInv
<1> QED
  BY <1>1, NonceLaneInvariant, PTL

(* A nonce release_confirmed() reported as included is not handed out      *)
(* again, even when reserve() fetches a canonical nonce that lags behind.  *)
THEOREM NonceNotReissued == Spec => []ConsumedNotReissued
<1>1. IInv => ConsumedNotReissued
  BY DEF IInv
<1> QED
  BY <1>1, NonceLaneInvariant, PTL

(* Only reset() lowers the floor, and reserve() hands out nonces at or     *)
(* above it.                                                               *)
THEOREM NonceFloorRespected == Spec => FloorRespected
<1> DEFINE A == \/ Reset
                \/ /\ canonical_floor' >= canonical_floor
                   /\ \A r \in live' \ live : r.start >= canonical_floor'
<1>1. IInv /\ [Next]_vars => [A]_vars
  <2> SUFFICES ASSUME IInv, Next PROVE A
    OBVIOUS
  <2>0. canonical_floor \in Nonce
    BY DEF IInv, TypeOK
  <2>1. ASSUME NEW id \in Instances, NEW count \in 1 .. MaxCount,
               NEW canonical \in Nonce, Reserve(id, count, canonical)
        PROVE  A
    <3> DEFINE floor == RaisedFloor(canonical)
               start == Start(count, floor)
               end   == SaturatingAdd(start, count)
    <3>1. /\ canonical_floor' = floor
          /\ \A r \in live' \ live :
               r = [id |-> id, start |-> start, end |-> end]
      BY <2>1 DEF Reserve, Kept
    <3>2. floor >= canonical_floor /\ start >= floor
      BY ReserveStart
    <3> QED
      BY <3>1, <3>2
  <2>2. ASSUME NEW id \in Instances, ReleaseConfirmed(id)
        PROVE  A
    BY <2>2, ConfirmedFloor DEF IInv, ReleaseConfirmed
  <2>3. ASSUME NEW id \in Instances, ReleaseAborted(id)
        PROVE  A
    BY <2>0, <2>3 DEF ReleaseAborted, Nonce
  <2> QED
    BY <2>1, <2>2, <2>3 DEF Next
<1> QED
  BY <1>1, NonceLaneInvariant, PTL DEF Spec, FloorRespected
=============================================================================

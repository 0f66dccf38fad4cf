------------------------ MODULE StateOverridesProofs ------------------------
(***************************************************************************)
(* The overrides that accumulate over a sequence of simulations are exact: *)
(* merging is composition of views, and the overrides built from a diff    *)
(* turn the state before a transaction into the state after it.            *)
(***************************************************************************)
EXTENDS StateOverrides, TLAPS

Worlds == [Addrs -> Accounts]

(* A map of overrides the RPC accepts.                                     *)
Acceptable(ov) == DOMAIN ov \subseteq Addrs
                  /\ \A x \in DOMAIN ov : ov[x] \in AccountOverrides

(* Functions on one set are equal when they agree on it.                   *)
LEMMA FunctionsAgree ==
  ASSUME NEW S, NEW f, NEW g,
         f = [x \in S |-> f[x]], g = [x \in S |-> g[x]],
         \A x \in S : f[x] = g[x]
  PROVE  f = g
<1>1. [x \in S |-> f[x]] = [x \in S |-> g[x]]
  OBVIOUS
<1>. QED
  BY <1>1, Zenon

(* A map of slots is a function on some of the slots.                      *)
LEMMA MapsDef ==
  ASSUME NEW m
  PROVE  m \in Maps <=> m \in [DOMAIN m -> Values] /\ DOMAIN m \subseteq Slots
BY SMT DEF Maps

(* None is no map.                                                         *)
LEMMA NoneIsNoMap == None \notin Maps
BY OverridesAssumption DEF Maps

(* Inserting a map into a map gives a map.                                 *)
LEMMA InsertType ==
  ASSUME NEW f \in Maps, NEW g \in Maps
  PROVE  Insert(f, g) \in Maps
<1>1. DOMAIN f \cup DOMAIN g \subseteq Slots
  BY MapsDef
<1>2. \A x \in DOMAIN f \cup DOMAIN g :
        (IF x \in DOMAIN g THEN g[x] ELSE f[x]) \in Values
  BY MapsDef
<1>3. Insert(f, g) \in [DOMAIN f \cup DOMAIN g -> Values]
  BY <1>2 DEF Insert
<1>. QED
  BY <1>1, <1>3 DEF Maps

(* What an account override is made of.                                    *)
LEMMA OverrideParts ==
  ASSUME NEW o \in AccountOverrides
  PROVE  /\ o = [state |-> o.state, state_diff |-> o.state_diff, field |-> o.field]
         /\ o.state # None => o.state \in Maps /\ o.state_diff = None
         /\ o.state_diff # None => o.state_diff \in Maps /\ o.state = None
         /\ o.field # None => o.field \in Values
BY DEF AccountOverrides

(* Merging two overrides of an account gives one the RPC accepts.          *)
LEMMA MergeAccountType ==
  ASSUME NEW b \in AccountOverrides, NEW o \in AccountOverrides
  PROVE  MergeAccount(b, o) \in AccountOverrides
<1>. DEFINE m == MergeAccount(b, o)
<1>1. NoSlots \in Maps
  BY OverridesAssumption DEF NoSlots, Maps
<1>2. m.state \in Maps \cup {None}
  BY OverrideParts, InsertType DEF MergeAccount
<1>3. m.state_diff \in Maps \cup {None}
  BY OverrideParts, InsertType, <1>1 DEF MergeAccount, Or
<1>4. m.field \in Values \cup {None}
  BY OverrideParts DEF MergeAccount, Or
<1>5. m.state = None \/ m.state_diff = None
  BY OverrideParts DEF MergeAccount
<1>6. m = [state |-> m.state, state_diff |-> m.state_diff, field |-> m.field]
  BY DEF MergeAccount
<1>7. m \in AccountOverrides
  <2>. HIDE DEF m
  <2>. QED
    BY <1>2, <1>3, <1>4, <1>5, <1>6 DEF AccountOverrides
<1>. QED
  BY <1>7

(* An account under an override is an account.                             *)
LEMMA ViewAccountType ==
  ASSUME NEW c \in Accounts, NEW o \in AccountOverrides
  PROVE  ViewAccount(c, o) \in Accounts
<1>1. \A x \in Slots : ViewAccount(c, o).storage[x] \in Values
  BY OverrideParts, MapsDef, OverridesAssumption DEF ViewAccount, Accounts
<1>2. ViewAccount(c, o).field \in Values
  BY OverrideParts DEF ViewAccount, Accounts
<1>. QED
  BY <1>1, <1>2 DEF ViewAccount, Accounts

(* The slots of an account under merged overrides are those under the one  *)
(* and then the other.                                                     *)
LEMMA MergeAccountSlots ==
  ASSUME NEW c, NEW b \in AccountOverrides, NEW o \in AccountOverrides,
         NEW x \in Slots
  PROVE  ViewAccount(c, MergeAccount(b, o)).storage[x]
           = ViewAccount(ViewAccount(c, b), o).storage[x]
<1>1. CASE o.state # None
  BY <1>1, OverrideParts DEF ViewAccount, MergeAccount
<1>2. CASE o.state = None /\ o.state_diff = None
  BY <1>2, OverrideParts DEF ViewAccount, MergeAccount
<1>3. CASE o.state = None /\ o.state_diff # None /\ b.state # None
  <2>1. Insert(b.state, o.state_diff) # None
    BY <1>3, OverrideParts, InsertType, NoneIsNoMap
  <2>. QED
    BY <1>3, <2>1, OverrideParts DEF ViewAccount, MergeAccount, Insert
<1>4. CASE o.state = None /\ o.state_diff # None /\ b.state = None
  <2>. DEFINE base == Or(b.state_diff, NoSlots)
  <2>1. base \in Maps
    BY OverrideParts, OverridesAssumption DEF Or, NoSlots, Maps
  <2>2. Insert(base, o.state_diff) # None
    BY <1>4, <2>1, OverrideParts, InsertType, NoneIsNoMap
  <2>3. ViewAccount(c, MergeAccount(b, o)).storage[x]
          = IF x \in DOMAIN base \cup DOMAIN o.state_diff
            THEN IF x \in DOMAIN o.state_diff THEN o.state_diff[x] ELSE base[x]
            ELSE c.storage[x]
    BY <1>4, <2>2 DEF ViewAccount, MergeAccount, Insert
  <2>4. ViewAccount(ViewAccount(c, b), o).storage[x]
          = IF x \in DOMAIN o.state_diff THEN o.state_diff[x]
            ELSE IF x \in DOMAIN base THEN base[x] ELSE c.storage[x]
    BY <1>4 DEF ViewAccount, Or, NoSlots
  <2>. QED
    BY <2>3, <2>4
<1>. QED
  BY <1>1, <1>2, <1>3, <1>4

(* An account under merged overrides is the account under the one and then *)
(* the other: merge_overrides() is composition.                            *)
LEMMA MergeAccountView ==
  ASSUME NEW c, NEW b \in AccountOverrides, NEW o \in AccountOverrides
  PROVE  ViewAccount(c, MergeAccount(b, o)) = ViewAccount(ViewAccount(c, b), o)
<1>. DEFINE l == ViewAccount(c, MergeAccount(b, o))
            r == ViewAccount(ViewAccount(c, b), o)
<1>1. l.field = r.field
  BY DEF ViewAccount, MergeAccount, Or
<1>2. l.storage = [x \in Slots |-> l.storage[x]] /\ r.storage = [x \in Slots |-> r.storage[x]]
  BY DEF ViewAccount
<1>3. l = [storage |-> l.storage, field |-> l.field]
      /\ r = [storage |-> r.storage, field |-> r.field]
  BY DEF ViewAccount
<1>4. \A x \in Slots : l.storage[x] = r.storage[x]
  BY MergeAccountSlots
<1>. HIDE DEF l, r
<1>5. l.storage = r.storage
  BY <1>2, <1>4, FunctionsAgree, Zenon
<1>6. l = r
  BY <1>1, <1>3, <1>5, Zenon
<1>. QED
  BY <1>6, Zenon DEF l, r

(* The same for whole maps of overrides.                                   *)
LEMMA MergeView ==
  ASSUME NEW w \in Worlds, NEW b, NEW o, Acceptable(b), Acceptable(o)
  PROVE  Acceptable(Merge(b, o)) /\ View(w, Merge(b, o)) = View(View(w, b), o)
<1>1. Acceptable(Merge(b, o))
  BY MergeAccountType DEF Acceptable, Merge
<1>2. ASSUME NEW x \in Addrs
      PROVE  View(w, Merge(b, o))[x] = View(View(w, b), o)[x]
  <2>1. CASE x \notin DOMAIN o
    BY <2>1 DEF View, Merge
  <2>2. CASE x \in DOMAIN o /\ x \notin DOMAIN b
    BY <2>2 DEF View, Merge
  <2>3. CASE x \in DOMAIN o /\ x \in DOMAIN b
    <3>1. View(w, Merge(b, o))[x] = ViewAccount(w[x], MergeAccount(b[x], o[x]))
      BY <2>3 DEF View, Merge
    <3>2. View(View(w, b), o)[x] = ViewAccount(ViewAccount(w[x], b[x]), o[x])
      BY <2>3 DEF View
    <3>. QED
      BY <2>3, <3>1, <3>2, MergeAccountView DEF Acceptable
  <2>. QED
    BY <2>1, <2>2, <2>3
<1>3. View(w, Merge(b, o)) = View(View(w, b), o)
  <2>. DEFINE l == View(w, Merge(b, o))
              r == View(View(w, b), o)
  <2>1. l = [x \in Addrs |-> l[x]] /\ r = [x \in Addrs |-> r[x]]
    BY DEF View
  <2>2. \A x \in Addrs : l[x] = r[x]
    BY <1>2, Zenon
  <2>. HIDE DEF l, r
  <2>3. l = r
    BY <2>1, <2>2, FunctionsAgree, Zenon
  <2>. QED
    BY <2>3, Zenon DEF l, r
<1>. QED
  BY <1>1, <1>3

(* Accounts are equal when their fields are and their slots agree.         *)
LEMMA AccountsAgree ==
  ASSUME NEW c \in Accounts, NEW d \in Accounts, c.field = d.field,
         \A x \in Slots : c.storage[x] = d.storage[x]
  PROVE  c = d
<1>1. c.storage \in [Slots -> Values] /\ d.storage \in [Slots -> Values]
  BY DEF Accounts
<1>2. c.storage = d.storage
  BY <1>1
<1>. QED
  BY <1>2 DEF Accounts

(* The slots that the overrides of a live, changed account write are the   *)
(* changed ones, cleared ones included, with their new values.             *)
LEMMA WrittenSlots ==
  ASSUME NEW c \in Accounts, NEW d \in Accounts,
         NEW before, before = {x \in ChangedSlots(c, d) : c.storage[x] # Zero},
         NEW after, after = [x \in {y \in ChangedSlots(c, d) : d.storage[y] # Zero}
                               |-> d.storage[x]]
  PROVE  /\ DOMAIN WithCleared(before, after) = ChangedSlots(c, d)
         /\ \A x \in ChangedSlots(c, d) : WithCleared(before, after)[x] = d.storage[x]
         /\ WithCleared(before, after) \in Maps
<1>. DEFINE m == WithCleared(before, after)
<1>1. DOMAIN m = before \cup DOMAIN after
  BY DEF WithCleared, Insert
<1>2. before \cup DOMAIN after = ChangedSlots(c, d)
  BY DEF ChangedSlots
<1>3. \A x \in ChangedSlots(c, d) : m[x] = d.storage[x]
  BY <1>2 DEF WithCleared, Insert
<1>4. m = [x \in ChangedSlots(c, d) |-> m[x]]
  BY <1>2, Zenon DEF WithCleared, Insert
<1>5. \A x \in ChangedSlots(c, d) : d.storage[x] \in Values
  BY DEF ChangedSlots, Accounts
<1>6. m \in [ChangedSlots(c, d) -> Values] /\ ChangedSlots(c, d) \in SUBSET Slots
  <2>. HIDE DEF m
  <2>. QED
    BY <1>3, <1>4, <1>5 DEF ChangedSlots
<1>7. m \in Maps
  <2>. HIDE DEF m
  <2>. QED
    BY <1>6 DEF Maps
<1>. QED
  BY <1>1, <1>2, <1>3, <1>7

(* state_overrides_from_diff() of an account that is alive after a         *)
(* transaction that changed it: there is something to override, and under  *)
(* it the account is the one after the transaction.                        *)
LEMMA WrittenView ==
  ASSUME NEW p \in Worlds, NEW q \in Worlds, NEW x \in Changed(p, q), q[x] # Dead
  PROVE  LET o == Written(Pre(p, q), Post(p, q), x)
         IN  /\ o \in AccountOverrides
             /\ o # NoOverride
             /\ ViewAccount(p[x], o) = q[x]
<1>. DEFINE c == p[x]
            d == q[x]
            before == {y \in ChangedSlots(c, d) : c.storage[y] # Zero}
            after == [y \in {z \in ChangedSlots(c, d) : d.storage[z] # Zero} |-> d.storage[y]]
            m == WithCleared(before, after)
            o == Written(Pre(p, q), Post(p, q), x)
<1>1. c \in Accounts /\ d \in Accounts /\ c # d
  BY DEF Changed, Worlds
<1>2. x \in DOMAIN Post(p, q) /\ Post(p, q)[x].storage = after
      /\ Post(p, q)[x].field = IF c.field # d.field THEN d.field ELSE None
  BY DEF Post
<1>3. (IF x \in DOMAIN Pre(p, q) THEN Pre(p, q)[x] ELSE {}) = before
  <2>1. CASE c # Dead
    BY <2>1 DEF Pre
  <2>2. CASE c = Dead
    BY <2>2 DEF Pre, Dead, ChangedSlots
  <2>. QED
    BY <2>1, <2>2
<1>4. o = [state |-> None, state_diff |-> IF DOMAIN m = {} THEN None ELSE m,
           field |-> IF c.field # d.field THEN d.field ELSE None]
  <2>. HIDE DEF before, after
  <2>. QED
    BY <1>2, <1>3, Zenon DEF Written
<1>5. /\ DOMAIN m = ChangedSlots(c, d)
      /\ \A y \in ChangedSlots(c, d) : m[y] = d.storage[y]
      /\ m \in Maps
  BY <1>1, WrittenSlots, Zenon
<1>6. m # None
  BY <1>5, NoneIsNoMap
<1>7. d.field \in Values /\ None \notin Values
  BY <1>1, OverridesAssumption DEF Accounts
<1>. HIDE DEF m, o, c, d, before, after
<1>8. o \in AccountOverrides
  BY <1>4, <1>5, <1>7 DEF AccountOverrides
<1>9. o # NoOverride
  <2>1. SUFFICES ASSUME o = NoOverride PROVE FALSE
    OBVIOUS
  <2>2. ChangedSlots(c, d) = {} /\ c.field = d.field
    BY <2>1, <1>4, <1>5, <1>6, <1>7 DEF NoOverride
  <2>. QED
    BY <2>2, <1>1, AccountsAgree DEF ChangedSlots
<1>10. ViewAccount(c, o) = d
  <2>1. ViewAccount(c, o) \in Accounts
    BY <1>1, <1>8, ViewAccountType
  <2>2. ViewAccount(c, o).field = d.field
    BY <1>4, <1>7 DEF ViewAccount
  <2>3. ASSUME NEW y \in Slots PROVE ViewAccount(c, o).storage[y] = d.storage[y]
    <3>1. ViewAccount(c, o).storage[y]
            = IF y \in ChangedSlots(c, d) THEN m[y] ELSE c.storage[y]
      BY <1>4, <1>5, <1>6 DEF ViewAccount
    <3>. QED
      BY <3>1, <1>5 DEF ChangedSlots
  <2>. QED
    BY <1>1, <2>1, <2>2, <2>3, AccountsAgree
<1>. QED
  BY <1>8, <1>9, <1>10 DEF o, c, d

(* An account that is gone after a transaction is dead under its override. *)
LEMMA RemovedView ==
  ASSUME NEW c \in Accounts
  PROVE  Removed \in AccountOverrides /\ ViewAccount(c, Removed) = Dead
<1>0. NoSlots \in Maps
  BY OverridesAssumption DEF NoSlots, Maps
<1>1. NoSlots \in Maps /\ Zero \in Values /\ Zero # None
  BY <1>0, OverridesAssumption
<1>2. NoSlots # None
  BY <1>1, NoneIsNoMap
<1>3. Removed \in AccountOverrides
  BY <1>1 DEF Removed, AccountOverrides
<1>4. ViewAccount(c, Removed).field = Zero
  BY <1>1 DEF ViewAccount, Removed
<1>5. \A x \in Slots : ViewAccount(c, Removed).storage[x] = Zero
  BY <1>2 DEF ViewAccount, Removed, NoSlots
<1>6. ViewAccount(c, Removed) \in Accounts /\ Dead \in Accounts
  BY <1>1, <1>3, ViewAccountType DEF Dead, Accounts
<1>. QED
  BY <1>3, <1>4, <1>5, <1>6, AccountsAgree DEF Dead

(* The overrides of a diff turn the state before into the state after.     *)
LEMMA DiffView ==
  ASSUME NEW p \in Worlds, NEW q \in Worlds
  PROVE  LET o == FromDiff(Pre(p, q), Post(p, q))
         IN  Acceptable(o) /\ View(p, o) = q
<1>. DEFINE pre == Pre(p, q)
            post == Post(p, q)
            o == FromDiff(pre, post)
<1>1. /\ DOMAIN post = {x \in Changed(p, q) : q[x] # Dead}
      /\ DOMAIN pre = {x \in Changed(p, q) : p[x] # Dead}
      /\ Changed(p, q) \subseteq Addrs
  BY DEF Pre, Post, Changed
<1>2. \A x \in DOMAIN post : /\ Written(pre, post, x) # NoOverride
                             /\ Written(pre, post, x) \in AccountOverrides
                             /\ ViewAccount(p[x], Written(pre, post, x)) = q[x]
  BY <1>1, WrittenView
<1>. HIDE DEF pre, post
<1>3. DOMAIN o = Changed(p, q)
  <2>1. DOMAIN o = DOMAIN post \cup (DOMAIN pre \ DOMAIN post)
    BY <1>2 DEF FromDiff
  <2>. QED
    BY <1>1, <2>1 DEF Changed
<1>4. \A x \in DOMAIN o : o[x] = IF x \in DOMAIN post THEN Written(pre, post, x) ELSE Removed
  BY DEF FromDiff
<1>. HIDE DEF o
<1>5. Acceptable(o)
  <2>1. ASSUME NEW x \in DOMAIN o PROVE o[x] \in AccountOverrides
    <3>1. p[x] \in Accounts
      BY <1>1, <1>3 DEF Worlds
    <3>. QED
      BY <1>2, <1>4, <3>1, RemovedView
  <2>. QED
    BY <1>1, <1>3, <2>1 DEF Acceptable
<1>6. ASSUME NEW x \in Addrs PROVE View(p, o)[x] = q[x]
  <2>1. View(p, o)[x] = IF x \in DOMAIN o THEN ViewAccount(p[x], o[x]) ELSE p[x]
    BY DEF View
  <2>2. CASE x \notin Changed(p, q)
    BY <2>1, <2>2, <1>3 DEF Changed
  <2>3. CASE x \in DOMAIN post
    BY <2>1, <2>3, <1>1, <1>2, <1>3, <1>4
  <2>4. CASE x \in Changed(p, q) /\ x \notin DOMAIN post
    <3>1. q[x] = Dead /\ p[x] \in Accounts
      BY <2>4, <1>1 DEF Worlds
    <3>. QED
      BY <2>1, <2>4, <3>1, <1>3, <1>4, RemovedView
  <2>. QED
    BY <2>2, <2>3, <2>4
<1>7. View(p, o) = q
  <2>1. View(p, o) = [x \in Addrs |-> View(p, o)[x]]
    BY DEF View
  <2>2. q = [x \in Addrs |-> q[x]]
    BY DEF Worlds
  <2>. QED
    BY <2>1, <2>2, <1>6, FunctionsAgree, Zenon
<1>. QED
  BY <1>5, <1>7 DEF o, pre, post

(* A transaction leaves an account an account.                             *)
LEMMA RunOnType ==
  ASSUME NEW e \in Effects, NEW c \in Accounts
  PROVE  RunOn(e, c) \in Accounts
<1>1. CASE e = Destroy
  <2>1. RunOn(e, c) = Dead
    BY <1>1 DEF Destroy, RunOn
  <2>. QED
    BY <2>1, OverridesAssumption DEF Dead, Accounts
<1>2. CASE e \in [destroy : {FALSE}, storage : Maps, field : Values \cup {None}]
  <2>1. e.destroy = FALSE /\ e.storage \in Maps /\ e.field \in Values \cup {None}
    BY <1>2, Zenon
  <2>2. c.storage \in [Slots -> Values] /\ c.field \in Values
    BY DEF Accounts
  <2>3. RunOn(e, c) = [storage |-> Insert(c.storage, e.storage), field |-> Or(e.field, c.field)]
    BY <2>1 DEF RunOn
  <2>4. DOMAIN c.storage \cup DOMAIN e.storage = Slots
    BY <2>1, <2>2, MapsDef
  <2>5. \A y \in Slots : (IF y \in DOMAIN e.storage THEN e.storage[y] ELSE c.storage[y])
                          \in Values
    BY <2>1, <2>2, MapsDef
  <2>6. Insert(c.storage, e.storage) \in [Slots -> Values]
    BY <2>4, <2>5 DEF Insert
  <2>7. Or(e.field, c.field) \in Values
    BY <2>1, <2>2 DEF Or
  <2>. QED
    BY <2>3, <2>6, <2>7 DEF Accounts
<1>. QED
  BY <1>1, <1>2, Zenon DEF Effects

(* Running a transaction keeps a world a world.                            *)
LEMMA RunType ==
  ASSUME NEW tx \in [Addrs -> Effects], NEW w \in Worlds
  PROVE  Run(tx, w) \in Worlds
BY RunOnType DEF Run, Worlds

(* The state under acceptable overrides is a state.                        *)
LEMMA ViewType ==
  ASSUME NEW w \in Worlds, NEW ov, Acceptable(ov)
  PROVE  View(w, ov) \in Worlds
BY ViewAccountType DEF View, Worlds, Acceptable
(* What mailbox messages override is acceptable, and they touch the inbox  *)
(* entries only.                                                           *)
LEMMA DeliveredType ==
  ASSUME NEW puts \in SUBSET Puts, NEW v \in Values
  PROVE  Acceptable(Delivered(puts, v))
<1>. DEFINE d == Delivered(puts, v)
<1>1. DOMAIN d = {p[1] : p \in puts}
  BY DEF Delivered
<1>2. DOMAIN d \subseteq Addrs
  BY <1>1, OverridesAssumption
<1>3. ASSUME NEW x \in DOMAIN d PROVE d[x] \in AccountOverrides
  <2>. DEFINE m == [s \in {t \in Slots : <<x, t>> \in puts} |-> v]
  <2>1. d[x] = [state |-> None, state_diff |-> m, field |-> None]
    BY <1>3, Zenon DEF Delivered, NoOverride
  <2>2. m \in [{t \in Slots : <<x, t>> \in puts} -> Values]
    OBVIOUS
  <2>3. m \in Maps
    <3>. HIDE DEF m
    <3>. QED
      BY <2>2, Zenon DEF Maps
  <2>. HIDE DEF m, d
  <2>. QED
    BY <2>1, <2>3 DEF AccountOverrides
<1>. QED
  BY <1>2, <1>3 DEF Acceptable

LEMMA DeliveredAgree ==
  ASSUME NEW w \in Worlds, NEW puts \in SUBSET Puts, NEW v \in Values
  PROVE  Agree(w, View(w, Delivered(puts, v)))
<1>. DEFINE d == Delivered(puts, v)
<1>1. ASSUME NEW x \in Addrs
      PROVE  /\ View(w, d)[x].field = w[x].field
             /\ \A s \in Slots : <<x, s>> \notin Puts
                                 => View(w, d)[x].storage[s] = w[x].storage[s]
  <2>1. CASE x \notin DOMAIN d
    BY <2>1 DEF View
  <2>2. CASE x \in DOMAIN d
    <3>. DEFINE m == [s \in {t \in Slots : <<x, t>> \in puts} |-> v]
    <3>1. d[x] = [state |-> None, state_diff |-> m, field |-> None]
      BY <2>2, Zenon DEF Delivered, NoOverride
    <3>2. View(w, d)[x] = ViewAccount(w[x], d[x])
      BY <2>2 DEF View
    <3>3. DOMAIN m = {t \in Slots : <<x, t>> \in puts}
      OBVIOUS
    <3>. HIDE DEF m, d
    <3>. QED
      BY <3>1, <3>2, <3>3 DEF ViewAccount
  <2>. QED
    BY <2>1, <2>2
<1>. QED
  BY <1>1 DEF Agree

(* The putInbox transactions leave a world that differs in inbox entries.  *)
LEMMA PutsAgree ==
  ASSUME NEW w \in Worlds, NEW puts \in SUBSET Puts, NEW v \in Values
  PROVE  AfterPuts(w, puts, v) \in Worlds /\ Agree(w, AfterPuts(w, puts, v))
<1>1. ASSUME NEW x \in Addrs
      PROVE  /\ AfterPuts(w, puts, v)[x] \in Accounts
             /\ AfterPuts(w, puts, v)[x].field = w[x].field
             /\ \A s \in Slots : <<x, s>> \notin Puts
                   => AfterPuts(w, puts, v)[x].storage[s] = w[x].storage[s]
  <2>1. w[x] \in Accounts
    BY DEF Worlds
  <2>. QED
    BY <2>1, Zenon DEF AfterPuts, Accounts
<1>. QED
  BY <1>1 DEF Agree, Worlds, AfterPuts

(* Equal overrides and equal transactions keep states in agreement.        *)
LEMMA ViewAgree ==
  ASSUME NEW w \in Worlds, NEW u \in Worlds, NEW ov, Agree(w, u)
  PROVE  Agree(View(w, ov), View(u, ov))
BY Zenon DEF Agree, View, ViewAccount

LEMMA RunAgree ==
  ASSUME NEW w \in Worlds, NEW u \in Worlds, NEW tx \in [Addrs -> Effects], Agree(w, u)
  PROVE  Agree(Run(tx, w), Run(tx, u))
<1>1. ASSUME NEW x \in Addrs
      PROVE  /\ Run(tx, w)[x].field = Run(tx, u)[x].field
             /\ \A s \in Slots : <<x, s>> \notin Puts
                   => Run(tx, w)[x].storage[s] = Run(tx, u)[x].storage[s]
  <2>1. w[x].storage \in [Slots -> Values] /\ u[x].storage \in [Slots -> Values]
    BY DEF Worlds, Accounts
  <2>2. w[x].field = u[x].field
        /\ \A s \in Slots : <<x, s>> \notin Puts => w[x].storage[s] = u[x].storage[s]
    BY DEF Agree
  <2>3. Run(tx, w)[x] = RunOn(tx[x], w[x]) /\ Run(tx, u)[x] = RunOn(tx[x], u[x])
    BY DEF Run
  <2>. QED
    BY <2>1, <2>2, <2>3 DEF RunOn, Insert, Dead
<1>. QED
  BY <1>1, Zenon DEF Agree

LEMMA AgreeTransitive ==
  ASSUME NEW w, NEW u, NEW t, Agree(w, u), Agree(u, t)
  PROVE  Agree(w, t)
BY ZenonT(30) DEF Agree

LEMMA AgreeSymmetric ==
  ASSUME NEW w, NEW u, Agree(w, u)
  PROVE  Agree(u, w)
BY Zenon DEF Agree
-----------------------------------------------------------------------------
(* The inductive invariant: the overlay is the post-state, and the         *)
(* overrides have the shape that merging and viewing rely on.              *)
IInv == TypeOK /\ OverlayIsPostState

(* A chain without local transactions starts with nothing to override.     *)
LEMMA InitInv == Init => IInv
<1>. SUFFICES ASSUME Init PROVE IInv
  OBVIOUS
<1>1. DOMAIN overrides = {} /\ chain \in Worlds /\ world = chain
  BY DEF Init, Worlds
<1>2. View(chain, overrides) = chain
  BY <1>1 DEF View, Worlds
<1>3. Agree(View(chain, overrides), world)
  BY <1>1, <1>2 DEF Agree
<1>. QED
  BY <1>1, <1>3, Zenon DEF Init, IInv, TypeOK, OverlayIsPostState, Worlds

(* A simulated and recorded transaction keeps the overlay exact up to the  *)
(* inbox entries.                                                          *)
LEMMA SimulateInv ==
  ASSUME IInv, NEW tx \in [Addrs -> Effects], NEW puts \in SUBSET Puts,
         NEW v \in Values, Simulate(tx, puts, v)
  PROVE  IInv'
<1>. DEFINE u == View(chain, overrides)
            d == Delivered(puts, v)
            p == View(chain, Merge(overrides, d))
            q == Run(tx, p)
            o == FromDiff(Pre(p, q), Post(p, q))
            n == AfterPuts(world, puts, v)
<1>1. Acceptable(overrides) /\ chain \in Worlds /\ world \in Worlds
  BY DEF IInv, TypeOK, Acceptable, Worlds
<1>2. /\ overrides' = Merge(overrides, o)
      /\ world' = Run(tx, n)
      /\ chain' = chain /\ untraced' = untraced
  BY DEF Simulate
<1>3. Acceptable(d) /\ Acceptable(Merge(overrides, d)) /\ p = View(u, d)
  BY <1>1, DeliveredType, MergeView
<1>4. u \in Worlds /\ p \in Worlds /\ q \in Worlds
  <2>1. u \in Worlds /\ p \in Worlds
    BY <1>1, <1>3, ViewType
  <2>. QED
    BY <2>1, RunType
<1>5. n \in Worlds /\ Agree(world, n) /\ Run(tx, n) \in Worlds
  BY <1>1, PutsAgree, RunType
<1>6. Agree(u, p)
  BY <1>3, <1>4, DeliveredAgree
<1>7. Acceptable(o) /\ View(p, o) = q
  BY <1>4, DiffView
<1>. HIDE DEF o, d
<1>8. Acceptable(Merge(overrides, o)) /\ View(chain, Merge(overrides, o)) = View(u, o)
  BY <1>1, <1>7, MergeView
<1>9. TypeOK'
  <2>1. Acceptable(overrides') /\ chain' \in Worlds /\ world' \in Worlds
    BY <1>1, <1>2, <1>5, <1>8
  <2>2. untraced' \in BOOLEAN
    BY <1>2 DEF IInv, TypeOK
  <2>. QED
    BY <2>1, <2>2 DEF TypeOK, Acceptable, Worlds
<1>10. ASSUME ~untraced PROVE Agree(View(u, o), Run(tx, n))
  <2>1. Agree(u, world)
    BY <1>10 DEF IInv, OverlayIsPostState
  <2>. HIDE DEF u, p, n
  <2>2. Agree(View(u, o), q)
    BY <1>4, <1>6, <1>7, ViewAgree
  <2>3. Agree(p, n)
    BY <2>1, <1>5, <1>6, AgreeTransitive, AgreeSymmetric
  <2>4. Agree(q, Run(tx, n))
    BY <1>4, <1>5, <2>3, RunAgree
  <2>. QED
    BY <2>2, <2>4, AgreeTransitive
<1>11. OverlayIsPostState'
  BY <1>2, <1>8, <1>10 DEF OverlayIsPostState
<1>. QED
  BY <1>9, <1>11 DEF IInv

(* A transaction whose trace failed keeps the overrides as they are.       *)
LEMMA UntracedInv ==
  ASSUME IInv, NEW tx \in [Addrs -> Effects], NEW puts \in SUBSET Puts,
         NEW v \in Values, SimulateUntraced(tx, puts, v)
  PROVE  IInv'
<1>1. world \in Worlds
  BY DEF IInv, TypeOK, Worlds
<1>2. Run(tx, AfterPuts(world, puts, v)) \in Worlds
  BY <1>1, PutsAgree, RunType
<1>. QED
  BY <1>2 DEF IInv, TypeOK, OverlayIsPostState, SimulateUntraced, Worlds

(* The invariant holds in every reachable state.                           *)
LEMMA NextInv == IInv /\ [Next]_vars => IInv'
<1>. SUFFICES ASSUME IInv, [Next]_vars PROVE IInv'
  OBVIOUS
<1>1. CASE Next
  BY <1>1, SimulateInv, UntracedInv DEF Next
<1>2. CASE UNCHANGED vars
  BY <1>2 DEF vars, IInv, TypeOK, OverlayIsPostState
<1>. QED
  BY <1>1, <1>2

(* For any addresses, slots, words and inbox entries, and any sequence of  *)
(* transactions that write, clear, destroy and create, the overrides the   *)
(* simulator accumulates show the next simulation exactly the state those  *)
(* transactions leave, up to the inbox entries, until a trace fails.       *)
THEOREM OverlayExact == Spec => []OverlayIsPostState
<1>1. IInv => OverlayIsPostState
  BY DEF IInv
<1>. QED
  BY <1>1, InitInv, NextInv, PTL DEF Spec

(* merge_overrides() never leaves an account with both `state' and         *)
(* `stateDiff', also when messages are delivered and traces fail.          *)
THEOREM OverridesType == Spec => []TypeOK
<1>1. IInv => TypeOK
  BY DEF IInv
<1>. QED
  BY <1>1, InitInv, NextInv, PTL DEF Spec
=============================================================================

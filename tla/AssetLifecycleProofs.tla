------------------------ MODULE AssetLifecycleProofs ------------------------
(***************************************************************************)
(* Proofs about AssetLifecycle, for any assets, goroutines and addresses.  *)
(*                                                                         *)
(* The invariant says that a goroutine on its way through holds the very   *)
(* entry the map has for its asset, that no two assets share an entry, and *)
(* that the count of an entry is the number of goroutines on their way     *)
(* through: the last one to leave is the last one that could be waiting.   *)
(***************************************************************************)
EXTENDS AssetLifecycle, FiniteSetTheorems, TLAPS

Through(a) == {u \in Users : asset[u] = a}

PointersAgree ==
    \A u \in Users :
       IF pc[u] = "idle"
       THEN asset[u] = None /\ entry[u] = None
       ELSE asset[u] \in Assets /\ entry[u] \in Entries /\ table[asset[u]] = entry[u]

EntriesDistinct ==
    \A a, b \in Assets : table[a] # None /\ table[a] = table[b] => a = b

InsideHolds == \A u \in Users : pc[u] = "inside" => holder[entry[u]] = u

Counted(a) ==
    IF table[a] = None THEN Through(a) = {}
    ELSE users[table[a]] = Cardinality(Through(a)) /\ Through(a) # {}

AllCounted == \A a \in Assets : Counted(a)

LifecycleInv ==
    /\ LifecycleTypeOK
    /\ PointersAgree
    /\ EntriesDistinct
    /\ InsideHolds
    /\ AllCounted

\* The goroutines on their way through an asset are finitely many.
LEMMA ThroughFinite ==
    ASSUME NEW a
    PROVE  IsFiniteSet(Through(a)) /\ Cardinality(Through(a)) \in Nat
  <1>1. Through(a) \subseteq Users  BY DEF Through
  <1>2. IsFiniteSet(Through(a))  BY <1>1, LifecycleAssumption, FS_Subset
  <1> QED  BY <1>2, FS_CardinalityType

LEMMA InitInv == Init => LifecycleInv
  <1> SUFFICES ASSUME Init PROVE LifecycleInv  OBVIOUS
  <1> USE LifecycleAssumption DEF Init
  <1>1. LifecycleTypeOK  BY DEF LifecycleTypeOK, LifecyclePC
  <1>2. PointersAgree  BY DEF PointersAgree
  <1>3. EntriesDistinct  BY DEF EntriesDistinct
  <1>4. InsideHolds  BY DEF InsideHolds
  <1>5. AllCounted  BY DEF AllCounted, Counted, Through
  <1> QED  BY <1>1, <1>2, <1>3, <1>4, <1>5 DEF LifecycleInv

\* lockAssetLifecycle keeps the invariant: the caller joins the users of the
\* entry in the map, or of the one it makes.
LEMMA RetainInv ==
    ASSUME LifecycleInv, NEW u \in Users, NEW a \in Assets, Retain(u, a)
    PROVE  LifecycleInv'
  <1> USE LifecycleAssumption
  <1>1. PICK e \in Entries : Obtains(a, e) /\ entry' = [entry EXCEPT ![u] = e]
    BY DEF Retain
  <1>2. /\ pc[u] = "idle" /\ asset[u] = None /\ entry[u] = None
        /\ pc' = [pc EXCEPT ![u] = "waiting"]
        /\ asset' = [asset EXCEPT ![u] = a]
    BY DEF Retain, LifecycleInv, PointersAgree
  <1>3. table'[a] = e /\ \A b \in Assets : b # a => table'[b] = table[b]
    BY <1>1 DEF Obtains, LifecycleInv, LifecycleTypeOK
  <1>4. LifecycleTypeOK'
    BY <1>1, <1>2 DEF Obtains, LifecycleInv, LifecycleTypeOK, LifecyclePC
  <1>5. PointersAgree'
    <2> SUFFICES ASSUME NEW v \in Users
                 PROVE  (IF pc[v] = "idle"
                         THEN asset[v] = None /\ entry[v] = None
                         ELSE asset[v] \in Assets /\ entry[v] \in Entries
                              /\ table[asset[v]] = entry[v])'
      BY DEF PointersAgree
    <2>1. CASE v = u  BY <2>1, <1>1, <1>2, <1>3 DEF LifecycleInv, LifecycleTypeOK
    <2>2. CASE v # u
      <3>1. pc'[v] = pc[v] /\ asset'[v] = asset[v] /\ entry'[v] = entry[v]
        BY <2>2, <1>1, <1>2 DEF LifecycleInv, LifecycleTypeOK
      <3>2. CASE pc[v] = "idle"  BY <3>1, <3>2 DEF LifecycleInv, PointersAgree
      <3>3. CASE pc[v] # "idle"
        <4>1. asset[v] \in Assets /\ entry[v] \in Entries /\ table[asset[v]] = entry[v]
          BY <3>3 DEF LifecycleInv, PointersAgree
        <4>2. table'[asset[v]] = table[asset[v]]
          BY <4>1, <1>1, <1>3 DEF Obtains, LifecycleInv, LifecycleTypeOK
        <4> QED  BY <3>1, <3>3, <4>1, <4>2
      <3> QED  BY <3>2, <3>3
    <2> QED  BY <2>1, <2>2
  <1>6. EntriesDistinct'
    <2> SUFFICES ASSUME NEW b \in Assets, NEW c \in Assets,
                        table'[b] # None, table'[b] = table'[c]
                 PROVE  b = c
      BY DEF EntriesDistinct
    <2>1. \A d \in Assets : d # a => table[d] # e
      BY <1>1 DEF Obtains, Fresh, LifecycleInv, EntriesDistinct
    <2>2. CASE b # a /\ c # a  BY <2>2, <1>3 DEF LifecycleInv, EntriesDistinct
    <2>3. CASE b = a \/ c = a  BY <2>1, <2>3, <1>3
    <2> QED  BY <2>2, <2>3
  <1>7. InsideHolds'
    <2> SUFFICES ASSUME NEW v \in Users, pc'[v] = "inside"
                 PROVE  holder'[entry'[v]] = v
      BY DEF InsideHolds
    <2>1. v # u  BY <1>2 DEF LifecycleInv, LifecycleTypeOK
    <2>2. pc[v] = "inside" /\ entry'[v] = entry[v]
      BY <2>1, <1>1, <1>2 DEF LifecycleInv, LifecycleTypeOK
    <2>3. holder[entry[v]] = v /\ entry[v] \in Entries
      BY <2>2 DEF LifecycleInv, InsideHolds, PointersAgree
    <2>4. holder'[entry[v]] = holder[entry[v]]
      BY <2>3, <1>1 DEF Obtains, Fresh, LifecycleInv, LifecycleTypeOK
    <2> QED  BY <2>2, <2>3, <2>4
  <1>8. AllCounted'
    <2> SUFFICES ASSUME NEW b \in Assets PROVE Counted(b)'  BY DEF AllCounted
    <2>1. CASE b = a
      <3>1. Through(a)' = Through(a) \cup {u} /\ u \notin Through(a)
        BY <1>2 DEF Through, LifecycleInv, LifecycleTypeOK
      <3>2. Cardinality(Through(a)') = Cardinality(Through(a)) + 1
        BY <3>1, ThroughFinite, FS_AddElement
      <3>3. table'[a] # None  BY <1>3
      <3>4. users'[e] = Cardinality(Through(a)) + 1
        <4>1. CASE table[a] = None
          <5>1. Through(a) = {}  BY <4>1 DEF LifecycleInv, AllCounted, Counted
          <5>2. Cardinality(Through(a)) = 0  BY <5>1, FS_EmptySet
          <5>3. users'[e] = 1
            BY <4>1, <1>1 DEF Obtains, LifecycleInv, LifecycleTypeOK
          <5> QED  BY <5>2, <5>3
        <4>2. CASE table[a] # None
          <5>1. users[e] = Cardinality(Through(a))
            BY <4>2, <1>1 DEF Obtains, LifecycleInv, AllCounted, Counted
          <5>2. users'[e] = users[e] + 1
            BY <4>2, <1>1 DEF Obtains, LifecycleInv, LifecycleTypeOK
          <5> QED  BY <5>1, <5>2
        <4> QED  BY <4>1, <4>2
      <3>5. Through(a)' # {}  BY <3>1
      <3> QED  BY <2>1, <3>2, <3>3, <3>4, <3>5, <1>3 DEF Counted
    <2>2. CASE b # a
      <3>1. Through(b)' = Through(b)
        BY <2>2, <1>2 DEF Through, LifecycleInv, LifecycleTypeOK
      <3>2. table'[b] = table[b]  BY <2>2, <1>3
      <3>3. CASE table[b] = None
        BY <3>1, <3>2, <3>3 DEF Counted, LifecycleInv, AllCounted
      <3>4. CASE table[b] # None
        <4>1. table[b] # e
          BY <2>2, <3>4, <1>1 DEF Obtains, Fresh, LifecycleInv, EntriesDistinct
        <4>2. users'[table[b]] = users[table[b]]
          BY <4>1, <3>4, <1>1 DEF Obtains, LifecycleInv, LifecycleTypeOK
        <4>3. users[table[b]] = Cardinality(Through(b)) /\ Through(b) # {}
          BY <3>4 DEF LifecycleInv, AllCounted, Counted
        <4> QED  BY <3>1, <3>2, <3>4, <4>2, <4>3 DEF Counted
      <3> QED  BY <3>3, <3>4
    <2> QED  BY <2>1, <2>2
  <1> QED  BY <1>4, <1>5, <1>6, <1>7, <1>8 DEF LifecycleInv

\* entry.mu.Lock and Unlock keep it: nobody else is inside with that entry.
LEMMA LockInv ==
    ASSUME LifecycleInv, NEW u \in Users, Lock(u) \/ Unlock(u)
    PROVE  LifecycleInv'
  <1> USE LifecycleAssumption
  <1>1. /\ pc[u] \in {"waiting", "inside"} /\ pc'[u] \in {"inside", "leaving"}
        /\ entry[u] \in Entries
        /\ UNCHANGED <<table, users, asset, entry>>
        /\ \A v \in Users : v # u => pc'[v] = pc[v]
    BY DEF Lock, Unlock, LifecycleInv, LifecycleTypeOK, PointersAgree
  <1>2. LifecycleTypeOK'
    BY <1>1 DEF Lock, Unlock, LifecycleInv, LifecycleTypeOK, LifecyclePC
  <1>3. PointersAgree'  BY <1>1 DEF LifecycleInv, PointersAgree
  <1>4. EntriesDistinct'  BY <1>1 DEF LifecycleInv, EntriesDistinct
  <1>5. InsideHolds'
    <2> SUFFICES ASSUME NEW v \in Users, pc'[v] = "inside"
                 PROVE  holder'[entry[v]] = v
      BY <1>1 DEF InsideHolds
    <2>1. CASE v = u  BY <2>1, <1>1 DEF Lock, Unlock, LifecycleInv, LifecycleTypeOK
    <2>2. CASE v # u
      <3>1. pc[v] = "inside" /\ holder[entry[v]] = v
        BY <2>2, <1>1 DEF LifecycleInv, InsideHolds
      <3>2. entry[v] # entry[u]
        <4>1. CASE Lock(u)  BY <4>1, <3>1 DEF Lock
        <4>2. CASE Unlock(u)
          <5>1. holder[entry[u]] = u  BY <4>2 DEF Unlock, LifecycleInv, InsideHolds
          <5> QED  BY <5>1, <3>1, <2>2
        <4> QED  BY <4>1, <4>2
      <3>3. holder'[entry[v]] = holder[entry[v]]
        BY <3>1, <3>2, <1>1 DEF PointersAgree, Lock, Unlock, LifecycleInv, LifecycleTypeOK
      <3> QED  BY <3>1, <3>3
    <2> QED  BY <2>1, <2>2
  <1>6. AllCounted'
    <2>1. \A a : Through(a)' = Through(a)  BY <1>1 DEF Through
    <2> QED  BY <2>1, <1>1 DEF LifecycleInv, AllCounted, Counted
  <1> QED  BY <1>2, <1>3, <1>4, <1>5, <1>6 DEF LifecycleInv

\* The release function keeps it: it takes the entry out of the map only when
\* the caller was its one user.
LEMMA DropInv ==
    ASSUME LifecycleInv, NEW u \in Users, Drop(u)
    PROVE  LifecycleInv'
  <1> USE LifecycleAssumption
  <1>a. PICK a \in Assets : a = asset[u]  BY DEF Drop, LifecycleInv, PointersAgree
  <1>e. PICK e \in Entries : e = entry[u]  BY DEF Drop, LifecycleInv, PointersAgree
  <1>1. pc[u] = "leaving" /\ table[a] = e /\ table[a] # None
    BY <1>a, <1>e DEF Drop, LifecycleInv, PointersAgree
  <1>2. /\ users' = [users EXCEPT ![e] = @ - 1]
        /\ table' = [table EXCEPT ![a] = IF users[e] = 1 THEN None ELSE @]
        /\ pc' = [pc EXCEPT ![u] = "idle"]
        /\ asset' = [asset EXCEPT ![u] = None]
        /\ entry' = [entry EXCEPT ![u] = None]
        /\ holder' = holder
    BY <1>a, <1>e DEF Drop, Returns
  <1>3. users[e] = Cardinality(Through(a)) /\ u \in Through(a)
    BY <1>1, <1>a DEF LifecycleInv, AllCounted, Counted, Through
  <1>4. Through(a)' = Through(a) \ {u}
    BY <1>1, <1>2 DEF Through, LifecycleInv, LifecycleTypeOK
  <1>5. Cardinality(Through(a)') = users[e] - 1 /\ IsFiniteSet(Through(a)')
    BY <1>3, <1>4, ThroughFinite, FS_RemoveElement
  <1>6. users[e] \in Nat \ {0}
    <2>1. Cardinality(Through(a)') \in Nat  BY <1>5, FS_CardinalityType
    <2> QED  BY <2>1, <1>5, <1>1 DEF LifecycleInv, LifecycleTypeOK
  <1>7. users[e] = 1 <=> Through(a)' = {}
    <2>1. Cardinality(Through(a)') = 0 <=> Through(a)' = {}  BY <1>5, FS_EmptySet
    <2> QED  BY <2>1, <1>5, <1>6
  <1>8. \A b \in Assets : b # a => table'[b] = table[b] /\ table[b] # e
    BY <1>1, <1>2 DEF LifecycleInv, LifecycleTypeOK, EntriesDistinct
  <1>9. LifecycleTypeOK'
    BY <1>1, <1>2, <1>6 DEF LifecycleInv, LifecycleTypeOK, LifecyclePC
  <1>10. PointersAgree'
    <2> SUFFICES ASSUME NEW v \in Users
                 PROVE  (IF pc[v] = "idle"
                         THEN asset[v] = None /\ entry[v] = None
                         ELSE asset[v] \in Assets /\ entry[v] \in Entries
                              /\ table[asset[v]] = entry[v])'
      BY DEF PointersAgree
    <2>1. CASE v = u  BY <2>1, <1>2 DEF LifecycleInv, LifecycleTypeOK
    <2>2. CASE v # u
      <3>1. pc'[v] = pc[v] /\ asset'[v] = asset[v] /\ entry'[v] = entry[v]
        BY <2>2, <1>2 DEF LifecycleInv, LifecycleTypeOK
      <3>2. CASE pc[v] = "idle"  BY <3>1, <3>2 DEF LifecycleInv, PointersAgree
      <3>3. CASE pc[v] # "idle"
        <4>1. asset[v] \in Assets /\ entry[v] \in Entries /\ table[asset[v]] = entry[v]
          BY <3>3 DEF LifecycleInv, PointersAgree
        <4>2. CASE asset[v] # a  BY <4>1, <4>2, <3>1, <3>3, <1>8
        <4>3. CASE asset[v] = a
          <5>1. v \in Through(a)'  BY <4>3, <3>1 DEF Through
          <5>2. users[e] # 1  BY <5>1, <1>7
          <5>3. table'[a] = table[a]
            BY <5>2, <1>1, <1>2 DEF LifecycleInv, LifecycleTypeOK
          <5> QED  BY <5>3, <4>1, <4>3, <3>1, <3>3
        <4> QED  BY <4>2, <4>3
      <3> QED  BY <3>2, <3>3
    <2> QED  BY <2>1, <2>2
  <1>11. EntriesDistinct'
    <2> SUFFICES ASSUME NEW b \in Assets, NEW c \in Assets,
                        table'[b] # None, table'[b] = table'[c]
                 PROVE  b = c
      BY DEF EntriesDistinct
    <2>1. \A d \in Assets : table'[d] # None => table'[d] = table[d]
      BY <1>1, <1>2 DEF LifecycleInv, LifecycleTypeOK
    <2> QED  BY <2>1 DEF LifecycleInv, EntriesDistinct
  <1>12. InsideHolds'
    <2> SUFFICES ASSUME NEW v \in Users, pc'[v] = "inside"
                 PROVE  holder[entry'[v]] = v
      BY <1>2 DEF InsideHolds
    <2>1. v # u  BY <1>2 DEF LifecycleInv, LifecycleTypeOK
    <2> QED  BY <2>1, <1>2 DEF LifecycleInv, LifecycleTypeOK, InsideHolds
  <1>13. AllCounted'
    <2> SUFFICES ASSUME NEW b \in Assets PROVE Counted(b)'  BY DEF AllCounted
    <2>1. CASE b = a
      <3>1. CASE users[e] = 1
        <4>1. table'[a] = None  BY <3>1, <1>1, <1>2 DEF LifecycleInv, LifecycleTypeOK
        <4> QED  BY <2>1, <3>1, <4>1, <1>7 DEF Counted
      <3>2. CASE users[e] # 1
        <4>1. table'[a] = e /\ users'[e] = users[e] - 1
          BY <3>2, <1>1, <1>2 DEF LifecycleInv, LifecycleTypeOK
        <4> QED  BY <2>1, <3>2, <4>1, <1>1, <1>5, <1>7 DEF Counted
      <3> QED  BY <3>1, <3>2
    <2>2. CASE b # a
      <3>1. Through(b)' = Through(b)
        BY <2>2, <1>a, <1>2 DEF Through, LifecycleInv, LifecycleTypeOK
      <3>2. table'[b] = table[b] /\ table[b] # e  BY <2>2, <1>8
      <3>3. table[b] # None => users'[table[b]] = users[table[b]]
        <4> SUFFICES ASSUME table[b] # None PROVE users'[table[b]] = users[table[b]]
          OBVIOUS
        <4>1. table[b] \in Entries  BY DEF LifecycleInv, LifecycleTypeOK
        <4> QED  BY <4>1, <3>2, <1>2 DEF LifecycleInv, LifecycleTypeOK
      <3>4. Counted(b)  BY DEF LifecycleInv, AllCounted
      <3> QED  BY <3>1, <3>2, <3>3, <3>4 DEF Counted
    <2> QED  BY <2>1, <2>2
  <1> QED  BY <1>9, <1>10, <1>11, <1>12, <1>13 DEF LifecycleInv

\* Every step of lockAssetLifecycle and its release function keeps the invariant.
THEOREM InvCorrect == Spec => []LifecycleInv
  <1>1. LifecycleInv /\ [Next]_vars => LifecycleInv'
    <2> SUFFICES ASSUME LifecycleInv, [Next]_vars PROVE LifecycleInv'  OBVIOUS
    <2>1. CASE UNCHANGED vars
      <3>1. \A a : Through(a)' = Through(a)  BY <2>1 DEF vars, Through
      <3> QED  BY <2>1, <3>1 DEF vars, LifecycleInv, LifecycleTypeOK, PointersAgree,
                               EntriesDistinct, InsideHolds, AllCounted, Counted
    <2>2. CASE Next
      <3>1. PICK u \in Users : Lock(u) \/ Unlock(u) \/ Drop(u) \/ \E a \in Assets : Retain(u, a)
        BY <2>2 DEF Next
      <3> QED  BY <3>1, LockInv, DropInv, RetainInv
    <2> QED  BY <2>1, <2>2
  <1> QED  BY <1>1, InitInv, PTL DEF Spec

\* The state of the lock table is well typed; in particular the user count of an
\* entry never goes below zero.
THEOREM LifecycleTypeCorrect == Spec => []LifecycleTypeOK
  <1>1. LifecycleInv => LifecycleTypeOK  BY DEF LifecycleInv
  <1> QED  BY <1>1, InvCorrect, PTL

LEMMA InsideUnique ==
    ASSUME LifecycleInv PROVE OneInside
  <1> SUFFICES ASSUME NEW u \in Users, NEW v \in Users,
                      pc[u] = "inside", pc[v] = "inside", asset[u] = asset[v]
               PROVE  u = v
    BY DEF OneInside
  <1>1. entry[u] = entry[v]  BY DEF LifecycleInv, PointersAgree
  <1>2. holder[entry[u]] = u /\ holder[entry[v]] = v  BY DEF LifecycleInv, InsideHolds
  <1> QED  BY <1>1, <1>2

\* Mutual exclusion per asset, for any number of goroutines and assets.
THEOREM OneInsideCorrect == Spec => []OneInside
  <1> QED  BY InsideUnique, InvCorrect, PTL

\* The map holds an entry exactly while it is used: no leak, no entry forgotten
\* under a waiter.
THEOREM EntryWhileUsedCorrect == Spec => []EntryWhileUsed
  <1>1. LifecycleInv => EntryWhileUsed
    BY DEF LifecycleInv, AllCounted, Counted, Through, EntryWhileUsed
  <1> QED  BY <1>1, InvCorrect, PTL
-----------------------------------------------------------------------------
(* The refinement.                                                         *)

Asks == [u \in Users |-> IF pc[u] \in {"waiting", "inside"} THEN asset[u] ELSE None]

InsideOf == [a \in Assets |-> IF \E u \in Users : pc[u] = "inside" /\ asset[u] = a
                              THEN CHOOSE u \in Users : pc[u] = "inside" /\ asset[u] = a
                              ELSE None]

\* The mapping has for an asset the goroutine inside, and None when there is none.
LEMMA InsideOfValue ==
    ASSUME OneInside, NEW a \in Assets
    PROVE  /\ \A u \in Users : pc[u] = "inside" /\ asset[u] = a => InsideOf[a] = u
           /\ (\A u \in Users : ~(pc[u] = "inside" /\ asset[u] = a)) => InsideOf[a] = None
  <1>1. ASSUME NEW u \in Users, pc[u] = "inside", asset[u] = a
        PROVE  InsideOf[a] = u
    <2> DEFINE w == CHOOSE v \in Users : pc[v] = "inside" /\ asset[v] = a
    <2>1. w \in Users /\ pc[w] = "inside" /\ asset[w] = a  BY <1>1
    <2>2. w = u  BY <2>1, <1>1 DEF OneInside
    <2>3. InsideOf[a] = w  BY <1>1 DEF InsideOf
    <2> QED  BY <2>2, <2>3
  <1>2. (\A u \in Users : ~(pc[u] = "inside" /\ asset[u] = a)) => InsideOf[a] = None
    BY DEF InsideOf
  <1> QED  BY <1>1, <1>2

\* Where no goroutine enters or leaves a section, the mapping keeps its value.
LEMMA InsideOfStays ==
    ASSUME OneInside, OneInside', NEW a \in Assets,
           \A u \in Users : (pc[u] = "inside" /\ asset[u] = a) <=> (pc'[u] = "inside" /\ asset'[u] = a)
    PROVE  InsideOf'[a] = InsideOf[a]
  <1>1. CASE \E u \in Users : pc[u] = "inside" /\ asset[u] = a
    <2>1. PICK u \in Users : pc[u] = "inside" /\ asset[u] = a  BY <1>1
    <2>2. InsideOf[a] = u  BY <2>1, InsideOfValue
    <2>3. \E v \in Users : pc'[v] = "inside" /\ asset'[v] = a  BY <2>1
    <2> DEFINE w == CHOOSE v \in Users : pc'[v] = "inside" /\ asset'[v] = a
    <2>4. w \in Users /\ pc'[w] = "inside" /\ asset'[w] = a  BY <2>3
    <2>5. w = u  BY <2>1, <2>4 DEF OneInside
    <2>6. InsideOf'[a] = w  BY <2>3 DEF InsideOf
    <2> QED  BY <2>2, <2>5, <2>6
  <1>2. CASE \A u \in Users : ~(pc[u] = "inside" /\ asset[u] = a)
    <2>1. InsideOf[a] = None  BY <1>2, InsideOfValue
    <2>2. InsideOf'[a] = None  BY <1>2 DEF InsideOf
    <2> QED  BY <2>1, <2>2
  <1> QED  BY <1>1, <1>2

\* entry.mu.Lock of a waiter is Enter: nobody is inside its asset, for such a
\* goroutine would hold the same entry.
LEMMA LockEnters ==
    ASSUME LifecycleInv, OneInside, OneInside', NEW u \in Users, Lock(u)
    PROVE  \E a \in Assets :
              /\ Asks[u] = a /\ InsideOf[a] = None
              /\ InsideOf' = [InsideOf EXCEPT ![a] = u] /\ Asks' = Asks
  <1> USE LifecycleAssumption
  <1>1. PICK a \in Assets : a = asset[u]  BY DEF Lock, LifecycleInv, PointersAgree
  <1>2. /\ pc[u] = "waiting" /\ pc' = [pc EXCEPT ![u] = "inside"] /\ asset' = asset
        /\ holder[entry[u]] = None
    BY DEF Lock
  <1>3. Asks[u] = a /\ Asks' = Asks
    BY <1>1, <1>2 DEF Asks, LifecycleInv, LifecycleTypeOK
  <1>4. ASSUME NEW v \in Users, pc[v] = "inside", asset[v] = a PROVE FALSE
    <2>1. entry[v] = entry[u]  BY <1>1, <1>2, <1>4 DEF LifecycleInv, PointersAgree
    <2>2. holder[entry[v]] = v  BY <1>4 DEF LifecycleInv, InsideHolds
    <2> QED  BY <2>1, <2>2, <1>2
  <1>5. InsideOf[a] = None  BY <1>4, InsideOfValue
  <1>6. ASSUME NEW b \in Assets PROVE InsideOf'[b] = IF b = a THEN u ELSE InsideOf[b]
    <2>1. CASE b = a
      <3> DEFINE w == CHOOSE v \in Users : pc'[v] = "inside" /\ asset'[v] = a
      <3>1. pc'[u] = "inside" /\ asset'[u] = a
        BY <1>1, <1>2 DEF LifecycleInv, LifecycleTypeOK
      <3>2. w \in Users /\ pc'[w] = "inside" /\ asset'[w] = a  BY <3>1
      <3>3. w = u  BY <3>1, <3>2 DEF OneInside
      <3>4. InsideOf'[a] = w  BY <3>1 DEF InsideOf
      <3> QED  BY <2>1, <3>3, <3>4
    <2>2. CASE b # a
      <3>1. \A v \in Users : (pc[v] = "inside" /\ asset[v] = b) <=> (pc'[v] = "inside" /\ asset'[v] = b)
        BY <2>2, <1>1, <1>2 DEF LifecycleInv, LifecycleTypeOK
      <3> QED  BY <2>2, <3>1, InsideOfStays
    <2> QED  BY <2>1, <2>2
  <1>7. InsideOf' = [InsideOf EXCEPT ![a] = u]  BY <1>6 DEF InsideOf
  <1> QED  BY <1>3, <1>5, <1>7

\* entry.mu.Unlock is Leave.
LEMMA UnlockLeaves ==
    ASSUME LifecycleInv, OneInside, OneInside', NEW u \in Users, Unlock(u)
    PROVE  \E a \in Assets :
              /\ Asks[u] = a /\ InsideOf[a] = u
              /\ InsideOf' = [InsideOf EXCEPT ![a] = None]
              /\ Asks' = [Asks EXCEPT ![u] = None]
  <1> USE LifecycleAssumption
  <1>1. PICK a \in Assets : a = asset[u]  BY DEF Unlock, LifecycleInv, PointersAgree
  <1>2. pc[u] = "inside" /\ pc' = [pc EXCEPT ![u] = "leaving"] /\ asset' = asset
    BY DEF Unlock
  <1>3. Asks[u] = a /\ Asks' = [Asks EXCEPT ![u] = None]
    BY <1>1, <1>2 DEF Asks, LifecycleInv, LifecycleTypeOK
  <1>4. InsideOf[a] = u  BY <1>1, <1>2, InsideOfValue
  <1>5. ASSUME NEW b \in Assets PROVE InsideOf'[b] = IF b = a THEN None ELSE InsideOf[b]
    <2>1. CASE b = a
      <3>1. \A v \in Users : ~(pc'[v] = "inside" /\ asset'[v] = a)
        BY <1>1, <1>2 DEF OneInside, LifecycleInv, LifecycleTypeOK
      <3> QED  BY <2>1, <3>1 DEF InsideOf
    <2>2. CASE b # a
      <3>1. \A v \in Users : (pc[v] = "inside" /\ asset[v] = b) <=> (pc'[v] = "inside" /\ asset'[v] = b)
        BY <2>2, <1>1, <1>2 DEF LifecycleInv, LifecycleTypeOK
      <3> QED  BY <2>2, <3>1, InsideOfStays
    <2> QED  BY <2>1, <2>2
  <1>6. InsideOf' = [InsideOf EXCEPT ![a] = None]  BY <1>5 DEF InsideOf
  <1> QED  BY <1>3, <1>4, <1>6

\* Retaining an entry is Ask; dropping it is no step of the mutex.
LEMMA RetainAsks ==
    ASSUME LifecycleInv, OneInside, OneInside', NEW u \in Users, NEW a \in Assets, Retain(u, a)
    PROVE  Asks[u] = None /\ Asks' = [Asks EXCEPT ![u] = a] /\ InsideOf' = InsideOf
  <1>1. pc[u] = "idle" /\ pc' = [pc EXCEPT ![u] = "waiting"] /\ asset' = [asset EXCEPT ![u] = a]
    BY DEF Retain
  <1>2. Asks[u] = None /\ Asks' = [Asks EXCEPT ![u] = a]
    BY <1>1 DEF Asks, LifecycleInv, LifecycleTypeOK
  <1>3. ASSUME NEW b \in Assets PROVE InsideOf'[b] = InsideOf[b]
    <2>1. \A v \in Users : (pc[v] = "inside" /\ asset[v] = b) <=> (pc'[v] = "inside" /\ asset'[v] = b)
      BY <1>1 DEF LifecycleInv, LifecycleTypeOK
    <2> QED  BY <2>1, InsideOfStays
  <1>4. InsideOf' = InsideOf  BY <1>3 DEF InsideOf
  <1> QED  BY <1>2, <1>4

LEMMA DropStutters ==
    ASSUME LifecycleInv, OneInside, OneInside', NEW u \in Users, Drop(u)
    PROVE  Asks' = Asks /\ InsideOf' = InsideOf
  <1>1. pc[u] = "leaving" /\ pc' = [pc EXCEPT ![u] = "idle"] /\ asset' = [asset EXCEPT ![u] = None]
    BY DEF Drop, Returns
  <1>2. Asks' = Asks  BY <1>1 DEF Asks, LifecycleInv, LifecycleTypeOK
  <1>3. ASSUME NEW b \in Assets PROVE InsideOf'[b] = InsideOf[b]
    <2>1. \A v \in Users : (pc[v] = "inside" /\ asset[v] = b) <=> (pc'[v] = "inside" /\ asset'[v] = b)
      BY <1>1 DEF LifecycleInv, LifecycleTypeOK
    <2> QED  BY <2>1, InsideOfStays
  <1>4. InsideOf' = InsideOf  BY <1>3 DEF InsideOf
  <1> QED  BY <1>2, <1>4

\* The lock table, with entries that come and go, implements a mutex per asset.
THEOREM MutexImplemented == Spec => ImplementsMutex
  <1>1. Init => Mutex!MutexInit
    BY LifecycleAssumption DEF Init, Mutex!MutexInit
  <1>2. ASSUME LifecycleInv, LifecycleInv', [Next]_vars
        PROVE  [Mutex!MutexNext]_(Mutex!mutexVars)
    <2>1. OneInside /\ OneInside'
      <3>1. OneInside  BY <1>2, InsideUnique
      <3>2. LifecycleInv' => OneInside'  BY InsideUnique, PTL
      <3> QED  BY <3>1, <3>2, <1>2
    <2>2. CASE UNCHANGED vars
      BY <2>2 DEF vars, Mutex!mutexVars
    <2>3. ASSUME NEW u \in Users, Lock(u) PROVE Mutex!MutexNext
      BY <1>2, <2>1, <2>3, LockEnters DEF Mutex!MutexNext, Mutex!Enter, Asks, InsideOf
    <2>4. ASSUME NEW u \in Users, Unlock(u) PROVE Mutex!MutexNext
      <3>1. PICK a \in Assets : /\ Asks[u] = a /\ InsideOf[a] = u
                                /\ InsideOf' = [InsideOf EXCEPT ![a] = None]
                                /\ Asks' = [Asks EXCEPT ![u] = None]
        BY <1>2, <2>1, <2>4, UnlockLeaves
      <3>2. Mutex!Leave(u, a)  BY <3>1 DEF Mutex!Leave, Asks, InsideOf
      <3> QED  BY <3>2 DEF Mutex!MutexNext
    <2>5. ASSUME NEW u \in Users, NEW a \in Assets, Retain(u, a) PROVE Mutex!MutexNext
      BY <1>2, <2>1, <2>5, RetainAsks DEF Mutex!MutexNext, Mutex!Ask, Asks, InsideOf
    <2>6. ASSUME NEW u \in Users, Drop(u) PROVE UNCHANGED Mutex!mutexVars
      BY <1>2, <2>1, <2>6, DropStutters DEF Mutex!mutexVars, Asks, InsideOf
    <2> QED  BY <1>2, <2>2, <2>3, <2>4, <2>5, <2>6 DEF Next
  <1> QED  BY <1>1, <1>2, InvCorrect, PTL DEF Spec, ImplementsMutex, Mutex!MutexSpec
=============================================================================

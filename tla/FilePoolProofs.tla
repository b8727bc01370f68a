--------------------------- MODULE FilePoolProofs ---------------------------
(***************************************************************************)
(* Proofs about FilePool, for any connections, callers and stripes.        *)
(*                                                                         *)
(* No stale session: a browser that may still insert has the generation of *)
(* its id, and an edit takes that generation away for good because numbers *)
(* are never used again; a transfer that may still insert holds its gate   *)
(* for reading, and an edit writes only while nobody does.                 *)
(*                                                                         *)
(* No leaked session and no leaked generation: what is open or counted is  *)
(* kept for a session in the pool or for a caller on its way.              *)
(***************************************************************************)
EXTENDS FilePool, FiniteSetTheorems, TLAPS

USE DEF PoolIds, Callers

\* A pool id is a pool id.
LEMMA PoolIdType == ASSUME NEW g \in Callers PROVE PoolId(g) \in PoolIds
  BY FilePoolAssumption DEF PoolId

-----------------------------------------------------------------------------
(* Types.                                                                  *)

LEMMA InitType == Init => FilePoolTypeOK
  <1> SUFFICES ASSUME Init PROVE FilePoolTypeOK  OBVIOUS
  <1> USE FilePoolAssumption
  <1>1. caller \in [Callers -> Caller]  BY DEF Init, Caller, CallerPC, NoGen, Deleted
  <1>2. edit \in [Gates -> Edit]  BY DEF Init, Edit, NoEdit
  <1>3. sessions \in [PoolIds -> Entry \cup {None}]  BY DEF Init
  <1> QED  BY <1>1, <1>2, <1>3 DEF Init, FilePoolTypeOK, NoGen

LEMMA AcquireType ==
    ASSUME FilePoolTypeOK, NEW g \in Callers, NEW pc \in CallerPC, AcquireGeneration(g, pc)
    PROVE  /\ generations' \in [PoolIds -> Nat] /\ leases' \in [PoolIds -> Nat]
           /\ nextGen' \in Nat /\ caller' \in [Callers -> Caller]
  <1>1. PoolId(g) \in PoolIds  BY PoolIdType
  <1>2. CASE closed
    BY <1>1, <1>2 DEF AcquireGeneration, FilePoolTypeOK, Caller, NoGen
  <1>3. CASE ~closed
    <2>1. generations' \in [PoolIds -> Nat] /\ leases' \in [PoolIds -> Nat] /\ nextGen' \in Nat
      BY <1>1, <1>3 DEF AcquireGeneration, FilePoolTypeOK, NoGen
    <2>2. generations'[PoolId(g)] \in Nat  BY <2>1, <1>1
    <2>3. caller' = [caller EXCEPT ![g].pc = pc, ![g].gen = generations'[PoolId(g)]]
      BY <1>3 DEF AcquireGeneration
    <2>4. caller' \in [Callers -> Caller]  BY <2>2, <2>3 DEF FilePoolTypeOK, Caller
    <2> QED  BY <2>1, <2>4
  <1> QED  BY <1>2, <1>3

LEMMA GoToType ==
    ASSUME FilePoolTypeOK, NEW g \in Callers, NEW pc \in CallerPC, GoTo(g, pc)
    PROVE  caller' \in [Callers -> Caller]
  BY DEF GoTo, FilePoolTypeOK, Caller

LEMMA EvictType ==
    ASSUME FilePoolTypeOK, NEW ids, Evict(ids)
    PROVE  /\ sessions' \in [PoolIds -> Entry \cup {None}]
           /\ generations' \in [PoolIds -> Nat]
           /\ fs' \in [Callers -> {"unused", "open", "closed"}]
  BY DEF Evict, FilePoolTypeOK, NoGen

\* A session that is used again stays a session of the same configuration.
LEMMA EntryTouched ==
    ASSUME sessions \in [PoolIds -> Entry \cup {None}], NEW p \in PoolIds, sessions[p] \in Entry,
           NEW b \in BOOLEAN, sessions' = [sessions EXCEPT ![p].idle = b]
    PROVE  /\ sessions' \in [PoolIds -> Entry \cup {None}]
           /\ sessions'[p] \in Entry
           /\ sessions'[p].fs = sessions[p].fs
           /\ sessions'[p].conn = sessions[p].conn
           /\ sessions'[p].version = sessions[p].version
           /\ \A q \in PoolIds : q # p => sessions'[q] = sessions[q]
  <1>1. [sessions[p] EXCEPT !.idle = b] \in Entry  BY DEF Entry
  <1>2. sessions' = [sessions EXCEPT ![p] = [sessions[p] EXCEPT !.idle = b]]  OBVIOUS
  <1>3. sessions'[p] = [sessions[p] EXCEPT !.idle = b]  BY <1>2
  <1>4. \A q \in PoolIds : q # p => sessions'[q] = sessions[q]  BY <1>2
  <1> QED  BY <1>1, <1>2, <1>3, <1>4 DEF Entry

\* The map keeps the same sessions under the same ids.
LEMMA TouchKeeps ==
    ASSUME sessions \in [PoolIds -> Entry \cup {None}], NEW p \in PoolIds, sessions[p] \in Entry,
           NEW b \in BOOLEAN, sessions' = [sessions EXCEPT ![p].idle = b]
    PROVE  \A q \in PoolIds : /\ sessions'[q] = None <=> sessions[q] = None
                              /\ sessions'[q].fs = sessions[q].fs
  <1>1. None \notin Entry  BY FilePoolAssumption
  <1> QED  BY <1>1, EntryTouched

LEMMA CallerType ==
    ASSUME FilePoolTypeOK, NEW g \in Callers, CallerStep(g)
    PROVE  FilePoolTypeOK'
  <1> USE FilePoolAssumption
  <1>1. PoolId(g) \in PoolIds  BY PoolIdType
  <1>2. CASE BrowseStart(g)
    BY <1>2, AcquireType DEF BrowseStart, FilePoolTypeOK, CallerPC
  <1>3. CASE BrowseLoad(g)
    BY <1>3 DEF BrowseLoad, GoTo, FilePoolTypeOK, Caller, CallerPC
  <1>4. CASE TransferStart(g)
    BY <1>4 DEF TransferStart, GoTo, FilePoolTypeOK, Caller, CallerPC
  <1>5. CASE TransferGate(g)
    BY <1>5, GoToType DEF TransferGate, FilePoolTypeOK, CallerPC
  <1>6. CASE TransferValidate(g)
    BY <1>6, GoToType DEF TransferValidate, FilePoolTypeOK, CallerPC
  <1>7. CASE TransferAcquire(g)
    BY <1>7, AcquireType DEF TransferAcquire, FilePoolTypeOK, CallerPC
  <1>8. CASE GetAtGeneration(g)
    <2>1. Kept(PoolId(g)) => sessions[PoolId(g)] \in Entry  BY <1>1 DEF Kept, FilePoolTypeOK
    <2>2. caller' \in [Callers -> Caller]
      BY <1>8, <2>1 DEF GetAtGeneration, GoTo, FilePoolTypeOK, Caller, CallerPC, Entry
    <2>3. sessions' \in [PoolIds -> Entry \cup {None}]
      <3>1. CASE sessions' = [sessions EXCEPT ![PoolId(g)].idle = FALSE] /\ Kept(PoolId(g))
        BY <3>1, <1>1, <2>1, EntryTouched DEF FilePoolTypeOK
      <3>2. CASE sessions' = [sessions EXCEPT ![PoolId(g)] = None] \/ UNCHANGED sessions
        BY <3>2, <1>1 DEF FilePoolTypeOK
      <3> QED  BY <1>8, <3>1, <3>2 DEF GetAtGeneration
    <2>4. fs' \in [Callers -> {"unused", "open", "closed"}]
      BY <1>8, <2>1 DEF GetAtGeneration, FilePoolTypeOK, Entry
    <2> QED  BY <1>8, <2>2, <2>3, <2>4 DEF GetAtGeneration, FilePoolTypeOK
  <1>9. CASE Probe(g)
    <2>1. caller' \in [Callers -> Caller]
      BY <1>9 DEF Probe, GoTo, FilePoolTypeOK, Caller, CallerPC
    <2>2. sessions' \in [PoolIds -> Entry \cup {None}]
      BY <1>9, <1>1 DEF Probe, FilePoolTypeOK
    <2>3. fs' \in [Callers -> {"unused", "open", "closed"}]
      BY <1>9 DEF Probe, FilePoolTypeOK
    <2> QED  BY <1>9, <2>1, <2>2, <2>3 DEF Probe, FilePoolTypeOK
  <1>10. CASE Connect(g)
    BY <1>10, GoToType DEF Connect, FilePoolTypeOK, CallerPC
  <1>11. CASE Insert(g)
    <2>1. Kept(PoolId(g)) => sessions[PoolId(g)] \in Entry  BY <1>1 DEF Kept, FilePoolTypeOK
    <2>2. caller' \in [Callers -> Caller]
      BY <1>11, <2>1 DEF Insert, GoTo, FilePoolTypeOK, Caller, CallerPC, Entry
    <2>3. sessions' \in [PoolIds -> Entry \cup {None}]
      <3> DEFINE e == [fs |-> g, conn |-> ConnOf[g], version |-> caller[g].version, idle |-> FALSE]
      <3>1. CASE sessions' = [sessions EXCEPT ![PoolId(g)].idle = FALSE] /\ Kept(PoolId(g))
        BY <3>1, <1>1, <2>1, EntryTouched DEF FilePoolTypeOK
      <3>2. CASE sessions' = [sessions EXCEPT ![PoolId(g)] = e]
        <4>1. e \in Entry  BY DEF FilePoolTypeOK, Entry, Caller
        <4> QED  BY <4>1, <3>2, <1>1 DEF FilePoolTypeOK
      <3>3. CASE UNCHANGED sessions  BY <3>3 DEF FilePoolTypeOK
      <3> QED  BY <1>11, <3>1, <3>2, <3>3 DEF Insert
    <2>4. fs' \in [Callers -> {"unused", "open", "closed"}]
      BY <1>11 DEF Insert, FilePoolTypeOK
    <2> QED  BY <1>11, <2>2, <2>3, <2>4 DEF Insert, FilePoolTypeOK
  <1>12. CASE Release(g)
    <2>1. caller' \in [Callers -> Caller]  BY <1>12, GoToType DEF Release, CallerPC
    <2>2. generations' \in [PoolIds -> Nat] /\ leases' \in [PoolIds -> Nat]
      BY <1>12, <1>1 DEF Release, ReleaseGeneration, FilePoolTypeOK, NoGen
    <2> QED  BY <1>12, <2>1, <2>2 DEF Release, FilePoolTypeOK
  <1>13. CASE Unlock(g)
    BY <1>13, GoToType DEF Unlock, FilePoolTypeOK, CallerPC
  <1>14. CASE Finish(g)
    <2>1. caller' \in [Callers -> Caller]  BY <1>14, GoToType DEF Finish, CallerPC
    <2>2. CASE g \in Transfers
      BY <1>14, <2>1, <2>2, EvictType DEF Finish, FilePoolTypeOK
    <2>3. CASE g \notin Transfers
      BY <1>14, <2>1, <2>3 DEF Finish, FilePoolTypeOK
    <2> QED  BY <2>2, <2>3
  <1> QED
    BY <1>2, <1>3, <1>4, <1>5, <1>6, <1>7, <1>8, <1>9, <1>10, <1>11, <1>12, <1>13, <1>14
    DEF CallerStep

LEMMA EditType ==
    ASSUME FilePoolTypeOK, NEW k \in Gates,
           EditStep(k) \/ \E c \in Saved : GateOf[c] = k /\ EditStart(c)
    PROVE  FilePoolTypeOK'
  <1> USE FilePoolAssumption
  <1>1. ASSUME NEW c \in Saved, EditStart(c) PROVE FilePoolTypeOK'
    BY <1>1 DEF EditStart, FilePoolTypeOK, Edit
  <1>2. CASE EditLock(k)  BY <1>2 DEF EditLock, FilePoolTypeOK, Edit
  <1>3. CASE EditWrite(k)  BY <1>3 DEF EditWrite, FilePoolTypeOK, Edit, Deleted
  <1>4. CASE EditFinish(k)
    BY <1>4, EvictType DEF EditFinish, FilePoolTypeOK, Edit, NoEdit
  <1> QED  BY <1>1, <1>2, <1>3, <1>4 DEF EditStep

LEMMA PoolType ==
    ASSUME FilePoolTypeOK, (\E p \in PoolIds : GrowsIdle(p)) \/ ReapIdle \/ ClosePool
    PROVE  FilePoolTypeOK'
  <1>1. ASSUME NEW p \in PoolIds, GrowsIdle(p) PROVE FilePoolTypeOK'
    BY <1>1 DEF GrowsIdle, Kept, FilePoolTypeOK, Entry
  <1>2. CASE ReapIdle  BY <1>2, EvictType DEF ReapIdle, FilePoolTypeOK
  <1>3. CASE ClosePool  BY <1>3, EvictType DEF ClosePool, FilePoolTypeOK
  <1> QED  BY <1>1, <1>2, <1>3

LEMMA StepType == FilePoolTypeOK /\ [Next]_vars => FilePoolTypeOK'
  <1> SUFFICES ASSUME FilePoolTypeOK, [Next]_vars PROVE FilePoolTypeOK'  OBVIOUS
  <1>1. CASE UNCHANGED vars  BY <1>1 DEF vars, FilePoolTypeOK
  <1>2. CASE Next  BY <1>2, CallerType, EditType, PoolType, FilePoolAssumption DEF Next
  <1> QED  BY <1>1, <1>2

\* The pool's state is well typed; the counts of leases never go below zero,
\* although Close resets them under callers that are still in there.
THEOREM FilePoolTypeCorrect == Spec => []FilePoolTypeOK
  BY InitType, StepType, PTL DEF Spec

-----------------------------------------------------------------------------
(* No stale session.                                                       *)

\* Where a caller may still end in Insert with the version it has.
MayInsert == {"get", "probe", "connect", "insert"}

VersionOk(c, v) == v = saved[c] \/ Unsettled(c)

GensBounded ==
    /\ \A p \in PoolIds : generations[p] <= nextGen
    /\ \A g \in Callers : caller[g].gen <= nextGen

EditsAtGate ==
    \A k \in Gates : edit[k].pc # "none" => edit[k].conn \in Saved /\ GateOf[edit[k].conn] = k

\* Browsers and transfers take different ways to GetAtGeneration.
Roles ==
    \A g \in Callers : /\ caller[g].pc = "load" => g \in Browsers
                       /\ caller[g].pc \in {"validate", "acquire"} => g \in Transfers

WriterAlone == \A k \in Gates : edit[k].pc \in {"locked", "written"} => NoReaders(k)

BrowserFresh ==
    \A g \in Browsers : caller[g].pc \in MayInsert /\ Current(g)
                           => VersionOk(ConnOf[g], caller[g].version)

TransferFresh ==
    \A g \in Transfers : caller[g].pc \in MayInsert \cup {"acquire"}
                            => caller[g].version = saved[ConnOf[g]]

StaleInv ==
    /\ FilePoolTypeOK
    /\ GensBounded /\ EditsAtGate /\ Roles /\ WriterAlone
    /\ BrowserFresh /\ TransferFresh /\ NoStaleSession

LEMMA StaleInit == Init => StaleInv
  <1> SUFFICES ASSUME Init PROVE StaleInv  OBVIOUS
  <1> USE FilePoolAssumption DEF Init
  <1>1. FilePoolTypeOK  BY InitType
  <1>2. GensBounded  BY DEF GensBounded, NoGen
  <1>3. EditsAtGate /\ WriterAlone  BY DEF EditsAtGate, WriterAlone, NoEdit
  <1>4. Roles /\ BrowserFresh /\ TransferFresh
    BY DEF Roles, BrowserFresh, TransferFresh, MayInsert
  <1>5. NoStaleSession  BY DEF NoStaleSession, Kept
  <1> QED  BY <1>1, <1>2, <1>3, <1>4, <1>5 DEF StaleInv

\* What a step may do to the generations: keep one, forget it, or give a number
\* that was never used to an id without one.
GensMove ==
    /\ nextGen' \in Nat /\ nextGen <= nextGen'
    /\ \A p \in PoolIds : \/ generations'[p] \in {generations[p], NoGen}
                          \/ generations'[p] = nextGen' /\ nextGen' = nextGen + 1

\* What a step other than an insertion may do to the sessions.
SessionsMove ==
    \A p \in PoolIds : \/ sessions'[p] = None
                       \/ /\ sessions[p] # None
                          /\ sessions'[p].version = sessions[p].version
                          /\ sessions'[p].conn = sessions[p].conn

LEMMA AcquireMoves ==
    ASSUME FilePoolTypeOK, GensBounded, NEW g \in Callers, NEW pc \in CallerPC,
           AcquireGeneration(g, pc)
    PROVE  /\ GensMove
           /\ caller'[g].pc = pc /\ caller'[g].version = caller[g].version
           /\ caller'[g].gen <= nextGen'
           /\ \A h \in Callers : h # g => caller'[h] = caller[h]
  <1>1. PoolId(g) \in PoolIds  BY PoolIdType
  <1>2. CASE closed
    BY <1>1, <1>2 DEF AcquireGeneration, GensMove, FilePoolTypeOK, Caller, NoGen
  <1>3. CASE ~closed
    <2>1. /\ caller' = [caller EXCEPT ![g].pc = pc, ![g].gen = generations'[PoolId(g)]]
          /\ nextGen' = IF generations[PoolId(g)] = NoGen THEN nextGen + 1 ELSE nextGen
          /\ generations' = [generations EXCEPT ![PoolId(g)] = IF @ = NoGen THEN nextGen + 1 ELSE @]
      BY <1>3 DEF AcquireGeneration
    <2>2. GensMove  BY <1>1, <2>1 DEF GensMove, FilePoolTypeOK
    <2>3. generations'[PoolId(g)] <= nextGen'
      BY <1>1, <2>1 DEF GensBounded, FilePoolTypeOK
    <2> QED  BY <2>1, <2>2, <2>3 DEF FilePoolTypeOK, Caller
  <1> QED  BY <1>2, <1>3

\* Eviction forgets generations and sessions, and changes no session it keeps.
LEMMA EvictMoves ==
    ASSUME FilePoolTypeOK, NEW ids, Evict(ids), nextGen' = nextGen
    PROVE  GensMove /\ SessionsMove
  BY DEF Evict, GensMove, SessionsMove, FilePoolTypeOK

\* A caller's step as far as the argument needs it.
CallerMoves(g) ==
    /\ saved' = saved /\ edit' = edit
    /\ GensMove
    /\ \A h \in Callers : h # g => caller'[h] = caller[h]
    /\ caller'[g].gen <= nextGen'
    /\ caller'[g].pc \in MayInsert /\ g \in Browsers
          => \/ /\ caller[g].pc \in MayInsert
                /\ caller'[g].version = caller[g].version /\ caller'[g].gen = caller[g].gen
             \/ caller'[g].version = saved[ConnOf[g]]
    /\ caller'[g].pc \in MayInsert \cup {"acquire"} /\ g \in Transfers
          => /\ caller'[g].version = caller[g].version
             /\ \/ caller[g].pc \in MayInsert \cup {"acquire"}
                \/ caller[g].version = saved[ConnOf[g]]
    /\ \A k \in Gates : Reads(g, k)' => Reads(g, k) \/ edit[k].pc = "none"
    /\ caller'[g].pc = "load" => g \in Browsers
    /\ caller'[g].pc \in {"validate", "acquire"} => g \in Transfers

LEMMA GoToMoves ==
    ASSUME FilePoolTypeOK, GensBounded, NEW g \in Callers, NEW pc \in CallerPC, GoTo(g, pc)
    PROVE  /\ caller'[g].pc = pc /\ caller'[g].version = caller[g].version
           /\ caller'[g].gen = caller[g].gen /\ caller[g].gen <= nextGen
           /\ \A h \in Callers : h # g => caller'[h] = caller[h]
  BY DEF GoTo, FilePoolTypeOK, Caller, GensBounded

\* Every step of a caller has that form, and moves sessions unless it inserts.
LEMMA CallerFrame ==
    ASSUME StaleInv, NEW g \in Callers, CallerStep(g)
    PROVE  CallerMoves(g) /\ (SessionsMove \/ Insert(g))
  <1> USE FilePoolAssumption
  <1> USE DEF StaleInv
  <1>1. PoolId(g) \in PoolIds  BY PoolIdType
  <1>2. g \in Browsers <=> g \notin Transfers  OBVIOUS
  <1>3. ASSUME UNCHANGED <<generations, nextGen>> PROVE GensMove
    BY <1>3 DEF GensMove, FilePoolTypeOK
  <1>4. ASSUME UNCHANGED sessions PROVE SessionsMove
    BY <1>4 DEF SessionsMove
  <1>5. CASE BrowseStart(g)
    <2>1. /\ AcquireGeneration(g, "load") /\ g \in Browsers
          /\ UNCHANGED <<saved, sessions, closed, edit, fs>>
      BY <1>5 DEF BrowseStart
    <2>2. /\ GensMove /\ caller'[g].pc = "load" /\ caller'[g].gen <= nextGen'
          /\ \A h \in Callers : h # g => caller'[h] = caller[h]
      BY <2>1, AcquireMoves DEF CallerPC
    <2> QED  BY <2>1, <2>2, <1>2, <1>4 DEF CallerMoves, MayInsert, Reads
  <1>6. CASE BrowseLoad(g)
    <2>1. /\ caller[g].pc = "load" /\ UNCHANGED <<saved, sessions, generations, nextGen, edit>>
          /\ \A h \in Callers : h # g => caller'[h] = caller[h]
          /\ caller'[g].gen = caller[g].gen
          /\ \/ caller'[g].pc = "get" /\ caller'[g].version = saved[ConnOf[g]]
             \/ caller'[g].pc = "release"
      BY <1>6 DEF BrowseLoad, At, GoTo, FilePoolTypeOK, Caller
    <2>2. g \in Browsers  BY <2>1 DEF Roles
    <2> QED  BY <2>1, <2>2, <1>2, <1>3, <1>4 DEF CallerMoves, GensBounded, MayInsert, Reads
  <1>7. CASE TransferStart(g)
    <2>1. /\ g \in Transfers /\ UNCHANGED <<saved, sessions, generations, nextGen, edit>>
          /\ \A h \in Callers : h # g => caller'[h] = caller[h]
          /\ caller'[g].gen = caller[g].gen /\ caller'[g].pc \in {"gate", "done"}
      BY <1>7 DEF TransferStart, At, GoTo, FilePoolTypeOK, Caller
    <2> QED  BY <2>1, <1>2, <1>3, <1>4 DEF CallerMoves, GensBounded, MayInsert, Reads
  <1>8. CASE TransferGate(g)
    <2>1. /\ g \in Transfers /\ UNCHANGED <<saved, sessions, generations, nextGen, edit>>
          /\ edit[GateOf[ConnOf[g]]].pc = "none" /\ GoTo(g, "validate")
      BY <1>8 DEF TransferGate
    <2>2. /\ caller'[g].pc = "validate" /\ caller'[g].gen = caller[g].gen
          /\ caller[g].gen <= nextGen
          /\ \A h \in Callers : h # g => caller'[h] = caller[h]
      BY <2>1, GoToMoves DEF CallerPC
    <2> QED  BY <2>1, <2>2, <1>2, <1>3, <1>4 DEF CallerMoves, MayInsert, Reads
  <1>9. CASE TransferValidate(g)
    <2>1. /\ caller[g].pc = "validate" /\ UNCHANGED <<saved, sessions, generations, nextGen, edit>>
          /\ \/ saved[ConnOf[g]] = caller[g].version /\ GoTo(g, "acquire")
             \/ GoTo(g, "unlock")
      BY <1>9 DEF TransferValidate, At
    <2>2. g \in Transfers  BY <2>1 DEF Roles
    <2>3. /\ \/ caller'[g].pc = "unlock"
             \/ caller'[g].pc = "acquire" /\ caller[g].version = saved[ConnOf[g]]
          /\ caller'[g].version = caller[g].version
          /\ caller'[g].gen = caller[g].gen /\ caller[g].gen <= nextGen
          /\ \A h \in Callers : h # g => caller'[h] = caller[h]
      BY <2>1, GoToMoves DEF CallerPC
    <2> QED  BY <2>1, <2>2, <2>3, <1>2, <1>3, <1>4 DEF CallerMoves, MayInsert, Reads
  <1>10. CASE TransferAcquire(g)
    <2>1. /\ caller[g].pc = "acquire" /\ AcquireGeneration(g, "get")
          /\ UNCHANGED <<saved, sessions, closed, edit, fs>>
      BY <1>10 DEF TransferAcquire, At
    <2>2. g \in Transfers  BY <2>1 DEF Roles
    <2>3. /\ GensMove /\ caller'[g].pc = "get" /\ caller'[g].gen <= nextGen'
          /\ caller'[g].version = caller[g].version
          /\ \A h \in Callers : h # g => caller'[h] = caller[h]
      BY <2>1, AcquireMoves DEF CallerPC
    <2> QED  BY <2>1, <2>2, <2>3, <1>2, <1>4 DEF CallerMoves, MayInsert, Reads
  <1>11. ASSUME /\ caller[g].pc \in {"get", "probe", "connect", "insert"}
                /\ UNCHANGED <<saved, generations, nextGen, edit>>
                /\ \E pc \in {"get", "probe", "connect", "insert", "release"} : caller'[g].pc = pc
                /\ caller'[g].version = caller[g].version /\ caller'[g].gen = caller[g].gen
                /\ \A h \in Callers : h # g => caller'[h] = caller[h]
         PROVE  CallerMoves(g)
    BY <1>11, <1>2, <1>3 DEF CallerMoves, GensBounded, MayInsert, Reads
  <1>12. CASE GetAtGeneration(g)
    <2>1. CallerMoves(g)
      BY <1>11, <1>12 DEF GetAtGeneration, At, GoTo, FilePoolTypeOK, Caller
    <2>2. CASE sessions' = [sessions EXCEPT ![PoolId(g)].idle = FALSE] /\ Kept(PoolId(g))
      <3>1. sessions[PoolId(g)] \in Entry  BY <2>2, <1>1 DEF Kept, FilePoolTypeOK
      <3>2. SessionsMove  BY <2>2, <3>1, <1>1, EntryTouched DEF SessionsMove, Kept, FilePoolTypeOK
      <3> QED  BY <2>1, <3>2
    <2>3. CASE sessions' = [sessions EXCEPT ![PoolId(g)] = None] \/ UNCHANGED sessions
      <3>1. SessionsMove  BY <2>3, <1>1 DEF SessionsMove, FilePoolTypeOK
      <3> QED  BY <2>1, <3>1
    <2> QED  BY <1>12, <2>2, <2>3 DEF GetAtGeneration
  <1>13. CASE Probe(g)
    <2>1. CallerMoves(g)
      BY <1>11, <1>13 DEF Probe, At, GoTo, FilePoolTypeOK, Caller
    <2>2. sessions' = [sessions EXCEPT ![PoolId(g)] = None] \/ UNCHANGED sessions
      BY <1>13 DEF Probe
    <2>3. SessionsMove  BY <2>2, <1>1 DEF SessionsMove, FilePoolTypeOK
    <2> QED  BY <2>1, <2>3
  <1>14. CASE Connect(g)
    BY <1>4, <1>11, <1>14 DEF Connect, At, GoTo, FilePoolTypeOK, Caller
  <1>15. CASE Insert(g)
    BY <1>11, <1>15 DEF Insert, At, GoTo, FilePoolTypeOK, Caller
  <1>16. CASE Release(g)
    <2>1. /\ UNCHANGED <<saved, sessions, nextGen, edit>> /\ ReleaseGeneration(PoolId(g))
          /\ caller[g].pc = "release"
          /\ GoTo(g, IF g \in Transfers THEN "unlock" ELSE IF caller[g].found = None THEN "done" ELSE "using")
      BY <1>16 DEF Release, At
    <2>2. GensMove  BY <2>1, <1>1 DEF ReleaseGeneration, GensMove, FilePoolTypeOK, NoGen
    <2>3. /\ caller'[g].pc \in {"unlock", "done", "using"}
          /\ caller'[g].gen = caller[g].gen /\ caller[g].gen <= nextGen
          /\ \A h \in Callers : h # g => caller'[h] = caller[h]
      BY <2>1, GoToMoves DEF CallerPC
    <2> QED  BY <2>1, <2>2, <2>3, <1>4 DEF CallerMoves, MayInsert, Reads
  <1>17. CASE Unlock(g)
    <2>1. /\ UNCHANGED <<saved, sessions, generations, nextGen, edit>> /\ caller[g].pc = "unlock"
          /\ GoTo(g, IF caller[g].found = None THEN "done" ELSE "using")
      BY <1>17 DEF Unlock, At
    <2>2. /\ caller'[g].pc \in {"done", "using"}
          /\ caller'[g].gen = caller[g].gen /\ caller[g].gen <= nextGen
          /\ \A h \in Callers : h # g => caller'[h] = caller[h]
      BY <2>1, GoToMoves DEF CallerPC
    <2> QED  BY <2>1, <2>2, <1>3, <1>4 DEF CallerMoves, MayInsert, Reads
  <1>18. CASE Finish(g)
    <2>1. UNCHANGED <<saved, nextGen, edit>> /\ GoTo(g, "done")
      BY <1>18 DEF Finish
    <2>2. GensMove /\ SessionsMove
      <3>1. CASE g \in Transfers  BY <1>18, <2>1, <3>1, EvictMoves DEF Finish
      <3>2. CASE g \notin Transfers  BY <1>18, <2>1, <3>2, <1>3, <1>4 DEF Finish
      <3> QED  BY <3>1, <3>2
    <2>3. /\ caller'[g].pc = "done" /\ caller'[g].gen = caller[g].gen /\ caller[g].gen <= nextGen
          /\ \A h \in Callers : h # g => caller'[h] = caller[h]
      BY <2>1, GoToMoves DEF CallerPC
    <2> QED  BY <2>1, <2>2, <2>3 DEF CallerMoves, MayInsert, Reads
  <1> QED
    BY <1>5, <1>6, <1>7, <1>8, <1>9, <1>10, <1>12, <1>13, <1>14, <1>15, <1>16, <1>17, <1>18
    DEF CallerStep

\* A caller that has a current generation after a step had it before: numbers
\* are not used again.
LEMMA CurrentBefore ==
    ASSUME FilePoolTypeOK, GensBounded, GensMove, NEW g \in Callers,
           caller'[g].gen = caller[g].gen, Current(g)'
    PROVE  Current(g)
  <1>1. PoolId(g) \in PoolIds  BY PoolIdType
  <1>2. PoolId(g)' = PoolId(g)  BY DEF PoolId
  <1>3. generations'[PoolId(g)] # NoGen /\ generations'[PoolId(g)] = caller[g].gen
    BY <1>2 DEF Current
  <1>4. caller[g].gen \in Nat /\ caller[g].gen <= nextGen /\ nextGen \in Nat
    BY DEF FilePoolTypeOK, Caller, GensBounded
  <1>5. generations'[PoolId(g)] = generations[PoolId(g)]
    BY <1>1, <1>3, <1>4 DEF GensMove
  <1> QED  BY <1>3, <1>5 DEF Current

\* Generations stay bounded by the last number given out.
LEMMA BoundsStay ==
    ASSUME FilePoolTypeOK, GensBounded, GensMove,
           \A g \in Callers : caller'[g].gen = caller[g].gen \/ caller'[g].gen <= nextGen'
    PROVE  GensBounded'
  <1>1. ASSUME NEW p \in PoolIds PROVE generations'[p] <= nextGen'
    BY DEF GensMove, GensBounded, FilePoolTypeOK, NoGen
  <1>2. ASSUME NEW g \in Callers PROVE caller'[g].gen <= nextGen'
    <2>1. caller[g].gen \in Nat /\ caller[g].gen <= nextGen /\ nextGen \in Nat
      BY DEF FilePoolTypeOK, Caller, GensBounded
    <2> QED  BY <2>1 DEF GensMove
  <1> QED  BY <1>1, <1>2 DEF GensBounded

\* Callers keep the invariant.
LEMMA CallerStale ==
    ASSUME StaleInv, NEW g \in Callers, CallerStep(g)
    PROVE  StaleInv'
  <1> USE FilePoolAssumption
  <1>1. CallerMoves(g) /\ (SessionsMove \/ Insert(g))  BY CallerFrame
  <1>2. FilePoolTypeOK'  BY CallerType DEF StaleInv
  <1>3. saved' = saved /\ edit' = edit /\ GensMove
        /\ \A h \in Callers : h # g => caller'[h] = caller[h]
    BY <1>1 DEF CallerMoves
  <1>4. GensBounded'  BY <1>1, <1>3, BoundsStay DEF StaleInv, CallerMoves
  <1>5. EditsAtGate'  BY <1>3 DEF StaleInv, EditsAtGate
  <1>6. Roles'  BY <1>1, <1>3 DEF StaleInv, Roles, CallerMoves
  <1>7. WriterAlone'
    <2> SUFFICES ASSUME NEW k \in Gates, edit[k].pc \in {"locked", "written"}, NEW h \in Callers,
                        Reads(h, k)'
                 PROVE  FALSE
      BY <1>3 DEF WriterAlone, NoReaders
    <2>1. Reads(h, k)
      <3>1. CASE h = g  BY <3>1, <1>1 DEF CallerMoves
      <3>2. CASE h # g  BY <3>2, <1>3 DEF Reads
      <3> QED  BY <3>1, <3>2
    <2> QED  BY <2>1 DEF StaleInv, WriterAlone, NoReaders
  <1>8. BrowserFresh'
    <2> SUFFICES ASSUME NEW h \in Browsers, caller'[h].pc \in MayInsert, Current(h)'
                 PROVE  VersionOk(ConnOf[h], caller[h].version)'
      BY DEF BrowserFresh
    <2>1. CASE caller'[h].version = saved[ConnOf[h]]  BY <2>1, <1>3 DEF VersionOk
    <2>2. CASE /\ caller[h].pc \in MayInsert
               /\ caller'[h].version = caller[h].version /\ caller'[h].gen = caller[h].gen
      <3>1. Current(h)  BY <2>2, <1>3, CurrentBefore DEF StaleInv
      <3>2. VersionOk(ConnOf[h], caller[h].version)
        BY <2>2, <3>1 DEF StaleInv, BrowserFresh
      <3> QED  BY <2>2, <3>2, <1>3 DEF VersionOk, Unsettled
    <2> QED  BY <2>1, <2>2, <1>1, <1>3 DEF CallerMoves
  <1>9. TransferFresh'
    BY <1>1, <1>3 DEF StaleInv, TransferFresh, CallerMoves
  <1>10. NoStaleSession'
    <2> SUFFICES ASSUME NEW p \in PoolIds, sessions'[p] # None
                 PROVE  VersionOk(sessions[p].conn, sessions[p].version)'
      BY DEF NoStaleSession, Kept, VersionOk
    <2>1. CASE /\ sessions[p] # None
               /\ sessions'[p].version = sessions[p].version
               /\ sessions'[p].conn = sessions[p].conn
      BY <2>1, <1>3 DEF StaleInv, NoStaleSession, Kept, VersionOk, Unsettled
    <2>2. CASE Insert(g)
      <3>1. PoolId(g) \in PoolIds  BY PoolIdType
      <3>2. CASE UNCHANGED sessions  BY <2>1, <3>2
      <3>3. CASE sessions' = [sessions EXCEPT ![PoolId(g)].idle = FALSE] /\ Kept(PoolId(g))
        <4>1. sessions[PoolId(g)] \in Entry  BY <3>1, <3>3 DEF Kept, StaleInv, FilePoolTypeOK
        <4>2. /\ sessions[p] # None
              /\ sessions'[p].version = sessions[p].version
              /\ sessions'[p].conn = sessions[p].conn
          BY <3>1, <3>3, <4>1, EntryTouched DEF Kept, StaleInv, FilePoolTypeOK
        <4> QED  BY <2>1, <4>2
      <3>4. CASE /\ Current(g)
                 /\ sessions' = [sessions EXCEPT ![PoolId(g)] =
                                    [fs |-> g, conn |-> ConnOf[g], version |-> caller[g].version,
                                     idle |-> FALSE]]
        <4>1. caller[g].pc = "insert"  BY <2>2 DEF Insert, At
        <4>2. VersionOk(ConnOf[g], caller[g].version)
          BY <4>1, <3>4 DEF StaleInv, BrowserFresh, TransferFresh, VersionOk, MayInsert
        <4>3. CASE p = PoolId(g)
          <5>1. sessions'[p].conn = ConnOf[g] /\ sessions'[p].version = caller[g].version
            BY <3>1, <3>4, <4>3 DEF StaleInv, FilePoolTypeOK
          <5> QED  BY <5>1, <4>2, <1>3 DEF VersionOk, Unsettled
        <4>4. CASE p # PoolId(g)
          BY <2>1, <3>1, <3>4, <4>4 DEF StaleInv, FilePoolTypeOK
        <4> QED  BY <4>3, <4>4
      <3> QED  BY <2>2, <3>2, <3>3, <3>4 DEF Insert
    <2> QED  BY <2>1, <2>2, <1>1 DEF SessionsMove
  <1> QED  BY <1>2, <1>4, <1>5, <1>6, <1>7, <1>8, <1>9, <1>10 DEF StaleInv

\* A step that leaves the stored connections, the edits and the callers alone,
\* and only forgets, keeps it.
LEMMA PoolStale ==
    ASSUME StaleInv, (\E p \in PoolIds : GrowsIdle(p)) \/ ReapIdle \/ ClosePool
    PROVE  StaleInv'
  <1>1. FilePoolTypeOK'  BY PoolType DEF StaleInv
  <1>2. UNCHANGED <<saved, edit, caller, nextGen>>
    BY DEF GrowsIdle, ReapIdle, ClosePool
  <1>3. GensMove /\ SessionsMove
    <2>1. ASSUME NEW p \in PoolIds, GrowsIdle(p) PROVE GensMove /\ SessionsMove
      <3>1. sessions[p] \in Entry  BY <2>1 DEF GrowsIdle, Kept, StaleInv, FilePoolTypeOK
      <3>2. SessionsMove
        BY <2>1, <3>1, EntryTouched DEF GrowsIdle, Kept, SessionsMove, StaleInv, FilePoolTypeOK
      <3> QED  BY <2>1, <3>2 DEF GrowsIdle, GensMove, StaleInv, FilePoolTypeOK
    <2>2. CASE ReapIdle  BY <2>2, EvictMoves DEF ReapIdle, StaleInv
    <2>3. CASE ClosePool  BY <2>3, EvictMoves DEF ClosePool, StaleInv
    <2> QED  BY <2>1, <2>2, <2>3
  <1>4. GensBounded'  BY <1>2, <1>3, BoundsStay DEF StaleInv
  <1>5. EditsAtGate' /\ Roles' /\ TransferFresh'
    BY <1>2 DEF StaleInv, EditsAtGate, Roles, TransferFresh
  <1>6. WriterAlone'  BY <1>2 DEF StaleInv, WriterAlone, NoReaders, Reads
  <1>7. BrowserFresh'
    <2> SUFFICES ASSUME NEW h \in Browsers, caller[h].pc \in MayInsert, Current(h)'
                 PROVE  VersionOk(ConnOf[h], caller[h].version)'
      BY <1>2 DEF BrowserFresh
    <2>1. Current(h)  BY <1>2, <1>3, CurrentBefore DEF StaleInv
    <2> QED  BY <2>1, <1>2 DEF StaleInv, BrowserFresh, VersionOk, Unsettled
  <1>8. NoStaleSession'
    BY <1>2, <1>3 DEF StaleInv, NoStaleSession, Kept, SessionsMove, Unsettled
  <1> QED  BY <1>1, <1>4, <1>5, <1>6, <1>7, <1>8 DEF StaleInv

\* Queueing for a gate and taking it settle nothing and unsettle nothing.
LEMMA EditTakes ==
    ASSUME StaleInv, (\E c \in Saved : EditStart(c)) \/ (\E k \in Gates : EditLock(k))
    PROVE  StaleInv'
  <1> USE FilePoolAssumption
  <1>1. UNCHANGED <<saved, sessions, generations, nextGen, caller>>
    BY DEF EditStart, EditLock
  <1>2. FilePoolTypeOK'
    <2>1. ASSUME NEW c \in Saved, EditStart(c) PROVE FilePoolTypeOK'
      BY <2>1, EditType DEF StaleInv
    <2>2. ASSUME NEW k \in Gates, EditLock(k) PROVE FilePoolTypeOK'
      BY <2>2, EditType DEF StaleInv, EditStep
    <2> QED  BY <2>1, <2>2
  <1>3. PICK k \in Gates :
           /\ \A j \in Gates : j # k => edit'[j] = edit[j]
           /\ edit[k].pc \in {"none", "waiting"} /\ edit'[k].pc \in {"waiting", "locked"}
           /\ edit'[k].conn \in Saved /\ GateOf[edit'[k].conn] = k
           /\ edit'[k].pc = "locked" => NoReaders(k)
    <2>1. ASSUME NEW c \in Saved, EditStart(c)
          PROVE  LET k == GateOf[c] IN
                 /\ \A j \in Gates : j # k => edit'[j] = edit[j]
                 /\ edit[k].pc \in {"none", "waiting"} /\ edit'[k].pc \in {"waiting", "locked"}
                 /\ edit'[k].conn \in Saved /\ GateOf[edit'[k].conn] = k
                 /\ edit'[k].pc = "locked" => NoReaders(k)
      BY <2>1 DEF EditStart, StaleInv, FilePoolTypeOK, Edit
    <2>2. ASSUME NEW k \in Gates, EditLock(k)
          PROVE  /\ \A j \in Gates : j # k => edit'[j] = edit[j]
                 /\ edit[k].pc \in {"none", "waiting"} /\ edit'[k].pc \in {"waiting", "locked"}
                 /\ edit'[k].conn \in Saved /\ GateOf[edit'[k].conn] = k
                 /\ edit'[k].pc = "locked" => NoReaders(k)
      BY <2>2 DEF EditLock, StaleInv, FilePoolTypeOK, Edit, EditsAtGate
    <2> QED  BY <2>1, <2>2
  <1>4. \A c \in Saved : Unsettled(c)' <=> Unsettled(c)
    BY <1>3 DEF Unsettled
  <1>5. GensBounded' /\ Roles' /\ TransferFresh'
    BY <1>1 DEF StaleInv, GensBounded, Roles, TransferFresh
  <1>6. EditsAtGate'  BY <1>3 DEF StaleInv, EditsAtGate
  <1>7. WriterAlone'
    <2>1. \A j \in Gates : NoReaders(j)' <=> NoReaders(j)  BY <1>1 DEF NoReaders, Reads
    <2> QED  BY <2>1, <1>3 DEF StaleInv, WriterAlone
  <1>8. BrowserFresh'
    BY <1>1, <1>4 DEF StaleInv, BrowserFresh, VersionOk, Current, PoolId
  <1>9. NoStaleSession'
    <2>1. \A p \in PoolIds : sessions[p] # None => sessions[p].conn \in Saved
      BY DEF StaleInv, FilePoolTypeOK, Entry
    <2> QED  BY <2>1, <1>1, <1>4 DEF StaleInv, NoStaleSession, Kept
  <1> QED  BY <1>2, <1>5, <1>6, <1>7, <1>8, <1>9 DEF StaleInv

\* The write unsettles its connection; no transfer of the stripe is on its way.
LEMMA EditWrites ==
    ASSUME StaleInv, NEW k \in Gates, EditWrite(k)
    PROVE  StaleInv'
  <1> USE FilePoolAssumption
  <1>1. PICK c \in Saved : c = edit[k].conn /\ GateOf[c] = k
    BY DEF EditWrite, StaleInv, EditsAtGate
  <1>2. /\ UNCHANGED <<sessions, generations, nextGen, caller>>
        /\ edit[k].pc = "locked" /\ edit' = [edit EXCEPT ![k].pc = "written"]
        /\ \A d \in Saved : d # c => saved'[d] = saved[d]
    BY <1>1 DEF EditWrite, StaleInv, FilePoolTypeOK
  <1>3. FilePoolTypeOK'  BY EditType DEF StaleInv, EditStep
  <1>4. /\ edit'[k].pc = "written" /\ edit'[k].conn = c
        /\ \A j \in Gates : j # k => edit'[j] = edit[j]
    BY <1>1, <1>2 DEF StaleInv, FilePoolTypeOK, Edit
  <1>5. Unsettled(c)' /\ \A d \in Saved : d # c => (Unsettled(d)' <=> Unsettled(d))
    BY <1>1, <1>2, <1>4 DEF Unsettled
  <1>6. ASSUME NEW d \in Saved, NEW v, VersionOk(d, v) PROVE VersionOk(d, v)'
    BY <1>2, <1>5, <1>6 DEF VersionOk
  <1>7. GensBounded' /\ Roles'  BY <1>2 DEF StaleInv, GensBounded, Roles
  <1>8. EditsAtGate'  BY <1>1, <1>4 DEF StaleInv, EditsAtGate
  <1>9. WriterAlone'
    <2>1. \A j \in Gates : NoReaders(j)' <=> NoReaders(j)  BY <1>2 DEF NoReaders, Reads
    <2> QED  BY <2>1, <1>2, <1>4 DEF StaleInv, WriterAlone
  <1>10. BrowserFresh'
    BY <1>2, <1>6 DEF StaleInv, BrowserFresh, Current, PoolId, VersionOk
  <1>11. TransferFresh'
    <2> SUFFICES ASSUME NEW g \in Transfers, caller[g].pc \in MayInsert \cup {"acquire"}
                 PROVE  caller[g].version = saved'[ConnOf[g]]
      BY <1>2 DEF TransferFresh
    <2>1. Reads(g, GateOf[ConnOf[g]])  BY DEF Reads, MayInsert
    <2>2. NoReaders(k)  BY <1>2 DEF StaleInv, WriterAlone
    <2>3. ConnOf[g] # c  BY <1>1, <2>1, <2>2 DEF NoReaders
    <2> QED  BY <2>3, <1>2 DEF StaleInv, TransferFresh
  <1>12. NoStaleSession'
    <2> SUFFICES ASSUME NEW p \in PoolIds, sessions[p] # None
                 PROVE  VersionOk(sessions[p].conn, sessions[p].version)'
      BY <1>2 DEF NoStaleSession, Kept, VersionOk
    <2>1. sessions[p].conn \in Saved  BY DEF StaleInv, FilePoolTypeOK, Entry
    <2>2. VersionOk(sessions[p].conn, sessions[p].version)
      BY DEF StaleInv, NoStaleSession, Kept, VersionOk
    <2>3. VersionOk(sessions[p].conn, sessions[p].version)'
      BY <2>1, <2>2, <1>2, <1>5 DEF VersionOk
    <2> QED  BY <2>3
  <1> QED
    BY <1>3, <1>7, <1>8, <1>9, <1>10, <1>11, <1>12 DEF StaleInv

\* The eviction settles it: sessions and generation of the connection go before
\* the gate opens.
LEMMA EditFinishes ==
    ASSUME StaleInv, NEW k \in Gates, EditFinish(k)
    PROVE  StaleInv'
  <1> USE FilePoolAssumption
  <1>1. PICK c \in Saved : c = edit[k].conn /\ GateOf[c] = k
    BY DEF EditFinish, StaleInv, EditsAtGate
  <1>2. /\ Evict(EntriesOf(c)) /\ edit[k].pc = "written" /\ edit' = [edit EXCEPT ![k] = NoEdit]
        /\ UNCHANGED <<saved, nextGen, caller>>
    BY <1>1 DEF EditFinish
  <1>3. FilePoolTypeOK'  BY EditType DEF StaleInv, EditStep
  <1>4. GensMove /\ SessionsMove  BY <1>2, EvictMoves DEF StaleInv
  <1>5. edit'[k].pc = "none" /\ \A j \in Gates : j # k => edit'[j] = edit[j]
    BY <1>2 DEF NoEdit, StaleInv, FilePoolTypeOK
  <1>6. \A d \in Saved : d # c => (Unsettled(d)' <=> Unsettled(d))
    BY <1>1, <1>5 DEF Unsettled
  <1>7. GensBounded'  BY <1>2, <1>4, BoundsStay DEF StaleInv
  <1>8. Roles' /\ TransferFresh'  BY <1>2 DEF StaleInv, Roles, TransferFresh
  <1>9. EditsAtGate'  BY <1>5 DEF StaleInv, EditsAtGate
  <1>10. WriterAlone'
    <2>1. \A j \in Gates : NoReaders(j)' <=> NoReaders(j)  BY <1>2 DEF NoReaders, Reads
    <2> QED  BY <2>1, <1>5 DEF StaleInv, WriterAlone
  <1>11. BrowserFresh'
    <2> SUFFICES ASSUME NEW h \in Browsers, caller[h].pc \in MayInsert, Current(h)'
                 PROVE  VersionOk(ConnOf[h], caller[h].version)'
      BY <1>2 DEF BrowserFresh
    <2>1. Current(h)  BY <1>2, <1>4, CurrentBefore DEF StaleInv
    <2>2. VersionOk(ConnOf[h], caller[h].version)  BY <2>1 DEF StaleInv, BrowserFresh
    <2>3. ConnOf[h] # c
      <3> SUFFICES ASSUME ConnOf[h] = c PROVE FALSE  OBVIOUS
      <3>1. PoolId(h)' = c  BY DEF PoolId
      <3>2. generations'[c] = NoGen  BY <1>2 DEF Evict, EntriesOf
      <3> QED  BY <3>1, <3>2 DEF Current
    <2> QED  BY <2>2, <2>3, <1>2, <1>6 DEF VersionOk
  <1>12. NoStaleSession'
    <2> SUFFICES ASSUME NEW p \in PoolIds, sessions'[p] # None
                 PROVE  VersionOk(sessions[p].conn, sessions[p].version)'
      BY DEF NoStaleSession, Kept, VersionOk
    <2>1. p \notin EntriesOf(c) /\ sessions'[p] = sessions[p]  BY <1>2 DEF Evict
    <2>2. sessions[p].conn # c  BY <2>1 DEF EntriesOf, Kept
    <2>3. sessions[p].conn \in Saved  BY <2>1 DEF StaleInv, FilePoolTypeOK, Entry
    <2>4. VersionOk(sessions[p].conn, sessions[p].version)
      BY <2>1 DEF StaleInv, NoStaleSession, Kept, VersionOk
    <2> QED  BY <2>1, <2>2, <2>3, <2>4, <1>2, <1>6 DEF VersionOk
  <1> QED
    BY <1>3, <1>7, <1>8, <1>9, <1>10, <1>11, <1>12 DEF StaleInv

LEMMA StaleStep == StaleInv /\ [Next]_vars => StaleInv'
  <1> SUFFICES ASSUME StaleInv, [Next]_vars PROVE StaleInv'  OBVIOUS
  <1>1. CASE UNCHANGED vars
    BY <1>1
    DEF vars, StaleInv, FilePoolTypeOK, GensBounded, EditsAtGate, Roles, WriterAlone, NoReaders,
        Reads, BrowserFresh, Current, PoolId, VersionOk, TransferFresh, NoStaleSession, Kept, Unsettled
  <1>2. CASE Next
    BY <1>2, CallerStale, PoolStale, EditTakes, EditWrites, EditFinishes DEF Next, EditStep
  <1> QED  BY <1>1, <1>2

\* Once an edit or a deletion of a saved connection is finished, the pool holds no
\* session made with the old configuration: for any number of connections,
\* stripes, browsing requests and transfers, whatever is delayed.
THEOREM NoStaleSessionCorrect == Spec => []NoStaleSession
  <1>1. StaleInv => NoStaleSession  BY DEF StaleInv
  <1> QED  BY <1>1, StaleInit, StaleStep, PTL DEF Spec

-----------------------------------------------------------------------------
(* No leaked session.                                                      *)

\* A caller that has not dialled yet, with its session unused.
BeforeDial == {"start", "load", "gate", "validate", "acquire", "get", "probe", "connect"}

Dialled ==
    \A g \in Callers : /\ caller[g].pc \in BeforeDial => fs[g] = "unused"
                       /\ caller[g].pc = "insert" => fs[g] = "open"

\* The pool has sessions that are open, of callers that are past Insert, each
\* under the id of the caller that opened it.
KeptOpen ==
    \A p \in PoolIds : Kept(p) => LET g == sessions[p].fs IN
       /\ g \in Callers /\ PoolId(g) = p /\ fs[g] = "open"
       /\ caller[g].pc \notin BeforeDial \cup {"insert"}

OpenKept ==
    \A g \in Callers : fs[g] = "open" => \/ caller[g].pc = "insert"
                                         \/ Kept(PoolId(g)) /\ sessions[PoolId(g)].fs = g

ClosedEmpty == closed => \A p \in PoolIds : ~Kept(p)

LeakInv == FilePoolTypeOK /\ Dialled /\ KeptOpen /\ OpenKept /\ ClosedEmpty

LEMMA LeakInit == Init => LeakInv
  <1> SUFFICES ASSUME Init PROVE LeakInv  OBVIOUS
  <1>1. FilePoolTypeOK  BY InitType
  <1> QED
    BY <1>1 DEF Init, LeakInv, Dialled, BeforeDial, KeptOpen, OpenKept, ClosedEmpty, Kept

\* A step that takes the sessions of some ids out, closes exactly those, and
\* lets nobody dial or insert.
TakesOut(ids) ==
    /\ \A p \in PoolIds :
          IF p \in ids THEN sessions'[p] = None
          ELSE (sessions'[p] = None <=> sessions[p] = None) /\ sessions'[p].fs = sessions[p].fs
    /\ \A g \in Callers :
          fs'[g] = IF \E p \in ids : Kept(p) /\ sessions[p].fs = g THEN "closed" ELSE fs[g]
    /\ closed' = closed \/ ids = PoolIds
    /\ \A g \in Callers :
          \/ caller'[g].pc = caller[g].pc
          \/ /\ caller[g].pc # "insert" /\ caller'[g].pc # "insert"
             /\ caller[g].pc \notin BeforeDial => caller'[g].pc \notin BeforeDial

LEMMA TakesOutLeak ==
    ASSUME LeakInv, FilePoolTypeOK', NEW ids \in SUBSET PoolIds, TakesOut(ids)
    PROVE  LeakInv'
  <1> USE FilePoolAssumption
  <1>1. Dialled'
    BY DEF TakesOut, LeakInv, Dialled, KeptOpen, BeforeDial
  <1>2. KeptOpen'
    <2> SUFFICES ASSUME NEW p \in PoolIds, sessions'[p] # None
                 PROVE  LET g == sessions'[p].fs IN
                        /\ g \in Callers /\ PoolId(g) = p /\ fs'[g] = "open"
                        /\ caller'[g].pc \notin BeforeDial \cup {"insert"}
      BY DEF KeptOpen, Kept, PoolId
    <2>1. p \notin ids /\ sessions[p] # None /\ sessions'[p].fs = sessions[p].fs
      BY DEF TakesOut
    <2>2. PICK g \in Callers : /\ g = sessions[p].fs /\ PoolId(g) = p /\ fs[g] = "open"
                               /\ caller[g].pc \notin BeforeDial \cup {"insert"}
      BY <2>1 DEF LeakInv, KeptOpen, Kept
    <2>3. fs'[g] = "open"
      <3>1. ASSUME NEW q \in ids, Kept(q), sessions[q].fs = g PROVE FALSE
        BY <3>1, <2>1, <2>2 DEF LeakInv, KeptOpen
      <3> QED  BY <3>1, <2>2 DEF TakesOut
    <2> QED  BY <2>1, <2>2, <2>3 DEF TakesOut
  <1>3. OpenKept'
    <2> SUFFICES ASSUME NEW g \in Callers, fs'[g] = "open"
                 PROVE  \/ caller'[g].pc = "insert"
                        \/ sessions'[PoolId(g)] # None /\ sessions'[PoolId(g)].fs = g
      BY DEF OpenKept, Kept, PoolId
    <2>1. fs[g] = "open" /\ \A p \in ids : ~(Kept(p) /\ sessions[p].fs = g)  BY DEF TakesOut
    <2>2. CASE caller[g].pc = "insert"  BY <2>2 DEF TakesOut
    <2>3. CASE Kept(PoolId(g)) /\ sessions[PoolId(g)].fs = g
      <3>1. PoolId(g) \in PoolIds /\ PoolId(g) \notin ids  BY <2>1, <2>3, PoolIdType
      <3> QED  BY <3>1, <2>3 DEF Kept, TakesOut
    <2> QED  BY <2>1, <2>2, <2>3 DEF LeakInv, OpenKept
  <1>4. ClosedEmpty'
    BY DEF TakesOut, LeakInv, ClosedEmpty, Kept
  <1> QED  BY <1>1, <1>2, <1>3, <1>4 DEF LeakInv

\* Nothing taken out, or one id: what TakesOut needs from the parts of a step.
LEMMA KeepsAll ==
    ASSUME UNCHANGED <<sessions, fs, closed>>,
           NEW g \in Callers, \A h \in Callers : h # g => caller'[h] = caller[h],
           caller[g].pc # "insert", caller'[g].pc # "insert",
           caller[g].pc \notin BeforeDial => caller'[g].pc \notin BeforeDial
    PROVE  TakesOut({})
  BY DEF TakesOut

LEMMA EvictTakesOut ==
    ASSUME FilePoolTypeOK, NEW ids \in SUBSET PoolIds, Evict(ids),
           closed' = closed \/ ids = PoolIds,
           \A g \in Callers :
              \/ caller'[g].pc = caller[g].pc
              \/ /\ caller[g].pc # "insert" /\ caller'[g].pc # "insert"
                 /\ caller[g].pc \notin BeforeDial => caller'[g].pc \notin BeforeDial
    PROVE  TakesOut(ids)
  BY DEF TakesOut, Evict

\* A caller's steps other than Connect and Insert take out or leave alone.
LEMMA CallerTakesOut ==
    ASSUME LeakInv, NEW g \in Callers, CallerStep(g), ~Connect(g), ~Insert(g)
    PROVE  \E ids \in SUBSET PoolIds : TakesOut(ids)
  <1> USE FilePoolAssumption
  <1> USE DEF LeakInv
  <1>0. PoolId(g) \in PoolIds  BY PoolIdType
  <1>1. /\ \A h \in Callers : h # g => caller'[h] = caller[h]
        /\ caller[g].pc # "insert" /\ caller'[g].pc # "insert"
        /\ caller[g].pc \notin BeforeDial => caller'[g].pc \notin BeforeDial
    <2>1. CASE BrowseStart(g) \/ TransferAcquire(g)
      BY <2>1 DEF BrowseStart, TransferAcquire, AcquireGeneration, At, FilePoolTypeOK, Caller, BeforeDial
    <2>2. CASE BrowseLoad(g) \/ TransferStart(g) \/ TransferGate(g) \/ TransferValidate(g)
      BY <2>2
      DEF BrowseLoad, TransferStart, TransferGate, TransferValidate, At, GoTo, FilePoolTypeOK,
          Caller, BeforeDial
    <2>3. CASE GetAtGeneration(g) \/ Probe(g)
      BY <2>3 DEF GetAtGeneration, Probe, At, GoTo, FilePoolTypeOK, Caller, BeforeDial
    <2>4. CASE Release(g) \/ Unlock(g) \/ Finish(g)
      BY <2>4 DEF Release, Unlock, Finish, At, GoTo, FilePoolTypeOK, Caller, BeforeDial
    <2> QED  BY <2>1, <2>2, <2>3, <2>4 DEF CallerStep
  <1>2. CASE UNCHANGED <<sessions, fs, closed>>
    <2>1. TakesOut({})  BY <1>1, <1>2, KeepsAll
    <2> QED  BY <2>1
  <1>3. CASE /\ sessions' = [sessions EXCEPT ![PoolId(g)].idle = FALSE] /\ Kept(PoolId(g))
             /\ UNCHANGED <<fs, closed>>
    <2>1. sessions[PoolId(g)] \in Entry  BY <1>0, <1>3 DEF Kept, FilePoolTypeOK
    <2>2. \A p \in PoolIds : /\ sessions'[p] = None <=> sessions[p] = None
                             /\ sessions'[p].fs = sessions[p].fs
      BY <1>0, <1>3, <2>1, TouchKeeps DEF FilePoolTypeOK
    <2>3. TakesOut({})  BY <1>1, <1>3, <2>2 DEF TakesOut
    <2> QED  BY <2>3
  <1>4. CASE /\ sessions' = [sessions EXCEPT ![PoolId(g)] = None] /\ Kept(PoolId(g))
             /\ fs' = [fs EXCEPT ![sessions[PoolId(g)].fs] = "closed"]
             /\ UNCHANGED closed
    <2>1. sessions[PoolId(g)].fs \in Callers  BY <1>0, <1>4 DEF Kept, FilePoolTypeOK, Entry
    <2>2. TakesOut({PoolId(g)})  BY <1>0, <1>1, <1>4, <2>1 DEF TakesOut, FilePoolTypeOK
    <2> QED  BY <1>0, <2>2
  <1>5. CASE GetAtGeneration(g)  BY <1>2, <1>3, <1>4, <1>5 DEF GetAtGeneration
  <1>6. CASE Probe(g)  BY <1>2, <1>4, <1>6 DEF Probe, StillKept
  <1>7. CASE Finish(g)
    <2>1. CASE g \in Transfers
      <3>1. Evict({g}) /\ closed' = closed  BY <1>7, <2>1 DEF Finish
      <3>2. TakesOut({g})  BY <3>1, <2>1, <1>1, EvictTakesOut
      <3> QED  BY <2>1, <3>2
    <2>2. CASE g \notin Transfers  BY <1>2, <1>7, <2>2 DEF Finish
    <2> QED  BY <2>1, <2>2
  <1>8. CASE \/ BrowseStart(g) \/ BrowseLoad(g) \/ TransferStart(g) \/ TransferGate(g)
             \/ TransferValidate(g) \/ TransferAcquire(g) \/ Release(g) \/ Unlock(g)
    BY <1>2, <1>8
    DEF BrowseStart, BrowseLoad, TransferStart, TransferGate, TransferValidate, TransferAcquire,
        Release, Unlock
  <1> QED  BY <1>5, <1>6, <1>7, <1>8 DEF CallerStep

LEMMA ConnectLeak ==
    ASSUME LeakInv, NEW g \in Callers, Connect(g)
    PROVE  LeakInv'
  <1> USE FilePoolAssumption
  <1>1. FilePoolTypeOK'  BY CallerType DEF LeakInv, CallerStep
  <1>2. /\ caller[g].pc = "connect" /\ fs[g] = "unused" /\ UNCHANGED <<sessions, closed>>
        /\ \A h \in Callers : h # g => caller'[h] = caller[h] /\ fs'[h] = fs[h]
        /\ \/ caller'[g].pc = "insert" /\ fs'[g] = "open"
           \/ caller'[g].pc = "release" /\ fs'[g] = "unused"
    BY DEF Connect, At, GoTo, LeakInv, Dialled, BeforeDial, FilePoolTypeOK, Caller
  <1>3. Dialled'  BY <1>2 DEF LeakInv, Dialled, BeforeDial
  <1>4. KeptOpen'
    BY <1>2 DEF LeakInv, KeptOpen, Kept, PoolId, BeforeDial
  <1>5. OpenKept'  BY <1>2 DEF LeakInv, OpenKept, Kept, PoolId
  <1>6. ClosedEmpty'  BY <1>2 DEF LeakInv, ClosedEmpty, Kept
  <1> QED  BY <1>1, <1>3, <1>4, <1>5, <1>6 DEF LeakInv

\* Insert keeps the new session or closes it; no session that was kept is lost.
LEMMA InsertLeak ==
    ASSUME LeakInv, NEW g \in Callers, Insert(g)
    PROVE  LeakInv'
  <1> USE FilePoolAssumption
  <1>1. FilePoolTypeOK'  BY CallerType DEF LeakInv, CallerStep
  <1>2. PoolId(g) \in PoolIds  BY PoolIdType
  <1>3. /\ caller[g].pc = "insert" /\ fs[g] = "open" /\ caller'[g].pc = "release"
        /\ closed' = closed
        /\ \A h \in Callers : h # g => caller'[h] = caller[h]
    BY DEF Insert, At, GoTo, LeakInv, Dialled, FilePoolTypeOK, Caller
  <1>4. \A p \in PoolIds : Kept(p) => sessions[p].fs # g
    BY <1>3 DEF LeakInv, KeptOpen
  <1>5. CASE /\ fs' = [fs EXCEPT ![g] = "closed"]
             /\ \A p \in PoolIds : /\ sessions'[p] = None <=> sessions[p] = None
                                   /\ sessions'[p].fs = sessions[p].fs
    <2>1. fs'[g] = "closed" /\ \A h \in Callers : h # g => fs'[h] = fs[h]
      BY <1>5 DEF LeakInv, FilePoolTypeOK
    <2>2. Dialled'  BY <1>3, <2>1 DEF LeakInv, Dialled, BeforeDial
    <2>3. KeptOpen'
      BY <1>3, <1>4, <1>5, <2>1 DEF LeakInv, KeptOpen, Kept, PoolId, BeforeDial
    <2>4. OpenKept'
      <3> SUFFICES ASSUME NEW h \in Callers, fs'[h] = "open"
                   PROVE  \/ caller'[h].pc = "insert"
                          \/ sessions'[PoolId(h)] # None /\ sessions'[PoolId(h)].fs = h
        BY DEF OpenKept, Kept, PoolId
      <3>1. h # g /\ fs[h] = "open"  BY <2>1
      <3>2. PoolId(h) \in PoolIds  BY PoolIdType
      <3> QED  BY <3>1, <3>2, <1>3, <1>5 DEF LeakInv, OpenKept, Kept
    <2>5. ClosedEmpty'  BY <1>3, <1>5 DEF LeakInv, ClosedEmpty, Kept
    <2> QED  BY <1>1, <2>2, <2>3, <2>4, <2>5 DEF LeakInv
  <1>6. CASE /\ ~closed /\ ~Kept(PoolId(g)) /\ UNCHANGED fs
             /\ sessions' = [sessions EXCEPT ![PoolId(g)] =
                                [fs |-> g, conn |-> ConnOf[g], version |-> caller[g].version,
                                 idle |-> FALSE]]
    <2>1. /\ sessions'[PoolId(g)].fs = g
          /\ \A p \in PoolIds : p # PoolId(g) => sessions'[p] = sessions[p]
      BY <1>2, <1>6 DEF LeakInv, FilePoolTypeOK
    <2>2. sessions'[PoolId(g)] # None
      <3>1. [fs |-> g, conn |-> ConnOf[g], version |-> caller[g].version, idle |-> FALSE] \in Entry
        BY DEF Entry, LeakInv, FilePoolTypeOK, Caller
      <3>2. sessions'[PoolId(g)] \in Entry  BY <3>1, <1>2, <1>6 DEF LeakInv, FilePoolTypeOK
      <3> QED  BY <3>2
    <2>3. Dialled'  BY <1>3, <1>6 DEF LeakInv, Dialled, BeforeDial
    <2>4. KeptOpen'
      <3> SUFFICES ASSUME NEW p \in PoolIds, sessions'[p] # None
                   PROVE  LET h == sessions'[p].fs IN
                          /\ h \in Callers /\ PoolId(h) = p /\ fs'[h] = "open"
                          /\ caller'[h].pc \notin BeforeDial \cup {"insert"}
        BY DEF KeptOpen, Kept, PoolId
      <3>1. CASE p = PoolId(g)  BY <3>1, <2>1, <1>3, <1>6 DEF BeforeDial
      <3>2. CASE p # PoolId(g)
        BY <3>2, <2>1, <1>3, <1>4, <1>6 DEF LeakInv, KeptOpen, Kept
      <3> QED  BY <3>1, <3>2
    <2>5. OpenKept'
      <3> SUFFICES ASSUME NEW h \in Callers, fs[h] = "open"
                   PROVE  \/ caller'[h].pc = "insert"
                          \/ sessions'[PoolId(h)] # None /\ sessions'[PoolId(h)].fs = h
        BY <1>6 DEF OpenKept, Kept, PoolId
      <3>1. PoolId(h) \in PoolIds  BY PoolIdType
      <3>2. CASE h = g  BY <3>2, <2>1, <2>2
      <3>3. CASE h # g  BY <3>1, <3>3, <2>1, <1>3, <1>6 DEF LeakInv, OpenKept, Kept
      <3> QED  BY <3>2, <3>3
    <2>6. ClosedEmpty'  BY <1>3, <1>6 DEF ClosedEmpty
    <2> QED  BY <1>1, <2>3, <2>4, <2>5, <2>6 DEF LeakInv
  <1>7. CASE UNCHANGED sessions /\ fs' = [fs EXCEPT ![g] = "closed"]  BY <1>5, <1>7
  <1>8. CASE /\ Kept(PoolId(g)) /\ sessions' = [sessions EXCEPT ![PoolId(g)].idle = FALSE]
             /\ fs' = [fs EXCEPT ![g] = "closed"]
    <2>1. sessions[PoolId(g)] \in Entry  BY <1>2, <1>8 DEF Kept, LeakInv, FilePoolTypeOK
    <2>2. \A p \in PoolIds : /\ sessions'[p] = None <=> sessions[p] = None
                             /\ sessions'[p].fs = sessions[p].fs
      BY <1>2, <1>8, <2>1, TouchKeeps DEF LeakInv, FilePoolTypeOK
    <2> QED  BY <1>5, <1>8, <2>2
  <1> QED  BY <1>6, <1>7, <1>8 DEF Insert

LEMMA LeakStep == LeakInv /\ StaleInv /\ [Next]_vars => LeakInv'
  <1> SUFFICES ASSUME LeakInv, StaleInv, [Next]_vars PROVE LeakInv'  OBVIOUS
  <1> USE FilePoolAssumption
  <1>1. FilePoolTypeOK'  BY StepType DEF LeakInv
  <1>2. CASE UNCHANGED <<sessions, fs, closed, caller>>
    <2>1. TakesOut({})  BY <1>2 DEF TakesOut
    <2> QED  BY <1>1, <2>1, TakesOutLeak
  <1>3. ASSUME NEW g \in Callers, CallerStep(g) PROVE LeakInv'
    BY <1>1, <1>3, CallerTakesOut, TakesOutLeak, ConnectLeak, InsertLeak
  <1>4. ASSUME NEW k \in Gates, EditStep(k) PROVE LeakInv'
    <2>1. CASE EditFinish(k)
      <3>1. PICK c \in Saved : c = edit[k].conn
        BY <2>1 DEF EditFinish, StaleInv, EditsAtGate
      <3>2. Evict(EntriesOf(c)) /\ UNCHANGED <<closed, caller>>  BY <2>1, <3>1 DEF EditFinish
      <3>3. EntriesOf(c) \in SUBSET PoolIds  BY DEF EntriesOf
      <3>4. TakesOut(EntriesOf(c))  BY <3>2, <3>3, EvictTakesOut DEF LeakInv
      <3> QED  BY <1>1, <3>3, <3>4, TakesOutLeak
    <2>2. CASE EditLock(k) \/ EditWrite(k)  BY <1>2, <2>2 DEF EditLock, EditWrite
    <2> QED  BY <1>4, <2>1, <2>2 DEF EditStep
  <1>5. ASSUME NEW p \in PoolIds, GrowsIdle(p) PROVE LeakInv'
    <2>1. /\ sessions[p] \in Entry /\ sessions' = [sessions EXCEPT ![p].idle = TRUE]
          /\ UNCHANGED <<fs, closed, caller>>
      BY <1>5 DEF GrowsIdle, Kept, LeakInv, FilePoolTypeOK
    <2>2. \A q \in PoolIds : /\ sessions'[q] = None <=> sessions[q] = None
                             /\ sessions'[q].fs = sessions[q].fs
      BY <2>1, TouchKeeps DEF LeakInv, FilePoolTypeOK
    <2>3. TakesOut({})  BY <2>1, <2>2 DEF TakesOut
    <2> QED  BY <1>1, <2>3, TakesOutLeak
  <1>6. CASE ReapIdle
    <2> DEFINE ids == {p \in PoolIds : Kept(p) /\ sessions[p].idle}
    <2>1. Evict(ids) /\ UNCHANGED <<closed, caller>>  BY <1>6 DEF ReapIdle
    <2>2. TakesOut(ids)  BY <2>1, EvictTakesOut DEF LeakInv
    <2> QED  BY <1>1, <2>2, TakesOutLeak
  <1>7. CASE ClosePool
    <2>1. TakesOut(PoolIds)  BY <1>7, EvictTakesOut DEF ClosePool, LeakInv
    <2> QED  BY <1>1, <2>1, TakesOutLeak
  <1>8. ASSUME NEW c \in Saved, EditStart(c) PROVE LeakInv'
    BY <1>2, <1>8 DEF EditStart
  <1>9. CASE UNCHANGED vars  BY <1>2, <1>9 DEF vars
  <1> QED  BY <1>3, <1>4, <1>5, <1>6, <1>7, <1>8, <1>9 DEF Next

\* A remote session that is open is in the pool or about to be inserted, the pool
\* holds only open sessions, and a closed pool holds none: sessions that lose a
\* race, go idle or meet the shutdown are closed, for any number of callers.
THEOREM NoLeakedSessionCorrect == Spec => []NoLeakedSession
  <1>1. LeakInv => NoLeakedSession
    <2> SUFFICES ASSUME LeakInv PROVE NoLeakedSession  OBVIOUS
    <2>1. \A g \in Callers : fs[g] = "open" => \/ InTransit(g)
                                               \/ \E p \in PoolIds : Kept(p) /\ sessions[p].fs = g
      BY PoolIdType DEF LeakInv, OpenKept, InTransit
    <2> QED  BY <2>1 DEF LeakInv, KeptOpen, ClosedEmpty, NoLeakedSession
  <1> QED  BY <1>1, LeakInit, LeakStep, StaleInit, StaleStep, PTL DEF Spec
-----------------------------------------------------------------------------
(* Leases and generations.                                                 *)

\* The callers between AcquireGeneration and ReleaseGeneration for an id.
Holders(p) == {g \in Callers : PoolId(g) = p /\ Leases(g)}

LEMMA HoldersFinite ==
    ASSUME NEW p
    PROVE  IsFiniteSet(Holders(p)) /\ Cardinality(Holders(p)) \in Nat
  <1>1. Holders(p) \subseteq Callers  BY DEF Holders
  <1>2. IsFiniteSet(Callers)  BY FilePoolAssumption
  <1>3. IsFiniteSet(Holders(p))  BY <1>1, <1>2, FS_Subset
  <1> QED  BY <1>3, FS_CardinalityType

\* A caller that takes a lease is one more holder of its id and of no other.
LEMMA HolderEnters ==
    ASSUME NEW g \in Callers, ~Leases(g), Leases(g)',
           \A h \in Callers : h # g => caller'[h] = caller[h],
           NEW p
    PROVE  Cardinality(Holders(p)') = IF p = PoolId(g) THEN Cardinality(Holders(p)) + 1
                                                      ELSE Cardinality(Holders(p))
  <1>1. \A h \in Callers : h # g => (Leases(h)' <=> Leases(h))  BY DEF Leases
  <1>2. CASE p = PoolId(g)
    <2>1. Holders(p)' = Holders(p) \cup {g}  BY <1>1, <1>2 DEF Holders, PoolId
    <2>2. g \notin Holders(p)  BY DEF Holders
    <2> QED  BY <1>2, <2>1, <2>2, HoldersFinite, FS_AddElement
  <1>3. CASE p # PoolId(g)
    <2>1. Holders(p)' = Holders(p)  BY <1>1, <1>3 DEF Holders, PoolId
    <2> QED  BY <1>3, <2>1
  <1> QED  BY <1>2, <1>3

\* One that gives it back is one less.
LEMMA HolderLeaves ==
    ASSUME NEW g \in Callers, Leases(g), ~Leases(g)',
           \A h \in Callers : h # g => caller'[h] = caller[h],
           NEW p
    PROVE  Cardinality(Holders(p)') = IF p = PoolId(g) THEN Cardinality(Holders(p)) - 1
                                                      ELSE Cardinality(Holders(p))
  <1>1. \A h \in Callers : h # g => (Leases(h)' <=> Leases(h))  BY DEF Leases
  <1>2. CASE p = PoolId(g)
    <2>1. Holders(p)' = Holders(p) \ {g}  BY <1>1, <1>2 DEF Holders, PoolId
    <2>2. g \in Holders(p)  BY <1>2 DEF Holders
    <2> QED  BY <1>2, <2>1, <2>2, HoldersFinite, FS_RemoveElement
  <1>3. CASE p # PoolId(g)
    <2>1. Holders(p)' = Holders(p)  BY <1>1, <1>3 DEF Holders, PoolId
    <2> QED  BY <1>3, <2>1
  <1> QED  BY <1>2, <1>3

\* The holders of an id are those before if nobody enters or leaves.
LEMMA HoldersStay ==
    ASSUME \A h \in Callers : Leases(h)' <=> Leases(h), NEW p
    PROVE  Holders(p)' = Holders(p)
  BY DEF Holders, PoolId

\* A caller inside is counted.
LEMMA HolderCounted ==
    ASSUME NEW g \in Callers, Leases(g)
    PROVE  Cardinality(Holders(PoolId(g))) \in Nat \ {0}
  <1>1. g \in Holders(PoolId(g))  BY DEF Holders
  <1>2. IsFiniteSet(Holders(PoolId(g))) /\ Cardinality(Holders(PoolId(g))) \in Nat
    BY HoldersFinite
  <1>3. Cardinality(Holders(PoolId(g))) # 0  BY <1>1, <1>2, FS_EmptySet
  <1> QED  BY <1>2, <1>3

\* The property for one id.
TrackedAt(p) ==
    /\ leases[p] = Cardinality(Holders(p))
    /\ generations[p] # NoGen => Kept(p) \/ leases[p] > 0
    /\ Kept(p) => generations[p] # NoGen

LEMMA TrackedEverywhere == GenerationsTrackUse <=> (~closed => \A p \in PoolIds : TrackedAt(p))
  BY DEF GenerationsTrackUse, TrackedAt, Holders

LEMMA TrackInit == Init => GenerationsTrackUse
  <1> SUFFICES ASSUME Init, NEW p \in PoolIds PROVE TrackedAt(p)
    BY TrackedEverywhere
  <1>1. Holders(p) = {}  BY DEF Init, Holders, Leases
  <1> QED  BY <1>1, FS_EmptySet DEF Init, TrackedAt, Kept, NoGen

\* An id whose lease count, holders, generation and session stay is as tracked
\* as before.
LEMMA TrackedStays ==
    ASSUME NEW p, TrackedAt(p), leases'[p] = leases[p], Holders(p)' = Holders(p),
           generations'[p] = generations[p], Kept(p)' <=> Kept(p)
    PROVE  TrackedAt(p)'
  BY DEF TrackedAt

\* Eviction takes the generation with the session, whoever holds a lease.
LEMMA TrackEvict ==
    ASSUME GenerationsTrackUse, NEW ids, Evict(ids), UNCHANGED <<leases, closed>>,
           \A h \in Callers : Leases(h)' <=> Leases(h)
    PROVE  GenerationsTrackUse'
  <1> SUFFICES ASSUME ~closed, NEW p \in PoolIds PROVE TrackedAt(p)'
    BY TrackedEverywhere DEF TrackedAt, GenerationsTrackUse, Holders
  <1>1. TrackedAt(p)  BY TrackedEverywhere
  <1>2. Holders(p)' = Holders(p)  BY HoldersStay
  <1> QED  BY <1>1, <1>2 DEF Evict, TrackedAt, Kept

LEMMA TrackAcquire ==
    ASSUME FilePoolTypeOK, GenerationsTrackUse, NEW g \in Callers, NEW pc \in {"load", "get"},
           ~Leases(g), AcquireGeneration(g, pc), UNCHANGED <<sessions, closed>>
    PROVE  GenerationsTrackUse'
  <1> SUFFICES ASSUME ~closed, NEW p \in PoolIds PROVE TrackedAt(p)'
    BY TrackedEverywhere DEF TrackedAt, GenerationsTrackUse, Holders
  <1>1. TrackedAt(p)  BY TrackedEverywhere
  <1>2. PoolId(g) \in PoolIds  BY PoolIdType
  <1>3. /\ leases' = [leases EXCEPT ![PoolId(g)] = @ + 1]
        /\ generations' = [generations EXCEPT ![PoolId(g)] = IF @ = NoGen THEN nextGen + 1 ELSE @]
        /\ caller' = [caller EXCEPT ![g].pc = pc, ![g].gen = generations'[PoolId(g)]]
    BY DEF AcquireGeneration
  <1>4. /\ caller'[g].pc = pc
        /\ \A h \in Callers : h # g => caller'[h] = caller[h]
    BY <1>3 DEF FilePoolTypeOK, Caller
  <1>5. Leases(g)'  BY <1>4 DEF Leases
  <1>6. Cardinality(Holders(p)') = IF p = PoolId(g) THEN Cardinality(Holders(p)) + 1
                                                    ELSE Cardinality(Holders(p))
    BY <1>4, <1>5, HolderEnters
  <1>7. Kept(p)' <=> Kept(p)  BY DEF Kept
  <1>8. CASE p = PoolId(g)
    BY <1>1, <1>3, <1>6, <1>7, <1>8 DEF TrackedAt, FilePoolTypeOK, NoGen
  <1>9. CASE p # PoolId(g)
    BY <1>1, <1>2, <1>3, <1>6, <1>7, <1>9 DEF TrackedAt, FilePoolTypeOK
  <1> QED  BY <1>8, <1>9

LEMMA TrackRelease ==
    ASSUME FilePoolTypeOK, GenerationsTrackUse, NEW g \in Callers, Release(g)
    PROVE  GenerationsTrackUse'
  <1>1. UNCHANGED <<sessions, closed>>  BY DEF Release
  <1> SUFFICES ASSUME ~closed, NEW p \in PoolIds PROVE TrackedAt(p)'
    BY <1>1, TrackedEverywhere DEF TrackedAt, GenerationsTrackUse, Holders
  <1>2. TrackedAt(p)  BY TrackedEverywhere
  <1>3. PoolId(g) \in PoolIds  BY PoolIdType
  <1>4. /\ leases' = [leases EXCEPT ![PoolId(g)] = IF @ <= 1 THEN 0 ELSE @ - 1]
        /\ generations' = [generations EXCEPT ![PoolId(g)] =
                              IF leases[PoolId(g)] <= 1 /\ ~Kept(PoolId(g)) THEN NoGen ELSE @]
    BY DEF Release, ReleaseGeneration
  <1>5. /\ caller[g].pc = "release" /\ caller'[g].pc \in {"unlock", "done", "using"}
        /\ \A h \in Callers : h # g => caller'[h] = caller[h]
    BY DEF Release, At, GoTo, FilePoolTypeOK, Caller
  <1>6. Leases(g) /\ ~Leases(g)'  BY <1>5 DEF Leases
  <1>7. Cardinality(Holders(p)') = IF p = PoolId(g) THEN Cardinality(Holders(p)) - 1
                                                    ELSE Cardinality(Holders(p))
    BY <1>5, <1>6, HolderLeaves
  <1>8. Kept(p)' <=> Kept(p)  BY <1>1 DEF Kept
  <1>9. CASE p = PoolId(g)
    <2>1. Cardinality(Holders(p)) \in Nat \ {0}  BY <1>6, <1>9, HolderCounted
    <2>2. leases'[p] = Cardinality(Holders(p)')
      BY <1>2, <1>3, <1>4, <1>7, <1>9, <2>1 DEF TrackedAt, FilePoolTypeOK
    <2>3. generations'[p] = IF leases[p] <= 1 /\ ~Kept(p) THEN NoGen ELSE generations[p]
      BY <1>3, <1>4, <1>9 DEF FilePoolTypeOK
    <2>4. leases'[p] = IF leases[p] <= 1 THEN 0 ELSE leases[p] - 1
      BY <1>3, <1>4, <1>9 DEF FilePoolTypeOK
    <2>5. leases[p] \in Nat  BY DEF FilePoolTypeOK
    <2> QED  BY <1>2, <1>8, <2>2, <2>3, <2>4, <2>5 DEF TrackedAt
  <1>10. CASE p # PoolId(g)
    BY <1>2, <1>3, <1>4, <1>7, <1>8, <1>10 DEF TrackedAt, FilePoolTypeOK
  <1> QED  BY <1>9, <1>10

\* A caller's steps: those that take or give back a lease, and the rest, which
\* drop a session only while the caller holds one and add one only under a
\* generation.
LEMMA TrackCaller ==
    ASSUME FilePoolTypeOK, GenerationsTrackUse, NEW g \in Callers, CallerStep(g)
    PROVE  GenerationsTrackUse'
  <1> USE FilePoolAssumption
  <1>1. PoolId(g) \in PoolIds  BY PoolIdType
  <1>2. CASE BrowseStart(g)
    <2>1. ~Leases(g)  BY <1>2 DEF BrowseStart, At, Leases
    <2> QED  BY <1>2, <2>1, TrackAcquire DEF BrowseStart
  <1>3. CASE TransferAcquire(g)
    <2>1. ~Leases(g)  BY <1>3 DEF TransferAcquire, At, Leases
    <2> QED  BY <1>3, <2>1, TrackAcquire DEF TransferAcquire
  <1>4. CASE Release(g)  BY <1>4, TrackRelease
  <1>5. ASSUME UNCHANGED <<generations, leases, closed>>, Leases(g)' <=> Leases(g),
               \A h \in Callers : h # g => caller'[h] = caller[h],
               \A q \in PoolIds \ {PoolId(g)} : Kept(q)' <=> Kept(q),
               \/ Kept(PoolId(g))' <=> Kept(PoolId(g))
               \/ Leases(g) /\ ~Kept(PoolId(g))'
               \/ Current(g) /\ Kept(PoolId(g))'
        PROVE  GenerationsTrackUse'
    <2> SUFFICES ASSUME ~closed, NEW p \in PoolIds PROVE TrackedAt(p)'
      BY <1>5, TrackedEverywhere DEF TrackedAt, GenerationsTrackUse, Holders
    <2>1. TrackedAt(p)  BY TrackedEverywhere
    <2>2. \A h \in Callers : Leases(h)' <=> Leases(h)  BY <1>5 DEF Leases
    <2>3. Holders(p)' = Holders(p)  BY <2>2, HoldersStay
    <2>4. CASE Kept(p)' <=> Kept(p)  BY <1>5, <2>1, <2>3, <2>4, TrackedStays
    <2>5. CASE ~(Kept(p)' <=> Kept(p))
      <3>1. p = PoolId(g)  BY <1>5, <2>5
      <3>2. CASE Leases(g) /\ ~Kept(p)'
        <4>1. Cardinality(Holders(p)) \in Nat \ {0}  BY <3>1, <3>2, HolderCounted
        <4> QED  BY <1>5, <2>1, <2>3, <3>2, <4>1 DEF TrackedAt
      <3>3. CASE Current(g) /\ Kept(p)'
        <4>1. generations[p] # NoGen  BY <3>1, <3>3 DEF Current
        <4> QED  BY <1>5, <2>1, <2>3, <3>3, <4>1 DEF TrackedAt
      <3> QED  BY <1>5, <2>5, <3>1, <3>2, <3>3
    <2> QED  BY <2>4, <2>5
  <1>6. CASE BrowseLoad(g)
    <2>1. /\ UNCHANGED <<sessions, generations, leases, closed>>
          /\ caller[g].pc = "load" /\ caller'[g].pc \in {"get", "release"}
          /\ \A h \in Callers : h # g => caller'[h] = caller[h]
      BY <1>6 DEF BrowseLoad, At, GoTo, FilePoolTypeOK, Caller
    <2> QED  BY <1>1, <1>5, <2>1 DEF Leases, Kept
  <1>7. CASE TransferStart(g) \/ TransferGate(g) \/ TransferValidate(g) \/ Unlock(g)
    <2>1. /\ UNCHANGED <<sessions, generations, leases, closed>>
          /\ caller[g].pc \in {"start", "gate", "validate", "unlock"}
          /\ caller'[g].pc \in {"gate", "validate", "acquire", "unlock", "done", "using"}
          /\ \A h \in Callers : h # g => caller'[h] = caller[h]
      BY <1>7 DEF TransferStart, TransferGate, TransferValidate, Unlock, At, GoTo, FilePoolTypeOK, Caller
    <2> QED  BY <1>1, <1>5, <2>1 DEF Leases, Kept
  <1>8. CASE GetAtGeneration(g)
    <2>1. /\ UNCHANGED <<generations, leases, closed>>
          /\ caller[g].pc = "get" /\ caller'[g].pc \in {"release", "probe", "connect"}
          /\ \A h \in Callers : h # g => caller'[h] = caller[h]
      BY <1>8 DEF GetAtGeneration, At, GoTo, FilePoolTypeOK, Caller
    <2>2. Leases(g) /\ Leases(g)'  BY <2>1 DEF Leases
    <2>3. CASE sessions' = [sessions EXCEPT ![PoolId(g)].idle = FALSE] /\ Kept(PoolId(g))
      <3>1. sessions[PoolId(g)] \in Entry  BY <2>3, <1>1 DEF Kept, FilePoolTypeOK
      <3>2. \A q \in PoolIds : sessions'[q] = None <=> sessions[q] = None
        BY <1>1, <2>3, <3>1, TouchKeeps DEF FilePoolTypeOK
      <3> QED  BY <1>1, <1>5, <2>1, <2>2, <3>2 DEF Kept
    <2>4. CASE sessions' = [sessions EXCEPT ![PoolId(g)] = None]
      <3>1. sessions'[PoolId(g)] = None /\ \A q \in PoolIds \ {PoolId(g)} : sessions'[q] = sessions[q]
        BY <1>1, <2>4 DEF FilePoolTypeOK
      <3> QED  BY <1>1, <1>5, <2>1, <2>2, <3>1 DEF Kept
    <2>5. CASE UNCHANGED sessions  BY <1>1, <1>5, <2>1, <2>2, <2>5 DEF Kept
    <2> QED  BY <1>8, <2>3, <2>4, <2>5 DEF GetAtGeneration
  <1>9. CASE Probe(g)
    <2>1. /\ UNCHANGED <<generations, leases, closed>>
          /\ caller[g].pc = "probe" /\ caller'[g].pc \in {"release", "get"}
          /\ \A h \in Callers : h # g => caller'[h] = caller[h]
      BY <1>9 DEF Probe, At, GoTo, FilePoolTypeOK, Caller
    <2>2. Leases(g) /\ Leases(g)'  BY <2>1 DEF Leases
    <2>3. CASE sessions' = [sessions EXCEPT ![PoolId(g)] = None]
      <3>1. sessions'[PoolId(g)] = None /\ \A q \in PoolIds \ {PoolId(g)} : sessions'[q] = sessions[q]
        BY <1>1, <2>3 DEF FilePoolTypeOK
      <3> QED  BY <1>1, <1>5, <2>1, <2>2, <3>1 DEF Kept
    <2>4. CASE UNCHANGED sessions  BY <1>1, <1>5, <2>1, <2>2, <2>4 DEF Kept
    <2> QED  BY <1>9, <2>3, <2>4 DEF Probe
  <1>10. CASE Connect(g)
    <2>1. /\ UNCHANGED <<sessions, generations, leases, closed>>
          /\ caller[g].pc = "connect" /\ caller'[g].pc \in {"insert", "release"}
          /\ \A h \in Callers : h # g => caller'[h] = caller[h]
      BY <1>10 DEF Connect, At, GoTo, FilePoolTypeOK, Caller
    <2> QED  BY <1>1, <1>5, <2>1 DEF Leases, Kept
  <1>11. CASE Insert(g)
    <2>1. /\ UNCHANGED <<generations, leases, closed>>
          /\ caller[g].pc = "insert" /\ caller'[g].pc = "release"
          /\ \A h \in Callers : h # g => caller'[h] = caller[h]
      BY <1>11 DEF Insert, At, GoTo, FilePoolTypeOK, Caller
    <2>2. Leases(g) /\ Leases(g)'  BY <2>1 DEF Leases
    <2>3. CASE UNCHANGED sessions  BY <1>1, <1>5, <2>1, <2>2, <2>3 DEF Kept
    <2>4. CASE sessions' = [sessions EXCEPT ![PoolId(g)].idle = FALSE] /\ Kept(PoolId(g))
      <3>1. sessions[PoolId(g)] \in Entry  BY <2>4, <1>1 DEF Kept, FilePoolTypeOK
      <3>2. \A q \in PoolIds : sessions'[q] = None <=> sessions[q] = None
        BY <1>1, <2>4, <3>1, TouchKeeps DEF FilePoolTypeOK
      <3> QED  BY <1>1, <1>5, <2>1, <2>2, <3>2 DEF Kept
    <2>5. CASE /\ Current(g)
               /\ sessions' = [sessions EXCEPT ![PoolId(g)] =
                                 [fs |-> g, conn |-> ConnOf[g], version |-> caller[g].version,
                                  idle |-> FALSE]]
      <3>1. [fs |-> g, conn |-> ConnOf[g], version |-> caller[g].version, idle |-> FALSE] \in Entry
        BY DEF Entry, FilePoolTypeOK, Caller
      <3>2. sessions'[PoolId(g)] # None /\ \A q \in PoolIds \ {PoolId(g)} : sessions'[q] = sessions[q]
        BY <1>1, <2>5, <3>1 DEF FilePoolTypeOK
      <3> QED  BY <1>1, <1>5, <2>1, <2>2, <2>5, <3>2 DEF Kept
    <2> QED  BY <1>11, <2>3, <2>4, <2>5 DEF Insert
  <1>12. CASE Finish(g)
    <2>1. /\ UNCHANGED <<leases, closed>>
          /\ caller[g].pc = "using" /\ caller'[g].pc = "done"
          /\ \A h \in Callers : h # g => caller'[h] = caller[h]
      BY <1>12 DEF Finish, At, GoTo, FilePoolTypeOK, Caller
    <2>2. Leases(g)' <=> Leases(g)  BY <2>1 DEF Leases
    <2>3. CASE g \in Transfers
      <3>1. Evict({g})  BY <1>12, <2>3 DEF Finish
      <3>2. \A h \in Callers : Leases(h)' <=> Leases(h)  BY <2>1, <2>2 DEF Leases
      <3> QED  BY <2>1, <3>1, <3>2, TrackEvict
    <2>4. CASE g \notin Transfers
      <3>1. UNCHANGED <<sessions, generations>>  BY <1>12, <2>4 DEF Finish
      <3> QED  BY <1>1, <1>5, <2>1, <2>2, <3>1 DEF Kept
    <2> QED  BY <2>3, <2>4
  <1> QED
    BY <1>2, <1>3, <1>4, <1>6, <1>7, <1>8, <1>9, <1>10, <1>11, <1>12 DEF CallerStep

LEMMA TrackStep == FilePoolTypeOK /\ GenerationsTrackUse /\ [Next]_vars => GenerationsTrackUse'
  <1> SUFFICES ASSUME FilePoolTypeOK, GenerationsTrackUse, [Next]_vars PROVE GenerationsTrackUse'
    OBVIOUS
  <1>1. ASSUME UNCHANGED <<generations, leases, closed, caller>>,
               \A q \in PoolIds : Kept(q)' <=> Kept(q)
        PROVE  GenerationsTrackUse'
    <2> SUFFICES ASSUME ~closed, NEW p \in PoolIds PROVE TrackedAt(p)'
      BY <1>1, TrackedEverywhere DEF TrackedAt, GenerationsTrackUse, Holders
    <2>1. TrackedAt(p)  BY TrackedEverywhere
    <2>2. Holders(p)' = Holders(p)  BY <1>1 DEF Holders, PoolId, Leases
    <2> QED  BY <1>1, <2>1, <2>2, TrackedStays
  <1>2. ASSUME NEW g \in Callers, CallerStep(g) PROVE GenerationsTrackUse'
    BY <1>2, TrackCaller
  <1>3. ASSUME NEW c \in Saved, EditStart(c) PROVE GenerationsTrackUse'
    BY <1>1, <1>3 DEF EditStart, Kept
  <1>4. ASSUME NEW k \in Gates, EditStep(k) PROVE GenerationsTrackUse'
    <2>1. CASE EditLock(k) \/ EditWrite(k)  BY <1>1, <2>1 DEF EditLock, EditWrite, Kept
    <2>2. CASE EditFinish(k)
      <3>1. PICK ids : ids = EntriesOf(edit[k].conn)  OBVIOUS
      <3>2. Evict(ids) /\ UNCHANGED <<leases, closed, caller>>  BY <2>2, <3>1 DEF EditFinish
      <3>3. \A h \in Callers : Leases(h)' <=> Leases(h)  BY <3>2 DEF Leases
      <3> QED  BY <3>2, <3>3, TrackEvict
    <2> QED  BY <1>4, <2>1, <2>2 DEF EditStep
  <1>5. ASSUME NEW p \in PoolIds, GrowsIdle(p) PROVE GenerationsTrackUse'
    <2>1. /\ sessions[p] \in Entry /\ sessions' = [sessions EXCEPT ![p].idle = TRUE]
          /\ UNCHANGED <<generations, leases, closed, caller>>
      BY <1>5 DEF GrowsIdle, Kept, FilePoolTypeOK
    <2>2. \A q \in PoolIds : sessions'[q] = None <=> sessions[q] = None
      BY <2>1, TouchKeeps DEF FilePoolTypeOK
    <2> QED  BY <1>1, <2>1, <2>2 DEF Kept
  <1>6. CASE ReapIdle
    <2>1. PICK ids : ids = {p \in PoolIds : Kept(p) /\ sessions[p].idle}  OBVIOUS
    <2>2. Evict(ids) /\ UNCHANGED <<leases, closed, caller>>  BY <1>6, <2>1 DEF ReapIdle
    <2>3. \A h \in Callers : Leases(h)' <=> Leases(h)  BY <2>2 DEF Leases
    <2> QED  BY <2>2, <2>3, TrackEvict
  <1>7. CASE ClosePool  BY <1>7 DEF ClosePool, GenerationsTrackUse
  <1>8. CASE UNCHANGED vars  BY <1>1, <1>8 DEF vars, Kept
  <1> QED  BY <1>2, <1>3, <1>4, <1>5, <1>6, <1>7, <1>8 DEF Next

\* While the pool is open, its leases count exactly the callers between
\* AcquireGeneration and ReleaseGeneration, an id has a generation only for a
\* session or for such a caller, and a session never lacks one: the maps do not
\* grow with requests that failed, for any number of callers and connections.
THEOREM GenerationsTrackUseCorrect == Spec => []GenerationsTrackUse
  BY InitType, StepType, TrackInit, TrackStep, PTL DEF Spec
=============================================================================

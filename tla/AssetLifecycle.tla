--------------------------- MODULE AssetLifecycle ---------------------------
(***************************************************************************)
(* The lifecycle locks of internal/agentmgr/lifecycle.go: a mutex per      *)
(* asset, created by the first user and forgotten by the last, in a map    *)
(* that has a mutex of its own.  Code under lifecycleMu is one step.       *)
(*                                                                         *)
(* An entry is its address.  The allocator may hand out again an address   *)
(* that neither the map nor a goroutine refers to.                         *)
(***************************************************************************)
EXTENDS Integers, FiniteSets

CONSTANTS
    Assets,   \* keys of AgentManager.lifecycles
    Users,    \* goroutines that call lockAssetLifecycle
    Entries,  \* addresses of assetLifecycle values
    None      \* nil

ASSUME LifecycleAssumption ==
    /\ None \notin Assets /\ None \notin Users /\ None \notin Entries
    /\ IsFiniteSet(Users)

VARIABLES
    table,   \* AgentManager.lifecycles
    users,   \* assetLifecycle.users
    holder,  \* who holds assetLifecycle.mu
    pc,      \* where each goroutine is
    asset,   \* its argument
    entry    \* its pointer

vars == <<table, users, holder, pc, asset, entry>>

LifecyclePC == {"idle", "waiting", "inside", "leaving"}

Init ==
    /\ table = [a \in Assets |-> None]
    /\ users = [e \in Entries |-> 0]
    /\ holder = [e \in Entries |-> None]
    /\ pc = [u \in Users |-> "idle"]
    /\ asset = [u \in Users |-> None]
    /\ entry = [u \in Users |-> None]

\* A new address.
Fresh(e) == (\A a \in Assets : table[a] # e) /\ (\A u \in Users : entry[u] # e)

\* The entry a goroutine gets: the one in the map, or a new one, zeroed.
Obtains(a, e) ==
    /\ e \in Entries
    /\ \/ /\ table[a] # None /\ e = table[a]
          /\ users' = [users EXCEPT ![e] = @ + 1]
          /\ UNCHANGED <<table, holder>>
       \/ /\ table[a] = None /\ Fresh(e)
          /\ table' = [table EXCEPT ![a] = e]
          /\ users' = [users EXCEPT ![e] = 1]
          /\ holder' = [holder EXCEPT ![e] = None]

\* Mutant of Retain: every caller makes an entry of its own.
RetainFresh(u, a) ==
    /\ pc[u] = "idle"
    /\ \E e \in Entries :
          /\ Fresh(e)
          /\ table' = [table EXCEPT ![a] = e]
          /\ users' = [users EXCEPT ![e] = 1]
          /\ holder' = [holder EXCEPT ![e] = None]
          /\ entry' = [entry EXCEPT ![u] = e]
    /\ asset' = [asset EXCEPT ![u] = a]
    /\ pc' = [pc EXCEPT ![u] = "waiting"]

\* lockAssetLifecycle up to its release of lifecycleMu.
Retain(u, a) ==
    /\ pc[u] = "idle"
    /\ \E e \in Entries : Obtains(a, e) /\ entry' = [entry EXCEPT ![u] = e]
    /\ asset' = [asset EXCEPT ![u] = a]
    /\ pc' = [pc EXCEPT ![u] = "waiting"]

\* Mutant of Lock: TryLock, without a section when somebody is inside.
LockOrLeave(u) ==
    /\ pc[u] = "waiting"
    /\ LET free == holder[entry[u]] = None IN
       /\ holder' = IF free THEN [holder EXCEPT ![entry[u]] = u] ELSE holder
       /\ pc' = [pc EXCEPT ![u] = IF free THEN "inside" ELSE "leaving"]
    /\ UNCHANGED <<table, users, asset, entry>>

\* entry.mu.Lock.
Lock(u) ==
    /\ pc[u] = "waiting"
    /\ holder[entry[u]] = None
    /\ holder' = [holder EXCEPT ![entry[u]] = u]
    /\ pc' = [pc EXCEPT ![u] = "inside"]
    /\ UNCHANGED <<table, users, asset, entry>>

\* The release function: entry.mu.Unlock, ...
Unlock(u) ==
    /\ pc[u] = "inside"
    /\ holder' = [holder EXCEPT ![entry[u]] = None]
    /\ pc' = [pc EXCEPT ![u] = "leaving"]
    /\ UNCHANGED <<table, users, asset, entry>>

Returns(u) ==
    /\ pc' = [pc EXCEPT ![u] = "idle"]
    /\ asset' = [asset EXCEPT ![u] = None]
    /\ entry' = [entry EXCEPT ![u] = None]

\* Mutant of Drop: nobody forgets it.
DropNever(u) ==
    /\ pc[u] = "leaving"
    /\ users' = [users EXCEPT ![entry[u]] = @ - 1]
    /\ Returns(u)
    /\ UNCHANGED <<table, holder>>

\* ... then, under lifecycleMu, the count, and the map entry with the last user.
Drop(u) ==
    /\ pc[u] = "leaving"
    /\ users' = [users EXCEPT ![entry[u]] = @ - 1]
    /\ table' = [table EXCEPT ![asset[u]] = IF users[entry[u]] = 1 THEN None ELSE @]
    /\ Returns(u)
    /\ UNCHANGED holder

Next == \E u \in Users : \/ Lock(u) \/ Unlock(u) \/ Drop(u)
                         \/ \E a \in Assets : Retain(u, a)

Spec == Init /\ [][Next]_vars

\* Sections are bounded, and a Go mutex does not starve a waiter.
LiveSpec ==
    /\ Spec
    /\ \A u \in Users : SF_vars(Lock(u)) /\ WF_vars(Unlock(u)) /\ WF_vars(Drop(u))

-----------------------------------------------------------------------------
(* Properties.                                                             *)

\* Every variable has its type.
LifecycleTypeOK ==
    /\ table \in [Assets -> Entries \cup {None}]
    /\ users \in [Entries -> Nat]
    /\ holder \in [Entries -> Users \cup {None}]
    /\ pc \in [Users -> LifecyclePC]
    /\ asset \in [Users -> Assets \cup {None}]
    /\ entry \in [Users -> Entries \cup {None}]

\* lockAssetLifecycle: two goroutines are never in the sections of one asset,
\* although the mutex of the asset is forgotten and made anew between users.
OneInside ==
    \A u, v \in Users : pc[u] = "inside" /\ pc[v] = "inside" /\ asset[u] = asset[v] => u = v

\* "Waiters retain the lock entry, so it can be removed when truly idle": the map
\* has an entry for an asset exactly while a goroutine is on its way through,
\* and its count is the number of those goroutines.
EntryWhileUsed ==
    \A a \in Assets :
       LET through == {u \in Users : asset[u] = a} IN
       IF table[a] = None THEN through = {}
       ELSE users[table[a]] = Cardinality(through) /\ through # {}

\* The lock table implements a mutex per asset.
Mutex == INSTANCE KeyedMutex WITH
    asks <- [u \in Users |-> IF pc[u] \in {"waiting", "inside"} THEN asset[u] ELSE None],
    inside <- [a \in Assets |-> IF \E u \in Users : pc[u] = "inside" /\ asset[u] = a
                                THEN CHOOSE u \in Users : pc[u] = "inside" /\ asset[u] = a
                                ELSE None]

\* lockAssetLifecycle refines KeyedMutex, which the sections of AgentManager are
\* written over.
ImplementsMutex == Mutex!MutexSpec

\* entry.mu: a goroutine that asks for the section of an asset gets in.
EveryWaiterEnters == \A u \in Users : pc[u] = "waiting" ~> pc[u] = "inside"
=============================================================================

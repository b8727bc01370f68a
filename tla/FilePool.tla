------------------------------ MODULE FilePool ------------------------------
(***************************************************************************)
(* The pool of remote file sessions (internal/fileproto/pool.go) with its  *)
(* callers: requests that browse a saved connection, background transfers, *)
(* edits and deletions of the saved connection, the idle reaper and the    *)
(* shutdown of the pool.                                                   *)
(*                                                                         *)
(* A request browses under the id of its connection and guards itself with *)
(* a generation it acquires before it loads the connection; a transfer     *)
(* uses a pool id of its own and holds the connection's gate for reading.  *)
(* An edit holds the gate for writing and evicts before it lets go.        *)
(*                                                                         *)
(* A configuration is the version of the saved connection it was built     *)
(* from.  Every caller connects at most once, so the session it opens has  *)
(* the caller's name.  Code under Pool.mu is one step, and so is closing   *)
(* what it removed.  The host key that a first SFTP contact pins is not a  *)
(* new version: it changes neither transport nor credentials.              *)
(***************************************************************************)
EXTENDS Integers, FiniteSets

CONSTANTS
    Saved,        \* saved file connections
    Browsers,     \* requests that browse (getPooledFS)
    Transfers,    \* background transfers (runFileTransfer)
    ConnOf,       \* the saved connection each caller uses
    Gates,        \* stripes of Pool.gates
    GateOf,       \* Pool.connectionGate
    MaxVersion,   \* bound: versions of a saved connection
    None          \* no session, no edit

Callers == Browsers \cup Transfers

\* poolEntry; `idle' stands for lastUsed further back than defaultIdleTimeout.
Entry == [fs : Callers, conn : Saved, version : Nat, idle : BOOLEAN]

ASSUME FilePoolAssumption ==
    /\ ConnOf \in [Callers -> Saved]
    /\ GateOf \in [Saved -> Gates]
    /\ Browsers \cap Transfers = {}
    /\ Saved \cap Transfers = {}
    /\ None \notin Callers \cup Saved \cup Entry
    /\ MaxVersion \in Nat \ {0}
    /\ IsFiniteSet(Callers)

VARIABLES
    saved,        \* version of the stored connection, Deleted once it is gone
    sessions,     \* Pool.sessions: the session kept under each pool id
    generations,  \* Pool.generations, NoGen for a missing key
    leases,       \* Pool.leases
    nextGen,      \* Pool.nextGen
    closed,       \* Pool.closed
    caller,       \* every caller's goroutine
    edit,         \* the edit under way, one per gate
    fs            \* remote sessions: unused, open or closed

vars == <<saved, sessions, generations, leases, nextGen, closed, caller, edit, fs>>

-----------------------------------------------------------------------------
(* State.                                                                  *)

PoolIds == Saved \cup Transfers

\* A browser uses the id of its connection, a transfer an id of its own.
PoolId(g) == IF g \in Browsers THEN ConnOf[g] ELSE g

Deleted == 0

NoGen == 0

Kept(p) == sessions[p] # None

CallerPC == {"start", "load", "gate", "validate", "acquire", "get", "probe", "connect", "insert",
             "release", "unlock", "using", "done"}

Caller == [pc : CallerPC, gen : Nat, version : Nat, found : Callers \cup {None}]

\* An edit waits for its gate, changes the stored connection and finishes.
Edit == [conn : Saved \cup {None}, pc : {"none", "waiting", "locked", "written"}]

NoEdit == [conn |-> None, pc |-> "none"]

Init ==
    /\ saved = [c \in Saved |-> 1]
    /\ sessions = [p \in PoolIds |-> None]
    /\ generations = [p \in PoolIds |-> NoGen]
    /\ leases = [p \in PoolIds |-> 0]
    /\ nextGen = 0
    /\ closed = FALSE
    /\ caller = [g \in Callers |-> [pc |-> "start", gen |-> NoGen, version |-> Deleted,
                                    found |-> None]]
    /\ edit = [k \in Gates |-> NoEdit]
    /\ fs = [g \in Callers |-> "unused"]

At(g, pc) == caller[g].pc = pc

GoTo(g, pc) == caller' = [caller EXCEPT ![g].pc = pc]

-----------------------------------------------------------------------------
(* The gates: sync.RWMutex, whose waiting writer keeps new readers out.    *)

Reads(g, k) == /\ g \in Transfers
               /\ GateOf[ConnOf[g]] = k
               /\ caller[g].pc \in {"validate", "acquire", "get", "probe", "connect", "insert",
                                    "release", "unlock"}

NoReaders(k) == \A g \in Callers : ~Reads(g, k)

-----------------------------------------------------------------------------
(* Generations.                                                            *)

\* AcquireGeneration: a lease, and the generation of the id, new if it has none.
AcquireGeneration(g, pc) ==
    LET p == PoolId(g) IN
    IF closed
    THEN /\ caller' = [caller EXCEPT ![g].pc = pc, ![g].gen = NoGen]
         /\ UNCHANGED <<leases, generations, nextGen>>
    ELSE /\ leases' = [leases EXCEPT ![p] = @ + 1]
         /\ nextGen' = IF generations[p] = NoGen THEN nextGen + 1 ELSE nextGen
         /\ generations' = [generations EXCEPT ![p] = IF @ = NoGen THEN nextGen + 1 ELSE @]
         /\ caller' = [caller EXCEPT ![g].pc = pc, ![g].gen = generations'[p]]

\* Mutant of ReleaseGeneration: the last lease goes, the generation stays.
ReleaseKeepsGeneration(p) ==
    /\ leases' = [leases EXCEPT ![p] = IF @ <= 1 THEN 0 ELSE @ - 1]
    /\ UNCHANGED generations

\* ReleaseGeneration: the last lease takes the generation of an id without a
\* session along.
ReleaseGeneration(p) ==
    /\ leases' = [leases EXCEPT ![p] = IF @ <= 1 THEN 0 ELSE @ - 1]
    /\ generations' = [generations EXCEPT ![p] = IF leases[p] <= 1 /\ ~Kept(p) THEN NoGen ELSE @]

\* The check of GetAtGeneration, made under the mutex each time.
Current(g) == generations[PoolId(g)] # NoGen /\ generations[PoolId(g)] = caller[g].gen

-----------------------------------------------------------------------------
(* Callers.                                                                *)

\* getPooledFS: the generation first, then the stored connection.
BrowseStart(g) ==
    /\ g \in Browsers
    /\ At(g, "start")
    /\ AcquireGeneration(g, "load")
    /\ UNCHANGED <<saved, sessions, closed, edit, fs>>

BrowseLoad(g) ==
    /\ At(g, "load")
    /\ \/ /\ saved[ConnOf[g]] # Deleted
          /\ caller' = [caller EXCEPT ![g].pc = "get", ![g].version = saved[ConnOf[g]]]
       \/ GoTo(g, "release")
    /\ UNCHANGED <<saved, sessions, generations, leases, nextGen, closed, edit, fs>>

\* runFileTransfer: load the stored connection, ...
TransferStart(g) ==
    /\ g \in Transfers
    /\ At(g, "start")
    /\ \/ /\ saved[ConnOf[g]] # Deleted
          /\ caller' = [caller EXCEPT ![g].pc = "gate", ![g].version = saved[ConnOf[g]]]
       \/ GoTo(g, "done")
    /\ UNCHANGED <<saved, sessions, generations, leases, nextGen, closed, edit, fs>>

\* ... then Pool.Get: gate.RLock, ...
TransferGate(g) ==
    /\ g \in Transfers
    /\ At(g, "gate")
    /\ edit[GateOf[ConnOf[g]]].pc = "none"
    /\ GoTo(g, "validate")
    /\ UNCHANGED <<saved, sessions, generations, leases, nextGen, closed, edit, fs>>

\* ... ValidateCurrent, ...
TransferValidate(g) ==
    /\ At(g, "validate")
    /\ \/ /\ saved[ConnOf[g]] = caller[g].version
          /\ GoTo(g, "acquire")
       \/ GoTo(g, "unlock")
    /\ UNCHANGED <<saved, sessions, generations, leases, nextGen, closed, edit, fs>>

\* ... and the generation.
TransferAcquire(g) ==
    /\ At(g, "acquire")
    /\ AcquireGeneration(g, "get")
    /\ UNCHANGED <<saved, sessions, closed, edit, fs>>

Same(e, g) == e.version = caller[g].version /\ e.conn = ConnOf[g]

\* GetAtGeneration, first look: refuse, probe the session kept, or connect,
\* closing a session of another configuration first.
GetAtGeneration(g) ==
    LET p == PoolId(g) IN
    /\ At(g, "get")
    /\ \/ /\ closed \/ ~Current(g)
          /\ GoTo(g, "release")
          /\ UNCHANGED <<sessions, fs>>
       \/ /\ ~closed /\ Current(g)
          /\ Kept(p) /\ Same(sessions[p], g)
          /\ sessions' = [sessions EXCEPT ![p].idle = FALSE]
          /\ caller' = [caller EXCEPT ![g].pc = "probe", ![g].found = sessions[p].fs]
          /\ UNCHANGED fs
       \/ /\ ~closed /\ Current(g)
          /\ Kept(p) /\ ~Same(sessions[p], g)
          /\ sessions' = [sessions EXCEPT ![p] = None]
          /\ fs' = [fs EXCEPT ![sessions[p].fs] = "closed"]
          /\ GoTo(g, "connect")
       \/ /\ ~closed /\ Current(g)
          /\ ~Kept(p)
          /\ GoTo(g, "connect")
          /\ UNCHANGED <<sessions, fs>>
    /\ UNCHANGED <<saved, generations, leases, nextGen, closed, edit>>

\* The entry probed is still the one in the map.
StillKept(g) == Kept(PoolId(g)) /\ sessions[PoolId(g)].fs = caller[g].found

\* The health check.  A session that answers is returned if it is still kept
\* under this generation; one that does not is evicted and the loop continues.
Probe(g) ==
    /\ At(g, "probe")
    /\ \/ /\ StillKept(g) /\ Current(g)
          /\ fs[caller[g].found] = "open"
          /\ GoTo(g, "release")
          /\ UNCHANGED <<sessions, fs>>
       \/ /\ StillKept(g)
          /\ sessions' = [sessions EXCEPT ![PoolId(g)] = None]
          /\ fs' = [fs EXCEPT ![caller[g].found] = "closed"]
          /\ caller' = [caller EXCEPT ![g].pc = "get", ![g].found = None]
       \/ /\ ~(StillKept(g) /\ Current(g))
          /\ caller' = [caller EXCEPT ![g].pc = "release", ![g].found = None]
          /\ UNCHANGED <<sessions, fs>>
    /\ UNCHANGED <<saved, generations, leases, nextGen, closed, edit>>

\* Dial the remote host.
Connect(g) ==
    /\ At(g, "connect")
    /\ \/ /\ fs' = [fs EXCEPT ![g] = "open"]
          /\ GoTo(g, "insert")
       \/ /\ GoTo(g, "release")
          /\ UNCHANGED fs
    /\ UNCHANGED <<saved, sessions, generations, leases, nextGen, closed, edit>>

\* Mutant of Insert: the pool is not asked again whether it was closed.
InsertUnchecked(g) ==
    LET p == PoolId(g) IN
    /\ At(g, "insert")
    /\ IF Kept(p)
       THEN /\ caller' = [caller EXCEPT ![g].pc = "release"]
            /\ UNCHANGED sessions
       ELSE /\ sessions' = [sessions EXCEPT ![p] = [fs |-> g, conn |-> ConnOf[g],
                                                    version |-> caller[g].version, idle |-> FALSE]]
            /\ caller' = [caller EXCEPT ![g].pc = "release", ![g].found = g]
    /\ UNCHANGED <<saved, generations, leases, nextGen, closed, edit, fs>>

\* GetAtGeneration, last look: close the new session if the pool was closed, if
\* the generation has moved on or if another caller was first, else keep it.
Insert(g) ==
    LET p == PoolId(g) IN
    /\ At(g, "insert")
    /\ \/ /\ \/ closed \/ ~Current(g)
             \/ Kept(p) /\ ~Same(sessions[p], g)
          /\ fs' = [fs EXCEPT ![g] = "closed"]
          /\ GoTo(g, "release")
          /\ UNCHANGED sessions
       \/ /\ ~closed /\ Current(g)
          /\ Kept(p) /\ Same(sessions[p], g)
          /\ sessions' = [sessions EXCEPT ![p].idle = FALSE]
          /\ fs' = [fs EXCEPT ![g] = "closed"]
          /\ caller' = [caller EXCEPT ![g].pc = "release", ![g].found = sessions[p].fs]
       \/ /\ ~closed /\ Current(g)
          /\ ~Kept(p)
          /\ sessions' = [sessions EXCEPT ![p] = [fs |-> g, conn |-> ConnOf[g],
                                                  version |-> caller[g].version, idle |-> FALSE]]
          /\ caller' = [caller EXCEPT ![g].pc = "release", ![g].found = g]
          /\ UNCHANGED fs
    /\ UNCHANGED <<saved, generations, leases, nextGen, closed, edit>>

\* Mutant of Release: an early return keeps the gate.
ReleaseKeepsGate(g) ==
    /\ At(g, "release")
    /\ ReleaseGeneration(PoolId(g))
    /\ caller[g].found # None
    /\ GoTo(g, IF g \in Browsers THEN "using" ELSE "unlock")
    /\ UNCHANGED <<saved, sessions, nextGen, closed, edit, fs>>

\* The deferred ReleaseGeneration; a transfer then gives its gate back.
Release(g) ==
    /\ At(g, "release")
    /\ ReleaseGeneration(PoolId(g))
    /\ GoTo(g, IF g \in Transfers THEN "unlock" ELSE IF caller[g].found = None THEN "done" ELSE "using")
    /\ UNCHANGED <<saved, sessions, nextGen, closed, edit, fs>>

Unlock(g) ==
    /\ At(g, "unlock")
    /\ GoTo(g, IF caller[g].found = None THEN "done" ELSE "using")
    /\ UNCHANGED <<saved, sessions, generations, leases, nextGen, closed, edit, fs>>

-----------------------------------------------------------------------------
(* Eviction.                                                               *)

\* Forget the sessions and the generations of these ids and close them.
Evict(ids) ==
    /\ sessions' = [p \in PoolIds |-> IF p \in ids THEN None ELSE sessions[p]]
    /\ generations' = [p \in PoolIds |-> IF p \in ids THEN NoGen ELSE generations[p]]
    /\ fs' = [g \in Callers |-> IF \E p \in ids : Kept(p) /\ sessions[p].fs = g
                                THEN "closed" ELSE fs[g]]

\* Mutant of EntriesOf: only the connection's own id.
OwnEntry(c) == {c}

\* removeEntries: the id itself, and every session of that connection.
EntriesOf(c) == {c} \cup {p \in PoolIds : Kept(p) /\ sessions[p].conn = c}

\* A browser is done with its session; a transfer removes it from the pool.
Finish(g) ==
    /\ At(g, "using")
    /\ GoTo(g, "done")
    /\ IF g \in Transfers THEN Evict({g}) ELSE UNCHANGED <<sessions, generations, fs>>
    /\ UNCHANGED <<saved, leases, nextGen, closed, edit>>

\* BeginConnectionMutation: queue for the gate, ...
EditStart(c) ==
    /\ saved[c] # Deleted
    /\ edit[GateOf[c]].pc = "none"
    /\ edit' = [edit EXCEPT ![GateOf[c]] = [conn |-> c, pc |-> "waiting"]]
    /\ UNCHANGED <<saved, sessions, generations, leases, nextGen, closed, caller, fs>>

\* ... take it for writing, ...
EditLock(k) ==
    /\ edit[k].pc = "waiting"
    /\ NoReaders(k)
    /\ edit' = [edit EXCEPT ![k].pc = "locked"]
    /\ UNCHANGED <<saved, sessions, generations, leases, nextGen, closed, caller, fs>>

\* ... update or delete the stored connection, or fail to, ...
EditWrite(k) ==
    /\ edit[k].pc = "locked"
    /\ edit' = [edit EXCEPT ![k].pc = "written"]
    /\ LET c == edit[k].conn IN
       \/ /\ saved[c] < MaxVersion
          /\ saved' = [saved EXCEPT ![c] = @ + 1]
       \/ saved' = [saved EXCEPT ![c] = Deleted]
       \/ UNCHANGED saved
    /\ UNCHANGED <<sessions, generations, leases, nextGen, closed, caller, fs>>

\* ... and evict before the gate opens.
EditFinish(k) ==
    /\ edit[k].pc = "written"
    /\ Evict(EntriesOf(edit[k].conn))
    /\ edit' = [edit EXCEPT ![k] = NoEdit]
    /\ UNCHANGED <<saved, leases, nextGen, closed, caller>>

\* Five minutes without a Get.
GrowsIdle(p) ==
    /\ Kept(p) /\ ~sessions[p].idle
    /\ sessions' = [sessions EXCEPT ![p].idle = TRUE]
    /\ UNCHANGED <<saved, generations, leases, nextGen, closed, caller, edit, fs>>

\* reapIdle.
ReapIdle ==
    /\ \E p \in PoolIds : Kept(p) /\ sessions[p].idle
    /\ Evict({p \in PoolIds : Kept(p) /\ sessions[p].idle})
    /\ UNCHANGED <<saved, leases, nextGen, closed, caller, edit>>

\* Pool.Close.
ClosePool ==
    /\ ~closed
    /\ closed' = TRUE
    /\ Evict(PoolIds)
    /\ leases' = [p \in PoolIds |-> 0]
    /\ UNCHANGED <<saved, nextGen, caller, edit>>

-----------------------------------------------------------------------------
CallerStep(g) ==
    \/ BrowseStart(g) \/ BrowseLoad(g)
    \/ TransferStart(g) \/ TransferGate(g) \/ TransferValidate(g) \/ TransferAcquire(g)
    \/ GetAtGeneration(g) \/ Probe(g) \/ Connect(g) \/ Insert(g) \/ Release(g) \/ Unlock(g)
    \/ Finish(g)

EditStep(k) == EditLock(k) \/ EditWrite(k) \/ EditFinish(k)

Next ==
    \/ \E g \in Callers : CallerStep(g)
    \/ \E c \in Saved : EditStart(c)
    \/ \E k \in Gates : EditStep(k)
    \/ \E p \in PoolIds : GrowsIdle(p)
    \/ ReapIdle \/ ClosePool

Spec == Init /\ [][Next]_vars

\* Operations on remote hosts are bounded by MaxOperationDuration and the
\* statements by their contexts: a transfer that has started goes on, and so does
\* an edit.  Browsers hold no gate and owe nothing.
LiveSpec ==
    /\ Spec
    /\ \A g \in Transfers : WF_vars(CallerStep(g) /\ caller[g].pc # "start")
    /\ \A k \in Gates : WF_vars(EditStep(k))

-----------------------------------------------------------------------------
(* Properties.                                                             *)

\* Every variable has its type.
FilePoolTypeOK ==
    /\ saved \in [Saved -> Nat]
    /\ sessions \in [PoolIds -> Entry \cup {None}]
    /\ generations \in [PoolIds -> Nat]
    /\ leases \in [PoolIds -> Nat]
    /\ nextGen \in Nat
    /\ closed \in BOOLEAN
    /\ caller \in [Callers -> Caller]
    /\ edit \in [Gates -> Edit]
    /\ fs \in [Callers -> {"unused", "open", "closed"}]

\* An edit of the connection has reached the table and not yet the pool.
Unsettled(c) == edit[GateOf[c]].conn = c /\ edit[GateOf[c]].pc = "written"

\* GetAtGeneration, BeginConnectionMutation: once an edit or a deletion of a
\* saved connection is finished, no session made with its old host or secret is
\* in the pool, however the callers that loaded it earlier are delayed.
NoStaleSession ==
    \A p \in PoolIds :
       Kept(p) => \/ sessions[p].version = saved[sessions[p].conn]
                  \/ Unsettled(sessions[p].conn)

\* GetAtGeneration between its dial and its last look.
InTransit(g) == caller[g].pc = "insert"

\* Insert, Evict: a remote session that is open is in the pool or on its way
\* into it, so a session that lost a race, went idle or met the shutdown is
\* closed; and what the pool holds is open.
NoLeakedSession ==
    /\ \A g \in Callers : fs[g] = "open" => \/ InTransit(g)
                                             \/ \E p \in PoolIds : Kept(p) /\ sessions[p].fs = g
    /\ \A p \in PoolIds : Kept(p) => fs[sessions[p].fs] = "open"
    /\ closed => \A p \in PoolIds : ~Kept(p)

Leases(g) == caller[g].pc \in {"load", "get", "probe", "connect", "insert", "release"}

\* AcquireGeneration, ReleaseGeneration: "failed and not-found requests cannot
\* grow the pool": an id keeps a generation only for a session or for a caller
\* that is still in there, and the leases count those callers.
GenerationsTrackUse ==
    ~closed => \A p \in PoolIds :
       /\ leases[p] = Cardinality({g \in Callers : PoolId(g) = p /\ Leases(g)})
       /\ generations[p] # NoGen => Kept(p) \/ leases[p] > 0
       /\ Kept(p) => generations[p] # NoGen

\* RWMutex: an edit that asked for its gate gets it and finishes, whatever the
\* callers that hold it for reading meet.
EditsFinish == \A k \in Gates : edit[k].pc = "waiting" ~> edit[k].pc = "none"
=============================================================================

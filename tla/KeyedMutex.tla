----------------------------- MODULE KeyedMutex -----------------------------
(***************************************************************************)
(* What a lock per asset promises: a user asks for the section of an asset, *)
(* at most one is inside, and it leaves.  AgentManager relies on no more.  *)
(***************************************************************************)
CONSTANTS
    Assets,  \* keys
    Users,   \* goroutines
    None     \* no user, no asset

VARIABLES
    asks,    \* the asset each user waits for or is inside of
    inside   \* the user inside the section of each asset

mutexVars == <<asks, inside>>

MutexInit ==
    /\ asks = [u \in Users |-> None]
    /\ inside = [a \in Assets |-> None]

Ask(u, a) ==
    /\ asks[u] = None
    /\ asks' = [asks EXCEPT ![u] = a]
    /\ UNCHANGED inside

Enter(u, a) ==
    /\ asks[u] = a
    /\ inside[a] = None
    /\ inside' = [inside EXCEPT ![a] = u]
    /\ UNCHANGED asks

Leave(u, a) ==
    /\ asks[u] = a
    /\ inside[a] = u
    /\ inside' = [inside EXCEPT ![a] = None]
    /\ asks' = [asks EXCEPT ![u] = None]

MutexNext == \E u \in Users, a \in Assets : Ask(u, a) \/ Enter(u, a) \/ Leave(u, a)

MutexSpec == MutexInit /\ [][MutexNext]_mutexVars
=============================================================================

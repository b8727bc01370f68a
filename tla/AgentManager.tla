---------------------------- MODULE AgentManager ----------------------------
(***************************************************************************)
(* The agent connection manager (internal/agentmgr) with the goroutines    *)
(* that use it: the WebSocket handler and the ping loop of every socket    *)
(* (cmd/labtether), the presence cleanup loop, and an administrator who    *)
(* revokes a token, lets a device enroll again or deletes it.              *)
(*                                                                         *)
(* A connection is registered, replaced and removed in a section of its    *)
(* asset: the code between lockAssetLifecycle and its release.  Sections   *)
(* of one asset exclude each other (AssetLifecycle shows how); their steps *)
(* interleave with everything that reads the manager or the database       *)
(* without the lifecycle lock.                                             *)
(*                                                                         *)
(* conns holds the connection together with its disconnect cleanup: the    *)
(* code sets and deletes both maps under one mutex.  A presence session is *)
(* named by its connection, for which the handler generates the session    *)
(* id.  Payloads, bridges and docker or web-service caches are left out.   *)
(***************************************************************************)
EXTENDS Naturals, FiniteSets

CONSTANTS
    Assets,       \* enrolled devices
    Conns,        \* WebSocket connections, each used for one dial
    Tokens,       \* per-agent bearer tokens
    Sources,      \* admission keys: shared.RequestClientKey of a request
    AssetOf,      \* the asset each connection authenticates as
    TokenOf,      \* the token each connection presents
    SourceOf,     \* the source each connection comes from
    OwnerConns,   \* connections of the legacy shared owner token
    GlobalLimit,  \* LABTETHER_MAX_AGENT_CONNECTIONS
    SourceLimit,  \* LABTETHER_MAX_AGENT_CONNECTIONS_PER_SOURCE
    Issued,       \* tokens issued before the behaviour starts
    Events,       \* bound: which requests and failures the instance meets
    MaxCrashes,   \* bound: hub restarts
    None          \* no connection, no presence row, nothing

ASSUME AgentManagerAssumption ==
    /\ AssetOf \in [Conns -> Assets]
    /\ TokenOf \in [Conns -> Tokens]
    /\ SourceOf \in [Conns -> Sources]
    /\ \A c, d \in Conns : TokenOf[c] = TokenOf[d] => AssetOf[c] = AssetOf[d]
    /\ OwnerConns \subseteq Conns
    /\ None \notin Conns
    /\ IsFiniteSet(Conns)
    /\ GlobalLimit \in Nat \ {0} /\ SourceLimit \in Nat \ {0}
    /\ MaxCrashes \in Nat
    /\ Issued \subseteq Tokens
    /\ Events \subseteq {"revoke", "recover", "delete", "fault", "age"}

VARIABLES
    admissions,  \* AgentManager.admissions
    bySource,    \* AgentManager.admissionsByKey
    conns,       \* AgentManager.conns and disconnectCleanups
    section,     \* per asset, the lifecycle section under way
    socket,      \* per connection: done channel, rejected flag, credential lease
    handler,     \* program counter of handleAgentWebSocket
    pinger,      \* program counter of its ping goroutine
    presence,    \* the agent_presence table
    transport,   \* assets.transport_type
    assetRow,    \* the asset exists in the assets table
    tokens,      \* agent_tokens.status
    sweep,       \* the presence cleanup loop
    admin,       \* the administrator's request under way
    announced,   \* last agent.connected / agent.disconnected broadcast
    lapsed,      \* history: a store write since the last publication failed
    cleanups,    \* history: how often each connection's cleanup ran
    crashes

managerVars == <<admissions, bySource, conns, section>>
goVars      == <<socket, handler, pinger>>
storeVars   == <<presence, transport, assetRow, tokens>>
history     == <<announced, lapsed, cleanups, crashes>>
vars == <<managerVars, goVars, storeVars, sweep, admin, history>>

-----------------------------------------------------------------------------
(* State.                                                                  *)

MaybeConn == Conns \cup {None}

\* Who is in the section, what for, and how far: `victim' is the connection
\* unregisterInLifecycle took out of the map.
Ops == {"free", "register", "reject", "leave", "retire", "dispatch", "ping", "admin"}

Phases == {"none", "work", "close", "cleanup", "offline", "end", "publish", "online"}

Section == [op : Ops, by : MaybeConn, victim : MaybeConn, phase : Phases]

Free == [op |-> "free", by |-> None, victim |-> None, phase |-> "none"]

HandlerPC == {"idle", "admitted", "registering", "reading", "dispatching", "handling",
              "closing", "finishing", "releasing", "gone", "crashed"}

PingerPC == {"off", "pinging", "dropping", "stopped"}

Row == [session : MaybeConn, stale : BOOLEAN]

NoRow == [session |-> None, stale |-> FALSE]

IdleSweep == [pc |-> "idle", todo |-> {}, asset |-> None, session |-> None]

IdleAdmin == [step |-> "idle", op |-> "none", token |-> None, asset |-> None,
              target |-> None]

NewSocket == [done |-> FALSE, rejected |-> FALSE, leased |-> FALSE]

Init ==
    /\ admissions = 0
    /\ bySource = [s \in Sources |-> 0]
    /\ conns = [a \in Assets |-> None]
    /\ section = [a \in Assets |-> Free]
    /\ socket = [c \in Conns |-> NewSocket]
    /\ handler = [c \in Conns |-> "idle"]
    /\ pinger = [c \in Conns |-> "off"]
    /\ presence = [a \in Assets |-> NoRow]
    /\ transport = [a \in Assets |-> "offline"]
    /\ assetRow = [a \in Assets |-> TRUE]
    /\ tokens = [t \in Tokens |-> IF t \in Issued THEN "active" ELSE "unissued"]
    /\ sweep = IdleSweep
    /\ admin = IdleAdmin
    /\ announced = [a \in Assets |-> "disconnected"]
    /\ lapsed = [a \in Assets |-> FALSE]
    /\ cleanups = [c \in Conns |-> 0]
    /\ crashes = 0

-----------------------------------------------------------------------------
(* Credentials: AgentConn.ValidateCredential.                              *)

\* What the validator asks the database: the token is active and its asset
\* exists, or for the owner token that the asset exists.
CredentialActive(c) ==
    /\ assetRow[AssetOf[c]]
    /\ c \in OwnerConns \/ tokens[TokenOf[c]] = "active"

\* The positive answer, from the cached lease or from the database.
Validates(c) ==
    /\ ~socket[c].rejected
    /\ socket[c].leased \/ CredentialActive(c)

\* An error, of the credential or of the query.  Within the lease there is none.
Refuses(c) == socket[c].rejected \/ ~socket[c].leased

Renewed(c) == [socket EXCEPT ![c].leased = c \notin OwnerConns]

Rejected(c) == [socket EXCEPT ![c].rejected = TRUE, ![c].leased = FALSE]

\* AgentConn.Close: the done channel closes and nothing validates any more.
Closed(c) == [socket EXCEPT ![c] = [done |-> TRUE, rejected |-> TRUE, leased |-> FALSE]]

\* The lease runs out.
LeaseExpires(c) ==
    /\ socket[c].leased
    /\ socket' = [socket EXCEPT ![c].leased = FALSE]
    /\ UNCHANGED <<managerVars, handler, pinger, storeVars, sweep, admin, history>>

-----------------------------------------------------------------------------
(* The section of an asset.                                                *)

Unlocked(a) == section[a].op = "free"

\* unregisterInLifecycle has a connection to remove.
Matches(a, expected) == conns[a] # None /\ (expected = None \/ conns[a] = expected)

\* Its first half, under the manager mutex: take the connection and its cleanup.
TakeOut(a, op, by) ==
    /\ conns' = [conns EXCEPT ![a] = None]
    /\ section' = [section EXCEPT ![a] = [op |-> op, by |-> by, victim |-> conns[a],
                                          phase |-> "close"]]

Phase(a, phase) == section' = [section EXCEPT ![a].phase = phase]

\* The caller continues once its section is over.
AfterSection(op) ==
    CASE op = "reject" -> "finishing"
      [] op = "retire" -> "finishing"
      [] op = "leave" -> "releasing"
      [] OTHER -> "reading"

ResumeCaller(op, c) ==
    /\ handler' = IF op \in {"reject", "retire", "leave", "dispatch"}
                  THEN [handler EXCEPT ![c] = AfterSection(op)] ELSE handler
    /\ pinger' = IF op = "ping" THEN [pinger EXCEPT ![c] = "stopped"] ELSE pinger
    /\ admin' = IF op = "admin"
                THEN IF admin.op = "delete" /\ admin.step = "unregister"
                     THEN [admin EXCEPT !.step = "commit"] ELSE IdleAdmin
                ELSE admin

\* UnregisterIfMatch, up to the removal: with nothing to remove the caller goes on.
Unregister(a, expected, op, c) ==
    /\ Unlocked(a)
    /\ \/ /\ Matches(a, expected)
          /\ TakeOut(a, op, c)
          /\ UNCHANGED <<handler, pinger, admin>>
       \/ /\ ~Matches(a, expected)
          /\ ResumeCaller(op, c)
          /\ UNCHANGED <<conns, section>>
    /\ UNCHANGED <<admissions, bySource, socket, storeVars, sweep, history>>

\* Mutant of CloseVictim: writers are refused but the socket stays open.
RejectVictim(a) ==
    /\ section[a].phase = "close"
    /\ socket' = Rejected(section[a].victim)
    /\ Phase(a, "cleanup")
    /\ UNCHANGED <<admissions, bySource, conns, handler, pinger, storeVars, sweep, admin, history>>

\* conn.Close of the connection taken out.
CloseVictim(a) ==
    /\ section[a].phase = "close"
    /\ socket' = Closed(section[a].victim)
    /\ Phase(a, "cleanup")
    /\ UNCHANGED <<admissions, bySource, conns, handler, pinger, storeVars, sweep, admin, history>>

\* A statement fails; the caller logs or ignores it.
StoreFails(a) ==
    /\ "fault" \in Events
    /\ lapsed' = [lapsed EXCEPT ![a] = TRUE]

\* DeletePresenceForSession: rows of another session stay.
DeletePresenceForSession(a, session) ==
    presence' = [presence EXCEPT ![a] = IF @.session = session THEN NoRow ELSE @]

\* Mutant of CleanupAgentConnectionState: it returns before its announcement
\* when there is no row to delete.
CleanupReturnsEarly(a) ==
    /\ section[a].phase = "cleanup"
    /\ cleanups' = [cleanups EXCEPT ![section[a].victim] = @ + 1]
    /\ \/ /\ presence[a].session = section[a].victim
          /\ DeletePresenceForSession(a, section[a].victim)
          /\ announced' = [announced EXCEPT ![a] = "disconnected"]
          /\ Phase(a, "offline")
       \/ /\ presence[a].session # section[a].victim
          /\ Phase(a, "end")
          /\ UNCHANGED <<presence, announced>>
    /\ UNCHANGED <<admissions, bySource, conns, goVars, transport, assetRow, tokens, sweep,
                   admin, lapsed, crashes>>

\* The cleanup callback: announce, close what belongs to the connection, and
\* delete its own presence row; a failed delete is logged.
CleanupAgentConnectionState(a) ==
    /\ section[a].phase = "cleanup"
    /\ announced' = [announced EXCEPT ![a] = "disconnected"]
    /\ cleanups' = [cleanups EXCEPT ![section[a].victim] = @ + 1]
    /\ \/ /\ DeletePresenceForSession(a, section[a].victim)
          /\ Phase(a, IF presence[a].session = section[a].victim THEN "offline" ELSE "end")
          /\ UNCHANGED lapsed
       \/ /\ StoreFails(a)
          /\ Phase(a, "end")
          /\ UNCHANGED presence
    /\ UNCHANGED <<admissions, bySource, conns, goVars, transport, assetRow, tokens, sweep,
                   admin, crashes>>

\* UpdateAssetTransportType: no row to update once the asset is deleted, and an
\* error is ignored.
WriteTransport(a, value) ==
    \/ /\ transport' = [transport EXCEPT ![a] = IF assetRow[a] THEN value ELSE @]
       /\ UNCHANGED lapsed
    \/ /\ StoreFails(a)
       /\ UNCHANGED transport

\* The cleanup's last statement, if it deleted the row.
MarkOffline(a) ==
    /\ section[a].phase = "offline"
    /\ WriteTransport(a, "offline")
    /\ Phase(a, "end")
    /\ UNCHANGED <<admissions, bySource, conns, goVars, presence, assetRow, tokens, sweep,
                   admin, announced, cleanups, crashes>>

\* The removal is over: RegisterWithLifecycle installs its connection, any other
\* caller releases the lifecycle lock.
EndRemoval(a) ==
    /\ section[a].phase = "end"
    /\ \/ /\ section[a].op = "register"
          /\ conns' = [conns EXCEPT ![a] = section[a].by]
          /\ Phase(a, "publish")
          /\ UNCHANGED <<handler, pinger, admin>>
       \/ /\ section[a].op # "register"
          /\ ResumeCaller(section[a].op, section[a].by)
          /\ section' = [section EXCEPT ![a] = Free]
          /\ UNCHANGED conns
    /\ UNCHANGED <<admissions, bySource, socket, storeVars, sweep, history>>

\* The publish callback: UpsertPresence (which needs the asset row), ...
Publish(a) ==
    /\ section[a].phase = "publish"
    /\ \/ /\ assetRow[a]
          /\ presence' = [presence EXCEPT ![a] = [session |-> section[a].by, stale |-> FALSE]]
          /\ lapsed' = [lapsed EXCEPT ![a] = FALSE]
       \/ /\ assetRow[a] => "fault" \in Events
          /\ lapsed' = [lapsed EXCEPT ![a] = TRUE]
          /\ UNCHANGED presence
    /\ Phase(a, "online")
    /\ UNCHANGED <<admissions, bySource, conns, goVars, transport, assetRow, tokens, sweep,
                   admin, announced, cleanups, crashes>>

\* ... the transport type and the broadcast; then the handler starts its ping
\* goroutine and its read loop.
GoOnline(a) ==
    /\ section[a].phase = "online"
    /\ WriteTransport(a, "agent")
    /\ announced' = [announced EXCEPT ![a] = "connected"]
    /\ handler' = [handler EXCEPT ![section[a].by] = "reading"]
    /\ pinger' = [pinger EXCEPT ![section[a].by] = "pinging"]
    /\ section' = [section EXCEPT ![a] = Free]
    /\ UNCHANGED <<admissions, bySource, conns, socket, presence, assetRow, tokens, sweep,
                   admin, cleanups, crashes>>

-----------------------------------------------------------------------------
(* handleAgentWebSocket.                                                   *)

\* Mutant of Room: one socket above the source's limit is let in.
RoomForOneMore(c) == admissions < GlobalLimit /\ bySource[SourceOf[c]] <= SourceLimit

Room(c) == admissions < GlobalLimit /\ bySource[SourceOf[c]] < SourceLimit

\* Authenticate and reserve an admission; a refused request leaves nothing.
Dial(c) ==
    /\ handler[c] = "idle"
    /\ CredentialActive(c)
    /\ Room(c)
    /\ admissions' = admissions + 1
    /\ bySource' = [bySource EXCEPT ![SourceOf[c]] = @ + 1]
    /\ handler' = [handler EXCEPT ![c] = "admitted"]
    /\ UNCHANGED <<conns, section, socket, pinger, storeVars, sweep, admin, history>>

\* Upgrade to a WebSocket and check the credential again before registering.
Upgrade(c) ==
    /\ handler[c] = "admitted"
    /\ \/ /\ Validates(c)
          /\ socket' = Renewed(c)
          /\ handler' = [handler EXCEPT ![c] = "registering"]
       \/ /\ socket' = Closed(c)
          /\ handler' = [handler EXCEPT ![c] = "releasing"]
    /\ UNCHANGED <<managerVars, pinger, storeVars, sweep, admin, history>>

\* Mutant of Register: the old connection is overwritten, not unregistered.
RegisterOverwrite(c) ==
    /\ handler[c] = "registering"
    /\ Unlocked(AssetOf[c])
    /\ section' = [section EXCEPT ![AssetOf[c]] =
                      [op |-> "register", by |-> c, victim |-> None, phase |-> "end"]]
    /\ UNCHANGED <<admissions, bySource, conns, goVars, storeVars, sweep, admin, history>>

\* RegisterWithLifecycle: first unregister the connection it replaces, if any.
Register(c) ==
    /\ handler[c] = "registering"
    /\ Unlocked(AssetOf[c])
    /\ \/ /\ Matches(AssetOf[c], None)
          /\ TakeOut(AssetOf[c], "register", c)
       \/ /\ ~Matches(AssetOf[c], None)
          /\ section' = [section EXCEPT ![AssetOf[c]] =
                            [op |-> "register", by |-> c, victim |-> None, phase |-> "end"]]
          /\ UNCHANGED conns
    /\ UNCHANGED <<admissions, bySource, goVars, storeVars, sweep, admin, history>>

\* A message arrives: validate the credential before parsing it.
Receive(c) ==
    /\ handler[c] = "reading"
    /\ ~socket[c].done
    /\ \/ /\ Validates(c)
          /\ socket' = IF socket[c].leased THEN socket ELSE Renewed(c)
          /\ handler' = [handler EXCEPT ![c] = "dispatching"]
       \/ /\ Refuses(c)
          /\ socket' = Rejected(c)
          /\ handler' = [handler EXCEPT ![c] = "closing"]
    /\ UNCHANGED <<managerVars, pinger, storeVars, sweep, admin, history>>

\* A pong arrives: its handler validates the credential too.
Pong(c) ==
    /\ handler[c] = "reading"
    /\ ~socket[c].done
    /\ \/ /\ Validates(c)
          /\ socket' = IF socket[c].leased THEN socket ELSE Renewed(c)
          /\ UNCHANGED handler
       \/ /\ Refuses(c)
          /\ socket' = Rejected(c)
          /\ handler' = [handler EXCEPT ![c] = "finishing"]
    /\ UNCHANGED <<managerVars, pinger, storeVars, sweep, admin, history>>

\* The read fails: closed here, lost, past its deadline, or refused as malformed.
ReadFails(c) ==
    /\ handler[c] = "reading"
    /\ handler' = [handler EXCEPT ![c] = "finishing"]
    /\ UNCHANGED <<managerVars, socket, pinger, storeVars, sweep, admin, history>>

\* Mutant of Dispatch: the handler runs whoever is current.
DispatchAlways(c) ==
    LET a == AssetOf[c] IN
    /\ handler[c] = "dispatching"
    /\ Unlocked(a)
    /\ handler' = [handler EXCEPT ![c] = "handling"]
    /\ section' = [section EXCEPT ![a] = [op |-> "dispatch", by |-> c,
                                          victim |-> None, phase |-> "work"]]
    /\ UNCHANGED <<admissions, bySource, conns, socket, pinger, storeVars, sweep, admin, history>>

\* DispatchIfCurrent: a replaced connection returns, a closed one is removed
\* first, and the current one handles its message inside the section.
Dispatch(c) ==
    LET a == AssetOf[c] IN
    /\ handler[c] = "dispatching"
    /\ Unlocked(a)
    /\ \/ /\ conns[a] # c
          /\ handler' = [handler EXCEPT ![c] = "finishing"]
          /\ UNCHANGED <<conns, section>>
       \/ /\ conns[a] = c /\ socket[c].done
          /\ TakeOut(a, "retire", c)
          /\ UNCHANGED handler
       \/ /\ conns[a] = c /\ ~socket[c].done
          /\ handler' = [handler EXCEPT ![c] = "handling"]
          /\ section' = [section EXCEPT ![a] = [op |-> "dispatch", by |-> c,
                                                victim |-> None, phase |-> "work"]]
          /\ UNCHANGED conns
    /\ UNCHANGED <<admissions, bySource, socket, pinger, storeVars, sweep, admin, history>>

\* The message handler.  A heartbeat whose transaction fails (inactive
\* credential, deleted asset, database error) closes its own connection, which
\* DispatchIfCurrent removes as the handler returns; a good one refreshes the
\* presence row of its own session.  Other messages leave this state alone.
Handle(c) ==
    LET a == AssetOf[c] IN
    /\ handler[c] = "handling"
    /\ section[a].phase = "work"
    /\ \/ /\ socket' = Closed(c)
          /\ TakeOut(a, "dispatch", c)
          /\ UNCHANGED <<handler, presence>>
       \/ /\ CredentialActive(c)
          /\ presence' = [presence EXCEPT ![a] = IF @.session = c
                                                 THEN [@ EXCEPT !.stale = FALSE] ELSE @]
          /\ section' = [section EXCEPT ![a] = Free]
          /\ handler' = [handler EXCEPT ![c] = "reading"]
          /\ UNCHANGED <<conns, socket>>
       \/ /\ section' = [section EXCEPT ![a] = Free]
          /\ handler' = [handler EXCEPT ![c] = "reading"]
          /\ UNCHANGED <<conns, socket, presence>>
    /\ UNCHANGED <<admissions, bySource, pinger, transport, assetRow, tokens, sweep, admin, history>>

\* The credential of a message was refused: unregister, then return.
Reject(c) ==
    /\ handler[c] = "closing"
    /\ Unregister(AssetOf[c], c, "reject", c)

\* finishAgentWebSocketConnection, deferred.
Finish(c) ==
    /\ handler[c] = "finishing"
    /\ Unregister(AssetOf[c], c, "leave", c)

\* releaseAdmission, deferred first and so run last, once.
ReleaseAdmission(c) ==
    /\ handler[c] = "releasing"
    /\ admissions' = IF admissions > 0 THEN admissions - 1 ELSE 0
    /\ bySource' = [bySource EXCEPT ![SourceOf[c]] = IF @ <= 1 THEN 0 ELSE @ - 1]
    /\ handler' = [handler EXCEPT ![c] = "gone"]
    /\ UNCHANGED <<conns, section, socket, pinger, storeVars, sweep, admin, history>>

-----------------------------------------------------------------------------
(* The ping goroutine, and senders outside the handler.                    *)

\* Mutant of Ping: the frame is written without a look at the credential.
PingUnchecked(c) ==
    /\ pinger[c] = "pinging"
    /\ pinger' = IF socket[c].done THEN [pinger EXCEPT ![c] = "dropping"] ELSE pinger
    /\ UNCHANGED <<managerVars, socket, handler, storeVars, sweep, admin, history>>

\* WritePing: an error of the credential or of the socket.
Ping(c) ==
    /\ pinger[c] = "pinging"
    /\ \/ /\ Validates(c)
          /\ ~socket[c].done
          /\ socket' = IF socket[c].leased THEN socket ELSE Renewed(c)
          /\ pinger' \in {pinger, [pinger EXCEPT ![c] = "dropping"]}
       \/ /\ Refuses(c)
          /\ socket' = Rejected(c)
          /\ pinger' = [pinger EXCEPT ![c] = "dropping"]
    /\ UNCHANGED <<managerVars, handler, storeVars, sweep, admin, history>>

\* The handler returned and closed the ping goroutine's channel.
PingStops(c) ==
    /\ pinger[c] = "pinging"
    /\ handler[c] \in {"finishing", "releasing", "gone"}
    /\ pinger' = [pinger EXCEPT ![c] = "stopped"]
    /\ UNCHANGED <<managerVars, socket, handler, storeVars, sweep, admin, history>>

PingDrops(c) ==
    /\ pinger[c] = "dropping"
    /\ Unregister(AssetOf[c], c, "ping", c)

\* Send from any other goroutine: it validates the credential and, refused,
\* leaves the removal to the handler or the ping goroutine.
Send(c) ==
    /\ conns[AssetOf[c]] = c
    /\ \/ /\ Validates(c)
          /\ socket' = IF socket[c].leased THEN socket ELSE Renewed(c)
       \/ /\ Refuses(c)
          /\ socket' = Rejected(c)
    /\ UNCHANGED <<managerVars, handler, pinger, storeVars, sweep, admin, history>>

-----------------------------------------------------------------------------
(* The presence cleanup loop.                                              *)

\* No heartbeat for PresenceStaleThreshold.
RowAges(a) ==
    /\ "age" \in Events
    /\ presence[a].session # None
    /\ ~presence[a].stale
    /\ presence' = [presence EXCEPT ![a].stale = TRUE]
    /\ UNCHANGED <<managerVars, goVars, transport, assetRow, tokens, sweep, admin, history>>

\* GetStalePresence.
SweepList ==
    /\ sweep.pc = "idle"
    /\ LET todo == {<<a, presence[a].session>> : a \in {b \in Assets : presence[b].stale}} IN
       /\ todo # {}
       /\ sweep' = [sweep EXCEPT !.pc = "next", !.todo = todo]
    /\ UNCHANGED <<managerVars, goVars, storeVars, admin, history>>

\* One row: skip it while the manager has a connection for the asset.
SweepCheck ==
    /\ sweep.pc = "next"
    /\ \E row \in sweep.todo :
          sweep' = IF conns[row[1]] # None
                   THEN IF sweep.todo = {row} THEN IdleSweep
                        ELSE [sweep EXCEPT !.todo = @ \ {row}]
                   ELSE [pc |-> "delete", todo |-> sweep.todo \ {row},
                         asset |-> row[1], session |-> row[2]]
    /\ UNCHANGED <<managerVars, goVars, storeVars, admin, history>>

SweepOn == IF sweep.todo = {} THEN IdleSweep
           ELSE [pc |-> "next", todo |-> sweep.todo, asset |-> None, session |-> None]

\* Mutant of SweepDelete: whatever session the row has by now is deleted.
SweepDeleteAny ==
    /\ sweep.pc = "delete"
    /\ presence' = [presence EXCEPT ![sweep.asset] = NoRow]
    /\ sweep' = [sweep EXCEPT !.pc = "offline"]
    /\ UNCHANGED <<managerVars, goVars, transport, assetRow, tokens, admin, history>>

\* DeletePresenceForSession of the session listed; an error or a row of another
\* session ends this row.
SweepDelete ==
    /\ sweep.pc = "delete"
    /\ \/ /\ presence[sweep.asset].session = sweep.session
          /\ DeletePresenceForSession(sweep.asset, sweep.session)
          /\ sweep' = [sweep EXCEPT !.pc = "offline"]
       \/ /\ sweep' = SweepOn
          /\ UNCHANGED presence
    /\ UNCHANGED <<managerVars, goVars, transport, assetRow, tokens, admin, history>>

\* UpdateAssetTransportType("offline"), outside any section of the asset.
SweepOffline ==
    /\ sweep.pc = "offline"
    /\ WriteTransport(sweep.asset, "offline")
    /\ sweep' = SweepOn
    /\ UNCHANGED <<managerVars, goVars, presence, assetRow, tokens, admin, announced, cleanups, crashes>>

-----------------------------------------------------------------------------
(* The administrator.                                                      *)

AssetTokens(a) == {TokenOf[c] : c \in {d \in Conns : AssetOf[d] = a}}

\* The token recorded on a connection, which one of the owner token lacks.
Presents(c, t) == c # None /\ c \notin OwnerConns /\ TokenOf[c] = t

\* HandleAgentTokenActions: remember the connections using the token, ...
RevokeStart(t) ==
    /\ "revoke" \in Events
    /\ admin.step = "idle"
    /\ tokens[t] = "active"
    /\ \E target \in MaybeConn :
          /\ IF \E a \in Assets : Presents(conns[a], t)
             THEN \E a \in Assets : conns[a] = target /\ Presents(target, t)
             ELSE target = None
          /\ admin' = [IdleAdmin EXCEPT !.step = "commit", !.op = "revoke", !.token = t,
                                        !.target = target]
    /\ UNCHANGED <<managerVars, goVars, storeVars, sweep, history>>

\* ... revoke it in the database, or give up if that fails, ...
RevokeCommit ==
    /\ admin.step = "commit" /\ admin.op = "revoke"
    /\ \/ /\ tokens' = [tokens EXCEPT ![admin.token] = "revoked"]
          /\ admin' = IF admin.target = None THEN IdleAdmin ELSE [admin EXCEPT !.step = "drop"]
       \/ /\ admin' = IdleAdmin
          /\ UNCHANGED tokens
    /\ UNCHANGED <<managerVars, goVars, presence, transport, assetRow, sweep, history>>

\* CommitAgentEnrollment for a device that enrolls again: a new token, the old
\* ones revoked, in one transaction.
Recover(a, t) ==
    /\ "recover" \in Events
    /\ admin.step = "idle"
    /\ assetRow[a]
    /\ t \in AssetTokens(a) /\ tokens[t] = "unissued"
    /\ tokens' = [u \in Tokens |-> IF u = t THEN "active"
                                   ELSE IF u \in AssetTokens(a) /\ tokens[u] = "active"
                                        THEN "revoked" ELSE tokens[u]]
    /\ admin' = [IdleAdmin EXCEPT !.step = "look", !.op = "recover", !.asset = a]
    /\ UNCHANGED <<managerVars, goVars, presence, transport, assetRow, sweep, history>>

\* disconnectRevokedAgentConnection: the current connection, if its token went.
RecoverLook ==
    /\ admin.step = "look"
    /\ LET c == conns[admin.asset] IN
       admin' = IF \E t \in AssetTokens(admin.asset) : Presents(c, t) /\ tokens[t] = "revoked"
                THEN [admin EXCEPT !.step = "drop", !.target = c] ELSE IdleAdmin
    /\ UNCHANGED <<managerVars, goVars, storeVars, sweep, history>>

\* ... and drop the connection found.
AdminDrop ==
    /\ admin.step = "drop"
    /\ Unregister(AssetOf[admin.target], admin.target, "admin", None)

\* DeleteAsset: refused while connected; then unregister whoever came since, ...
DeleteStart(a) ==
    /\ "delete" \in Events
    /\ admin.step = "idle"
    /\ assetRow[a]
    /\ conns[a] = None
    /\ admin' = [IdleAdmin EXCEPT !.step = "unregister", !.op = "delete", !.asset = a]
    /\ UNCHANGED <<managerVars, goVars, storeVars, sweep, history>>

\* ... delete the row with its tokens (the presence row cascades), or give up if
\* that or the deletion of attached assets fails, ...
DeleteCommit ==
    /\ admin.step = "commit" /\ admin.op = "delete"
    /\ \/ /\ assetRow' = [assetRow EXCEPT ![admin.asset] = FALSE]
          /\ tokens' = [t \in Tokens |-> IF t \in AssetTokens(admin.asset) /\ tokens[t] = "active"
                                         THEN "revoked" ELSE tokens[t]]
          /\ presence' = [presence EXCEPT ![admin.asset] = NoRow]
          /\ transport' = [transport EXCEPT ![admin.asset] = "offline"]
          /\ admin' = [admin EXCEPT !.step = "again"]
       \/ /\ admin' = IdleAdmin
          /\ UNCHANGED storeVars
    /\ UNCHANGED <<managerVars, goVars, sweep, history>>

\* ... before and after which any connection of the asset is unregistered.
DeleteUnregister ==
    /\ admin.op = "delete" /\ admin.step \in {"unregister", "again"}
    /\ Unregister(admin.asset, None, "admin", None)

-----------------------------------------------------------------------------
\* The hub stops: memory is lost, the tables stay, and browsers reconnect to a
\* hub that has announced nothing.
Crash ==
    /\ crashes < MaxCrashes
    /\ crashes' = crashes + 1
    /\ admissions' = 0
    /\ bySource' = [s \in Sources |-> 0]
    /\ conns' = [a \in Assets |-> None]
    /\ section' = [a \in Assets |-> Free]
    /\ socket' = [c \in Conns |-> IF handler[c] = "idle" THEN socket[c]
                                  ELSE [done |-> TRUE, rejected |-> TRUE, leased |-> FALSE]]
    /\ handler' = [c \in Conns |-> IF handler[c] \in {"idle", "gone"} THEN handler[c] ELSE "crashed"]
    /\ pinger' = [c \in Conns |-> IF pinger[c] = "off" THEN "off" ELSE "stopped"]
    /\ sweep' = IdleSweep
    /\ admin' = IdleAdmin
    /\ announced' = [a \in Assets |-> "disconnected"]
    /\ lapsed' = [a \in Assets |-> TRUE]
    /\ UNCHANGED <<storeVars, cleanups>>

SectionStep(a) == CloseVictim(a) \/ CleanupAgentConnectionState(a) \/ MarkOffline(a)
                  \/ EndRemoval(a) \/ Publish(a) \/ GoOnline(a)

HandlerStep(c) == Upgrade(c) \/ Register(c) \/ Dispatch(c) \/ Handle(c) \/ Reject(c)
                  \/ Finish(c) \/ ReleaseAdmission(c)

PingerStep(c) == Ping(c) \/ PingStops(c) \/ PingDrops(c)

AdminStep == RevokeCommit \/ RecoverLook \/ AdminDrop \/ DeleteCommit \/ DeleteUnregister

ConnStep(c) == Dial(c) \/ Receive(c) \/ Pong(c) \/ ReadFails(c) \/ Send(c) \/ LeaseExpires(c)
               \/ HandlerStep(c) \/ PingerStep(c)

Next ==
    \/ \E a \in Assets : SectionStep(a) \/ RowAges(a) \/ DeleteStart(a)
    \/ \E c \in Conns : ConnStep(c)
    \/ SweepList \/ SweepCheck \/ SweepDelete \/ SweepOffline
    \/ \E t \in Tokens : RevokeStart(t)
    \/ \E a \in Assets, t \in Tokens : Recover(a, t)
    \/ AdminStep
    \/ Crash

Spec == Init /\ [][Next]_vars

\* Goroutines run, tickers tick, leases run out, and a read on a closed socket
\* returns.  A waiter for the lifecycle lock (a Go mutex, which does not starve
\* its waiters) gets it in the end.  Dials, messages, pongs and administrators' requests owe nothing.
Fairness ==
    /\ \A a \in Assets : WF_vars(SectionStep(a))
    /\ \A c \in Conns : /\ SF_vars(HandlerStep(c))
                         /\ WF_vars(PingerStep(c)) /\ SF_vars(PingDrops(c))
                         /\ WF_vars(LeaseExpires(c))
                         /\ WF_vars(socket[c].done /\ ReadFails(c))

LiveSpec == Spec /\ Fairness

-----------------------------------------------------------------------------
(* Properties.                                                             *)

\* Every variable has its type, and a section names connections of its asset.
AgentManagerTypeOK ==
    /\ admissions \in Nat /\ bySource \in [Sources -> Nat]
    /\ conns \in [Assets -> MaybeConn]
    /\ section \in [Assets -> Section]
    /\ socket \in [Conns -> [done : BOOLEAN, rejected : BOOLEAN, leased : BOOLEAN]]
    /\ handler \in [Conns -> HandlerPC]
    /\ pinger \in [Conns -> PingerPC]
    /\ presence \in [Assets -> Row]
    /\ transport \in [Assets -> {"agent", "offline"}]
    /\ assetRow \in [Assets -> BOOLEAN]
    /\ tokens \in [Tokens -> {"unissued", "active", "revoked"}]
    /\ announced \in [Assets -> {"connected", "disconnected"}]
    /\ lapsed \in [Assets -> BOOLEAN]
    /\ cleanups \in [Conns -> Nat]
    /\ crashes \in Nat

\* A socket between its admission and the deferred release.
HoldsAdmission(c) == handler[c] \notin {"idle", "gone", "crashed"}

\* TryReserveAdmission and its release: the counters are exactly the sockets
\* between admission and release, whatever way their handlers end, and never
\* above the limits.
AdmissionsExact ==
    /\ admissions = Cardinality({c \in Conns : HoldsAdmission(c)})
    /\ admissions <= GlobalLimit
    /\ \A s \in Sources :
          /\ bySource[s] = Cardinality({c \in Conns : HoldsAdmission(c) /\ SourceOf[c] = s})
          /\ bySource[s] <= SourceLimit

\* RegisterWithLifecycle, UnregisterIfMatch: the cleanup of a connection never
\* runs while it is current and never twice, and it has run once the handler of
\* a published connection gives its admission back, whoever removed it.
CleanupOnce ==
    \A c \in Conns :
       /\ cleanups[c] <= 1
       /\ conns[AssetOf[c]] = c => cleanups[c] = 0
       /\ handler[c] \in {"releasing", "gone"} /\ pinger[c] # "off" => cleanups[c] = 1

\* DispatchIfCurrent: a message is handled only for the connection its asset has
\* at that moment, so a replaced connection publishes nothing.
HandlesOnlyWhileCurrent ==
    \A c \in Conns : section[AssetOf[c]].phase = "work" /\ handler[c] = "handling"
                        => conns[AssetOf[c]] = c /\ ~socket[c].done

\* Outside a section, what browsers were told last about an asset is what the
\* manager holds: no reconnect or disconnect is announced in the wrong order.
AnnouncementsFollowConnection ==
    \A a \in Assets : Unlocked(a) => (announced[a] = "connected" <=> conns[a] # None)

\* The session-fenced deletes: outside a section, and unless a store write was
\* lost, the presence row of an asset is the row of the current connection; the
\* cleanup loop never deletes the row of an agent that has just reconnected.
PresenceFollowsConnection ==
    \A a \in Assets : Unlocked(a) /\ ~lapsed[a] /\ assetRow[a]
                         => presence[a].session = conns[a]

\* The same of assets.transport_type: a reconnect "cannot publish fresh state
\* between the disconnected check and the cleanup sweep" (agent_ws_cleanup.go), so
\* with nobody at work on the asset a connected agent is not recorded as offline.
ConnectedIsOnline ==
    \A a \in Assets : Unlocked(a) /\ ~lapsed[a] /\ assetRow[a] /\ sweep.asset # a
                         => (conns[a] # None => transport[a] = "agent")

\* ValidateCredential and the ping goroutine: a connection whose token is revoked
\* or whose asset is deleted does not stay registered, whenever it registered.
RevokedDropped ==
    \A c \in Conns : ~CredentialActive(c) ~> conns[AssetOf[c]] # c

\* A connection the ping goroutine or the manager gave up gives its admission
\* back: removal closes the socket, which ends the read loop.
RemovedSocketsEnd ==
    \A c \in Conns : pinger[c] = "stopped" ~> ~HoldsAdmission(c)
=============================================================================

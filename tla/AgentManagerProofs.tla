------------------------- MODULE AgentManagerProofs -------------------------
(***************************************************************************)
(* Proofs, for every set of assets, connections, tokens and sources and    *)
(* all limits, of the safety properties of AgentManager.  SectionInv says  *)
(* who owns the section of an asset and what each of its phases means for  *)
(* the map; the admission counters, the disconnect cleanups (CountInv) and *)
(* the presence rows (PresenceInv) each add an invariant on top of it.     *)
(***************************************************************************)
EXTENDS AgentManager, FiniteSetTheorems, TLAPS

-----------------------------------------------------------------------------
(* Type correctness.                                                       *)

LEMMA TypeInit == Init => AgentManagerTypeOK
BY AgentManagerAssumption
   DEF Init, AgentManagerTypeOK, MaybeConn, Section, Free, Ops, Phases, NewSocket, HandlerPC,
       PingerPC, Row, NoRow

LEMMA RowStale ==
    ASSUME NEW r \in Row, NEW b \in BOOLEAN
    PROVE  [r EXCEPT !.stale = b] \in Row
BY DEF Row

\* The steps inside a section.
LEMMA TypeSection ==
    ASSUME AgentManagerTypeOK, NEW a \in Assets, SectionStep(a)
    PROVE  AgentManagerTypeOK'
<1> USE DEF AgentManagerTypeOK, Phase, managerVars, goVars, storeVars, history
<1>0. section[a] \in Section /\ section[a].by \in MaybeConn /\ section[a].victim \in MaybeConn
  BY DEF Section
<1>p. ASSUME NEW p \in Phases, Phase(a, p) PROVE section' \in [Assets -> Section]
  BY <1>0, <1>p DEF Section
<1>f. Free \in Section /\ NoRow \in Row
  BY DEF Free, Section, Ops, Phases, MaybeConn, NoRow, Row
<1>1. CASE CloseVictim(a)
  BY <1>1, <1>p DEF CloseVictim, Closed, Phases
<1>2. CASE CleanupAgentConnectionState(a)
  <2>1. section' \in [Assets -> Section]
    BY <1>2, <1>p DEF CleanupAgentConnectionState, Phases
  <2>2. presence' \in [Assets -> Row]
    BY <1>2, <1>f DEF CleanupAgentConnectionState, DeletePresenceForSession
  <2>3. lapsed' \in [Assets -> BOOLEAN]
    BY <1>2 DEF CleanupAgentConnectionState, StoreFails
  <2>4. announced' \in [Assets -> {"connected", "disconnected"}]
    BY <1>2 DEF CleanupAgentConnectionState
  <2>5. cleanups' \in [Conns -> Nat]
    <3> DEFINE v == section[a].victim
    <3>1. cleanups' = [cleanups EXCEPT ![v] = cleanups[v] + 1]
      BY <1>2 DEF CleanupAgentConnectionState
    <3>2. \A c \in Conns : cleanups'[c] \in Nat
      BY <3>1
    <3> QED
      BY <3>1, <3>2
  <2> QED
    BY <1>2, <2>1, <2>2, <2>3, <2>4, <2>5 DEF CleanupAgentConnectionState
<1>3. CASE MarkOffline(a)
  <2>1. section' \in [Assets -> Section]
    BY <1>3, <1>p DEF MarkOffline, Phases
  <2>2. transport' \in [Assets -> {"agent", "offline"}] /\ lapsed' \in [Assets -> BOOLEAN]
    BY <1>3 DEF MarkOffline, WriteTransport, StoreFails
  <2> QED
    BY <1>3, <2>1, <2>2 DEF MarkOffline
<1>4. CASE EndRemoval(a)
  <2>1. section' \in [Assets -> Section]
    BY <1>4, <1>p, <1>f DEF EndRemoval, Phases
  <2>2. conns' \in [Assets -> MaybeConn]
    BY <1>4, <1>0 DEF EndRemoval
  <2>3. handler' \in [Conns -> HandlerPC]
    <3>1. AfterSection(section[a].op) \in HandlerPC
      BY DEF AfterSection, HandlerPC
    <3> QED
      BY <1>4, <3>1 DEF EndRemoval, ResumeCaller
  <2>4. pinger' \in [Conns -> PingerPC]
    BY <1>4 DEF EndRemoval, ResumeCaller, PingerPC
  <2> QED
    BY <1>4, <2>1, <2>2, <2>3, <2>4 DEF EndRemoval
<1>5. CASE Publish(a)
  <2>1. section' \in [Assets -> Section]
    BY <1>5, <1>p DEF Publish, Phases
  <2>2. presence' \in [Assets -> Row]
    <3>1. [session |-> section[a].by, stale |-> FALSE] \in Row
      BY <1>0 DEF Row
    <3> QED
      BY <1>5, <3>1 DEF Publish
  <2>3. lapsed' \in [Assets -> BOOLEAN]
    BY <1>5 DEF Publish
  <2> QED
    BY <1>5, <2>1, <2>2, <2>3 DEF Publish
<1>6. CASE GoOnline(a)
  <2>1. section' \in [Assets -> Section]
    BY <1>6, <1>f DEF GoOnline
  <2>2. transport' \in [Assets -> {"agent", "offline"}] /\ lapsed' \in [Assets -> BOOLEAN]
    BY <1>6 DEF GoOnline, WriteTransport, StoreFails
  <2>3. handler' \in [Conns -> HandlerPC] /\ pinger' \in [Conns -> PingerPC]
    BY <1>6 DEF GoOnline, HandlerPC, PingerPC
  <2>4. announced' \in [Assets -> {"connected", "disconnected"}]
    BY <1>6 DEF GoOnline
  <2> QED
    BY <1>6, <2>1, <2>2, <2>3, <2>4 DEF GoOnline
<1> QED
  BY <1>1, <1>2, <1>3, <1>4, <1>5, <1>6 DEF SectionStep
\* A removal, by whoever asks for it.
LEMMA TypeUnregister ==
    ASSUME AgentManagerTypeOK, NEW a, NEW expected, NEW op \in Ops, NEW c \in MaybeConn,
           Unregister(a, expected, op, c)
    PROVE  AgentManagerTypeOK'
<1> USE DEF AgentManagerTypeOK, managerVars, goVars, storeVars, history
<1>1. conns' \in [Assets -> MaybeConn]
  BY DEF Unregister, TakeOut, MaybeConn
<1>2. section' \in [Assets -> Section]
  <2>1. a \in Assets => [op |-> op, by |-> c, victim |-> conns[a], phase |-> "close"] \in Section
    BY DEF Section, Phases
  <2> QED
    BY <2>1 DEF Unregister, TakeOut
<1>3. handler' \in [Conns -> HandlerPC] /\ pinger' \in [Conns -> PingerPC]
  <2>1. AfterSection(op) \in HandlerPC /\ "stopped" \in PingerPC
    BY DEF AfterSection, HandlerPC, PingerPC
  <2> QED
    BY <2>1 DEF Unregister, ResumeCaller
<1> QED
  BY <1>1, <1>2, <1>3 DEF Unregister

\* The steps of one connection's goroutines.
LEMMA TypeConn ==
    ASSUME AgentManagerTypeOK, NEW c \in Conns, ConnStep(c)
    PROVE  AgentManagerTypeOK'
<1> USE DEF AgentManagerTypeOK, managerVars, goVars, storeVars, history
<1>a. AssetOf[c] \in Assets /\ SourceOf[c] \in Sources /\ c \in MaybeConn
  BY AgentManagerAssumption DEF MaybeConn
<1>f. Free \in Section
  BY DEF Free, Section, Ops, Phases, MaybeConn
<1>s. /\ Renewed(c) \in [Conns -> [done : BOOLEAN, rejected : BOOLEAN, leased : BOOLEAN]]
      /\ Rejected(c) \in [Conns -> [done : BOOLEAN, rejected : BOOLEAN, leased : BOOLEAN]]
      /\ Closed(c) \in [Conns -> [done : BOOLEAN, rejected : BOOLEAN, leased : BOOLEAN]]
      /\ [socket EXCEPT ![c].leased = FALSE]
            \in [Conns -> [done : BOOLEAN, rejected : BOOLEAN, leased : BOOLEAN]]
  BY DEF Renewed, Rejected, Closed
<1>h. ASSUME NEW pc \in HandlerPC PROVE [handler EXCEPT ![c] = pc] \in [Conns -> HandlerPC]
  OBVIOUS
<1>t. ASSUME NEW op \in Ops, TakeOut(AssetOf[c], op, c)
      PROVE  conns' \in [Assets -> MaybeConn] /\ section' \in [Assets -> Section]
  <2>1. [op |-> op, by |-> c, victim |-> conns[AssetOf[c]], phase |-> "close"] \in Section
    BY <1>a DEF Section, Phases
  <2> QED
    BY <1>t, <1>a, <2>1 DEF TakeOut, MaybeConn
<1>w. ASSUME NEW op \in Ops, NEW phase \in Phases
      PROVE  [op |-> op, by |-> c, victim |-> None, phase |-> phase] \in Section
  BY <1>a DEF Section, MaybeConn
<1>1. CASE Dial(c)
  BY <1>1, <1>a, <1>h DEF Dial, HandlerPC
<1>2. CASE Receive(c) \/ Pong(c)
  <2>1. socket' \in [Conns -> [done : BOOLEAN, rejected : BOOLEAN, leased : BOOLEAN]]
    BY <1>2, <1>s DEF Receive, Pong
  <2>2. handler' \in [Conns -> HandlerPC]
    BY <1>2, <1>h DEF Receive, Pong, HandlerPC
  <2> QED
    BY <1>2, <2>1, <2>2 DEF Receive, Pong
<1>3. CASE ReadFails(c)
  BY <1>3, <1>h DEF ReadFails, HandlerPC
<1>4. CASE Send(c)
  BY <1>4, <1>s DEF Send
<1>13. CASE LeaseExpires(c)
  BY <1>13, <1>s DEF LeaseExpires
<1>5. CASE Upgrade(c)
  <2>1. socket' \in [Conns -> [done : BOOLEAN, rejected : BOOLEAN, leased : BOOLEAN]]
    BY <1>5, <1>s DEF Upgrade
  <2>2. handler' \in [Conns -> HandlerPC]
    BY <1>5, <1>h DEF Upgrade, HandlerPC
  <2> QED
    BY <1>5, <2>1, <2>2 DEF Upgrade
<1>6. CASE Register(c)
  <2>1. conns' \in [Assets -> MaybeConn] /\ section' \in [Assets -> Section]
    BY <1>6, <1>a, <1>t, <1>w DEF Register, Ops, Phases
  <2> QED
    BY <1>6, <2>1 DEF Register
<1>7. CASE Dispatch(c)
  <2>1. conns' \in [Assets -> MaybeConn] /\ section' \in [Assets -> Section]
    <3>1. CASE TakeOut(AssetOf[c], "retire", c)
      BY <3>1, <1>t DEF Ops
    <3>2. CASE conns' = conns /\ section' = section
      BY <3>2
    <3>3. CASE /\ conns' = conns
               /\ section' = [section EXCEPT ![AssetOf[c]] = [op |-> "dispatch", by |-> c,
                                                     victim |-> None, phase |-> "work"]]
      BY <3>3, <1>w DEF Ops, Phases
    <3> QED
      BY <1>7, <3>1, <3>2, <3>3 DEF Dispatch
  <2> QED
    BY <1>7, <1>h, <2>1 DEF Dispatch, HandlerPC
<1>8. CASE Handle(c)
  <2>1. conns' \in [Assets -> MaybeConn] /\ section' \in [Assets -> Section]
    BY <1>8, <1>a, <1>t, <1>f DEF Handle, Ops
  <2>2. presence' \in [Assets -> Row]
    <3>1. presence[AssetOf[c]] \in Row
      BY <1>a
    <3>2. [presence[AssetOf[c]] EXCEPT !.stale = FALSE] \in Row
      BY <3>1, RowStale
    <3> QED
      BY <1>8, <1>a, <3>2 DEF Handle
  <2>3. handler' \in [Conns -> HandlerPC]
    BY <1>8, <1>h DEF Handle, HandlerPC
  <2>4. socket' \in [Conns -> [done : BOOLEAN, rejected : BOOLEAN, leased : BOOLEAN]]
    BY <1>8, <1>s DEF Handle
  <2> QED
    BY <1>8, <2>1, <2>2, <2>3, <2>4 DEF Handle
<1>9. CASE Reject(c) \/ Finish(c) \/ PingDrops(c)
  BY <1>9, <1>a, TypeUnregister DEF Reject, Finish, PingDrops, Ops
<1>10. CASE ReleaseAdmission(c)
  BY <1>10, <1>a, <1>h DEF ReleaseAdmission, HandlerPC
<1>11. CASE Ping(c)
  BY <1>11, <1>s DEF Ping, PingerPC
<1>12. CASE PingStops(c)
  BY <1>12 DEF PingStops, PingerPC
<1> QED
  BY <1>1, <1>2, <1>3, <1>4, <1>5, <1>6, <1>7, <1>8, <1>9, <1>10, <1>11, <1>12, <1>13
     DEF ConnStep, HandlerStep, PingerStep

LEMMA TypeNext == AgentManagerTypeOK /\ [Next]_vars => AgentManagerTypeOK'
<1> SUFFICES ASSUME AgentManagerTypeOK, [Next]_vars PROVE AgentManagerTypeOK'
  OBVIOUS
<1> USE DEF managerVars, goVars, storeVars, history
<1>r. NoRow \in Row
  BY DEF NoRow, Row, MaybeConn
<1>1. ASSUME NEW a \in Assets, RowAges(a) \/ DeleteStart(a) PROVE AgentManagerTypeOK'
  <2>1. [presence[a] EXCEPT !.stale = TRUE] \in Row
    BY RowStale DEF AgentManagerTypeOK
  <2> QED
    BY <1>1, <2>1 DEF RowAges, DeleteStart, AgentManagerTypeOK
<1>2. CASE SweepList \/ SweepCheck
  BY <1>2 DEF SweepList, SweepCheck, AgentManagerTypeOK
<1>3. CASE SweepDelete
  BY <1>3, <1>r DEF SweepDelete, DeletePresenceForSession, AgentManagerTypeOK
<1>4. CASE SweepOffline
  BY <1>4 DEF SweepOffline, WriteTransport, StoreFails, AgentManagerTypeOK
<1>5. ASSUME NEW t \in Tokens, RevokeStart(t) PROVE AgentManagerTypeOK'
  BY <1>5 DEF RevokeStart, AgentManagerTypeOK
<1>6. ASSUME NEW a \in Assets, NEW t \in Tokens, Recover(a, t) PROVE AgentManagerTypeOK'
  BY <1>6 DEF Recover, AgentManagerTypeOK
<1>7. CASE RevokeCommit \/ RecoverLook
  BY <1>7 DEF RevokeCommit, RecoverLook, AgentManagerTypeOK
<1>8. CASE AdminDrop \/ DeleteUnregister
  <2>1. "admin" \in Ops /\ None \in MaybeConn
    BY DEF Ops, MaybeConn
  <2> QED
    BY <1>8, <2>1, TypeUnregister DEF AdminDrop, DeleteUnregister
<1>9. CASE DeleteCommit
  <2>1. presence' \in [Assets -> Row] /\ transport' \in [Assets -> {"agent", "offline"}]
    BY <1>9, <1>r DEF DeleteCommit, AgentManagerTypeOK
  <2>2. assetRow' \in [Assets -> BOOLEAN]
    BY <1>9 DEF DeleteCommit, AgentManagerTypeOK
  <2>3. tokens' \in [Tokens -> {"unissued", "active", "revoked"}]
    BY <1>9 DEF DeleteCommit, AgentManagerTypeOK
  <2> QED
    BY <1>9, <2>1, <2>2, <2>3 DEF DeleteCommit, AgentManagerTypeOK
<1>10. CASE Crash
  <2>1. Free \in Section
    BY DEF Free, Section, Ops, Phases, MaybeConn
  <2>2. handler' \in [Conns -> HandlerPC] /\ pinger' \in [Conns -> PingerPC]
    BY <1>10 DEF Crash, AgentManagerTypeOK, HandlerPC, PingerPC
  <2>3. conns' \in [Assets -> MaybeConn] /\ section' \in [Assets -> Section]
    BY <1>10, <2>1 DEF Crash, MaybeConn
  <2> QED
    BY <1>10, <2>2, <2>3 DEF Crash, AgentManagerTypeOK
<1>11. CASE UNCHANGED vars
  BY <1>11 DEF vars, AgentManagerTypeOK
<1> QED
  BY <1>1, <1>2, <1>3, <1>4, <1>5, <1>6, <1>7, <1>8, <1>9, <1>10, <1>11, TypeSection, TypeConn
     DEF Next, AdminStep

\* The manager, the goroutines of its sockets and the tables they write stay well
\* typed through every interleaving.
THEOREM AgentManagerTypeCorrect == Spec => []AgentManagerTypeOK
BY TypeInit, TypeNext, PTL DEF Spec
-----------------------------------------------------------------------------
(* The sections.                                                           *)

CallerOps == {"register", "reject", "leave", "retire", "dispatch"}

\* Where the handler is that waits for its section to end.
Waiting(op) ==
    CASE op = "register" -> "registering"
      [] op = "reject" -> "closing"
      [] op = "leave" -> "finishing"
      [] op = "retire" -> "dispatching"
      [] op = "dispatch" -> "handling"

\* A section belongs to a handler of its asset that waits for it.
Owned ==
    \A a \in Assets : section[a].op \in CallerOps =>
        /\ section[a].by \in Conns
        /\ AssetOf[section[a].by] = a
        /\ handler[section[a].by] = Waiting(section[a].op)

\* What the phase of a section says about the map and the announcements.
Phased ==
    \A a \in Assets :
        /\ section[a].op = "free" <=> section[a].phase = "none"
        /\ section[a].phase = "work" =>
              section[a].op = "dispatch" /\ conns[a] = section[a].by /\ ~socket[section[a].by].done
        /\ section[a].phase \in {"publish", "online"} =>
              section[a].op = "register" /\ conns[a] = section[a].by
        /\ section[a].phase \in {"close", "cleanup"} =>
              section[a].victim \in Conns /\ AssetOf[section[a].victim] = a
        /\ section[a].phase \in {"close", "cleanup", "offline", "end"} => conns[a] = None
        /\ section[a].phase \in {"offline", "end"} => announced[a] = "disconnected"
        /\ section[a].phase \in {"none", "work"} =>
              (announced[a] = "connected" <=> conns[a] # None)

\* A connection is registered under its own asset, and handles messages only
\* inside its section.
Placed ==
    /\ \A a \in Assets : conns[a] # None => AssetOf[conns[a]] = a
    /\ \A c \in Conns : handler[c] = "handling" =>
          section[AssetOf[c]].op = "dispatch" /\ section[AssetOf[c]].by = c

SectionInv == AgentManagerTypeOK /\ Owned /\ Phased /\ Placed

SectionParts == Owned /\ Phased /\ Placed

LEMMA SectionInit == Init => SectionParts
BY AgentManagerAssumption DEF Init, SectionParts, Owned, Phased, Placed, Free, CallerOps, NewSocket

LEMMA WaitingAt ==
    /\ Waiting("register") = "registering" /\ Waiting("reject") = "closing"
    /\ Waiting("leave") = "finishing" /\ Waiting("retire") = "dispatching"
    /\ Waiting("dispatch") = "handling"
BY DEF Waiting

\* A removal starts, or finds nothing and lets its caller go on.
LEMMA SectionUnregister ==
    ASSUME SectionInv, NEW a, NEW expected, NEW op \in {"reject", "leave", "ping", "admin"},
           NEW c \in MaybeConn,
           op \in CallerOps => c \in Conns /\ AssetOf[c] = a /\ handler[c] = Waiting(op),
           Unregister(a, expected, op, c)
    PROVE  SectionParts'
<1> USE DEF SectionInv, AgentManagerTypeOK, storeVars, history
<1>u. socket' = socket /\ announced' = announced
  BY DEF Unregister
<1>1. CASE a \notin Assets
  <2>1. op \in {"ping", "admin"}
    BY <1>1, AgentManagerAssumption DEF CallerOps
  <2>2. section' = section /\ conns' = conns /\ handler' = handler
    BY <1>1, <2>1 DEF Unregister, TakeOut, ResumeCaller
  <2> QED
    BY <1>u, <2>2 DEF SectionParts, Owned, Phased, Placed
<1>2. CASE a \in Assets
  <2>0. section[a].op = "free" /\ section[a].phase = "none"
    BY <1>2 DEF Unregister, Unlocked, Phased
  <2>1. CASE Matches(a, expected)
    <3> DEFINE new == [op |-> op, by |-> c, victim |-> conns[a], phase |-> "close"]
    <3>1. /\ section' = [section EXCEPT ![a] = new]
          /\ conns' = [conns EXCEPT ![a] = None]
          /\ handler' = handler
      BY <2>1 DEF Unregister, TakeOut
    <3>2. conns[a] \in Conns /\ AssetOf[conns[a]] = a
      BY <1>2, <2>1 DEF Matches, Placed, MaybeConn
    <3>3. Owned'
      BY <1>2, <3>1 DEF Owned
    <3>4. Phased'
      BY <1>2, <1>u, <3>1, <3>2 DEF Phased
    <3>5. Placed'
      BY <1>2, <2>0, <3>1 DEF Placed
    <3> QED
      BY <3>3, <3>4, <3>5 DEF SectionParts
  <2>2. CASE ~Matches(a, expected)
    <3>1. section' = section /\ conns' = conns
      BY <2>2 DEF Unregister
    <3>2. \/ handler' = handler
          \/ /\ op \in CallerOps
             /\ handler' = [handler EXCEPT ![c] = AfterSection(op)]
             /\ AfterSection(op) \in {"finishing", "releasing"}
      BY <2>2 DEF Unregister, ResumeCaller, AfterSection, CallerOps
    <3>3. Owned'
      BY <1>2, <2>0, <3>1, <3>2 DEF Owned, CallerOps
    <3>4. Phased'
      BY <1>u, <3>1 DEF Phased
    <3>5. Placed'
      BY <3>1, <3>2 DEF Placed
    <3> QED
      BY <3>3, <3>4, <3>5 DEF SectionParts
  <2> QED
    BY <2>1, <2>2
<1> QED
  BY <1>1, <1>2

\* The phase of a section moves on and nobody's program counter changes.
LEMMA SectionMoves ==
    ASSUME SectionInv, NEW a \in Assets, SectionStep(a)
    PROVE  SectionParts'
<1> USE DEF SectionInv, AgentManagerTypeOK, Phase, goVars, storeVars, history
<1>1. CASE CloseVictim(a)
  <2>1. /\ section' = [section EXCEPT ![a].phase = "cleanup"]
        /\ conns' = conns /\ handler' = handler /\ announced' = announced
        /\ section[a].phase = "close"
    BY <1>1 DEF CloseVictim
  <2>2. \A c \in Conns : c # section[a].victim => socket'[c].done = socket[c].done
    BY <1>1 DEF CloseVictim, Closed
  <2>3. Owned'
    BY <2>1 DEF Owned
  <2>4. Phased'
    <3> SUFFICES ASSUME NEW b \in Assets PROVE Phased!(b)'
      BY DEF Phased
    <3>1. CASE b = a
      BY <2>1, <3>1 DEF Phased
    <3>2. CASE b # a
      <4>1. section'[b] = section[b]
        BY <2>1, <3>2
      <4>2. section[b].phase = "work" => section[b].by \in Conns /\ AssetOf[section[b].by] = b
        BY DEF Phased, Owned, CallerOps
      <4>3. section[a].victim \in Conns /\ AssetOf[section[a].victim] = a
        BY <2>1 DEF Phased
      <4> QED
        BY <2>1, <2>2, <3>2, <4>1, <4>2, <4>3 DEF Phased
    <3> QED
      BY <3>1, <3>2
  <2>5. Placed'
    BY <2>1 DEF Placed
  <2> QED
    BY <2>3, <2>4, <2>5 DEF SectionParts
<1>2. CASE CleanupAgentConnectionState(a) \/ MarkOffline(a)
  <2>1. PICK p \in {"offline", "end"} : section' = [section EXCEPT ![a].phase = p]
    BY <1>2 DEF CleanupAgentConnectionState, MarkOffline
  <2>2. /\ conns' = conns /\ handler' = handler /\ socket' = socket
        /\ section[a].phase \in {"cleanup", "offline"}
    BY <1>2 DEF CleanupAgentConnectionState, MarkOffline
  <2>3. announced' = [announced EXCEPT ![a] = "disconnected"]
    BY <1>2 DEF CleanupAgentConnectionState, MarkOffline, Phased
  <2>4. Owned'
    BY <2>1, <2>2 DEF Owned
  <2>5. Phased'
    BY <2>1, <2>2, <2>3 DEF Phased
  <2>6. Placed'
    BY <2>1, <2>2 DEF Placed
  <2> QED
    BY <2>4, <2>5, <2>6 DEF SectionParts
<1>3. CASE EndRemoval(a)
  <2>0. socket' = socket /\ announced' = announced /\ section[a].phase = "end"
    BY <1>3 DEF EndRemoval
  <2>1. CASE section[a].op = "register"
    <3>1. /\ section' = [section EXCEPT ![a].phase = "publish"]
          /\ conns' = [conns EXCEPT ![a] = section[a].by]
          /\ handler' = handler
      BY <1>3, <2>1 DEF EndRemoval
    <3>2. section[a].by \in Conns /\ AssetOf[section[a].by] = a
      BY <2>1 DEF Owned, CallerOps
    <3>3. Owned' /\ Phased' /\ Placed'
      BY <2>0, <2>1, <3>1, <3>2 DEF Owned, Phased, Placed
    <3> QED
      BY <3>3 DEF SectionParts
  <2>2. CASE section[a].op # "register"
    <3>1. section' = [section EXCEPT ![a] = Free] /\ conns' = conns
      BY <1>3, <2>2 DEF EndRemoval
    <3>2. \/ handler' = handler /\ section[a].op \notin CallerOps
          \/ /\ section[a].op \in CallerOps
             /\ handler' = [handler EXCEPT ![section[a].by] = AfterSection(section[a].op)]
             /\ AfterSection(section[a].op) \in {"finishing", "releasing", "reading"}
      BY <1>3, <2>2 DEF EndRemoval, ResumeCaller, AfterSection, CallerOps
    <3>3. Owned'
      BY <3>1, <3>2 DEF Owned, CallerOps, Free
    <3>4. Phased'
      BY <2>0, <3>1 DEF Phased, Free
    <3>5. Placed'
      <4>1. ASSUME NEW c \in Conns, handler'[c] = "handling"
            PROVE  handler[c] = "handling" /\ AssetOf[c] # a
        BY <4>1, <3>2 DEF Placed, Owned, CallerOps, AfterSection
      <4> QED
        BY <3>1, <4>1 DEF Placed
    <3> QED
      BY <3>3, <3>4, <3>5 DEF SectionParts
  <2> QED
    BY <2>1, <2>2
<1>4. CASE Publish(a)
  <2>1. /\ section' = [section EXCEPT ![a].phase = "online"]
        /\ conns' = conns /\ handler' = handler /\ announced' = announced /\ socket' = socket
        /\ section[a].phase = "publish"
    BY <1>4 DEF Publish
  <2>2. Owned' /\ Phased' /\ Placed'
    BY <2>1 DEF Owned, Phased, Placed
  <2> QED
    BY <2>2 DEF SectionParts
<1>5. CASE GoOnline(a)
  <2>1. /\ section' = [section EXCEPT ![a] = Free]
        /\ conns' = conns /\ socket' = socket
        /\ announced' = [announced EXCEPT ![a] = "connected"]
        /\ handler' = [handler EXCEPT ![section[a].by] = "reading"]
        /\ section[a].phase = "online"
    BY <1>5 DEF GoOnline
  <2>2. section[a].by \in Conns /\ AssetOf[section[a].by] = a /\ conns[a] = section[a].by
        /\ section[a].op = "register"
    BY <2>1 DEF Owned, Phased, CallerOps
  <2>3. Owned'
    BY <2>1, <2>2 DEF Owned, Free, CallerOps
  <2>4. Phased'
    BY <2>1, <2>2, AgentManagerAssumption DEF Phased, Free
  <2>5. Placed'
    BY <2>1, <2>2 DEF Placed
  <2> QED
    BY <2>3, <2>4, <2>5 DEF SectionParts
<1> QED
  BY <1>1, <1>2, <1>3, <1>4, <1>5 DEF SectionStep

\* The steps of one connection's goroutines.
LEMMA SectionConn ==
    ASSUME SectionInv, NEW c \in Conns, ConnStep(c)
    PROVE  SectionParts'
<1> USE DEF SectionInv, AgentManagerTypeOK, managerVars, goVars, storeVars, history
<1>a. AssetOf[c] \in Assets /\ c \in MaybeConn /\ c # None
  BY AgentManagerAssumption DEF MaybeConn
<1>d. ASSUME NEW d \in Conns, section[AssetOf[d]].phase = "work", section[AssetOf[d]].by = d
      PROVE  handler[d] = "handling"
  BY <1>d, AgentManagerAssumption DEF Phased, Owned, CallerOps, Waiting
\* Steps of a handler outside its section.
<1>1. ASSUME section' = section, conns' = conns, announced' = announced,
             NEW pc \in HandlerPC \ {"handling"},
             handler' = [handler EXCEPT ![c] = pc],
             handler[c] \in {"idle", "admitted", "reading", "releasing"},
             \A d \in Conns : d # c => socket'[d] = socket[d]
      PROVE  SectionParts'
  <2>1. Owned'
    <3>1. \A a \in Assets : section[a].op \in CallerOps => section[a].by # c
      BY <1>1 DEF Owned, CallerOps, Waiting
    <3> QED
      BY <1>1, <3>1 DEF Owned
  <2>2. Phased'
    <3>1. \A a \in Assets : section[a].phase = "work" => section[a].by \in Conns \ {c}
      BY <1>1 DEF Phased, Owned, CallerOps, Waiting
    <3> QED
      BY <1>1, <3>1 DEF Phased
  <2>3. Placed'
    BY <1>1 DEF Placed
  <2> QED
    BY <2>1, <2>2, <2>3 DEF SectionParts
\* Steps that touch no program counter of a handler and close no socket.
<1>2. ASSUME section' = section, conns' = conns, announced' = announced, handler' = handler,
             \A d \in Conns : socket'[d].done = socket[d].done
      PROVE  SectionParts'
  <2>1. \A a \in Assets : section[a].phase = "work" => section[a].by \in Conns
    BY DEF Phased, Owned, CallerOps
  <2>2. Phased'
    BY <1>2, <2>1 DEF Phased
  <2> QED
    BY <1>2, <2>2 DEF SectionParts, Owned, Placed
<1>3. CASE Dial(c) \/ Upgrade(c) \/ ReadFails(c) \/ ReleaseAdmission(c)
  <2>1. \A d \in Conns : d # c => socket'[d] = socket[d]
    BY <1>3 DEF Dial, Upgrade, ReadFails, ReleaseAdmission, Renewed, Closed
  <2>2. \E pc \in HandlerPC \ {"handling"} : handler' = [handler EXCEPT ![c] = pc]
    BY <1>3 DEF Dial, Upgrade, ReadFails, ReleaseAdmission, HandlerPC
  <2>3. handler[c] \in {"idle", "admitted", "reading", "releasing"}
    BY <1>3 DEF Dial, Upgrade, ReadFails, ReleaseAdmission
  <2>4. section' = section /\ conns' = conns /\ announced' = announced
    BY <1>3 DEF Dial, Upgrade, ReadFails, ReleaseAdmission
  <2> QED
    BY <1>1, <2>1, <2>2, <2>3, <2>4
<1>4. CASE Receive(c) \/ Pong(c)
  <2>1. \A d \in Conns : d # c => socket'[d] = socket[d]
    BY <1>4 DEF Receive, Pong, Renewed, Rejected
  <2>2. \E pc \in HandlerPC \ {"handling"} : handler' = [handler EXCEPT ![c] = pc]
    BY <1>4 DEF Receive, Pong, HandlerPC
  <2>3. handler[c] \in {"idle", "admitted", "reading", "releasing"}
    BY <1>4 DEF Receive, Pong
  <2>4. section' = section /\ conns' = conns /\ announced' = announced
    BY <1>4 DEF Receive, Pong
  <2> QED
    BY <1>1, <2>1, <2>2, <2>3, <2>4
<1>5. CASE Send(c) \/ LeaseExpires(c) \/ Ping(c) \/ PingStops(c)
  <2>1. \A d \in Conns : socket'[d].done = socket[d].done
    <3>1. \/ socket' = socket \/ socket' = Renewed(c) \/ socket' = Rejected(c)
          \/ socket' = [socket EXCEPT ![c].leased = FALSE]
      BY <1>5 DEF Send, LeaseExpires, Ping, PingStops
    <3>2. ASSUME NEW l, socket' = [socket EXCEPT ![c].leased = l]
          PROVE  \A d \in Conns : socket'[d].done = socket[d].done
      BY <3>2
    <3>3. ASSUME socket' = Rejected(c)
          PROVE  \A d \in Conns : socket'[d].done = socket[d].done
      BY <3>3 DEF Rejected
    <3> QED
      BY <3>1, <3>2, <3>3 DEF Renewed
  <2>2. section' = section /\ conns' = conns /\ announced' = announced /\ handler' = handler
    BY <1>5 DEF Send, LeaseExpires, Ping, PingStops
  <2> QED
    BY <1>2, <2>1, <2>2
<1>6. CASE Register(c)
  <2>1. conns' = [conns EXCEPT ![AssetOf[c]] = None]
    BY <1>6, <1>a DEF Register, TakeOut, Matches
  <2>2. \E v \in MaybeConn, p \in {"close", "end"} :
           /\ section' = [section EXCEPT ![AssetOf[c]] =
                             [op |-> "register", by |-> c, victim |-> v, phase |-> p]]
           /\ p = "close" => v = conns[AssetOf[c]] /\ v \in Conns
           /\ p = "end" => conns[AssetOf[c]] = None
    <3>1. CASE conns[AssetOf[c]] = None
      <4>1. section' = [section EXCEPT ![AssetOf[c]] =
                          [op |-> "register", by |-> c, victim |-> None, phase |-> "end"]]
        BY <1>6, <3>1 DEF Register, Matches
      <4> QED
        BY <3>1, <4>1 DEF MaybeConn
    <3>2. CASE conns[AssetOf[c]] # None
      <4>1. section' = [section EXCEPT ![AssetOf[c]] =
                          [op |-> "register", by |-> c, victim |-> conns[AssetOf[c]],
                           phase |-> "close"]]
        BY <1>6, <3>2 DEF Register, Matches, TakeOut
      <4>2. conns[AssetOf[c]] \in Conns
        BY <1>a, <3>2 DEF MaybeConn
      <4> QED
        BY <4>1, <4>2 DEF MaybeConn
    <3> QED
      BY <3>1, <3>2
  <2>3. /\ announced' = announced /\ handler' = handler /\ socket' = socket
        /\ handler[c] = "registering" /\ section[AssetOf[c]].op = "free"
    BY <1>6 DEF Register, Unlocked
  <2>4. PICK v \in MaybeConn, p \in {"close", "end"} :
           /\ section' = [section EXCEPT ![AssetOf[c]] =
                             [op |-> "register", by |-> c, victim |-> v, phase |-> p]]
           /\ p = "close" => v = conns[AssetOf[c]] /\ v \in Conns
           /\ p = "end" => conns[AssetOf[c]] = None
    BY <2>2
  <2>5. Owned'
    BY <1>a, <2>3, <2>4, WaitingAt DEF Owned
  <2>6. p = "close" => AssetOf[v] = AssetOf[c]
    BY <1>a, <2>4, AgentManagerAssumption DEF Placed
  <2>7. p = "end" => announced[AssetOf[c]] = "disconnected"
    BY <1>a, <2>3, <2>4 DEF Phased
  <2>8. Phased'
    BY <1>a, <2>1, <2>3, <2>4, <2>6, <2>7 DEF Phased
  <2>9. Placed'
    <3>1. \A d \in Conns : handler[d] = "handling" => AssetOf[d] # AssetOf[c]
      BY <2>3 DEF Placed
    <3> QED
      BY <1>a, <2>1, <2>3, <2>4, <3>1, AgentManagerAssumption DEF Placed
  <2> QED
    BY <2>5, <2>8, <2>9 DEF SectionParts
<1>7. CASE Dispatch(c)
  <2> DEFINE a == AssetOf[c]
  <2>0. /\ handler[c] = "dispatching" /\ section[a].op = "free" /\ section[a].phase = "none"
        /\ socket' = socket /\ announced' = announced
    BY <1>7, <1>a DEF Dispatch, Unlocked, Phased
  <2>o. \A b \in Assets : section[b].op \in CallerOps => section[b].by # c
    BY <2>0 DEF Owned, CallerOps
  <2>h. \A d \in Conns : handler[d] = "handling" => AssetOf[d] # a
    BY <2>0 DEF Placed
  <2>1. CASE /\ handler' = [handler EXCEPT ![c] = "finishing"]
             /\ conns' = conns /\ section' = section
    <3>1. Owned'
      BY <2>1, <2>o DEF Owned
    <3>2. Phased'
      BY <2>0, <2>1 DEF Phased
    <3>3. Placed'
      BY <2>1 DEF Placed
    <3> QED
      BY <3>1, <3>2, <3>3 DEF SectionParts
  <2>2. CASE /\ conns[a] = c
             /\ TakeOut(a, "retire", c)
             /\ handler' = handler
    <3>0. /\ section' = [section EXCEPT ![a] = [op |-> "retire", by |-> c, victim |-> c,
                                                 phase |-> "close"]]
          /\ conns' = [conns EXCEPT ![a] = None]
      BY <2>2 DEF TakeOut
    <3>1. Owned'
      BY <1>a, <2>0, <2>2, <3>0, WaitingAt DEF Owned
    <3>2. Phased'
      BY <1>a, <2>0, <3>0 DEF Phased
    <3>3. Placed'
      BY <1>a, <2>2, <2>h, <3>0, AgentManagerAssumption DEF Placed
    <3> QED
      BY <3>1, <3>2, <3>3 DEF SectionParts
  <2>3. CASE /\ conns[a] = c /\ ~socket[c].done
             /\ handler' = [handler EXCEPT ![c] = "handling"]
             /\ section' = [section EXCEPT ![a] = [op |-> "dispatch", by |-> c, victim |-> None,
                                                   phase |-> "work"]]
             /\ conns' = conns
    <3>1. Owned'
      BY <1>a, <2>3, <2>o, WaitingAt DEF Owned
    <3>2. Phased'
      BY <1>a, <2>0, <2>3 DEF Phased
    <3>3. Placed'
      BY <1>a, <2>3, <2>h, AgentManagerAssumption DEF Placed
    <3> QED
      BY <3>1, <3>2, <3>3 DEF SectionParts
  <2> QED
    BY <1>7, <2>1, <2>2, <2>3 DEF Dispatch
<1>8. CASE Handle(c)
  <2> DEFINE a == AssetOf[c]
  <2>0. /\ handler[c] = "handling" /\ section[a].op = "dispatch" /\ section[a].phase = "work"
        /\ section[a].by = c /\ conns[a] = c
        /\ announced' = announced
    BY <1>8, <1>a DEF Handle, Placed, Phased
  <2>h. \A d \in Conns \ {c} : handler[d] = "handling" => AssetOf[d] # a
    BY <2>0 DEF Placed
  <2>w. \A b \in Assets \ {a} : section[b].phase = "work" => section[b].by \in Conns \ {c}
    BY <2>0 DEF Phased, Owned, CallerOps
  <2>o. \A b \in Assets \ {a} : section[b].op \in CallerOps => section[b].by # c
    BY DEF Owned
  <2>1. CASE socket' = Closed(c) /\ TakeOut(a, "dispatch", c) /\ handler' = handler
    <3>0. /\ section' = [section EXCEPT ![a] = [op |-> "dispatch", by |-> c, victim |-> c,
                                                 phase |-> "close"]]
          /\ conns' = [conns EXCEPT ![a] = None]
          /\ \A d \in Conns \ {c} : socket'[d] = socket[d]
      BY <2>0, <2>1 DEF TakeOut, Closed
    <3>1. Owned'
      BY <1>a, <2>0, <2>1, <3>0, WaitingAt DEF Owned
    <3>2. Phased'
      BY <1>a, <2>0, <2>w, <3>0 DEF Phased
    <3>3. Placed'
      BY <1>a, <2>0, <2>1, <2>h, <3>0, AgentManagerAssumption DEF Placed
    <3> QED
      BY <3>1, <3>2, <3>3 DEF SectionParts
  <2>2. CASE /\ section' = [section EXCEPT ![a] = Free]
             /\ handler' = [handler EXCEPT ![c] = "reading"]
             /\ conns' = conns /\ socket' = socket
    <3>1. Owned'
      BY <1>a, <2>2, <2>o DEF Owned, Free, CallerOps
    <3>2. Phased'
      BY <1>a, <2>0, <2>2 DEF Phased, Free
    <3>3. Placed'
      BY <1>a, <2>2, <2>h, AgentManagerAssumption DEF Placed
    <3> QED
      BY <3>1, <3>2, <3>3 DEF SectionParts
  <2> QED
    BY <1>8, <2>1, <2>2 DEF Handle
<1>9. CASE Reject(c)
  BY <1>9, <1>a, SectionUnregister DEF Reject, Waiting
<1>10. CASE Finish(c)
  BY <1>10, <1>a, SectionUnregister DEF Finish, Waiting
<1>11. CASE PingDrops(c)
  BY <1>11, <1>a, SectionUnregister DEF PingDrops, CallerOps
<1> QED
  BY <1>3, <1>4, <1>5, <1>6, <1>7, <1>8, <1>9, <1>10, <1>11 DEF ConnStep, HandlerStep, PingerStep
LEMMA SectionNext == SectionInv /\ [Next]_vars => SectionInv'
<1> SUFFICES ASSUME SectionInv, [Next]_vars PROVE SectionParts'
  BY TypeNext DEF SectionInv, SectionParts
<1> USE DEF managerVars, goVars, storeVars, history
<1>s. ASSUME section' = section, conns' = conns, announced' = announced, handler' = handler,
             socket' = socket
      PROVE  SectionParts'
  BY <1>s DEF SectionInv, SectionParts, Owned, Phased, Placed
<1>1. CASE \E a \in Assets : SectionStep(a)
  BY <1>1, SectionMoves
<1>2. CASE \E c \in Conns : ConnStep(c)
  BY <1>2, SectionConn
<1>3. CASE AdminDrop \/ DeleteUnregister
  <2>1. None \in MaybeConn /\ "admin" \notin CallerOps
    BY DEF MaybeConn, CallerOps
  <2> QED
    BY <1>3, <2>1, SectionUnregister DEF AdminDrop, DeleteUnregister
<1>4. CASE \E a \in Assets : RowAges(a) \/ DeleteStart(a)
  BY <1>4, <1>s DEF RowAges, DeleteStart
<1>5. CASE SweepList \/ SweepCheck \/ SweepDelete \/ SweepOffline
  BY <1>5, <1>s DEF SweepList, SweepCheck, SweepDelete, SweepOffline
<1>6. CASE \/ \E t \in Tokens : RevokeStart(t) \/ \E a \in Assets : Recover(a, t)
           \/ RevokeCommit \/ RecoverLook \/ DeleteCommit
  BY <1>6, <1>s DEF RevokeStart, Recover, RevokeCommit, RecoverLook, DeleteCommit
<1>7. CASE Crash
  <2>1. /\ section' = [a \in Assets |-> Free] /\ conns' = [a \in Assets |-> None]
        /\ announced' = [a \in Assets |-> "disconnected"]
        /\ \A c \in Conns : handler'[c] # "handling"
    BY <1>7 DEF Crash
  <2> QED
    BY <2>1 DEF SectionParts, Owned, Phased, Placed, Free, CallerOps
<1>8. CASE UNCHANGED vars
  BY <1>8, <1>s DEF vars
<1> QED
  BY <1>1, <1>2, <1>3, <1>4, <1>5, <1>6, <1>7, <1>8 DEF Next, AdminStep

LEMMA SectionsHold == Spec => []SectionInv
<1>1. Init => SectionInv
  BY TypeInit, SectionInit DEF SectionInv, SectionParts
<1> QED
  BY <1>1, SectionNext, PTL DEF Spec

\* Outside a section, what browsers were told last about an asset is what the
\* manager holds.
THEOREM AnnouncementsRight == Spec => []AnnouncementsFollowConnection
<1>1. SectionInv => AnnouncementsFollowConnection
  BY DEF SectionInv, Phased, AnnouncementsFollowConnection, Unlocked
<1> QED
  BY <1>1, SectionsHold, PTL

\* DispatchIfCurrent runs a message handler only for the current connection.
THEOREM HandlersCurrent == Spec => []HandlesOnlyWhileCurrent
<1>1. SectionInv => HandlesOnlyWhileCurrent
  BY AgentManagerAssumption DEF SectionInv, Phased, Placed, HandlesOnlyWhileCurrent
<1> QED
  BY <1>1, SectionsHold, PTL
-----------------------------------------------------------------------------
(* Admission.                                                              *)

Held == {c \in Conns : HoldsAdmission(c)}

HeldFrom(s) == {c \in Conns : HoldsAdmission(c) /\ SourceOf[c] = s}

LEMMA HeldFinite == IsFiniteSet(Held) /\ \A s \in Sources : IsFiniteSet(HeldFrom(s))
<1>1. Held \in SUBSET Conns /\ \A s \in Sources : HeldFrom(s) \in SUBSET Conns
  BY DEF Held, HeldFrom
<1> QED
  BY <1>1, AgentManagerAssumption, FS_Subset

\* A removal leaves its caller between admission and release.
LEMMA HeldUnregister ==
    ASSUME SectionInv, NEW a, NEW expected, NEW op, NEW c,
           op \in {"reject", "leave"} => c \in Conns /\ HoldsAdmission(c),
           op \in {"reject", "leave", "ping", "admin"},
           Unregister(a, expected, op, c)
    PROVE  /\ admissions' = admissions /\ bySource' = bySource
           /\ \A d \in Conns : HoldsAdmission(d)' <=> HoldsAdmission(d)
<1>1. admissions' = admissions /\ bySource' = bySource
  BY DEF Unregister
<1>2. \/ handler' = handler
      \/ /\ op \in {"reject", "leave"}
         /\ handler' = [handler EXCEPT ![c] = AfterSection(op)]
         /\ AfterSection(op) \in {"finishing", "releasing"}
  BY DEF Unregister, ResumeCaller, AfterSection
<1>3. CASE handler' = handler
  BY <1>1, <1>3 DEF HoldsAdmission
<1>4. CASE /\ op \in {"reject", "leave"}
           /\ handler' = [handler EXCEPT ![c] = AfterSection(op)]
           /\ AfterSection(op) \in {"finishing", "releasing"}
  BY <1>1, <1>4 DEF HoldsAdmission, SectionInv, AgentManagerTypeOK
<1> QED
  BY <1>2, <1>3, <1>4

\* Only Dial, ReleaseAdmission and Crash change who holds an admission.
LEMMA HeldSection ==
    ASSUME SectionInv, NEW a \in Assets, SectionStep(a)
    PROVE  /\ admissions' = admissions /\ bySource' = bySource
           /\ \A d \in Conns : HoldsAdmission(d)' <=> HoldsAdmission(d)
<1> USE DEF SectionInv, AgentManagerTypeOK, goVars
<1>1. admissions' = admissions /\ bySource' = bySource
  BY DEF SectionStep, CloseVictim, CleanupAgentConnectionState, MarkOffline, EndRemoval, Publish,
         GoOnline
<1>2. CASE CloseVictim(a) \/ CleanupAgentConnectionState(a) \/ MarkOffline(a) \/ Publish(a)
  BY <1>1, <1>2 DEF CloseVictim, CleanupAgentConnectionState, MarkOffline, Publish, HoldsAdmission
<1>3. CASE EndRemoval(a)
  <2>1. \/ handler' = handler
        \/ /\ section[a].op \in {"reject", "retire", "leave", "dispatch"}
           /\ handler' = [handler EXCEPT ![section[a].by] = AfterSection(section[a].op)]
           /\ AfterSection(section[a].op) \in {"finishing", "releasing", "reading"}
    BY <1>3 DEF EndRemoval, ResumeCaller, AfterSection
  <2>2. CASE handler' = handler
    BY <1>1, <2>2 DEF HoldsAdmission
  <2>3. CASE /\ section[a].op \in {"reject", "retire", "leave", "dispatch"}
             /\ handler' = [handler EXCEPT ![section[a].by] = AfterSection(section[a].op)]
             /\ AfterSection(section[a].op) \in {"finishing", "releasing", "reading"}
    <3>1. section[a].by \in Conns /\ HoldsAdmission(section[a].by)
      BY <2>3, WaitingAt DEF Owned, CallerOps, HoldsAdmission
    <3> QED
      BY <1>1, <2>3, <3>1 DEF HoldsAdmission
  <2> QED
    BY <2>1, <2>2, <2>3
<1>4. CASE GoOnline(a)
  <2>1. section[a].by \in Conns /\ HoldsAdmission(section[a].by)
    BY <1>4, WaitingAt DEF GoOnline, Phased, Owned, CallerOps, HoldsAdmission
  <2> QED
    BY <1>1, <1>4, <2>1 DEF GoOnline, HoldsAdmission
<1> QED
  BY <1>2, <1>3, <1>4 DEF SectionStep

LEMMA HeldConn ==
    ASSUME SectionInv, NEW c \in Conns, ConnStep(c), ~Dial(c), ~ReleaseAdmission(c)
    PROVE  /\ admissions' = admissions /\ bySource' = bySource
           /\ \A d \in Conns : HoldsAdmission(d)' <=> HoldsAdmission(d)
<1> USE DEF SectionInv, AgentManagerTypeOK, managerVars, goVars
<1>1. CASE Reject(c) \/ Finish(c) \/ PingDrops(c)
  BY <1>1, HeldUnregister DEF Reject, Finish, PingDrops, HoldsAdmission
<1>2. CASE Send(c) \/ LeaseExpires(c) \/ Ping(c) \/ PingStops(c) \/ Register(c)
  BY <1>2 DEF Send, LeaseExpires, Ping, PingStops, Register, HoldsAdmission
<1>3. CASE Upgrade(c) \/ Receive(c) \/ Pong(c) \/ ReadFails(c) \/ Dispatch(c) \/ Handle(c)
  <2>1. /\ admissions' = admissions /\ bySource' = bySource
        /\ handler[c] \in {"admitted", "reading", "dispatching", "handling"}
    BY <1>3 DEF Upgrade, Receive, Pong, ReadFails, Dispatch, Handle
  <2>2. \/ handler' = handler
        \/ \E pc \in {"registering", "releasing", "reading", "dispatching", "closing",
                       "finishing", "handling"} : handler' = [handler EXCEPT ![c] = pc]
    BY <1>3 DEF Upgrade, Receive, Pong, ReadFails, Dispatch, Handle
  <2> QED
    BY <2>1, <2>2 DEF HoldsAdmission
<1> QED
  BY <1>1, <1>2, <1>3 DEF ConnStep, HandlerStep, PingerStep

LEMMA AdmissionNext == SectionInv /\ AdmissionsExact /\ [Next]_vars => AdmissionsExact'
<1> SUFFICES ASSUME SectionInv, AdmissionsExact, [Next]_vars PROVE AdmissionsExact'
  OBVIOUS
<1> USE DEF SectionInv, AgentManagerTypeOK, managerVars, goVars
<1>e. /\ admissions = Cardinality(Held) /\ admissions <= GlobalLimit
      /\ \A s \in Sources : bySource[s] = Cardinality(HeldFrom(s)) /\ bySource[s] <= SourceLimit
  BY DEF AdmissionsExact, Held, HeldFrom
<1>g. ASSUME /\ admissions' = Cardinality(Held') /\ admissions' <= GlobalLimit
             /\ \A s \in Sources : bySource'[s] = Cardinality(HeldFrom(s)') /\ bySource'[s] <= SourceLimit
      PROVE  AdmissionsExact'
  BY <1>g DEF AdmissionsExact, Held, HeldFrom
<1>s. ASSUME admissions' = admissions, bySource' = bySource,
             \A d \in Conns : HoldsAdmission(d)' <=> HoldsAdmission(d)
      PROVE  AdmissionsExact'
  <2>1. Held' = Held /\ \A s \in Sources : HeldFrom(s)' = HeldFrom(s)
    BY <1>s DEF Held, HeldFrom
  <2> QED
    BY <1>e, <1>g, <1>s, <2>1
<1>1. ASSUME NEW c \in Conns, Dial(c) PROVE AdmissionsExact'
  <2>0. /\ SourceOf[c] \in Sources
        /\ handler' = [handler EXCEPT ![c] = "admitted"] /\ handler[c] = "idle"
        /\ admissions' = admissions + 1
        /\ bySource' = [bySource EXCEPT ![SourceOf[c]] = @ + 1]
        /\ admissions < GlobalLimit /\ bySource[SourceOf[c]] < SourceLimit
    BY <1>1, AgentManagerAssumption DEF Dial, Room
  <2>1. /\ Held' = Held \cup {c} /\ c \notin Held
    BY <2>0 DEF Held, HeldFrom, HoldsAdmission
  <2>2. \A s \in Sources : s # SourceOf[c] => HeldFrom(s)' = HeldFrom(s)
    BY <2>0 DEF HeldFrom, HoldsAdmission
  <2>3. Cardinality(Held \cup {c}) = Cardinality(Held) + 1
    BY <2>0, <2>1, HeldFinite, FS_AddElement
  <2>4. admissions' = Cardinality(Held') /\ admissions' <= GlobalLimit
    BY <1>e, <2>0, <2>1, <2>3, AgentManagerAssumption
  <2>5. ASSUME NEW s \in Sources
        PROVE  bySource'[s] = Cardinality(HeldFrom(s)') /\ bySource'[s] <= SourceLimit
    <3>1. CASE s = SourceOf[c]
      <4>1. HeldFrom(s)' = HeldFrom(s) \cup {c} /\ c \notin HeldFrom(s)
        BY <2>0, <3>1 DEF HeldFrom, HoldsAdmission
      <4>2. Cardinality(HeldFrom(s)') = Cardinality(HeldFrom(s)) + 1
        BY <4>1, HeldFinite, FS_AddElement
      <4>3. bySource'[s] = bySource[s] + 1 /\ bySource[s] < SourceLimit /\ bySource[s] \in Nat
        BY <2>0, <3>1
      <4> QED
        BY <1>e, <4>2, <4>3, AgentManagerAssumption
    <3>2. CASE s # SourceOf[c]
      BY <1>e, <2>0, <2>2, <3>2
    <3> QED
      BY <3>1, <3>2
  <2> QED
    BY <1>g, <2>4, <2>5
<1>2. ASSUME NEW c \in Conns, ReleaseAdmission(c) PROVE AdmissionsExact'
  <2>0. /\ SourceOf[c] \in Sources
        /\ handler' = [handler EXCEPT ![c] = "gone"] /\ handler[c] = "releasing"
        /\ admissions' = IF admissions > 0 THEN admissions - 1 ELSE 0
        /\ bySource' = [bySource EXCEPT ![SourceOf[c]] = IF @ <= 1 THEN 0 ELSE @ - 1]
    BY <1>2, AgentManagerAssumption DEF ReleaseAdmission
  <2>1. /\ Held' = Held \ {c} /\ c \in Held
    BY <2>0 DEF Held, HeldFrom, HoldsAdmission
  <2>2. \A s \in Sources : s # SourceOf[c] => HeldFrom(s)' = HeldFrom(s)
    BY <2>0 DEF HeldFrom, HoldsAdmission
  <2>3. Cardinality(Held \ {c}) = Cardinality(Held) - 1
    BY <2>0, <2>1, HeldFinite, FS_RemoveElement
  <2>4. admissions # 0
    BY <1>e, <2>0, <2>1, HeldFinite, FS_EmptySet
  <2>5. admissions' = Cardinality(Held') /\ admissions' <= GlobalLimit
    BY <1>e, <2>0, <2>1, <2>3, <2>4, AgentManagerAssumption
  <2>6. ASSUME NEW s \in Sources
        PROVE  bySource'[s] = Cardinality(HeldFrom(s)') /\ bySource'[s] <= SourceLimit
    <3>1. CASE s = SourceOf[c]
      <4>1. HeldFrom(s)' = HeldFrom(s) \ {c} /\ c \in HeldFrom(s)
        BY <2>0, <3>1 DEF HeldFrom, HoldsAdmission
      <4>2. Cardinality(HeldFrom(s)') = Cardinality(HeldFrom(s)) - 1
        BY <4>1, HeldFinite, FS_RemoveElement
      <4>3. Cardinality(HeldFrom(s)) # 0
        BY <4>1, HeldFinite, FS_EmptySet
      <4>4. /\ bySource'[s] = IF bySource[s] <= 1 THEN 0 ELSE bySource[s] - 1
            /\ bySource[s] \in Nat
        BY <2>0, <3>1
      <4>5. bySource[s] = Cardinality(HeldFrom(s)) /\ bySource[s] <= SourceLimit
        BY <1>e
      <4>6. bySource'[s] = bySource[s] - 1
        <5>1. bySource[s] # 0
          BY <4>3, <4>5
        <5>2. \A n \in Nat : n # 0 => (IF n <= 1 THEN 0 ELSE n - 1) = n - 1
          OBVIOUS
        <5> QED
          BY <4>4, <5>1, <5>2
      <4> QED
        BY <4>2, <4>4, <4>5, <4>6, AgentManagerAssumption
    <3>2. CASE s # SourceOf[c]
      BY <1>e, <2>0, <2>2, <3>2
    <3> QED
      BY <3>1, <3>2
  <2> QED
    BY <1>g, <2>5, <2>6
<1>3. CASE Crash
  <2>1. Held' = {} /\ \A s \in Sources : HeldFrom(s)' = {}
    BY <1>3 DEF Crash, Held, HeldFrom, HoldsAdmission
  <2>2. admissions' = 0 /\ \A s \in Sources : bySource'[s] = 0
    BY <1>3 DEF Crash
  <2> QED
    <3>1. Cardinality({}) = 0
      BY FS_EmptySet
    <3>2. admissions' = Cardinality(Held') /\ admissions' <= GlobalLimit
      BY <2>1, <2>2, <3>1, AgentManagerAssumption
    <3>3. ASSUME NEW s \in Sources
          PROVE  bySource'[s] = Cardinality(HeldFrom(s)') /\ bySource'[s] <= SourceLimit
      <4>1. HeldFrom(s)' = {}
        BY <2>1
      <4> QED
        BY <2>2, <3>1, <4>1, AgentManagerAssumption
    <3> QED
      BY <1>g, <3>2, <3>3
<1>4. ASSUME NEW c \in Conns, ConnStep(c), ~Dial(c), ~ReleaseAdmission(c) PROVE AdmissionsExact'
  BY <1>4, <1>s, HeldConn
<1>5. CASE \E a \in Assets : SectionStep(a)
  BY <1>5, <1>s, HeldSection
<1>6. CASE AdminDrop \/ DeleteUnregister
  BY <1>6, <1>s, HeldUnregister DEF AdminDrop, DeleteUnregister
<1>7. CASE \/ \E a \in Assets : RowAges(a) \/ DeleteStart(a)
           \/ SweepList \/ SweepCheck \/ SweepDelete \/ SweepOffline
           \/ \E t \in Tokens : RevokeStart(t) \/ \E a \in Assets : Recover(a, t)
           \/ RevokeCommit \/ RecoverLook \/ DeleteCommit \/ UNCHANGED vars
  <2>1. admissions' = admissions /\ bySource' = bySource /\ handler' = handler
    BY <1>7 DEF RowAges, DeleteStart, SweepList, SweepCheck, SweepDelete, SweepOffline,
                RevokeStart, Recover, RevokeCommit, RecoverLook, DeleteCommit, vars
  <2> QED
    BY <1>s, <2>1 DEF HoldsAdmission
<1> QED
  BY <1>1, <1>2, <1>3, <1>4, <1>5, <1>6, <1>7 DEF Next, AdminStep

\* TryReserveAdmission and its release: for any number of sockets and sources and
\* any limits, the counters are the sockets between admission and release.
THEOREM AdmissionsRight == Spec => []AdmissionsExact
<1>1. Init => AdmissionsExact
  <2>1. ASSUME Init PROVE Held = {} /\ \A s \in Sources : HeldFrom(s) = {}
    BY <2>1 DEF Init, Held, HeldFrom, HoldsAdmission
  <2>2. Cardinality({}) = 0
    BY FS_EmptySet
  <2>3. ASSUME Init PROVE admissions = 0 /\ \A s \in Sources : bySource[s] = 0
    BY <2>3 DEF Init
  <2>4. ASSUME Init PROVE admissions = Cardinality(Held) /\ admissions <= GlobalLimit
    BY <2>1, <2>2, <2>3, <2>4, AgentManagerAssumption
  <2>5. ASSUME Init, NEW s \in Sources
        PROVE  bySource[s] = Cardinality(HeldFrom(s)) /\ bySource[s] <= SourceLimit
    BY <2>1, <2>2, <2>3, <2>5, AgentManagerAssumption
  <2> QED
    BY <2>4, <2>5 DEF AdmissionsExact, Held, HeldFrom
<1> QED
  BY <1>1, AdmissionNext, SectionsHold, PTL DEF Spec
-----------------------------------------------------------------------------
(* Disconnect cleanups.                                                    *)

\* The connection was taken out of the map and its cleanup has not run.
Pending(c) ==
    section[AssetOf[c]].phase \in {"close", "cleanup"} /\ section[AssetOf[c]].victim = c

\* A connection's cleanup has run once exactly from its removal on; a connection
\* without a ping goroutine was never published.
Tally(c) ==
    /\ cleanups[c] \in {0, 1}
    /\ conns[AssetOf[c]] = c => cleanups[c] = 0 /\ handler[c] # "crashed"
    /\ Pending(c) => cleanups[c] = 0 /\ handler[c] # "crashed" /\ pinger[c] # "off"
    /\ handler[c] \in {"idle", "admitted", "registering"} => pinger[c] = "off"
    /\ handler[c] \in {"reading", "dispatching", "handling", "closing", "finishing"} =>
          pinger[c] # "off"
    /\ pinger[c] = "off" /\ handler[c] # "crashed" =>
          /\ cleanups[c] = 0
          /\ conns[AssetOf[c]] = c => section[AssetOf[c]].phase \in {"publish", "online"}
    /\ pinger[c] # "off" /\ handler[c] # "crashed" /\ conns[AssetOf[c]] # c /\ ~Pending(c) =>
          cleanups[c] = 1
    /\ handler[c] \in {"releasing", "gone"} /\ pinger[c] # "off" => cleanups[c] = 1

\* A section of a ping goroutine belongs to one that waits for it.
Pinged ==
    \A a \in Assets : section[a].op = "ping" =>
        /\ section[a].by \in Conns
        /\ AssetOf[section[a].by] = a
        /\ pinger[section[a].by] = "dropping"

CountInv == Pinged /\ \A c \in Conns : Tally(c)

\* What a connection's tally depends on.
LEMMA TallyFrame ==
    ASSUME NEW c \in Conns, Tally(c), handler'[c] = handler[c], pinger'[c] = pinger[c],
           cleanups'[c] = cleanups[c], conns'[AssetOf[c]] = conns[AssetOf[c]],
           section'[AssetOf[c]] = section[AssetOf[c]]
    PROVE  Tally(c)'
BY DEF Tally, Pending

\* A removal starts.
LEMMA CountTakeOut ==
    ASSUME SectionInv, CountInv, NEW a \in Assets, NEW op \in Ops \ {"free"}, NEW by \in MaybeConn,
           conns[a] # None, section[a].phase \in {"none", "work"}, TakeOut(a, op, by),
           op = "ping" => by \in Conns /\ AssetOf[by] = a /\ pinger[by] = "dropping",
           handler' = handler, pinger' = pinger, cleanups' = cleanups
    PROVE  CountInv'
<1> USE DEF SectionInv, AgentManagerTypeOK
<1> DEFINE new == [op |-> op, by |-> by, victim |-> conns[a], phase |-> "close"]
<1>1. section' = [section EXCEPT ![a] = new] /\ conns' = [conns EXCEPT ![a] = None]
  BY DEF TakeOut
<1>2. Pinged'
  BY <1>1 DEF CountInv, Pinged
<1>3. ASSUME NEW c \in Conns PROVE Tally(c)'
  <2>0. AssetOf[c] \in Assets /\ c # None
    BY AgentManagerAssumption
  <2>1. CASE AssetOf[c] # a
    BY <1>1, <2>0, <2>1, TallyFrame DEF CountInv
  <2>2. CASE AssetOf[c] = a
    <3>1. ~Pending(c) /\ Tally(c)
      BY <2>2 DEF Pending, CountInv
    <3>2. /\ section'[AssetOf[c]] = new /\ conns'[AssetOf[c]] = None
          /\ handler'[c] = handler[c] /\ pinger'[c] = pinger[c] /\ cleanups'[c] = cleanups[c]
      BY <1>1, <2>2
    <3>3. Pending(c)' <=> conns[a] = c
      BY <3>2 DEF Pending
    <3> QED
      BY <2>0, <2>2, <3>1, <3>2, <3>3 DEF Tally
  <2> QED
    BY <2>1, <2>2
<1> QED
  BY <1>2, <1>3 DEF CountInv

\* A removal starts, or finds its connection removed and lets its caller go on.
LEMMA CountUnregister ==
    ASSUME SectionInv, CountInv, NEW a, NEW expected, NEW op \in {"reject", "leave", "ping", "admin"},
           NEW c \in MaybeConn, Unregister(a, expected, op, c),
           op # "admin" => /\ c \in Conns /\ AssetOf[c] = a /\ expected = c,
           op = "reject" => handler[c] = "closing",
           op = "leave" => handler[c] = "finishing",
           op = "ping" => pinger[c] = "dropping"
    PROVE  CountInv'
<1> USE DEF SectionInv, AgentManagerTypeOK, history
<1>0. cleanups' = cleanups
  BY DEF Unregister
<1>1. CASE Matches(a, expected) /\ a \in Assets
  <2>1. /\ section[a].phase = "none" /\ conns[a] # None /\ TakeOut(a, op, c)
        /\ handler' = handler /\ pinger' = pinger
    BY <1>1 DEF Unregister, Unlocked, Phased, Matches
  <2> QED
    BY <1>0, <1>1, <2>1, CountTakeOut DEF Ops
<1>2. CASE ~Matches(a, expected)
  <2>1. section' = section /\ conns' = conns
    BY <1>2 DEF Unregister
  <2>2. CASE op = "admin"
    <3>1. handler' = handler /\ pinger' = pinger
      BY <1>2, <2>2 DEF Unregister, ResumeCaller
    <3> QED
      BY <1>0, <2>1, <3>1 DEF CountInv, Pinged, Tally, Pending
  <2>3. CASE op # "admin"
    <3>1. /\ c \in Conns /\ AssetOf[c] = a /\ a \in Assets /\ conns[a] # c /\ Tally(c)
          /\ section[a].op = "free" /\ section[a].phase = "none"
      BY <1>2, <2>3, AgentManagerAssumption DEF Unregister, Unlocked, Phased, Matches, CountInv
    <3>2. ~Pending(c) /\ ~Pending(c)'
      BY <2>1, <3>1 DEF Pending
    <3>3. /\ handler'[c] = IF op = "ping" THEN handler[c] ELSE AfterSection(op)
          /\ pinger'[c] = IF op = "ping" THEN "stopped" ELSE pinger[c]
          /\ \A d \in Conns \ {c} : handler'[d] = handler[d] /\ pinger'[d] = pinger[d]
      BY <1>2, <2>3, <3>1 DEF Unregister, ResumeCaller
    <3>4. op # "ping" => AfterSection(op) = IF op = "reject" THEN "finishing" ELSE "releasing"
      BY <2>3 DEF AfterSection
    <3>5. Tally(c)'
      BY <1>0, <2>1, <2>3, <3>1, <3>2, <3>3, <3>4 DEF Tally
    <3>6. \A d \in Conns \ {c} : Tally(d)'
      BY <1>0, <2>1, <3>3, TallyFrame DEF CountInv
    <3>7. Pinged'
      BY <2>1, <3>1, <3>3 DEF CountInv, Pinged
    <3> QED
      BY <3>5, <3>6, <3>7 DEF CountInv
  <2> QED
    BY <2>2, <2>3
<1>3. CASE Matches(a, expected) /\ a \notin Assets
  <2>1. TakeOut(a, op, c) /\ handler' = handler /\ pinger' = pinger
    BY <1>3 DEF Unregister
  <2>2. section' = section
    BY <1>3, <2>1 DEF TakeOut
  <2>3. conns' = conns
    BY <1>3, <2>1 DEF TakeOut
  <2> QED
    BY <1>0, <2>1, <2>2, <2>3 DEF CountInv, Pinged, Tally, Pending
<1> QED
  BY <1>1, <1>2, <1>3

\* The steps of a section.
LEMMA CountSection ==
    ASSUME SectionInv, CountInv, NEW a \in Assets, SectionStep(a)
    PROVE  CountInv'
<1> USE DEF SectionInv, AgentManagerTypeOK, Phase, goVars
<1>a. \A c \in Conns : AssetOf[c] \in Assets /\ c # None
  BY AgentManagerAssumption
<1>1. CASE CloseVictim(a) \/ MarkOffline(a) \/ Publish(a)
  <2>1. PICK p \in {"cleanup", "end", "online"} :
           /\ section' = [section EXCEPT ![a].phase = p]
           /\ p = "cleanup" <=> section[a].phase = "close"
           /\ section[a].phase = "publish" <=> p = "online"
           /\ section[a].phase \in {"close", "offline", "publish"}
    BY <1>1 DEF CloseVictim, MarkOffline, Publish
  <2>2. conns' = conns /\ handler' = handler /\ pinger' = pinger /\ cleanups' = cleanups
    BY <1>1 DEF CloseVictim, MarkOffline, Publish, history
  <2>3. Pinged'
    BY <2>1, <2>2 DEF CountInv, Pinged
  <2>4. ASSUME NEW c \in Conns PROVE Tally(c)'
    <3>1. Pending(c)' <=> Pending(c)
      BY <1>a, <2>1 DEF Pending
    <3>2. section[AssetOf[c]].phase \in {"publish", "online"} =>
              section'[AssetOf[c]].phase \in {"publish", "online"}
      BY <1>a, <2>1
    <3> QED
      BY <2>2, <3>1, <3>2 DEF CountInv, Tally
  <2> QED
    BY <2>3, <2>4 DEF CountInv
<1>2. CASE CleanupAgentConnectionState(a)
  <2>v. PICK v \in Conns : v = section[a].victim
    BY <1>2 DEF CleanupAgentConnectionState, Phased
  <2>1. PICK p \in {"offline", "end"} : section' = [section EXCEPT ![a].phase = p]
    BY <1>2 DEF CleanupAgentConnectionState
  <2>2. /\ conns' = conns /\ handler' = handler /\ pinger' = pinger
        /\ cleanups' = [cleanups EXCEPT ![v] = @ + 1]
        /\ section[a].phase = "cleanup"
    BY <1>2, <2>v DEF CleanupAgentConnectionState
  <2>3. Pinged'
    BY <2>1, <2>2 DEF CountInv, Pinged
  <2>4. v \in Conns /\ AssetOf[v] = a /\ conns[a] = None
    BY <2>2, <2>v DEF Phased
  <2>5. Tally(v)'
    <3>1. Pending(v) /\ ~Pending(v)' /\ Tally(v)
      BY <2>1, <2>2, <2>4, <2>v DEF Pending, CountInv
    <3>2. cleanups'[v] = cleanups[v] + 1
      BY <2>2, <2>4
    <3> QED
      BY <1>a, <2>2, <2>4, <3>1, <3>2 DEF Tally
  <2>6. ASSUME NEW c \in Conns \ {v} PROVE Tally(c)'
    <3>1. Pending(c)' <=> Pending(c)
      BY <1>a, <2>1, <2>2, <2>v DEF Pending
    <3>2. cleanups'[c] = cleanups[c] /\ Tally(c)
      BY <2>2 DEF CountInv
    <3>3. section[AssetOf[c]].phase \in {"publish", "online"} =>
              section'[AssetOf[c]].phase \in {"publish", "online"}
      BY <1>a, <2>1, <2>2
    <3> QED
      BY <2>2, <3>1, <3>2, <3>3 DEF Tally
  <2> QED
    BY <2>3, <2>5, <2>6 DEF CountInv
<1>3. CASE EndRemoval(a)
  <2>0. cleanups' = cleanups /\ section[a].phase = "end" /\ conns[a] = None
    BY <1>3 DEF EndRemoval, history, Phased
  <2>1. CASE section[a].op = "register"
    <3> DEFINE by == section[a].by
    <3>1. /\ section' = [section EXCEPT ![a].phase = "publish"]
          /\ conns' = [conns EXCEPT ![a] = by]
          /\ handler' = handler /\ pinger' = pinger
      BY <1>3, <2>1 DEF EndRemoval
    <3>2. by \in Conns /\ AssetOf[by] = a /\ handler[by] = "registering"
      BY <2>1, WaitingAt DEF Owned, CallerOps
    <3>3. Pinged'
      BY <3>1 DEF CountInv, Pinged
    <3>4. ASSUME NEW c \in Conns PROVE Tally(c)'
      <4>1. CASE AssetOf[c] # a
        BY <1>a, <2>0, <3>1, <4>1, TallyFrame DEF CountInv
      <4>2. CASE AssetOf[c] = a
        <5>1. ~Pending(c) /\ ~Pending(c)' /\ Tally(c)
          BY <2>0, <3>1, <4>2 DEF Pending, CountInv
        <5>2. conns'[a] = by /\ section'[a].phase = "publish"
          BY <3>1
        <5> QED
          BY <1>a, <2>0, <3>1, <3>2, <4>2, <5>1, <5>2 DEF Tally
      <4> QED
        BY <4>1, <4>2
    <3> QED
      BY <3>3, <3>4 DEF CountInv
  <2>2. CASE section[a].op # "register"
    <3>1. section' = [section EXCEPT ![a] = Free] /\ conns' = conns
      BY <1>3, <2>2 DEF EndRemoval
    <3>2. section[a].op \in {"reject", "retire", "leave", "dispatch", "ping"} =>
              section[a].by \in Conns /\ AssetOf[section[a].by] = a
      BY DEF Owned, CallerOps, CountInv, Pinged
    <3>3. section[a].op \in {"reject", "retire", "leave", "dispatch"} =>
              handler' = [handler EXCEPT ![section[a].by] = AfterSection(section[a].op)] /\ pinger' = pinger
      BY <1>3, <2>2 DEF EndRemoval, ResumeCaller
    <3>4. section[a].op = "ping" => handler' = handler /\ pinger' = [pinger EXCEPT ![section[a].by] = "stopped"]
      BY <1>3, <2>2 DEF EndRemoval, ResumeCaller
    <3>5. section[a].op \in {"admin", "free"} => handler' = handler /\ pinger' = pinger
      BY <1>3, <2>2 DEF EndRemoval, ResumeCaller
    <3>6. section[a].op \in Ops
      BY DEF Section
    <3>7. Pinged'
      <4>1. \/ pinger' = pinger
            \/ /\ pinger' = [pinger EXCEPT ![section[a].by] = "stopped"]
               /\ AssetOf[section[a].by] = a
        BY <2>2, <3>2, <3>3, <3>4, <3>5, <3>6 DEF Ops
      <4>2. ASSUME NEW b \in Assets, section'[b].op = "ping"
            PROVE  b # a /\ section'[b] = section[b]
        BY <3>1, <4>2 DEF Free
      <4> QED
        BY <4>1, <4>2 DEF CountInv, Pinged
    <3>8. ASSUME NEW c \in Conns,
                 c # section[a].by \/ section[a].op \notin {"reject", "retire", "leave", "dispatch", "ping"}
          PROVE  Tally(c)'
      <4>1. handler'[c] = handler[c] /\ pinger'[c] = pinger[c]
        BY <2>2, <3>3, <3>4, <3>5, <3>6, <3>8 DEF Ops
      <4>2. CASE AssetOf[c] # a
        BY <1>a, <2>0, <3>1, <4>1, <4>2, TallyFrame DEF CountInv
      <4>3. CASE AssetOf[c] = a
        <5>1. ~Pending(c) /\ ~Pending(c)' /\ Tally(c)
          BY <2>0, <3>1, <4>3 DEF Pending, CountInv, Free
        <5> QED
          BY <1>a, <2>0, <3>1, <4>1, <4>3, <5>1 DEF Tally
      <4> QED
        BY <4>2, <4>3
    <3>9. ASSUME section[a].op \in {"reject", "retire", "leave", "dispatch", "ping"},
                 NEW by \in Conns, by = section[a].by
          PROVE  Tally(by)'
      <4>1. ~Pending(by) /\ ~Pending(by)' /\ Tally(by) /\ by # None /\ AssetOf[by] = a
        BY <1>a, <2>0, <3>1, <3>2, <3>9 DEF Pending, CountInv, Free
      <4>2. CASE section[a].op = "ping"
        <5>1. pinger'[by] = "stopped" /\ handler'[by] = handler[by] /\ pinger[by] = "dropping"
          BY <3>4, <3>9, <4>1, <4>2 DEF CountInv, Pinged
        <5> QED
          BY <2>0, <3>1, <4>1, <5>1 DEF Tally
      <4>3. CASE section[a].op = "leave"
        <5>1. /\ pinger'[by] = pinger[by] /\ handler[by] = "finishing"
              /\ handler'[by] = "releasing"
          BY <3>3, <3>9, <4>1, <4>3, WaitingAt DEF Owned, CallerOps, AfterSection
        <5> QED
          BY <2>0, <3>1, <4>1, <5>1 DEF Tally
      <4>4. CASE section[a].op \in {"reject", "retire", "dispatch"}
        <5>1. /\ pinger'[by] = pinger[by]
              /\ handler[by] \in {"closing", "dispatching", "handling"}
              /\ handler'[by] \in {"finishing", "reading"}
          BY <3>3, <3>9, <4>1, <4>4, WaitingAt DEF Owned, CallerOps, AfterSection
        <5> QED
          BY <2>0, <3>1, <4>1, <5>1 DEF Tally
      <4> QED
        BY <3>9, <4>2, <4>3, <4>4
    <3>10. ASSUME NEW c \in Conns PROVE Tally(c)'
      BY <3>8, <3>9
    <3> QED
      BY <3>7, <3>10 DEF CountInv
  <2> QED
    BY <2>1, <2>2
<1>4. CASE GoOnline(a)
  <2> DEFINE by == section[a].by
  <2>1. /\ section' = [section EXCEPT ![a] = Free] /\ conns' = conns
        /\ handler' = [handler EXCEPT ![by] = "reading"]
        /\ pinger' = [pinger EXCEPT ![by] = "pinging"]
        /\ cleanups' = cleanups /\ section[a].phase = "online"
    BY <1>4 DEF GoOnline
  <2>2. /\ by \in Conns /\ AssetOf[by] = a /\ conns[a] = by /\ handler[by] = "registering"
        /\ section[a].op = "register"
    BY <2>1, WaitingAt DEF Owned, Phased, CallerOps
  <2>3. pinger[by] = "off" /\ Tally(by)
    BY <2>2 DEF CountInv, Tally
  <2>4. Pinged'
    BY <2>1, <2>2, <2>3 DEF CountInv, Pinged, Free
  <2>5. ASSUME NEW c \in Conns PROVE Tally(c)'
    <3>1. CASE AssetOf[c] # a
      BY <1>a, <2>1, <2>2, <3>1, TallyFrame DEF CountInv
    <3>2. CASE AssetOf[c] = a
      <4>1. ~Pending(c) /\ ~Pending(c)' /\ Tally(c)
        BY <2>1, <3>2 DEF Pending, CountInv, Free
      <4>2. CASE c = by
        <5>1. handler'[c] = "reading" /\ pinger'[c] = "pinging"
          BY <2>1, <4>2
        <5> QED
          BY <1>a, <2>1, <2>2, <3>2, <4>1, <4>2, <5>1 DEF Tally
      <4>3. CASE c # by
        <5>1. handler'[c] = handler[c] /\ pinger'[c] = pinger[c]
          BY <2>1, <4>3
        <5> QED
          BY <1>a, <2>1, <2>2, <3>2, <4>1, <4>3, <5>1 DEF Tally
      <4> QED
        BY <4>2, <4>3
    <3> QED
      BY <3>1, <3>2
  <2> QED
    BY <2>4, <2>5 DEF CountInv
<1> QED
  BY <1>1, <1>2, <1>3, <1>4 DEF SectionStep

\* The steps of one connection's goroutines.
LEMMA CountConn ==
    ASSUME SectionInv, CountInv, NEW c \in Conns, ConnStep(c)
    PROVE  CountInv'
<1> USE DEF SectionInv, AgentManagerTypeOK, managerVars, goVars, history
<1>a. AssetOf[c] \in Assets /\ c \in MaybeConn /\ c # None /\ Tally(c)
  BY AgentManagerAssumption DEF MaybeConn, CountInv
\* Steps of the handler that leave the map and the sections alone.
<1>1. ASSUME section' = section, conns' = conns, cleanups' = cleanups, pinger' = pinger,
             NEW pc, handler' = [handler EXCEPT ![c] = pc],
             \/ handler[c] = "idle" /\ pc = "admitted"
             \/ handler[c] = "admitted" /\ pc \in {"registering", "releasing"}
             \/ /\ handler[c] \in {"reading", "dispatching", "handling"}
                /\ pc \in {"reading", "dispatching", "handling", "closing", "finishing"}
             \/ handler[c] = "releasing" /\ pc = "gone"
      PROVE  CountInv'
  <2>1. Pinged'
    BY <1>1 DEF CountInv, Pinged
  <2>2. \A d \in Conns \ {c} : Tally(d)'
    BY <1>1, TallyFrame DEF CountInv
  <2>3. Tally(c)'
    <3>1. handler'[c] = pc /\ (Pending(c)' <=> Pending(c))
      BY <1>1 DEF Pending
    <3> QED
      BY <1>1, <1>a, <3>1 DEF Tally
  <2> QED
    BY <2>1, <2>2, <2>3 DEF CountInv
<1>2. CASE Dial(c) \/ Upgrade(c) \/ Receive(c) \/ ReadFails(c) \/ ReleaseAdmission(c)
  <2>1. section' = section /\ conns' = conns /\ cleanups' = cleanups /\ pinger' = pinger
    BY <1>2 DEF Dial, Upgrade, Receive, ReadFails, ReleaseAdmission
  <2>2. \E pc \in HandlerPC : /\ handler' = [handler EXCEPT ![c] = pc]
             /\ \/ handler[c] = "idle" /\ pc = "admitted"
                \/ handler[c] = "admitted" /\ pc \in {"registering", "releasing"}
                \/ /\ handler[c] \in {"reading", "dispatching", "handling"}
                   /\ pc \in {"reading", "dispatching", "handling", "closing", "finishing"}
                \/ handler[c] = "releasing" /\ pc = "gone"
    BY <1>2 DEF Dial, Upgrade, Receive, ReadFails, ReleaseAdmission, HandlerPC
  <2> QED
    BY <1>1, <2>1, <2>2
\* Steps that touch only sockets.
<1>3. ASSUME section' = section, conns' = conns, cleanups' = cleanups, pinger' = pinger,
             handler' = handler
      PROVE  CountInv'
  BY <1>3 DEF CountInv, Pinged, Tally, Pending
<1>4. CASE Pong(c)
  <2>1. section' = section /\ conns' = conns /\ cleanups' = cleanups /\ pinger' = pinger
    BY <1>4 DEF Pong
  <2>2. \/ handler' = handler
        \/ handler[c] = "reading" /\ handler' = [handler EXCEPT ![c] = "finishing"]
    BY <1>4 DEF Pong
  <2> QED
    BY <1>1, <1>3, <2>1, <2>2
<1>5. CASE Send(c) \/ LeaseExpires(c)
  BY <1>3, <1>5 DEF Send, LeaseExpires
<1>6. CASE Ping(c) \/ PingStops(c)
  <2>1. section' = section /\ conns' = conns /\ cleanups' = cleanups /\ handler' = handler
    BY <1>6 DEF Ping, PingStops
  <2>2. /\ pinger[c] = "pinging"
        /\ \/ pinger' = pinger
           \/ \E pc \in {"dropping", "stopped"} : pinger' = [pinger EXCEPT ![c] = pc]
    BY <1>6 DEF Ping, PingStops
  <2>3. CASE pinger' = pinger
    BY <1>3, <2>1, <2>3
  <2>4. CASE \E pc \in {"dropping", "stopped"} : pinger' = [pinger EXCEPT ![c] = pc]
    <3>1. \A d \in Conns \ {c} : Tally(d)'
      BY <2>1, <2>4, TallyFrame DEF CountInv
    <3>2. pinger'[c] # "off" /\ (Pending(c)' <=> Pending(c))
      BY <2>1, <2>4 DEF Pending
    <3>3. Tally(c)'
      BY <1>a, <2>1, <2>2, <3>2 DEF Tally
    <3>4. Pinged'
      BY <2>1, <2>2, <2>4 DEF CountInv, Pinged
    <3> QED
      BY <3>1, <3>3, <3>4 DEF CountInv
  <2> QED
    BY <2>2, <2>3, <2>4
\* A section opens or closes without a removal.
<1>7. ASSUME NEW new \in Section, section' = [section EXCEPT ![AssetOf[c]] = new],
             new.phase \in {"none", "work", "end"}, new.op # "ping",
             section[AssetOf[c]].phase \in {"none", "work"},
             conns' = conns, cleanups' = cleanups, pinger' = pinger,
             NEW pc, handler' = [handler EXCEPT ![c] = pc],
             \/ pc = handler[c]
             \/ /\ handler[c] \in {"dispatching", "handling"}
                /\ pc \in {"reading", "handling"}
      PROVE  CountInv'
  <2>1. Pinged'
    BY <1>7, <1>a DEF CountInv, Pinged
  <2>2. ASSUME NEW d \in Conns PROVE Tally(d)'
    <3>0. AssetOf[d] \in Assets
      BY AgentManagerAssumption
    <3>1. CASE AssetOf[d] # AssetOf[c]
      BY <1>7, <3>0, <3>1, TallyFrame DEF CountInv
    <3>2. CASE AssetOf[d] = AssetOf[c]
      <4>1. ~Pending(d) /\ ~Pending(d)' /\ Tally(d)
        BY <1>7, <1>a, <3>2 DEF Pending, CountInv
      <4>2. handler'[d] = IF d = c THEN pc ELSE handler[d]
        BY <1>7
      <4> QED
        BY <1>7, <1>a, <3>2, <4>1, <4>2 DEF Tally
    <3> QED
      BY <3>1, <3>2
  <2> QED
    BY <2>1, <2>2 DEF CountInv
<1>8. CASE Register(c)
  <2>0. /\ handler' = handler /\ pinger' = pinger /\ cleanups' = cleanups
        /\ section[AssetOf[c]].phase = "none"
    BY <1>8, <1>a DEF Register, Unlocked, Phased
  <2>1. CASE Matches(AssetOf[c], None)
    BY <1>8, <1>a, <2>0, <2>1, CountTakeOut DEF Register, Matches, Ops
  <2>2. CASE ~Matches(AssetOf[c], None)
    <3>1. /\ section' = [section EXCEPT ![AssetOf[c]] =
                            [op |-> "register", by |-> c, victim |-> None, phase |-> "end"]]
          /\ conns' = conns
      BY <1>8, <2>2 DEF Register
    <3>2. [op |-> "register", by |-> c, victim |-> None, phase |-> "end"] \in Section
      BY <1>a DEF Section, Ops, Phases, MaybeConn
    <3>3. handler' = [handler EXCEPT ![c] = handler[c]]
      BY <2>0
    <3> QED
      BY <1>7, <2>0, <3>1, <3>2, <3>3
  <2> QED
    BY <2>1, <2>2
<1>9. CASE Dispatch(c)
  <2>0. /\ handler[c] = "dispatching" /\ pinger' = pinger /\ cleanups' = cleanups
        /\ section[AssetOf[c]].phase = "none"
    BY <1>9, <1>a DEF Dispatch, Unlocked, Phased
  <2>1. CASE /\ handler' = [handler EXCEPT ![c] = "finishing"]
             /\ conns' = conns /\ section' = section
    BY <1>1, <2>0, <2>1
  <2>2. CASE conns[AssetOf[c]] = c /\ TakeOut(AssetOf[c], "retire", c) /\ handler' = handler
    BY <1>a, <2>0, <2>2, CountTakeOut DEF Ops
  <2>3. CASE /\ handler' = [handler EXCEPT ![c] = "handling"]
             /\ section' = [section EXCEPT ![AssetOf[c]] =
                               [op |-> "dispatch", by |-> c, victim |-> None, phase |-> "work"]]
             /\ conns' = conns
    <3>1. [op |-> "dispatch", by |-> c, victim |-> None, phase |-> "work"] \in Section
      BY <1>a DEF Section, Ops, Phases, MaybeConn
    <3> QED
      BY <1>7, <2>0, <2>3, <3>1
  <2> QED
    BY <1>9, <2>1, <2>2, <2>3 DEF Dispatch
<1>10. CASE Handle(c)
  <2>0. /\ handler[c] = "handling" /\ pinger' = pinger /\ cleanups' = cleanups
        /\ section[AssetOf[c]].phase = "work" /\ conns[AssetOf[c]] = c
    BY <1>10, <1>a DEF Handle, Phased, Placed
  <2>1. CASE TakeOut(AssetOf[c], "dispatch", c) /\ handler' = handler
    BY <1>a, <2>0, <2>1, CountTakeOut DEF Ops
  <2>2. CASE /\ section' = [section EXCEPT ![AssetOf[c]] = Free]
             /\ handler' = [handler EXCEPT ![c] = "reading"]
             /\ conns' = conns
    <3>1. Free \in Section /\ Free.phase = "none" /\ Free.op = "free"
      BY DEF Free, Section, Ops, Phases, MaybeConn
    <3> QED
      BY <1>7, <2>0, <2>2, <3>1
  <2> QED
    BY <1>10, <2>1, <2>2 DEF Handle
<1>11. CASE Reject(c)
  BY <1>11, <1>a, CountUnregister DEF Reject
<1>12. CASE Finish(c)
  BY <1>12, <1>a, CountUnregister DEF Finish
<1>13. CASE PingDrops(c)
  BY <1>13, <1>a, CountUnregister DEF PingDrops
<1> QED
  BY <1>2, <1>4, <1>5, <1>6, <1>8, <1>9, <1>10, <1>11, <1>12, <1>13
     DEF ConnStep, HandlerStep, PingerStep

LEMMA CountNext == SectionInv /\ CountInv /\ [Next]_vars => CountInv'
<1> SUFFICES ASSUME SectionInv, CountInv, [Next]_vars PROVE CountInv'
  OBVIOUS
<1> USE DEF managerVars, goVars, storeVars, history
<1>1. CASE \E a \in Assets : SectionStep(a)
  BY <1>1, CountSection
<1>2. CASE \E c \in Conns : ConnStep(c)
  BY <1>2, CountConn
<1>3. CASE AdminDrop \/ DeleteUnregister
  <2>1. None \in MaybeConn
    BY DEF MaybeConn
  <2> QED
    BY <1>3, <2>1, CountUnregister DEF AdminDrop, DeleteUnregister
<1>4. CASE \/ \E a \in Assets : RowAges(a) \/ DeleteStart(a)
           \/ SweepList \/ SweepCheck \/ SweepDelete \/ SweepOffline
           \/ \E t \in Tokens : RevokeStart(t) \/ \E a \in Assets : Recover(a, t)
           \/ RevokeCommit \/ RecoverLook \/ DeleteCommit \/ UNCHANGED vars
  <2>1. section' = section /\ conns' = conns /\ handler' = handler /\ pinger' = pinger
        /\ cleanups' = cleanups
    BY <1>4 DEF RowAges, DeleteStart, SweepList, SweepCheck, SweepDelete, SweepOffline,
                RevokeStart, Recover, RevokeCommit, RecoverLook, DeleteCommit, vars
  <2> QED
    BY <2>1 DEF CountInv, Pinged, Tally, Pending
<1>5. CASE Crash
  <2>1. /\ section' = [a \in Assets |-> Free] /\ conns' = [a \in Assets |-> None]
        /\ cleanups' = cleanups
        /\ \A c \in Conns : /\ handler'[c] = IF handler[c] \in {"idle", "gone"} THEN handler[c]
                                              ELSE "crashed"
                            /\ pinger'[c] = "off" <=> pinger[c] = "off"
    BY <1>5 DEF Crash
  <2>2. Pinged'
    BY <2>1 DEF Pinged, Free
  <2>3. ASSUME NEW c \in Conns PROVE Tally(c)'
    <3>1. conns'[AssetOf[c]] # c /\ ~Pending(c)'
      BY <2>1, AgentManagerAssumption DEF Pending, Free
    <3> QED
      BY <2>1, <3>1 DEF CountInv, Tally
  <2> QED
    BY <2>2, <2>3 DEF CountInv
<1> QED
  BY <1>1, <1>2, <1>3, <1>4, <1>5 DEF Next, AdminStep

\* Whoever removes a connection, its disconnect cleanup runs once: never while it
\* is current, and before its handler gives the admission back.
THEOREM CleanupsRight == Spec => []CleanupOnce
<1>1. Init => CountInv
  <2> SUFFICES ASSUME Init PROVE CountInv
    OBVIOUS
  <2>1. Pinged
    BY DEF Init, Pinged, Free
  <2>2. ASSUME NEW c \in Conns PROVE Tally(c)
    <3>1. /\ cleanups[c] = 0 /\ handler[c] = "idle" /\ pinger[c] = "off"
          /\ conns[AssetOf[c]] # c /\ ~Pending(c)
      BY AgentManagerAssumption DEF Init, Pending, Free
    <3> QED
      BY <3>1 DEF Tally
  <2> QED
    BY <2>1, <2>2 DEF CountInv
<1>2. CountInv => CleanupOnce
  BY DEF CountInv, Tally, CleanupOnce
<1> QED
  BY <1>1, <1>2, CountNext, SectionsHold, PTL DEF Spec
-----------------------------------------------------------------------------
(* Presence rows.                                                          *)

Early == {"idle", "admitted", "registering"}

\* A session in the table was published, the latest of them just now.
Published(a, s) ==
    s # None => /\ s \in Conns /\ AssetOf[s] = a
                /\ handler[s] \in Early => conns[a] = s /\ section[a].phase = "online"

\* A session that is over and never comes back.
Retired(a, s) ==
    s # None => s \in Conns /\ AssetOf[s] = a /\ handler[s] \notin Early /\ conns[a] # s

SweepState == [pc : {"idle", "next", "delete", "offline"}, todo : SUBSET (Assets \X MaybeConn),
               asset : Assets \cup {None}, session : MaybeConn]

\* What the presence cleanup loop remembers while it works.
Swept ==
    /\ sweep \in SweepState
    /\ \A row \in sweep.todo : Published(row[1], row[2])
    /\ sweep.pc = "delete" => sweep.asset \in Assets /\ Retired(sweep.asset, sweep.session)

\* The row of an asset in each phase of its section, if no write was lost.
RowFollows(a) ==
    ~lapsed[a] /\ assetRow[a] =>
        /\ section[a].phase \in {"none", "work", "online"} => presence[a].session = conns[a]
        /\ section[a].phase \in {"close", "cleanup"} =>
              presence[a].session \in {section[a].victim, None}
        /\ section[a].phase \in {"offline", "end"} => presence[a].session = None

PresenceInv ==
    /\ Swept
    /\ \A a \in Assets : Published(a, presence[a].session) /\ RowFollows(a)

\* What any step outside the section of an asset does to its connection.
MapStep(a) ==
    \/ section'[a] = section[a] /\ conns'[a] = conns[a]
    \/ /\ section[a].phase \in {"none", "work"}
       /\ \/ conns'[a] = conns[a] /\ section'[a].phase \in {"none", "work"}
          \/ conns[a] = None /\ conns'[a] = None /\ section'[a].phase = "end"
          \/ conns'[a] = None /\ section'[a].phase = "close" /\ section'[a].victim = conns[a]

LEMMA MapTakeOut ==
    ASSUME SectionInv, NEW a \in Assets, NEW b, NEW op, NEW by,
           b = a => section[a].phase \in {"none", "work"}, TakeOut(b, op, by)
    PROVE  MapStep(a)
<1> USE DEF SectionInv, AgentManagerTypeOK
<1>1. CASE b = a
  BY <1>1 DEF TakeOut, MapStep
<1>2. CASE b # a
  BY <1>2 DEF TakeOut, MapStep
<1> QED
  BY <1>1, <1>2

LEMMA MapUnregister ==
    ASSUME SectionInv, NEW a \in Assets, NEW b, NEW expected, NEW op, NEW c,
           Unregister(b, expected, op, c)
    PROVE  MapStep(a)
<1>1. b = a => section[a].phase = "none"
  BY DEF Unregister, Unlocked, SectionInv, Phased
<1>2. TakeOut(b, op, c) \/ (section' = section /\ conns' = conns)
  BY DEF Unregister
<1>3. CASE TakeOut(b, op, c)
  BY <1>1, <1>3, MapTakeOut
<1>4. CASE section' = section /\ conns' = conns
  BY <1>4 DEF MapStep
<1> QED
  BY <1>2, <1>3, <1>4

LEMMA MapConn ==
    ASSUME SectionInv, NEW a \in Assets, NEW c \in Conns, ConnStep(c)
    PROVE  MapStep(a)
<1> USE DEF SectionInv, AgentManagerTypeOK, managerVars, goVars, history
<1>a. AssetOf[c] \in Assets
  BY AgentManagerAssumption
<1>1. CASE Reject(c) \/ Finish(c) \/ PingDrops(c)
  BY <1>1, MapUnregister DEF Reject, Finish, PingDrops
<1>2. CASE \/ Dial(c) \/ Upgrade(c) \/ Receive(c) \/ Pong(c) \/ ReadFails(c) \/ ReleaseAdmission(c)
           \/ Send(c) \/ LeaseExpires(c) \/ Ping(c) \/ PingStops(c)
  BY <1>2 DEF Dial, Upgrade, Receive, Pong, ReadFails, ReleaseAdmission, Send, LeaseExpires,
              Ping, PingStops, MapStep
<1>3. CASE Register(c)
  <2>1. section[AssetOf[c]].phase = "none"
    BY <1>3, <1>a DEF Register, Unlocked, Phased
  <2>2. CASE Matches(AssetOf[c], None)
    BY <1>3, <2>1, <2>2, MapTakeOut DEF Register
  <2>3. CASE ~Matches(AssetOf[c], None)
    <3>1. /\ section' = [section EXCEPT ![AssetOf[c]] =
                            [op |-> "register", by |-> c, victim |-> None, phase |-> "end"]]
          /\ conns' = conns /\ conns[AssetOf[c]] = None
      BY <1>3, <2>3 DEF Register, Matches
    <3> QED
      BY <1>a, <2>1, <3>1 DEF MapStep
  <2> QED
    BY <2>2, <2>3
<1>4. CASE Dispatch(c)
  <2>1. section[AssetOf[c]].phase = "none"
    BY <1>4, <1>a DEF Dispatch, Unlocked, Phased
  <2>2. \/ section' = section /\ conns' = conns
        \/ TakeOut(AssetOf[c], "retire", c)
        \/ /\ section' = [section EXCEPT ![AssetOf[c]] =
                             [op |-> "dispatch", by |-> c, victim |-> None, phase |-> "work"]]
           /\ conns' = conns
    BY <1>4 DEF Dispatch
  <2>3. CASE TakeOut(AssetOf[c], "retire", c)
    BY <2>1, <2>3, MapTakeOut
  <2>4. CASE \/ section' = section /\ conns' = conns
             \/ /\ section' = [section EXCEPT ![AssetOf[c]] =
                             [op |-> "dispatch", by |-> c, victim |-> None, phase |-> "work"]]
                /\ conns' = conns
    BY <1>a, <2>1, <2>4 DEF MapStep
  <2> QED
    BY <2>2, <2>3, <2>4
<1>5. CASE Handle(c)
  <2>1. section[AssetOf[c]].phase = "work"
    BY <1>5 DEF Handle
  <2>2. \/ TakeOut(AssetOf[c], "dispatch", c)
        \/ section' = [section EXCEPT ![AssetOf[c]] = Free] /\ conns' = conns
    BY <1>5 DEF Handle
  <2>3. CASE TakeOut(AssetOf[c], "dispatch", c)
    BY <2>1, <2>3, MapTakeOut
  <2>4. CASE section' = [section EXCEPT ![AssetOf[c]] = Free] /\ conns' = conns
    BY <1>a, <2>1, <2>4 DEF MapStep, Free
  <2> QED
    BY <2>2, <2>3, <2>4
<1> QED
  BY <1>1, <1>2, <1>3, <1>4, <1>5 DEF ConnStep, HandlerStep, PingerStep

LEMMA MapMoves ==
    ASSUME SectionInv, NEW a \in Assets, [Next]_vars, ~Crash, ~SectionStep(a)
    PROVE  MapStep(a)
<1> USE DEF managerVars, goVars, storeVars, history
<1>1. ASSUME NEW b \in Assets, SectionStep(b) PROVE MapStep(a)
  <2>1. b # a
    BY <1>1
  <2>2. section'[a] = section[a] /\ conns'[a] = conns[a]
    BY <1>1, <2>1 DEF SectionStep, CloseVictim, CleanupAgentConnectionState, MarkOffline,
       EndRemoval, Publish, GoOnline, Phase, SectionInv, AgentManagerTypeOK
  <2> QED
    BY <2>2 DEF MapStep
<1>2. CASE \E c \in Conns : ConnStep(c)
  BY <1>2, MapConn
<1>3. CASE AdminDrop \/ DeleteUnregister
  BY <1>3, MapUnregister DEF AdminDrop, DeleteUnregister
<1>4. CASE \/ \E b \in Assets : RowAges(b) \/ DeleteStart(b)
           \/ SweepList \/ SweepCheck \/ SweepDelete \/ SweepOffline
           \/ \E t \in Tokens : RevokeStart(t) \/ \E b \in Assets : Recover(b, t)
           \/ RevokeCommit \/ RecoverLook \/ DeleteCommit \/ UNCHANGED vars
  <2>1. section' = section /\ conns' = conns
    BY <1>4 DEF RowAges, DeleteStart, SweepList, SweepCheck, SweepDelete, SweepOffline,
                RevokeStart, Recover, RevokeCommit, RecoverLook, DeleteCommit, vars
  <2> QED
    BY <2>1 DEF MapStep
<1> QED
  BY <1>1, <1>2, <1>3, <1>4 DEF Next, AdminStep

\* No handler goes back before its registration.
LEMMA NeverEarlyAgain ==
    ASSUME SectionInv, [Next]_vars, NEW s \in Conns, handler[s] \notin Early
    PROVE  handler'[s] \notin Early
<1> USE DEF SectionInv, AgentManagerTypeOK, managerVars, goVars, storeVars, history, Early
<1>r. ASSUME NEW op, NEW c, ResumeCaller(op, c) PROVE handler'[s] \notin Early
  <2>1. AfterSection(op) \in {"finishing", "releasing", "reading"}
    BY DEF AfterSection
  <2> QED
    BY <1>r, <2>1 DEF ResumeCaller
<1>u. ASSUME NEW a, NEW expected, NEW op, NEW c, Unregister(a, expected, op, c)
      PROVE  handler'[s] \notin Early
  BY <1>u, <1>r DEF Unregister
<1>1. ASSUME NEW a \in Assets, SectionStep(a) PROVE handler'[s] \notin Early
  <2>1. CASE EndRemoval(a)
    BY <1>r, <2>1 DEF EndRemoval
  <2>2. CASE ~EndRemoval(a)
    BY <1>1, <2>2 DEF SectionStep, CloseVictim, CleanupAgentConnectionState, MarkOffline, Publish,
                      GoOnline
  <2> QED
    BY <2>1, <2>2
<1>2. ASSUME NEW c \in Conns, ConnStep(c) PROVE handler'[s] \notin Early
  <2>1. CASE Reject(c) \/ Finish(c) \/ PingDrops(c)
    BY <1>u, <2>1 DEF Reject, Finish, PingDrops
  <2>2. CASE \/ Dial(c) \/ Upgrade(c) \/ Receive(c) \/ Pong(c) \/ ReadFails(c)
             \/ ReleaseAdmission(c) \/ Dispatch(c) \/ Handle(c)
    BY <2>2 DEF Dial, Upgrade, Receive, Pong, ReadFails, ReleaseAdmission, Dispatch, Handle
  <2>3. CASE Send(c) \/ LeaseExpires(c) \/ Ping(c) \/ PingStops(c) \/ Register(c)
    BY <2>3 DEF Send, LeaseExpires, Ping, PingStops, Register
  <2> QED
    BY <1>2, <2>1, <2>2, <2>3 DEF ConnStep, HandlerStep, PingerStep
<1>3. CASE AdminDrop \/ DeleteUnregister
  BY <1>3, <1>u DEF AdminDrop, DeleteUnregister
<1>4. CASE \/ \E b \in Assets : RowAges(b) \/ DeleteStart(b)
           \/ SweepList \/ SweepCheck \/ SweepDelete \/ SweepOffline
           \/ \E t \in Tokens : RevokeStart(t) \/ \E b \in Assets : Recover(b, t)
           \/ RevokeCommit \/ RecoverLook \/ DeleteCommit \/ UNCHANGED vars
  BY <1>4 DEF RowAges, DeleteStart, SweepList, SweepCheck, SweepDelete, SweepOffline,
              RevokeStart, Recover, RevokeCommit, RecoverLook, DeleteCommit, vars
<1>5. CASE Crash
  BY <1>5 DEF Crash
<1> QED
  BY <1>1, <1>2, <1>3, <1>4, <1>5 DEF Next, AdminStep

LEMMA PublishedStays ==
    ASSUME SectionInv, [Next]_vars, NEW a \in Assets, NEW s, Published(a, s)
    PROVE  Published(a, s)'
<1> SUFFICES ASSUME s # None
             PROVE  /\ s \in Conns /\ AssetOf[s] = a
                    /\ handler'[s] \in Early => conns'[a] = s /\ section'[a].phase = "online"
  BY DEF Published
<1>1. s \in Conns /\ AssetOf[s] = a
  BY DEF Published
<1>2. CASE handler[s] \notin Early
  BY <1>1, <1>2, NeverEarlyAgain
<1>3. CASE handler[s] \in Early
  <2>1. /\ conns[a] = s /\ section[a].phase = "online" /\ section[a].by = s
        /\ handler[s] = "registering"
    BY <1>1, <1>3, WaitingAt DEF Published, SectionInv, Phased, Owned, CallerOps
  <2>2. CASE SectionStep(a)
    <3>1. GoOnline(a)
      BY <2>1, <2>2 DEF SectionStep, CloseVictim, CleanupAgentConnectionState, MarkOffline,
                        EndRemoval, Publish
    <3>2. handler'[s] = "reading"
      BY <1>1, <2>1, <3>1 DEF GoOnline, SectionInv, AgentManagerTypeOK
    <3> QED
      BY <1>1, <3>2 DEF Early
  <2>3. CASE Crash
    <3>1. handler'[s] = "crashed"
      BY <1>1, <2>1, <2>3 DEF Crash
    <3> QED
      BY <1>1, <3>1 DEF Early
  <2>4. CASE ~SectionStep(a) /\ ~Crash
    BY <1>1, <2>1, <2>4, MapMoves DEF MapStep
  <2> QED
    BY <2>2, <2>3, <2>4
<1> QED
  BY <1>2, <1>3

LEMMA RetiredStays ==
    ASSUME SectionInv, [Next]_vars, NEW a \in Assets, NEW s, Retired(a, s)
    PROVE  Retired(a, s)'
<1> SUFFICES ASSUME s # None
             PROVE  s \in Conns /\ AssetOf[s] = a /\ handler'[s] \notin Early /\ conns'[a] # s
  BY DEF Retired
<1>1. s \in Conns /\ AssetOf[s] = a /\ handler[s] \notin Early /\ conns[a] # s
  BY DEF Retired
<1>2. handler'[s] \notin Early
  BY <1>1, NeverEarlyAgain
<1>3. CASE SectionStep(a)
  <2>1. \/ conns' = conns
        \/ section[a].op = "register" /\ conns' = [conns EXCEPT ![a] = section[a].by]
    BY <1>3 DEF SectionStep, CloseVictim, CleanupAgentConnectionState, MarkOffline, EndRemoval,
                Publish, GoOnline
  <2>2. section[a].op = "register" => section[a].by # s
    BY <1>1, WaitingAt DEF SectionInv, Owned, CallerOps, Early
  <2> QED
    BY <1>1, <1>2, <2>1, <2>2 DEF SectionInv, AgentManagerTypeOK
<1>4. CASE Crash
  BY <1>1, <1>2, <1>4 DEF Crash
<1>5. CASE ~SectionStep(a) /\ ~Crash
  BY <1>1, <1>2, <1>5, MapMoves DEF MapStep
<1> QED
  BY <1>3, <1>4, <1>5

\* The presence cleanup loop.
LEMMA SweptStays ==
    ASSUME SectionInv, PresenceInv, [Next]_vars
    PROVE  Swept'
<1> USE DEF managerVars, goVars, storeVars, history
<1>t. sweep \in SweepState /\ sweep.todo \subseteq Assets \X MaybeConn
  BY DEF PresenceInv, Swept, SweepState
<1>s. ASSUME sweep' \in SweepState,
             \A row \in sweep'.todo : row[1] \in Assets /\ Published(row[1], row[2]),
             sweep'.pc = "delete" =>
                sweep'.asset \in Assets /\ Retired(sweep'.asset, sweep'.session)
      PROVE  Swept'
  <2>1. ASSUME NEW row \in sweep'.todo PROVE Published(row[1], row[2])'
    BY <1>s, <2>1, PublishedStays
  <2>2. ASSUME sweep'.pc = "delete", NEW a \in Assets, NEW x, a = sweep'.asset, x = sweep'.session
        PROVE  Retired(a, x)'
    BY <1>s, <2>2, RetiredStays
  <2>3. sweep'.pc = "delete" => sweep'.asset \in Assets /\ Retired(sweep.asset, sweep.session)'
    BY <1>s, <2>2 DEF Retired
  <2> QED
    BY <1>s, <2>1, <2>3 DEF Swept
<1>o. \A row \in sweep.todo : row[1] \in Assets /\ Published(row[1], row[2])
  BY <1>t DEF PresenceInv, Swept
<1>i. IdleSweep \in SweepState /\ IdleSweep.todo = {} /\ IdleSweep.pc = "idle"
  BY DEF IdleSweep, SweepState, MaybeConn
<1>c. SweepOn \in SweepState /\ SweepOn.todo = sweep.todo /\ SweepOn.pc # "delete"
  BY <1>t, <1>i DEF SweepOn, SweepState, MaybeConn
<1>1. CASE SweepList
  <2> DEFINE todo == {<<a, presence[a].session>> : a \in {b \in Assets : presence[b].stale}}
  <2>1. sweep' = [sweep EXCEPT !.pc = "next", !.todo = todo]
    BY <1>1 DEF SweepList
  <2>2. todo \subseteq Assets \X MaybeConn
    BY DEF SectionInv, AgentManagerTypeOK, Row
  <2>3. sweep' \in SweepState /\ sweep'.todo = todo /\ sweep'.pc = "next"
    BY <1>t, <2>1, <2>2 DEF SweepState
  <2>4. \A row \in todo : row[1] \in Assets /\ Published(row[1], row[2])
    BY DEF PresenceInv
  <2> QED
    BY <1>s, <2>3, <2>4
<1>2. CASE SweepCheck
  <2>1. PICK row \in sweep.todo :
           sweep' = IF conns[row[1]] # None
                    THEN IF sweep.todo = {row} THEN IdleSweep
                         ELSE [sweep EXCEPT !.todo = @ \ {row}]
                    ELSE [pc |-> "delete", todo |-> sweep.todo \ {row},
                          asset |-> row[1], session |-> row[2]]
    BY <1>2 DEF SweepCheck
  <2>2. row[1] \in Assets /\ row[2] \in MaybeConn /\ Published(row[1], row[2])
    BY <1>t, <1>o
  <2>3. CASE conns[row[1]] # None /\ sweep.todo = {row}
    BY <1>i, <1>s, <2>1, <2>3
  <2>4. CASE conns[row[1]] # None /\ sweep.todo # {row}
    <3>1. /\ sweep' \in SweepState /\ sweep'.todo = sweep.todo \ {row} /\ sweep'.pc = "next"
      BY <1>2, <1>t, <2>1, <2>4 DEF SweepState, SweepCheck
    <3> QED
      BY <1>o, <1>s, <3>1
  <2>5. CASE conns[row[1]] = None
    <3>1. /\ sweep' \in SweepState /\ sweep'.todo = sweep.todo \ {row}
          /\ sweep'.asset = row[1] /\ sweep'.session = row[2]
      BY <1>t, <2>1, <2>2, <2>5 DEF SweepState
    <3>2. Retired(row[1], row[2])
      BY <2>2, <2>5 DEF Published, Retired
    <3> QED
      BY <1>o, <1>s, <2>2, <3>1, <3>2
  <2> QED
    BY <2>3, <2>4, <2>5
<1>3. CASE SweepDelete
  <2>1. sweep.pc = "delete" /\ (sweep' = [sweep EXCEPT !.pc = "offline"] \/ sweep' = SweepOn)
    BY <1>3 DEF SweepDelete
  <2>2. CASE sweep' = [sweep EXCEPT !.pc = "offline"]
    <3>1. sweep' \in SweepState /\ sweep'.todo = sweep.todo /\ sweep'.pc = "offline"
      BY <1>t, <2>2 DEF SweepState
    <3> QED
      BY <1>o, <1>s, <3>1
  <2>3. CASE sweep' = SweepOn
    BY <1>c, <1>o, <1>s, <2>3
  <2> QED
    BY <2>1, <2>2, <2>3
<1>4. CASE SweepOffline
  BY <1>4, <1>c, <1>o, <1>s DEF SweepOffline
<1>5. CASE Crash
  BY <1>5, <1>i, <1>s DEF Crash
<1>6. CASE ~SweepList /\ ~SweepCheck /\ ~SweepDelete /\ ~SweepOffline /\ ~Crash
  <2>1. sweep' = sweep
    <3>1. ASSUME NEW a, NEW expected, NEW op, NEW c, Unregister(a, expected, op, c)
          PROVE  sweep' = sweep
      BY <3>1 DEF Unregister
    <3>2. ASSUME NEW a \in Assets, SectionStep(a) \/ RowAges(a) \/ DeleteStart(a)
          PROVE  sweep' = sweep
      BY <3>2 DEF SectionStep, CloseVictim, CleanupAgentConnectionState, MarkOffline, EndRemoval,
                  Publish, GoOnline, RowAges, DeleteStart
    <3>3. ASSUME NEW c \in Conns, ConnStep(c) PROVE sweep' = sweep
      BY <3>1, <3>3 DEF ConnStep, HandlerStep, PingerStep, Dial, Upgrade, Register, Receive, Pong,
         ReadFails, Dispatch, Handle, Reject, Finish, ReleaseAdmission, Ping, PingStops, PingDrops,
         Send, LeaseExpires
    <3>4. CASE AdminStep \/ UNCHANGED vars \/ \E t \in Tokens : RevokeStart(t)
                                                 \/ \E a \in Assets : Recover(a, t)
      BY <3>1, <3>4 DEF AdminStep, RevokeCommit, RecoverLook, AdminDrop, DeleteCommit,
                        DeleteUnregister, RevokeStart, Recover, vars
    <3> QED
      BY <1>6, <3>2, <3>3, <3>4 DEF Next
  <2> QED
    BY <1>o, <1>s, <1>t, <2>1 DEF PresenceInv, Swept
<1> QED
  BY <1>1, <1>2, <1>3, <1>4, <1>5, <1>6

\* What a step outside the section of an asset does to its presence row.
LEMMA RowMoves ==
    ASSUME SectionInv, PresenceInv, NEW a \in Assets, [Next]_vars, ~Crash, ~SectionStep(a)
    PROVE  /\ ~lapsed'[a] /\ assetRow'[a] => ~lapsed[a] /\ assetRow[a]
           /\ \/ presence'[a].session = presence[a].session
              \/ presence'[a].session = None /\ ~assetRow'[a]
              \/ /\ presence'[a].session = None /\ Retired(a, presence[a].session)
                 /\ section' = section /\ conns' = conns
<1> USE DEF managerVars, goVars, storeVars, history
<1>t. /\ presence \in [Assets -> Row] /\ presence[a] \in Row
      /\ lapsed \in [Assets -> BOOLEAN] /\ assetRow \in [Assets -> BOOLEAN]
  BY DEF SectionInv, AgentManagerTypeOK
<1>s. ASSUME presence' = presence, lapsed' = lapsed, assetRow' = assetRow
      PROVE  /\ ~lapsed'[a] /\ assetRow'[a] => ~lapsed[a] /\ assetRow[a]
             /\ presence'[a].session = presence[a].session
  BY <1>s
<1>u. ASSUME NEW b, NEW expected, NEW op, NEW c, Unregister(b, expected, op, c)
      PROVE  presence' = presence /\ lapsed' = lapsed /\ assetRow' = assetRow
  BY <1>u DEF Unregister
<1>1. ASSUME NEW b \in Assets, SectionStep(b)
      PROVE  /\ ~lapsed'[a] /\ assetRow'[a] => ~lapsed[a] /\ assetRow[a]
             /\ presence'[a].session = presence[a].session
  <2>1. b # a /\ assetRow' = assetRow
    BY <1>1 DEF SectionStep, CloseVictim, CleanupAgentConnectionState, MarkOffline, EndRemoval,
                Publish, GoOnline
  <2>2. lapsed'[a] = lapsed[a]
    BY <1>1, <1>t, <2>1 DEF SectionStep, CloseVictim, CleanupAgentConnectionState, MarkOffline,
       EndRemoval, Publish, GoOnline, WriteTransport, StoreFails
  <2>3. presence'[a] = presence[a]
    BY <1>1, <1>t, <2>1 DEF SectionStep, CloseVictim, CleanupAgentConnectionState, MarkOffline,
       EndRemoval, Publish, GoOnline, DeletePresenceForSession
  <2> QED
    BY <2>1, <2>2, <2>3
<1>2. ASSUME NEW c \in Conns, ConnStep(c), ~Handle(c)
      PROVE  presence' = presence /\ lapsed' = lapsed /\ assetRow' = assetRow
  BY <1>2, <1>u DEF ConnStep, HandlerStep, PingerStep, Dial, Upgrade, Register, Receive, Pong,
     ReadFails, Dispatch, Reject, Finish, ReleaseAdmission, Ping, PingStops, PingDrops,
     Send, LeaseExpires
<1>3. ASSUME NEW c \in Conns, Handle(c)
      PROVE  /\ presence'[a].session = presence[a].session
             /\ lapsed' = lapsed /\ assetRow' = assetRow
  <2>1. lapsed' = lapsed /\ assetRow' = assetRow
    BY <1>3 DEF Handle
  <2>2. \/ presence' = presence
        \/ presence' = [presence EXCEPT ![AssetOf[c]] =
                           IF @.session = c THEN [@ EXCEPT !.stale = FALSE] ELSE @]
    BY <1>3 DEF Handle
  <2>3. [presence[a] EXCEPT !.stale = FALSE].session = presence[a].session
    BY <1>t DEF Row
  <2> QED
    BY <1>t, <2>1, <2>2, <2>3
<1>4. CASE AdminDrop \/ DeleteUnregister
  BY <1>4, <1>s, <1>u DEF AdminDrop, DeleteUnregister
<1>5. ASSUME NEW b \in Assets, RowAges(b)
      PROVE  /\ presence'[a].session = presence[a].session
             /\ lapsed' = lapsed /\ assetRow' = assetRow
  <2>1. [presence[a] EXCEPT !.stale = TRUE].session = presence[a].session
    BY <1>t DEF Row
  <2> QED
    BY <1>5, <1>t, <2>1 DEF RowAges
<1>6. CASE SweepDelete
  <2>1. lapsed' = lapsed /\ assetRow' = assetRow /\ section' = section /\ conns' = conns
    BY <1>6 DEF SweepDelete
  <2>2. CASE presence' = presence
    BY <1>s, <2>1, <2>2
  <2>3. CASE /\ presence[sweep.asset].session = sweep.session
             /\ DeletePresenceForSession(sweep.asset, sweep.session)
    <3>1. sweep.asset \in Assets /\ Retired(sweep.asset, sweep.session)
      BY <1>6 DEF SweepDelete, PresenceInv, Swept
    <3>2. CASE sweep.asset = a
      <4>1. presence'[a] = NoRow
        BY <1>t, <2>3, <3>2 DEF DeletePresenceForSession
      <4> QED
        BY <2>1, <2>3, <3>1, <3>2, <4>1 DEF NoRow
    <3>3. CASE sweep.asset # a
      BY <1>t, <2>1, <2>3, <3>3 DEF DeletePresenceForSession
    <3> QED
      BY <3>2, <3>3
  <2> QED
    BY <1>6, <2>2, <2>3 DEF SweepDelete
<1>7. CASE SweepOffline
  BY <1>7, <1>t DEF SweepOffline, WriteTransport, StoreFails
<1>8. CASE DeleteCommit
  <2>1. lapsed' = lapsed
    BY <1>8 DEF DeleteCommit
  <2>2. CASE storeVars' = storeVars
    BY <1>s, <2>1, <2>2
  <2>3. CASE /\ assetRow' = [assetRow EXCEPT ![admin.asset] = FALSE]
             /\ presence' = [presence EXCEPT ![admin.asset] = NoRow]
    <3>1. CASE admin.asset = a
      BY <1>t, <2>3, <3>1 DEF NoRow
    <3>2. CASE admin.asset # a
      BY <1>t, <2>1, <2>3, <3>2
    <3> QED
      BY <3>1, <3>2
  <2> QED
    BY <1>8, <2>2, <2>3 DEF DeleteCommit
<1>9. CASE \/ \E b \in Assets : DeleteStart(b)
           \/ SweepList \/ SweepCheck
           \/ \E t \in Tokens : RevokeStart(t) \/ \E b \in Assets : Recover(b, t)
           \/ RevokeCommit \/ RecoverLook \/ UNCHANGED vars
  <2>1. presence' = presence /\ lapsed' = lapsed /\ assetRow' = assetRow
    BY <1>9 DEF DeleteStart, SweepList, SweepCheck, RevokeStart, Recover, RevokeCommit,
                RecoverLook, vars
  <2> QED
    BY <1>s, <2>1
<1> QED
  BY <1>1, <1>2, <1>3, <1>4, <1>5, <1>6, <1>7, <1>8, <1>9, <1>s DEF Next, AdminStep

LEMMA PresenceNext == SectionInv /\ PresenceInv /\ [Next]_vars => PresenceInv'
<1> SUFFICES ASSUME SectionInv, PresenceInv, [Next]_vars PROVE PresenceInv'
  OBVIOUS
<1>1. Swept'
  BY SweptStays
<1>2. ASSUME NEW a \in Assets
      PROVE  (Published(a, presence[a].session) /\ RowFollows(a))'
  <2>t. /\ presence \in [Assets -> Row] /\ presence[a] \in Row /\ section[a] \in Section
        /\ lapsed \in [Assets -> BOOLEAN] /\ assetRow \in [Assets -> BOOLEAN]
        /\ section \in [Assets -> Section] /\ conns \in [Assets -> MaybeConn]
    BY DEF SectionInv, AgentManagerTypeOK
  <2>o. Published(a, presence[a].session) /\ RowFollows(a)
    BY DEF PresenceInv
  <2>n. Published(a, None)'
    BY DEF Published
  <2>k. ASSUME presence'[a].session = presence[a].session
        PROVE  Published(a, presence[a].session)'
    <3>1. ASSUME NEW s, s = presence[a].session PROVE Published(a, s)'
      BY <2>o, <3>1, PublishedStays
    <3> QED
      BY <2>k, <3>1 DEF Published
  <2>z. ASSUME presence'[a].session = None PROVE Published(a, presence[a].session)'
    BY <2>z DEF Published
  <2>1. CASE Crash
    <3>1. lapsed'[a] = TRUE /\ presence' = presence
      BY <2>1 DEF Crash, storeVars
    <3> QED
      BY <2>k, <3>1 DEF RowFollows
  <2>2. CASE ~SectionStep(a) /\ ~Crash
    <3>1. MapStep(a)
      BY <2>2, MapMoves
    <3>2. /\ ~lapsed'[a] /\ assetRow'[a] => ~lapsed[a] /\ assetRow[a]
          /\ \/ presence'[a].session = presence[a].session
             \/ presence'[a].session = None /\ ~assetRow'[a]
             \/ /\ presence'[a].session = None /\ Retired(a, presence[a].session)
                /\ section' = section /\ conns' = conns
      BY <2>2, RowMoves
    <3>3. CASE presence'[a].session = presence[a].session
      <4>1. RowFollows(a)'
        BY <2>o, <3>1, <3>2, <3>3 DEF RowFollows, MapStep
      <4> QED
        BY <2>k, <3>3, <4>1
    <3>4. CASE presence'[a].session = None /\ ~assetRow'[a]
      BY <2>z, <3>4 DEF RowFollows
    <3>5. CASE /\ presence'[a].session = None /\ Retired(a, presence[a].session)
               /\ section' = section /\ conns' = conns
      <4>1. RowFollows(a)'
        BY <2>o, <3>2, <3>5 DEF RowFollows, Retired
      <4> QED
        BY <2>z, <3>5, <4>1
    <3> QED
      BY <3>2, <3>3, <3>4, <3>5
  <2>3. CASE SectionStep(a)
    <3> USE DEF goVars, storeVars, history, Phase
    <3>1. CASE CloseVictim(a)
      <4>1. /\ section'[a].phase = "cleanup" /\ section'[a].victim = section[a].victim
            /\ section[a].phase = "close"
        BY <2>t, <3>1 DEF CloseVictim, Section
      <4>2. presence' = presence /\ lapsed' = lapsed /\ assetRow' = assetRow
        BY <3>1 DEF CloseVictim
      <4>3. RowFollows(a)'
        BY <2>o, <4>1, <4>2 DEF RowFollows
      <4> QED
        BY <2>k, <4>2, <4>3
    <3>2. CASE CleanupAgentConnectionState(a)
      <4>0. assetRow' = assetRow /\ section[a].phase = "cleanup"
        BY <3>2 DEF CleanupAgentConnectionState
      <4>1. section'[a].phase \in {"offline", "end"}
        BY <2>t, <3>2 DEF CleanupAgentConnectionState, Section
      <4>2. CASE DeletePresenceForSession(a, section[a].victim) /\ lapsed' = lapsed
        <5>1. presence'[a] = IF presence[a].session = section[a].victim THEN NoRow ELSE presence[a]
          BY <2>t, <4>2 DEF DeletePresenceForSession
        <5>2. presence'[a].session = None \/ presence'[a].session = presence[a].session
          BY <5>1 DEF NoRow
        <5>3. RowFollows(a)'
          BY <2>o, <4>0, <4>1, <4>2, <5>1 DEF RowFollows, NoRow
        <5> QED
          BY <2>k, <2>z, <5>2, <5>3
      <4>3. CASE StoreFails(a) /\ presence' = presence
        <5>1. lapsed'[a] = TRUE
          BY <2>t, <4>3 DEF StoreFails
        <5> QED
          BY <2>k, <4>3, <5>1 DEF RowFollows
      <4> QED
        BY <3>2, <4>2, <4>3 DEF CleanupAgentConnectionState
    <3>3. CASE MarkOffline(a)
      <4>1. /\ section'[a].phase = "end" /\ section[a].phase = "offline"
            /\ presence' = presence /\ assetRow' = assetRow
        BY <2>t, <3>3 DEF MarkOffline, Section
      <4>2. ~lapsed'[a] => ~lapsed[a]
        BY <2>t, <3>3 DEF MarkOffline, WriteTransport, StoreFails
      <4>3. RowFollows(a)'
        BY <2>o, <4>1, <4>2 DEF RowFollows
      <4> QED
        BY <2>k, <4>1, <4>3
    <3>4. CASE EndRemoval(a)
      <4>1. /\ section[a].phase = "end" /\ conns[a] = None
            /\ presence' = presence /\ assetRow' = assetRow /\ lapsed' = lapsed
        BY <3>4 DEF EndRemoval, SectionInv, Phased
      <4>2. \/ section'[a].phase = "publish"
            \/ section'[a].phase = "none" /\ conns' = conns
        BY <2>t, <3>4 DEF EndRemoval, Section, Free
      <4>3. RowFollows(a)'
        BY <2>o, <4>1, <4>2 DEF RowFollows
      <4> QED
        BY <2>k, <4>1, <4>3
    <3>5. CASE Publish(a)
      <4>0. /\ section[a].phase = "publish" /\ section[a].op = "register"
            /\ conns' = conns /\ conns[a] = section[a].by /\ section[a].by \in Conns
            /\ AssetOf[section[a].by] = a
        BY <3>5 DEF Publish, SectionInv, Phased, Owned, CallerOps
      <4>1. section'[a].phase = "online"
        BY <2>t, <3>5 DEF Publish, Section
      <4>2. CASE /\ presence' = [presence EXCEPT ![a] = [session |-> section[a].by, stale |-> FALSE]]
        <5>1. presence'[a].session = section[a].by
          BY <2>t, <4>2
        <5> QED
          BY <4>0, <4>1, <5>1 DEF Published, RowFollows
      <4>3. CASE lapsed' = [lapsed EXCEPT ![a] = TRUE] /\ presence' = presence
        <5>1. lapsed'[a] = TRUE
          BY <2>t, <4>3
        <5> QED
          BY <2>k, <4>3, <5>1 DEF RowFollows
      <4> QED
        BY <3>5, <4>2, <4>3 DEF Publish
    <3>6. CASE GoOnline(a)
      <4>1. /\ section'[a].phase = "none" /\ section[a].phase = "online"
            /\ presence' = presence /\ assetRow' = assetRow /\ conns' = conns
        BY <2>t, <3>6 DEF GoOnline, Section, Free
      <4>2. ~lapsed'[a] => ~lapsed[a]
        BY <2>t, <3>6 DEF GoOnline, WriteTransport, StoreFails
      <4>3. RowFollows(a)'
        BY <2>o, <4>1, <4>2 DEF RowFollows
      <4> QED
        BY <2>k, <4>1, <4>3
    <3> QED
      BY <2>3, <3>1, <3>2, <3>3, <3>4, <3>5, <3>6 DEF SectionStep
  <2> QED
    BY <2>1, <2>2, <2>3
<1> QED
  BY <1>1, <1>2 DEF PresenceInv

LEMMA PresenceHolds == Spec => []PresenceInv
<1>1. Init => PresenceInv
  <2> SUFFICES ASSUME Init PROVE PresenceInv
    OBVIOUS
  <2>1. Swept
    BY DEF Init, Swept, IdleSweep, SweepState, MaybeConn
  <2>2. ASSUME NEW a \in Assets PROVE Published(a, presence[a].session) /\ RowFollows(a)
    BY DEF Init, Published, RowFollows, NoRow, Free
  <2> QED
    BY <2>1, <2>2 DEF PresenceInv
<1> QED
  BY <1>1, PresenceNext, SectionsHold, PTL DEF Spec

\* The session-fenced deletes: while no store write is lost, the presence row of
\* an asset outside a section is its current connection's, however the cleanup
\* loop, reconnects and removals interleave.
THEOREM PresenceRight == Spec => []PresenceFollowsConnection
<1>1. SectionInv /\ PresenceInv => PresenceFollowsConnection
  BY DEF SectionInv, Phased, PresenceInv, RowFollows, PresenceFollowsConnection, Unlocked
<1> QED
  BY <1>1, PresenceHolds, SectionsHold, PTL

-----------------------------------------------------------------------------
(* The transport type.  cleanupStalePresence looks for a connection, then  *)
(* deletes the row and then writes "offline".  The other writers are in a  *)
(* section of the asset; this one is not, and what it found may be stale.  *)

\* What the loop looked for is still so when it writes: no connection of the
\* asset was registered in between.
SweepCheckFresh == [][SweepOffline => conns[sweep.asset] = None]_vars

\* A connected asset is online once its registration is through.
Online(a) ==
    /\ conns[a] # None /\ section[a].phase \notin {"publish", "online"}
    /\ ~lapsed[a] /\ assetRow[a]
    => transport[a] = "agent"

OnlineInv == \A a \in Assets : Online(a)

\* Outside the section of an asset, only the cleanup loop and a deletion write
\* its transport type.
LEMMA TransportMoves ==
    ASSUME SectionInv, NEW a \in Assets, [Next]_vars, ~Crash, ~SectionStep(a)
    PROVE  \/ transport'[a] = transport[a]
           \/ ~assetRow'[a]
           \/ SweepOffline /\ sweep.asset = a
<1> USE DEF managerVars, goVars, storeVars, history
<1>t. transport \in [Assets -> {"agent", "offline"}] /\ assetRow \in [Assets -> BOOLEAN]
  BY DEF SectionInv, AgentManagerTypeOK
<1>u. ASSUME NEW b, NEW expected, NEW op, NEW c, Unregister(b, expected, op, c)
      PROVE  transport' = transport
  BY <1>u DEF Unregister
<1>1. ASSUME NEW b \in Assets, SectionStep(b) PROVE transport'[a] = transport[a]
  <2>1. b # a
    BY <1>1
  <2> QED
    BY <1>1, <1>t, <2>1 DEF SectionStep, CloseVictim, CleanupAgentConnectionState, MarkOffline,
       EndRemoval, Publish, GoOnline, WriteTransport
<1>2. ASSUME NEW c \in Conns, ConnStep(c) PROVE transport' = transport
  BY <1>2, <1>u DEF ConnStep, HandlerStep, PingerStep, Dial, Upgrade, Register, Receive, Pong,
     ReadFails, Dispatch, Handle, Reject, Finish, ReleaseAdmission, Ping, PingStops, PingDrops,
     Send, LeaseExpires
<1>3. CASE AdminDrop \/ DeleteUnregister
  BY <1>3, <1>u DEF AdminDrop, DeleteUnregister
<1>4. CASE SweepOffline
  BY <1>4, <1>t DEF SweepOffline, WriteTransport
<1>5. CASE DeleteCommit
  <2>1. CASE admin.asset = a
    BY <1>5, <1>t, <2>1 DEF DeleteCommit
  <2>2. CASE admin.asset # a
    BY <1>5, <1>t, <2>2 DEF DeleteCommit
  <2> QED
    BY <2>1, <2>2
<1>6. CASE \/ \E b \in Assets : RowAges(b) \/ DeleteStart(b)
           \/ SweepList \/ SweepCheck \/ SweepDelete
           \/ \E t \in Tokens : RevokeStart(t) \/ \E b \in Assets : Recover(b, t)
           \/ RevokeCommit \/ RecoverLook \/ UNCHANGED vars
  <2>1. transport' = transport
    BY <1>6 DEF RowAges, DeleteStart, SweepList, SweepCheck, SweepDelete, RevokeStart, Recover,
                RevokeCommit, RecoverLook, vars
  <2> QED
    BY <2>1
<1> QED
  BY <1>1, <1>2, <1>3, <1>4, <1>5, <1>6 DEF Next, AdminStep

LEMMA OnlineNext ==
    ASSUME SectionInv, PresenceInv, OnlineInv, [Next]_vars,
           SweepOffline => conns[sweep.asset] = None
    PROVE  OnlineInv'
<1> SUFFICES ASSUME NEW a \in Assets PROVE Online(a)'
  BY DEF OnlineInv
<1>t. /\ section[a] \in Section /\ section \in [Assets -> Section]
      /\ lapsed \in [Assets -> BOOLEAN] /\ assetRow \in [Assets -> BOOLEAN]
      /\ conns \in [Assets -> MaybeConn] /\ transport \in [Assets -> {"agent", "offline"}]
  BY DEF SectionInv, AgentManagerTypeOK
<1>o. Online(a)
  BY DEF OnlineInv
<1>1. CASE Crash
  BY <1>1 DEF Crash, Online
<1>2. CASE ~SectionStep(a) /\ ~Crash
  <2>1. MapStep(a)
    BY <1>2, MapMoves
  <2>2. ~lapsed'[a] /\ assetRow'[a] => ~lapsed[a] /\ assetRow[a]
    BY <1>2, RowMoves
  <2>3. CASE transport'[a] = transport[a]
    BY <1>o, <2>1, <2>2, <2>3 DEF Online, MapStep
  <2>4. CASE ~assetRow'[a]
    BY <2>4 DEF Online
  <2>5. CASE SweepOffline /\ sweep.asset = a
    <3>1. conns'[a] = None
      BY <2>5 DEF SweepOffline, managerVars
    <3> QED
      BY <3>1 DEF Online
  <2> QED
    BY <1>2, <2>3, <2>4, <2>5, TransportMoves
<1>3. CASE SectionStep(a)
  <2> USE DEF goVars, storeVars, history, Phase
  <2>1. CASE \/ CloseVictim(a) \/ CleanupAgentConnectionState(a) \/ MarkOffline(a)
    <3>1. conns' = conns /\ conns[a] = None
      BY <2>1 DEF CloseVictim, CleanupAgentConnectionState, MarkOffline, SectionInv, Phased
    <3> QED
      BY <3>1 DEF Online
  <2>2. CASE EndRemoval(a)
    <3>1. \/ section'[a].phase = "publish"
          \/ conns' = conns /\ conns[a] = None
      BY <1>t, <2>2 DEF EndRemoval, Section, SectionInv, Phased
    <3> QED
      BY <3>1 DEF Online
  <2>3. CASE Publish(a)
    <3>1. section'[a].phase = "online"
      BY <1>t, <2>3 DEF Publish, Section
    <3> QED
      BY <3>1 DEF Online
  <2>4. CASE GoOnline(a)
    <3>1. assetRow' = assetRow
      BY <2>4 DEF GoOnline
    <3>2. CASE transport' = [transport EXCEPT ![a] = IF assetRow[a] THEN "agent" ELSE @]
      BY <1>t, <3>1, <3>2 DEF Online
    <3>3. CASE StoreFails(a)
      BY <1>t, <3>3 DEF StoreFails, Online
    <3> QED
      BY <2>4, <3>2, <3>3 DEF GoOnline, WriteTransport
  <2> QED
    BY <1>3, <2>1, <2>2, <2>3, <2>4 DEF SectionStep
<1> QED
  BY <1>1, <1>2, <1>3

\* Were the cleanup loop's check still true when it writes, no connected agent
\* would be recorded as offline: of all the steps of handlers, removals, restarts
\* and administrators, that one write is what can break it.
THEOREM OnlineUnlessSwept == Spec /\ SweepCheckFresh => []ConnectedIsOnline
<1> DEFINE Fresh == SweepOffline => conns[sweep.asset] = None
<1>1. Init => OnlineInv
  BY DEF Init, OnlineInv, Online
<1>2. SectionInv /\ PresenceInv /\ OnlineInv /\ [Next]_vars /\ [Fresh]_vars => OnlineInv'
  <2> SUFFICES ASSUME SectionInv, PresenceInv, OnlineInv, [Next]_vars, [Fresh]_vars
               PROVE  OnlineInv'
    OBVIOUS
  <2>1. CASE Fresh
    BY <2>1, OnlineNext
  <2>2. CASE UNCHANGED vars
    BY <2>2 DEF OnlineInv, Online, vars, managerVars, storeVars, history
  <2> QED
    BY <2>1, <2>2
<1>3. SectionInv /\ OnlineInv => ConnectedIsOnline
  BY DEF SectionInv, Phased, OnlineInv, Online, ConnectedIsOnline, Unlocked
<1>4. SweepCheckFresh <=> [][Fresh]_vars
  BY DEF SweepCheckFresh
<1> HIDE DEF Fresh
<1> QED
  BY <1>1, <1>2, <1>3, <1>4, SectionsHold, PresenceHolds, PTL DEF Spec
=============================================================================

------------------------- MODULE AgentCommandProofs -------------------------
(***************************************************************************)
(* Proofs about AgentCommand, for any attempts, jobs and connections.      *)
(*                                                                         *)
(* The reservations of an attempt are its own from the moment it makes     *)
(* them until it gives them back (Reserved, PendingExact).  An answer on   *)
(* its way to an attempt was therefore looked up under the attempt's own   *)
(* wire id, which no other attempt shares if it is private (Addressed).  A *)
(* request that reached the agent belongs to an attempt that is past its   *)
(* write (RequestsWritten).                                                *)
(***************************************************************************)
EXTENDS AgentCommand, TLAPS

-----------------------------------------------------------------------------
(* The inductive invariant.                                                *)

\* An attempt under way holds its job's reservation.
Reserved == \A g \in Attempts : Reserves(g) => logical[JobOf[g]] = g

\* A request the agent has belongs to an attempt that wrote it on that
\* connection and does not say otherwise.
RequestsWritten ==
    \A r \in requests :
       /\ attempt[r.of].pc \in {"wait", "free", "unreserve", "returned"}
       /\ attempt[r.of].conn = r.conn
       /\ attempt[r.of].outcome \in {"none", "unknown", "answered"}

\* An attempt that may return what it wrote has no outcome yet.
Undecided ==
    \A g \in Attempts : attempt[g].pc \in {"start", "logical", "wire", "send", "sending", "wait"}
                           => attempt[g].outcome = "none"

\* An attempt that has yet to write knows its connection.
Connected ==
    \A g \in Attempts : attempt[g].pc \in {"logical", "wire", "send", "sending"}
                           => attempt[g].conn # None

\* An answer fits an attempt that is past its start.
Fits(a, g) ==
    /\ attempt[g].pc # "start"
    /\ g \in Private => a.of = g
    /\ JobOf[a.of] = JobOf[g]
    /\ a.conn = attempt[g].conn

\* So it is with every answer on its way.
Addressed ==
    /\ \A g \in Attempts : channel[g] # None => Fits(channel[g], g)
    /\ \A c \in Conns : reader[c].to # None =>
          /\ reader[c].answer # None
          /\ Fits(reader[c].answer, reader[c].to)
    /\ \A g \in Attempts : attempt[g].outcome = "answered" =>
          /\ attempt[g].answer # None
          /\ Fits(attempt[g].answer, g)

\* A read loop that is not idle has somebody to send to.
Aimed == \A c \in Conns : reader[c] # IdleReader => reader[c].to # None

CommandInv ==
    /\ AgentCommandTypeOK
    /\ Reserved
    /\ PendingExact
    /\ RequestsWritten
    /\ Undecided
    /\ Connected
    /\ Addressed

-----------------------------------------------------------------------------
(* Helpers.                                                                *)

\* A wire id is a wire id.
LEMMA WireType == ASSUME NEW g \in Attempts PROVE WireOf(g) \in Wires
  BY AgentCommandAssumption DEF WireOf, Wires

\* Attempts with the same wire id are attempts of one job, and one attempt if
\* either is private.
LEMMA WireShared ==
    ASSUME NEW g \in Attempts, NEW h \in Attempts, WireOf(g) = WireOf(h)
    PROVE  /\ JobOf[g] = JobOf[h]
           /\ g \in Private => h = g
  BY AgentCommandAssumption DEF WireOf

\* The attempt g is now at pc with an outcome and otherwise as it was.
Moved(g, pc, outcome) ==
    /\ attempt' \in [Attempts -> Attempt]
    /\ attempt'[g].pc = pc /\ attempt'[g].outcome = outcome
    /\ attempt'[g].conn = attempt[g].conn /\ attempt'[g].answer = attempt[g].answer
    /\ \A h \in Attempts : h # g => attempt'[h] = attempt[h]

LEMMA GoToMoves ==
    ASSUME AgentCommandTypeOK, NEW g \in Attempts, NEW pc \in AttemptPC, GoTo(g, pc)
    PROVE  Moved(g, pc, attempt[g].outcome)
  BY DEF GoTo, Moved, AgentCommandTypeOK, Attempt

LEMMA EndsMoves ==
    ASSUME AgentCommandTypeOK, NEW g \in Attempts, NEW pc \in AttemptPC,
           NEW outcome \in Outcomes, Ends(g, outcome, pc)
    PROVE  Moved(g, pc, outcome)
  BY DEF Ends, Moved, AgentCommandTypeOK, Attempt

\* Answers on their way still fit when an attempt moves without returning one.
LEMMA AddressedKept ==
    ASSUME AgentCommandTypeOK, Addressed, NEW g \in Attempts, NEW pc, NEW outcome,
           Moved(g, pc, outcome), pc # "start", outcome # "answered" \/ outcome = attempt[g].outcome,
           UNCHANGED <<channel, reader>>
    PROVE  Addressed'
  <1>1. \A h \in Attempts : /\ attempt'[h].conn = attempt[h].conn
                            /\ attempt'[h].answer = attempt[h].answer
                            /\ attempt[h].pc # "start" => attempt'[h].pc # "start"
                            /\ attempt'[h].outcome = "answered" => attempt[h].outcome = "answered"
    BY DEF Moved
  <1>2. \A c \in Conns : reader[c].to # None => reader[c].to \in Attempts
    BY DEF AgentCommandTypeOK, Reader
  <1> QED  BY <1>1, <1>2 DEF Addressed, Fits

-----------------------------------------------------------------------------
(* The steps of an attempt.                                                *)

LEMMA StartKeeps ==
    ASSUME CommandInv, NEW g \in Attempts, Start(g)
    PROVE  CommandInv'
  <1> USE DEF CommandInv
  <1>1. CASE current = None \/ g \in canceled
    <2>1. PICK o \in {"not sent", "offline"} : Ends(g, o, "returned")  BY <1>1 DEF Start
    <2>2. Moved(g, "returned", o)  BY <2>1, EndsMoves DEF AttemptPC, Outcomes
    <2>3. attempt[g].pc = "start"  BY DEF Start, At
    <2>4. UNCHANGED <<current, ended, logical, wire, channel, canceled, requests, reader>>
      BY DEF Start
    <2>5. AgentCommandTypeOK'  BY <2>2, <2>4 DEF AgentCommandTypeOK, Moved
    <2>6. Reserved' /\ PendingExact'
      <3>1. ~Reserves(g) /\ ~Reserves(g)'  BY <2>2, <2>3 DEF Reserves, Moved
      <3>2. \A h \in Attempts : Reserves(h)' <=> Reserves(h)  BY <3>1, <2>2 DEF Reserves, Moved
      <3>3. Reserved'  BY <3>2, <2>4 DEF Reserved
      <3>4. \A w \in Wires : wire[w] # g  BY <2>3, AgentCommandAssumption DEF PendingExact
      <3>5. \A j \in Jobs : logical'[j] # None => Reserves(logical[j])' /\ JobOf[logical'[j]] = j
        BY <3>2, <2>4 DEF PendingExact, AgentCommandTypeOK
      <3>6. \A w \in Wires : wire[w] # None => attempt'[wire[w]] = attempt[wire[w]]
        BY <3>4, <2>2 DEF Moved, AgentCommandTypeOK
      <3>7. PendingExact'  BY <3>5, <3>6, <2>4 DEF PendingExact
      <3> QED  BY <3>3, <3>7
    <2>7. RequestsWritten' /\ Undecided' /\ Connected'
      BY <2>2, <2>3, <2>4 DEF Moved, RequestsWritten, Undecided, Connected, AgentCommandTypeOK, Answer
    <2>8. Addressed'  BY <2>1, <2>2, <2>4, AddressedKept
    <2> QED  BY <2>5, <2>6, <2>7, <2>8
  <1>2. CASE current # None /\ g \notin canceled
    <2>1. /\ attempt' = [attempt EXCEPT ![g].pc = "logical", ![g].conn = current]
          /\ attempt[g].pc = "start"
          /\ UNCHANGED <<current, ended, logical, wire, channel, canceled, requests, reader>>
      BY <1>2 DEF Start, At
    <2>2. /\ attempt' \in [Attempts -> Attempt]
          /\ attempt'[g].pc = "logical" /\ attempt'[g].outcome = attempt[g].outcome
          /\ attempt'[g].conn = current
          /\ \A h \in Attempts : h # g => attempt'[h] = attempt[h]
      BY <2>1, <1>2 DEF AgentCommandTypeOK, Attempt, AttemptPC
    <2>3. AgentCommandTypeOK'  BY <2>1, <2>2 DEF AgentCommandTypeOK
    <2>4. Reserved' /\ PendingExact'
      BY <2>1, <2>2 DEF Reserved, PendingExact, Reserves, AgentCommandTypeOK
    <2>5. RequestsWritten' /\ Undecided'
      BY <2>1, <2>2 DEF RequestsWritten, Undecided, AgentCommandTypeOK, Answer
    <2>9. Connected'  BY <1>2, <2>2 DEF Connected
    <2>6. channel[g] = None /\ \A c \in Conns : reader[c].to # g
      BY <2>1, AgentCommandAssumption DEF Addressed, Fits
    <2>7. attempt[g].outcome = "none"  BY <2>1 DEF Undecided
    <2>8. Addressed'
      BY <2>1, <2>2, <2>6, <2>7 DEF Addressed, Fits, AgentCommandTypeOK, Reader
    <2> QED  BY <2>3, <2>4, <2>5, <2>8, <2>9
  <1> QED  BY <1>1, <1>2

LEMMA ReserveLogicalKeeps ==
    ASSUME CommandInv, NEW g \in Attempts, ReserveLogical(g)
    PROVE  CommandInv'
  <1> USE DEF CommandInv
  <1>0. /\ attempt[g].pc = "logical" /\ JobOf[g] \in Jobs
        /\ UNCHANGED <<current, ended, wire, channel, canceled, requests, reader>>
    BY AgentCommandAssumption DEF ReserveLogical, At
  <1>1. CASE logical[JobOf[g]] # None
    <2>1. Ends(g, "busy", "returned") /\ UNCHANGED logical  BY <1>1 DEF ReserveLogical
    <2>2. Moved(g, "returned", "busy")  BY <2>1, EndsMoves DEF AttemptPC, Outcomes
    <2>3. AgentCommandTypeOK'  BY <1>0, <2>1, <2>2 DEF AgentCommandTypeOK, Moved
    <2>4. Reserved' /\ PendingExact'
      BY <1>0, <2>1, <2>2 DEF Moved, Reserved, PendingExact, Reserves, AgentCommandTypeOK
    <2>5. RequestsWritten' /\ Undecided' /\ Connected'
      BY <1>0, <2>2 DEF Moved, RequestsWritten, Undecided, Connected, AgentCommandTypeOK, Answer
    <2>6. Addressed'  BY <1>0, <2>2, AddressedKept
    <2> QED  BY <2>3, <2>4, <2>5, <2>6
  <1>2. CASE logical[JobOf[g]] = None
    <2>1. GoTo(g, "wire") /\ logical' = [logical EXCEPT ![JobOf[g]] = g]
      BY <1>2, AgentCommandAssumption DEF ReserveLogical
    <2>2. Moved(g, "wire", attempt[g].outcome)  BY <2>1, GoToMoves DEF AttemptPC
    <2>3. AgentCommandTypeOK'  BY <1>0, <2>1, <2>2 DEF AgentCommandTypeOK, Moved
    <2>4. Reserved'
      <3>1. SUFFICES ASSUME NEW h \in Attempts, Reserves(h)' PROVE logical'[JobOf[h]] = h
        BY DEF Reserved
      <3>2. CASE h = g  BY <3>2, <1>0, <2>1 DEF AgentCommandTypeOK
      <3>3. CASE h # g
        <4>1. Reserves(h)  BY <3>1, <3>3, <2>2 DEF Reserves, Moved
        <4>2. logical[JobOf[h]] = h /\ h # None  BY <4>1, AgentCommandAssumption DEF Reserved
        <4> QED  BY <4>2, <1>2, <2>1, AgentCommandAssumption DEF AgentCommandTypeOK
      <3> QED  BY <3>2, <3>3
    <2>5. PendingExact'
      BY <1>0, <2>1, <2>2 DEF Moved, PendingExact, Reserves, AgentCommandTypeOK
    <2>6. RequestsWritten' /\ Undecided' /\ Connected'
      BY <1>0, <2>2 DEF Moved, RequestsWritten, Undecided, Connected, AgentCommandTypeOK, Answer
    <2>7. Addressed'  BY <1>0, <2>2, AddressedKept
    <2> QED  BY <2>3, <2>4, <2>5, <2>6, <2>7
  <1> QED  BY <1>1, <1>2

LEMMA ReserveWireKeeps ==
    ASSUME CommandInv, NEW g \in Attempts, ReserveWire(g)
    PROVE  CommandInv'
  <1> USE DEF CommandInv
  <1>0. /\ attempt[g].pc = "wire" /\ WireOf(g) \in Wires /\ Reserves(g)
        /\ wire' = [wire EXCEPT ![WireOf(g)] = IF @ = None THEN g ELSE @]
        /\ UNCHANGED <<current, ended, logical, channel, canceled, requests, reader>>
    BY WireType DEF ReserveWire, At, Reserves
  <1>1. PICK pc \in {"send", "unreserve"}, o \in {"busy", "none"} :
           /\ Moved(g, pc, o)
           /\ pc = "send" => wire[WireOf(g)] = None /\ o = "none"
           /\ pc = "unreserve" => wire[WireOf(g)] # None
    <2>1. CASE wire[WireOf(g)] = None
      <3>1. GoTo(g, "send")  BY <2>1 DEF ReserveWire
      <3>2. Moved(g, "send", attempt[g].outcome)  BY <3>1, GoToMoves DEF AttemptPC
      <3>3. attempt[g].outcome = "none"  BY <1>0 DEF Undecided
      <3> QED  BY <2>1, <3>2, <3>3
    <2>2. CASE wire[WireOf(g)] # None
      <3>1. Ends(g, "busy", "unreserve")  BY <2>2 DEF ReserveWire
      <3>2. Moved(g, "unreserve", "busy")  BY <3>1, EndsMoves DEF AttemptPC, Outcomes
      <3> QED  BY <2>2, <3>2
    <2> QED  BY <2>1, <2>2
  <1>2. AgentCommandTypeOK'  BY <1>0, <1>1 DEF AgentCommandTypeOK, Moved
  <1>3. \A h \in Attempts : Reserves(h)' <=> Reserves(h)  BY <1>0, <1>1 DEF Reserves, Moved
  <1>4. Reserved'  BY <1>0, <1>3 DEF Reserved
  <1>5. PendingExact'
    <2>1. \A j \in Jobs : logical'[j] # None => Reserves(logical[j])' /\ JobOf[logical'[j]] = j
      BY <1>0, <1>3 DEF PendingExact, AgentCommandTypeOK
    <2>2. \A w \in Wires : wire[w] # g  BY <1>0, AgentCommandAssumption DEF PendingExact
    <2>3. \A w \in Wires : wire[w] # None => /\ wire'[w] = wire[w]
                                             /\ attempt'[wire[w]] = attempt[wire[w]]
      BY <1>0, <1>1, <2>2 DEF Moved, AgentCommandTypeOK
    <2>4. \A w \in Wires : wire[w] = None => \/ wire'[w] = None
                                             \/ w = WireOf(g) /\ wire'[w] = g
      BY <1>0 DEF AgentCommandTypeOK
    <2>5. wire[WireOf(g)] = None => attempt'[g].pc = "send"  BY <1>1 DEF Moved
    <2>6. \A w \in Wires : wire'[w] # None =>
             /\ attempt'[wire'[w]].pc \in {"send", "sending", "wait", "free"}
             /\ WireOf(wire'[w]) = w
      BY <2>3, <2>4, <2>5 DEF PendingExact
    <2> QED  BY <2>1, <2>6, <1>0 DEF PendingExact
  <1>6. RequestsWritten' /\ Undecided' /\ Connected'
    BY <1>0, <1>1 DEF Moved, RequestsWritten, Undecided, Connected, AgentCommandTypeOK, Answer
  <1>7. Addressed'  BY <1>0, <1>1, AddressedKept
  <1> QED  BY <1>2, <1>4, <1>5, <1>6, <1>7

\* An attempt that keeps both reservations and stays under way, or leaves its
\* wait, keeps what is said about them.
LEMMA ReservationsKept ==
    ASSUME AgentCommandTypeOK, Reserved, PendingExact, NEW g \in Attempts, NEW pc, NEW outcome,
           Moved(g, pc, outcome), attempt[g].pc \in {"send", "sending", "wait"},
           pc \in {"sending", "wait", "free"}, UNCHANGED <<logical, wire>>
    PROVE  Reserved' /\ PendingExact'
  <1>1. \A h \in Attempts : Reserves(h)' <=> Reserves(h)  BY DEF Reserves, Moved
  <1>2. Reserved'  BY <1>1 DEF Reserved
  <1>3. \A j \in Jobs : logical'[j] # None => Reserves(logical[j])' /\ JobOf[logical'[j]] = j
    BY <1>1 DEF PendingExact, AgentCommandTypeOK
  <1>4. \A w \in Wires : wire[w] # None =>
           attempt'[wire[w]].pc \in {"send", "sending", "wait", "free"}
    BY DEF PendingExact, Moved, AgentCommandTypeOK
  <1>5. PendingExact'  BY <1>3, <1>4 DEF PendingExact
  <1> QED  BY <1>2, <1>5

LEMMA GateKeeps ==
    ASSUME CommandInv, NEW g \in Attempts, Gate(g)
    PROVE  CommandInv'
  <1> USE DEF CommandInv
  <1>0. /\ attempt[g].pc = "send"
        /\ UNCHANGED <<current, ended, logical, wire, channel, canceled, requests, reader>>
    BY DEF Gate, At
  <1>1. PICK pc \in {"sending", "free"}, o \in {"none", "not sent", "unknown"} :
           Moved(g, pc, o) /\ (pc = "sending" => o = "none")
    <2>1. CASE Ends(g, "not sent", "free")  BY <2>1, EndsMoves DEF AttemptPC, Outcomes
    <2>2. CASE Ends(g, "unknown", "free")  BY <2>2, EndsMoves DEF AttemptPC, Outcomes
    <2>3. CASE GoTo(g, "sending")
      <3>1. attempt[g].outcome = "none"  BY <1>0 DEF Undecided
      <3> QED  BY <2>3, <3>1, GoToMoves DEF AttemptPC
    <2> QED  BY <2>1, <2>2, <2>3 DEF Gate
  <1>2. AgentCommandTypeOK'  BY <1>0, <1>1 DEF AgentCommandTypeOK, Moved
  <1>3. Reserved' /\ PendingExact'  BY <1>0, <1>1, ReservationsKept
  <1>4. RequestsWritten'
    BY <1>0, <1>1 DEF Moved, RequestsWritten, AgentCommandTypeOK, Answer
  <1>6. Undecided' /\ Connected'  BY <1>0, <1>1 DEF Moved, Undecided, Connected
  <1>5. Addressed'  BY <1>0, <1>1, AddressedKept
  <1> QED  BY <1>2, <1>3, <1>4, <1>5, <1>6

LEMMA WriteKeeps ==
    ASSUME CommandInv, NEW g \in Attempts, Write(g)
    PROVE  CommandInv'
  <1> USE DEF CommandInv
  <1>0. /\ attempt[g].pc = "sending"
        /\ UNCHANGED <<current, ended, logical, wire, channel, canceled, reader>>
        /\ attempt[g].outcome = "none"
    BY DEF Write, At, Undecided
  <1>1. PICK pc \in {"wait", "free"}, o \in {"none", "unknown"} :
           Moved(g, pc, o) /\ (pc = "wait" => o = "none")
    <2>1. CASE GoTo(g, "wait")  BY <1>0, <2>1, GoToMoves DEF AttemptPC
    <2>2. CASE Ends(g, "unknown", "free")  BY <2>2, EndsMoves DEF AttemptPC, Outcomes
    <2> QED  BY <2>1, <2>2 DEF Write
  <1>2. requests' \subseteq requests \cup {Request(g)}  BY DEF Write
  <1>3. AgentCommandTypeOK'
    <2>1. attempt[g].conn \in Conns  BY <1>0 DEF Connected, AgentCommandTypeOK, Attempt
    <2>2. Request(g) \in Answer  BY <2>1 DEF Request, Answer
    <2> QED  BY <1>0, <1>1, <1>2, <2>2 DEF Moved, AgentCommandTypeOK
  <1>4. Reserved' /\ PendingExact'  BY <1>0, <1>1, ReservationsKept
  <1>5. RequestsWritten'
    <2>1. SUFFICES ASSUME NEW r \in requests'
                   PROVE  /\ attempt'[r.of].pc \in {"wait", "free", "unreserve", "returned"}
                          /\ attempt'[r.of].conn = r.conn
                          /\ attempt'[r.of].outcome \in {"none", "unknown", "answered"}
      BY DEF RequestsWritten
    <2>2. CASE r = Request(g)  BY <2>2, <1>1 DEF Moved, Request
    <2>3. CASE r # Request(g)
      <3>1. r \in requests /\ r.of \in Attempts /\ r.of # g
        BY <1>0, <1>2, <2>1, <2>3 DEF RequestsWritten, AgentCommandTypeOK, Answer
      <3> QED  BY <3>1, <1>1 DEF Moved, RequestsWritten
    <2> QED  BY <2>2, <2>3
  <1>6. Undecided' /\ Connected'  BY <1>0, <1>1 DEF Moved, Undecided, Connected
  <1>7. Addressed'  BY <1>0, <1>1, AddressedKept
  <1> QED  BY <1>3, <1>4, <1>5, <1>6, <1>7

LEMMA TakeAnswerKeeps ==
    ASSUME CommandInv, NEW g \in Attempts, TakeAnswer(g)
    PROVE  CommandInv'
  <1> USE DEF CommandInv
  <1>0. /\ attempt[g].pc = "wait" /\ channel[g] # None /\ channel[g] \in Answer
        /\ UNCHANGED <<current, ended, logical, wire, canceled, requests, reader>>
        /\ channel' = [channel EXCEPT ![g] = None]
    BY DEF TakeAnswer, At, AgentCommandTypeOK
  <1>1. PICK o \in {"unknown", "answered"}, a \in Answer \cup {None} :
           /\ o = "answered" => a = channel[g]
           /\ attempt' = [attempt EXCEPT ![g].pc = "free", ![g].outcome = o, ![g].answer = a]
    <2>1. CASE g \in canceled  BY <2>1 DEF TakeAnswer
    <2>2. CASE g \notin canceled  BY <2>2, <1>0 DEF TakeAnswer
    <2> QED  BY <2>1, <2>2
  <1>2. /\ attempt' \in [Attempts -> Attempt]
        /\ attempt'[g].pc = "free" /\ attempt'[g].outcome = o
        /\ attempt'[g].conn = attempt[g].conn /\ attempt'[g].answer = a
        /\ \A h \in Attempts : h # g => attempt'[h] = attempt[h]
    BY <1>1 DEF AgentCommandTypeOK, Attempt, AttemptPC, Outcomes
  <1>3. AgentCommandTypeOK'  BY <1>0, <1>2 DEF AgentCommandTypeOK
  <1>4. \A h \in Attempts : Reserves(h)' <=> Reserves(h)  BY <1>0, <1>2 DEF Reserves
  <1>5. Reserved'  BY <1>0, <1>4 DEF Reserved
  <1>6. PendingExact'
    <2>1. \A j \in Jobs : logical'[j] # None => Reserves(logical[j])' /\ JobOf[logical'[j]] = j
      BY <1>0, <1>4 DEF PendingExact, AgentCommandTypeOK
    <2>2. \A w \in Wires : wire[w] # None =>
             attempt'[wire[w]].pc \in {"send", "sending", "wait", "free"}
      BY <1>2 DEF PendingExact, AgentCommandTypeOK
    <2> QED  BY <2>1, <2>2, <1>0 DEF PendingExact
  <1>7. RequestsWritten' /\ Undecided' /\ Connected'
    BY <1>0, <1>2 DEF RequestsWritten, Undecided, Connected, AgentCommandTypeOK, Answer
  <1>8. Addressed'
    <2>1. Fits(channel[g], g)  BY <1>0 DEF Addressed
    <2>2. \A b : \A h \in Attempts : Fits(b, h) =>
             /\ attempt'[h].pc # "start"
             /\ h \in Private => b.of = h
             /\ JobOf[b.of] = JobOf[h]
             /\ b.conn = attempt'[h].conn
      BY <1>2 DEF Fits
    <2>3. \A h \in Attempts : channel'[h] # None => channel'[h] = channel[h]
      BY <1>0 DEF AgentCommandTypeOK
    <2>4. \A c \in Conns : reader[c].to # None => reader[c].to \in Attempts
      BY DEF AgentCommandTypeOK, Reader
    <2>5. \A h \in Attempts : attempt'[h].outcome = "answered" =>
             attempt'[h].answer # None /\ Fits(attempt'[h].answer, h)
      BY <1>0, <1>1, <1>2, <2>1 DEF Addressed
    <2>6. \A h \in Attempts : channel'[h] # None => Fits(channel[h], h)
      BY <2>3 DEF Addressed
    <2>7. \A h \in Attempts : channel'[h] # None => Fits(channel'[h], h)  BY <2>3, <2>6
    <2>8. \A c \in Conns : reader[c].to # None =>
             /\ reader[c].answer # None
             /\ Fits(reader[c].answer, reader[c].to)
      BY DEF Addressed
    <2>9. \A h \in Attempts : channel'[h] # None =>
             /\ attempt'[h].pc # "start"
             /\ h \in Private => channel'[h].of = h
             /\ JobOf[channel'[h].of] = JobOf[h]
             /\ channel'[h].conn = attempt'[h].conn
      BY <2>2, <2>7
    <2>10. \A c \in Conns : reader[c].to # None =>
             /\ reader[c].answer # None
             /\ attempt'[reader[c].to].pc # "start"
             /\ reader[c].to \in Private => reader[c].answer.of = reader[c].to
             /\ JobOf[reader[c].answer.of] = JobOf[reader[c].to]
             /\ reader[c].answer.conn = attempt'[reader[c].to].conn
      BY <2>2, <2>4, <2>8
    <2>11. \A h \in Attempts : attempt'[h].outcome = "answered" =>
             /\ attempt'[h].answer # None
             /\ attempt'[h].pc # "start"
             /\ h \in Private => attempt'[h].answer.of = h
             /\ JobOf[attempt'[h].answer.of] = JobOf[h]
             /\ attempt'[h].answer.conn = attempt'[h].conn
      BY <2>2, <2>5
    <2> QED  BY <1>0, <2>9, <2>10, <2>11 DEF Addressed, Fits
  <1> QED  BY <1>3, <1>5, <1>6, <1>7, <1>8

LEMMA GiveUpKeeps ==
    ASSUME CommandInv, NEW g \in Attempts, GiveUp(g)
    PROVE  CommandInv'
  <1> USE DEF CommandInv
  <1>0. /\ attempt[g].pc = "wait"
        /\ UNCHANGED <<current, ended, logical, wire, channel, canceled, requests, reader>>
    BY DEF GiveUp, At
  <1>1. Moved(g, "free", "unknown")  BY EndsMoves DEF GiveUp, AttemptPC, Outcomes
  <1>2. AgentCommandTypeOK'  BY <1>0, <1>1 DEF AgentCommandTypeOK, Moved
  <1>3. Reserved' /\ PendingExact'  BY <1>0, <1>1, ReservationsKept
  <1>4. RequestsWritten' /\ Undecided' /\ Connected'
    BY <1>0, <1>1 DEF Moved, RequestsWritten, Undecided, Connected, AgentCommandTypeOK, Answer
  <1>5. Addressed'  BY <1>0, <1>1, AddressedKept
  <1> QED  BY <1>2, <1>3, <1>4, <1>5

LEMMA FreeWireKeeps ==
    ASSUME CommandInv, NEW g \in Attempts, FreeWire(g)
    PROVE  CommandInv'
  <1> USE DEF CommandInv
  <1>0. /\ attempt[g].pc = "free"
        /\ wire' = [wire EXCEPT ![WireOf(g)] = IF @ = g THEN None ELSE @]
        /\ UNCHANGED <<current, ended, logical, channel, canceled, requests, reader>>
    BY DEF FreeWire, At
  <1>1. Moved(g, "unreserve", attempt[g].outcome)  BY GoToMoves DEF FreeWire, AttemptPC
  <1>2. AgentCommandTypeOK'  BY <1>0, <1>1 DEF AgentCommandTypeOK, Moved
  <1>3. \A h \in Attempts : Reserves(h)' <=> Reserves(h)  BY <1>0, <1>1 DEF Reserves, Moved
  <1>4. Reserved'  BY <1>0, <1>3 DEF Reserved
  <1>5. PendingExact'
    <2>1. \A j \in Jobs : logical'[j] # None => Reserves(logical[j])' /\ JobOf[logical'[j]] = j
      BY <1>0, <1>3 DEF PendingExact, AgentCommandTypeOK
    <2>2. \A w \in Wires : wire'[w] # None => wire'[w] = wire[w] /\ wire[w] # g
      BY <1>0 DEF PendingExact, AgentCommandTypeOK
    <2>3. \A w \in Wires : wire'[w] # None => attempt'[wire'[w]] = attempt[wire[w]]
      BY <1>1, <2>2 DEF Moved, AgentCommandTypeOK
    <2> QED  BY <2>1, <2>2, <2>3, <1>0 DEF PendingExact
  <1>6. RequestsWritten' /\ Undecided' /\ Connected'
    BY <1>0, <1>1 DEF Moved, RequestsWritten, Undecided, Connected, AgentCommandTypeOK, Answer
  <1>7. Addressed'  BY <1>0, <1>1, AddressedKept
  <1> QED  BY <1>2, <1>4, <1>5, <1>6, <1>7

LEMMA FreeLogicalKeeps ==
    ASSUME CommandInv, NEW g \in Attempts, FreeLogical(g)
    PROVE  CommandInv'
  <1> USE DEF CommandInv
  <1>0. /\ attempt[g].pc = "unreserve" /\ JobOf[g] \in Jobs
        /\ logical' = [logical EXCEPT ![JobOf[g]] = IF @ = g THEN None ELSE @]
        /\ UNCHANGED <<current, ended, wire, channel, canceled, requests, reader>>
    BY AgentCommandAssumption DEF FreeLogical, At
  <1>1. Moved(g, "returned", attempt[g].outcome)  BY GoToMoves DEF FreeLogical, AttemptPC
  <1>2. AgentCommandTypeOK'  BY <1>0, <1>1 DEF AgentCommandTypeOK, Moved
  <1>3. \A h \in Attempts : Reserves(h)' <=> Reserves(h) /\ h # g
    BY <1>0, <1>1 DEF Reserves, Moved
  <1>4. Reserved'
    <2>1. SUFFICES ASSUME NEW h \in Attempts, Reserves(h), h # g PROVE logical'[JobOf[h]] = h
      BY <1>3 DEF Reserved
    <2>2. logical[JobOf[h]] = h /\ JobOf[h] \in Jobs
      BY <2>1, AgentCommandAssumption DEF Reserved
    <2> QED  BY <2>1, <2>2, <1>0 DEF AgentCommandTypeOK
  <1>5. PendingExact'
    <2>1. \A j \in Jobs : logical'[j] # None => logical'[j] = logical[j] /\ logical[j] # g
      BY <1>0 DEF PendingExact, AgentCommandTypeOK
    <2>2. \A j \in Jobs : logical'[j] # None => Reserves(logical[j])' /\ JobOf[logical'[j]] = j
      BY <1>3, <2>1 DEF PendingExact, AgentCommandTypeOK
    <2>3. \A w \in Wires : wire[w] # None => attempt'[wire[w]] = attempt[wire[w]]
      BY <1>0, <1>1 DEF Moved, PendingExact, AgentCommandTypeOK
    <2> QED  BY <2>1, <2>2, <2>3, <1>0 DEF PendingExact, Reserves
  <1>6. RequestsWritten' /\ Undecided' /\ Connected'
    BY <1>0, <1>1 DEF Moved, RequestsWritten, Undecided, Connected, AgentCommandTypeOK, Answer
  <1>7. Addressed'  BY <1>0, <1>1, AddressedKept
  <1> QED  BY <1>2, <1>4, <1>5, <1>6, <1>7

-----------------------------------------------------------------------------
(* The connection, the context and the delivery of answers.                *)

\* A step that leaves the attempts, their reservations and the answers alone.
LEMMA OutsideKeeps ==
    ASSUME CommandInv, current' \in Conns \cup {None}, ended' \subseteq Conns,
           canceled' \subseteq Attempts,
           UNCHANGED <<logical, wire, attempt, channel, requests, reader>>
    PROVE  CommandInv'
  BY DEF CommandInv, AgentCommandTypeOK, Reserved, PendingExact, Reserves, RequestsWritten,
         Undecided, Connected, Addressed, Fits

LEMMA DeliverKeeps ==
    ASSUME CommandInv, NEW c \in Conns, Deliver(c)
    PROVE  CommandInv'
  <1> USE DEF CommandInv
  <1>1. PICK r \in requests :
           /\ wire[WireOf(r.of)] # None
           /\ Accepts(wire[WireOf(r.of)], c)
           /\ reader' = [reader EXCEPT ![c] = [to |-> wire[WireOf(r.of)],
                                               answer |-> [of |-> r.of, conn |-> c]]]
    BY DEF Deliver
  <1>2. UNCHANGED <<current, ended, logical, wire, attempt, channel, canceled, requests>>
    BY DEF Deliver
  <1>3. r.of \in Attempts /\ WireOf(r.of) \in Wires
    BY WireType DEF AgentCommandTypeOK, Answer
  <1>4. PICK g \in Attempts : g = wire[WireOf(r.of)]
    BY <1>1, <1>3 DEF AgentCommandTypeOK
  <1>5. /\ attempt[g].pc \in {"send", "sending", "wait", "free"}
        /\ WireOf(g) = WireOf(r.of)
        /\ attempt[g].conn = c
    BY <1>1, <1>3, <1>4 DEF PendingExact, Accepts
  <1>6. JobOf[r.of] = JobOf[g] /\ (g \in Private => r.of = g)
    BY <1>3, <1>5, WireShared
  <1>7. PICK a \in Answer : a = [of |-> r.of, conn |-> c]  BY <1>3 DEF Answer
  <1>8. reader' = [reader EXCEPT ![c] = [to |-> g, answer |-> a]]  BY <1>1, <1>4, <1>7
  <1>9. a.of = r.of /\ a.conn = c /\ a # None  BY <1>7, AgentCommandAssumption
  <1>10. [to |-> g, answer |-> a] \in Reader  BY DEF Reader
  <1>11. AgentCommandTypeOK'  BY <1>2, <1>8, <1>10 DEF AgentCommandTypeOK
  <1>12. Reserved' /\ PendingExact' /\ RequestsWritten' /\ Undecided' /\ Connected'
    BY <1>2 DEF Reserved, PendingExact, Reserves, RequestsWritten, Undecided, Connected
  <1>13. Fits(a, g)  BY <1>5, <1>6, <1>9 DEF Fits
  <1>14. reader'[c].to = g /\ reader'[c].answer = a /\ \A d \in Conns \ {c} : reader'[d] = reader[d]
    BY <1>8 DEF AgentCommandTypeOK
  <1>15. Addressed'
    BY <1>2, <1>9, <1>13, <1>14 DEF Addressed, Fits
  <1> QED  BY <1>11, <1>12, <1>15

LEMMA SendKeeps ==
    ASSUME CommandInv, NEW c \in Conns, Send(c), reader[c].to # None
    PROVE  CommandInv'
  <1> USE DEF CommandInv
  <1>1. PICK g \in Attempts : g = reader[c].to  BY DEF AgentCommandTypeOK, Reader
  <1>2. PICK a \in Answer : a = reader[c].answer /\ Fits(a, g)
    BY <1>1 DEF Addressed, AgentCommandTypeOK, Reader
  <1>3. /\ channel' = [channel EXCEPT ![g] = IF @ = None THEN a ELSE @]
        /\ reader' = [reader EXCEPT ![c] = IdleReader]
        /\ UNCHANGED <<current, ended, logical, wire, attempt, canceled, requests>>
    BY <1>1, <1>2 DEF Send
  <1>4. IdleReader \in Reader /\ IdleReader.to = None  BY DEF IdleReader, Reader
  <1>5. AgentCommandTypeOK'  BY <1>3, <1>4 DEF AgentCommandTypeOK
  <1>6. Reserved' /\ PendingExact' /\ RequestsWritten' /\ Undecided' /\ Connected'
    BY <1>3 DEF Reserved, PendingExact, Reserves, RequestsWritten, Undecided, Connected
  <1>7. reader'[c].to = None /\ \A d \in Conns \ {c} : reader'[d] = reader[d]
    BY <1>3, <1>4 DEF AgentCommandTypeOK
  <1>8. \A h \in Attempts : channel'[h] # None => Fits(channel'[h], h)
    BY <1>2, <1>3 DEF Addressed, AgentCommandTypeOK
  <1>9. Addressed'  BY <1>3, <1>7, <1>8 DEF Addressed, Fits
  <1> QED  BY <1>5, <1>6, <1>9

-----------------------------------------------------------------------------
(* Theorems.                                                               *)

LEMMA InitInv == Init => CommandInv /\ Aimed
  <1> SUFFICES ASSUME Init PROVE CommandInv /\ Aimed
    OBVIOUS
  <1> USE AgentCommandAssumption DEF Init
  <1>1. AgentCommandTypeOK
    BY DEF AgentCommandTypeOK, Attempt, AttemptPC, Outcomes, Reader, IdleReader
  <1>2. Reserved /\ PendingExact  BY DEF Reserved, PendingExact, Reserves
  <1>3. RequestsWritten /\ Undecided /\ Connected
    BY DEF RequestsWritten, Undecided, Connected
  <1>4. Addressed  BY DEF Addressed, IdleReader
  <1>5. Aimed  BY DEF Aimed
  <1> QED  BY <1>1, <1>2, <1>3, <1>4, <1>5 DEF CommandInv

\* Only Deliver and Send change what a read loop is doing.
LEMMA AimedKept ==
    ASSUME AgentCommandTypeOK, Aimed, [Next]_vars
    PROVE  Aimed'
  <1>1. ASSUME NEW c \in Conns, Deliver(c) PROVE Aimed'
    BY <1>1 DEF Deliver, Aimed, AgentCommandTypeOK
  <1>2. ASSUME NEW c \in Conns, Send(c) PROVE Aimed'
    BY <1>2 DEF Send, Aimed, AgentCommandTypeOK
  <1>3. CASE UNCHANGED reader
    BY <1>3 DEF Aimed
  <1> QED
    BY <1>1, <1>2, <1>3 DEF Next, vars, Connects, Disconnects, Cancel, Start, AttemptStep,
       ReserveLogical, ReserveWire, Gate, Write, TakeAnswer, GiveUp, FreeWire, FreeLogical

LEMMA NextInv == CommandInv /\ Aimed /\ [Next]_vars => CommandInv' /\ Aimed'
  <1> SUFFICES ASSUME CommandInv, Aimed, [Next]_vars PROVE CommandInv'
    BY AimedKept DEF CommandInv
  <1>0. AgentCommandTypeOK  BY DEF CommandInv
  <1>1. ASSUME NEW c \in Conns, Connects(c) PROVE CommandInv'
    BY <1>0, <1>1, OutsideKeeps DEF Connects, AgentCommandTypeOK
  <1>2. ASSUME NEW c \in Conns, Deliver(c) PROVE CommandInv'
    BY <1>2, DeliverKeeps
  <1>3. ASSUME NEW c \in Conns, Send(c) PROVE CommandInv'
    BY <1>3, SendKeeps DEF Send, Aimed
  <1>4. CASE Disconnects
    BY <1>0, <1>4, OutsideKeeps DEF Disconnects, AgentCommandTypeOK
  <1>5. ASSUME NEW g \in Attempts, Cancel(g) PROVE CommandInv'
    BY <1>0, <1>5, OutsideKeeps DEF Cancel, AgentCommandTypeOK
  <1>6. ASSUME NEW g \in Attempts, Start(g) \/ AttemptStep(g) PROVE CommandInv'
    BY <1>6, StartKeeps, ReserveLogicalKeeps, ReserveWireKeeps, GateKeeps, WriteKeeps,
       TakeAnswerKeeps, GiveUpKeeps, FreeWireKeeps, FreeLogicalKeeps DEF AttemptStep
  <1>7. CASE UNCHANGED vars
    BY <1>0, <1>7, OutsideKeeps DEF vars, AgentCommandTypeOK
  <1> QED  BY <1>1, <1>2, <1>3, <1>4, <1>5, <1>6, <1>7 DEF Next

\* The inductive invariant holds in every reachable state.
THEOREM CommandInvCorrect == Spec => []CommandInv
  BY InitInv, NextInv, PTL DEF Spec

\* Every variable keeps its type, for any number of attempts, jobs and
\* connections.
THEOREM AgentCommandTypeCorrect == Spec => []AgentCommandTypeOK
  <1>1. CommandInv => AgentCommandTypeOK  BY DEF CommandInv
  <1> QED  BY <1>1, CommandInvCorrect, PTL

\* A private attempt returns only the answer to its own request, and any other
\* attempt an answer for its job and its connection: the promise of the wire ids
\* in executeViaAgent and of AcceptsResult.
THEOREM AnswerIsOwnCorrect == Spec => []AnswerIsOwn
  <1>1. CommandInv => AnswerIsOwn  BY DEF CommandInv, Addressed, Fits, AnswerIsOwn
  <1> QED  BY <1>1, CommandInvCorrect, PTL

\* The LoadOrStore of the logical key lets one attempt of a job through at a
\* time.
THEOREM OneInFlightCorrect == Spec => []OneInFlight
  <1>1. CommandInv => OneInFlight  BY DEF CommandInv, Reserved, OneInFlight
  <1> QED  BY <1>1, CommandInvCorrect, PTL

\* PendingAgentCmds holds the entries of attempts under way and no other.
THEOREM PendingExactCorrect == Spec => []PendingExact
  <1>1. CommandInv => PendingExact  BY DEF CommandInv
  <1> QED  BY <1>1, CommandInvCorrect, PTL

\* An attempt that reports its command was not sent tells the truth: the agent
\* has no request of it.
THEOREM NotSentIsTruthfulCorrect == Spec => []NotSentIsTruthful
  <1>1. CommandInv => NotSentIsTruthful
    BY DEF CommandInv, RequestsWritten, AgentCommandTypeOK, Answer, NotSentIsTruthful
  <1> QED  BY <1>1, CommandInvCorrect, PTL
=============================================================================

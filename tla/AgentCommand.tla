---------------------------- MODULE AgentCommand ----------------------------
(***************************************************************************)
(* Commands and updates sent to a connected agent (executeViaAgent and     *)
(* executeUpdateViaAgent in internal/hubapi/agents) and the delivery of    *)
(* the agent's answers (DeliverPendingAgentResult).                        *)
(*                                                                         *)
(* An attempt reserves the job it runs for (the logical key) and the id it *)
(* puts on the wire, sends, and waits for an answer, for its context, for  *)
(* the end of the connection or for a timer.  The attempts of the queue's  *)
(* handlers carry a fresh wire id; the others use the id of the job.       *)
(*                                                                         *)
(* The agent is external: it answers the requests that reached it, once or *)
(* more often, over whatever connection it has by then.  Both functions    *)
(* share this control flow; what a command says and what comes back is     *)
(* reduced to the request it answers.  The registry that decides which     *)
(* update progress is logged is left out.                                  *)
(***************************************************************************)
EXTENDS Naturals, FiniteSets

CONSTANTS
    Attempts,   \* calls of executeViaAgent, each made once
    Jobs,       \* job ids
    JobOf,      \* the job of each attempt
    Private,    \* attempts with a fresh wire id
    Conns,      \* connections of the one agent, each used once
    None        \* no attempt, no connection, no answer

\* An answer names the request it answers, which only its wire id shows.
Answer == [of : Attempts, conn : Conns]

ASSUME AgentCommandAssumption ==
    /\ JobOf \in [Attempts -> Jobs]
    /\ Private \subseteq Attempts
    /\ Attempts \cap Jobs = {}
    /\ None \notin Attempts \cup Jobs \cup Conns \cup Answer

VARIABLES
    current,    \* the connection the agent manager has for the agent
    ended,      \* connections whose Done channel is closed
    logical,    \* PendingAgentCmds under agentLogicalRequestKey
    wire,       \* PendingAgentCmds under wire ids
    attempt,    \* the attempts' program counters, connections and outcomes
    channel,    \* their ResultCh, of one slot
    canceled,   \* attempts whose context has ended
    requests,   \* requests that reached the agent: attempt and connection
    reader      \* per connection, the answer its read loop is delivering

vars == <<current, ended, logical, wire, attempt, channel, canceled, requests, reader>>

-----------------------------------------------------------------------------
(* State.                                                                  *)

Wires == Private \cup Jobs

\* Mutant of WireOf: every attempt uses the id of its job.
JobWire(g) == JobOf[g]

\* The id on the wire.
WireOf(g) == IF g \in Private THEN g ELSE JobOf[g]

AttemptPC == {"start", "logical", "wire", "send", "sending", "wait", "free", "unreserve", "returned"}

Outcomes == {"none", "offline", "busy", "not sent", "unknown", "answered"}

Attempt == [pc : AttemptPC, conn : Conns \cup {None}, outcome : Outcomes,
            answer : Answer \cup {None}]

\* What a read loop is doing: nothing, or sending an answer to the attempt whose
\* entry it has loaded.
Reader == [to : Attempts \cup {None}, answer : Answer \cup {None}]

IdleReader == [to |-> None, answer |-> None]

Init ==
    /\ current = None
    /\ ended = {}
    /\ logical = [j \in Jobs |-> None]
    /\ wire = [w \in Wires |-> None]
    /\ attempt = [g \in Attempts |-> [pc |-> "start", conn |-> None, outcome |-> "none",
                                      answer |-> None]]
    /\ channel = [g \in Attempts |-> None]
    /\ canceled = {}
    /\ requests = {}
    /\ reader = [c \in Conns |-> IdleReader]

At(g, pc) == attempt[g].pc = pc

GoTo(g, pc) == attempt' = [attempt EXCEPT ![g].pc = pc]

\* Leave for the deferred calls at pc with an outcome.
Ends(g, outcome, pc) ==
    attempt' = [attempt EXCEPT ![g].pc = pc, ![g].outcome = outcome]

-----------------------------------------------------------------------------
(* The agent's connection, its context, and the agent.                     *)

Unused(c) == c # current /\ c \notin ended

\* A connection is taken out in a section of its asset, and so is an answer
\* delivered: DispatchIfCurrent.
Idle == current # None => reader[current] = IdleReader

\* The agent connects, replacing the connection it had.
Connects(c) ==
    /\ Unused(c)
    /\ Idle
    /\ current' = c
    /\ ended' = IF current = None THEN ended ELSE ended \cup {current}
    /\ UNCHANGED <<logical, wire, attempt, channel, canceled, requests, reader>>

Disconnects ==
    /\ current # None
    /\ Idle
    /\ current' = None
    /\ ended' = ended \cup {current}
    /\ UNCHANGED <<logical, wire, attempt, channel, canceled, requests, reader>>

\* The context of an attempt ends, for the queue's worker has lost its claim or
\* the hub stops.  The other attempts run with a background context.
Cancel(g) ==
    /\ g \in Private \ canceled
    /\ ~At(g, "returned")
    /\ canceled' = canceled \cup {g}
    /\ UNCHANGED <<current, ended, logical, wire, attempt, channel, requests, reader>>

-----------------------------------------------------------------------------
(* executeViaAgent.                                                        *)

\* The first look at the context, and Get.
Start(g) ==
    /\ At(g, "start")
    /\ \/ /\ g \in canceled
          /\ Ends(g, "not sent", "returned")
       \/ /\ g \notin canceled
          /\ current = None
          /\ Ends(g, "offline", "returned")
       \/ /\ g \notin canceled
          /\ current # None
          /\ attempt' = [attempt EXCEPT ![g].pc = "logical", ![g].conn = current]
    /\ UNCHANGED <<current, ended, logical, wire, channel, canceled, requests, reader>>

\* Mutant of ReserveLogical: the last attempt wins.
StoreLogical(g) ==
    /\ At(g, "logical")
    /\ logical' = [logical EXCEPT ![JobOf[g]] = g]
    /\ GoTo(g, "wire")
    /\ UNCHANGED <<current, ended, wire, channel, canceled, requests, reader>>

\* LoadOrStore of the logical key.
ReserveLogical(g) ==
    /\ At(g, "logical")
    /\ \/ /\ logical[JobOf[g]] # None
          /\ Ends(g, "busy", "returned")
          /\ UNCHANGED logical
       \/ /\ logical[JobOf[g]] = None
          /\ logical' = [logical EXCEPT ![JobOf[g]] = g]
          /\ GoTo(g, "wire")
    /\ UNCHANGED <<current, ended, wire, channel, canceled, requests, reader>>

\* LoadOrStore of the wire id.
ReserveWire(g) ==
    /\ At(g, "wire")
    /\ wire' = [wire EXCEPT ![WireOf(g)] = IF @ = None THEN g ELSE @]
    /\ IF wire[WireOf(g)] = None THEN GoTo(g, "send") ELSE Ends(g, "busy", "unreserve")
    /\ UNCHANGED <<current, ended, logical, channel, canceled, requests, reader>>

\* SendContext up to its last gate: the context, the credential and the socket.
Gate(g) ==
    /\ At(g, "send")
    /\ \/ /\ g \in canceled
          /\ Ends(g, "not sent", "free")
       \/ Ends(g, "unknown", "free")
       \/ /\ g \notin canceled
          /\ attempt[g].conn \notin ended
          /\ GoTo(g, "sending")
    /\ UNCHANGED <<current, ended, logical, wire, channel, canceled, requests, reader>>

Request(g) == [of |-> g, conn |-> attempt[g].conn]

\* Mutant of Write: an error is blamed on the context once that has ended.
WriteBlamed(g) ==
    /\ At(g, "sending")
    /\ \/ /\ attempt[g].conn \notin ended
          /\ requests' = requests \cup {Request(g)}
          /\ GoTo(g, "wait")
       \/ /\ Ends(g, IF g \in canceled THEN "not sent" ELSE "unknown", "free")
          /\ requests' \in {requests, requests \cup {Request(g)}}
    /\ UNCHANGED <<current, ended, logical, wire, channel, canceled, reader>>

\* WriteJSON, whatever the context does meanwhile: the frame goes out, or the
\* write fails and nobody knows how far it came.
Write(g) ==
    /\ At(g, "sending")
    /\ \/ /\ attempt[g].conn \notin ended
          /\ requests' = requests \cup {Request(g)}
          /\ GoTo(g, "wait")
       \/ /\ Ends(g, "unknown", "free")
          /\ requests' \in {requests, requests \cup {Request(g)}}
    /\ UNCHANGED <<current, ended, logical, wire, channel, canceled, reader>>

\* The select, result case: an answer that finds the context ended is not used.
TakeAnswer(g) ==
    /\ At(g, "wait")
    /\ channel[g] # None
    /\ channel' = [channel EXCEPT ![g] = None]
    /\ attempt' = [attempt EXCEPT ![g].pc = "free",
                                  ![g].outcome = IF g \in canceled THEN "unknown" ELSE "answered",
                                  ![g].answer = IF g \in canceled THEN None ELSE channel[g]]
    /\ UNCHANGED <<current, ended, logical, wire, canceled, requests, reader>>

\* Mutant of GiveUp: no timer.
WaitOn(g) ==
    /\ At(g, "wait")
    /\ g \in canceled \/ attempt[g].conn \in ended
    /\ Ends(g, "unknown", "free")
    /\ UNCHANGED <<current, ended, logical, wire, channel, canceled, requests, reader>>

\* The select, other cases: context, connection or timer.
GiveUp(g) ==
    /\ At(g, "wait")
    /\ Ends(g, "unknown", "free")
    /\ UNCHANGED <<current, ended, logical, wire, channel, canceled, requests, reader>>

\* The deferred calls: CompareAndDelete of the wire id, ...
FreeWire(g) ==
    /\ At(g, "free")
    /\ wire' = [wire EXCEPT ![WireOf(g)] = IF @ = g THEN None ELSE @]
    /\ GoTo(g, "unreserve")
    /\ UNCHANGED <<current, ended, logical, channel, canceled, requests, reader>>

\* Mutant of FreeLogical: an attempt whose outcome is unknown keeps its job.
FreeLogicalSent(g) ==
    /\ At(g, "unreserve")
    /\ logical' = [logical EXCEPT ![JobOf[g]] = IF @ = g /\ attempt[g].outcome # "unknown"
                                                THEN None ELSE @]
    /\ GoTo(g, "returned")
    /\ UNCHANGED <<current, ended, wire, channel, canceled, requests, reader>>

\* ... and of the logical key.
FreeLogical(g) ==
    /\ At(g, "unreserve")
    /\ logical' = [logical EXCEPT ![JobOf[g]] = IF @ = g THEN None ELSE @]
    /\ GoTo(g, "returned")
    /\ UNCHANGED <<current, ended, wire, channel, canceled, requests, reader>>

-----------------------------------------------------------------------------
(* DeliverPendingAgentResult, in the read loop of a connection.            *)

\* AcceptsResult: the entry is of this connection.
Accepts(g, c) == attempt[g].conn = c

\* The agent answers a request over its current connection, and the read loop
\* looks the wire id up.  An answer nobody waits for is dropped.
Deliver(c) ==
    /\ c = current
    /\ reader[c] = IdleReader
    /\ \E r \in requests :
          LET g == wire[WireOf(r.of)] IN
          /\ g # None
          /\ Accepts(g, c)
          /\ reader' = [reader EXCEPT ![c] = [to |-> g, answer |-> [of |-> r.of, conn |-> c]]]
    /\ UNCHANGED <<current, ended, logical, wire, attempt, channel, canceled, requests>>

\* Mutant of Send: it waits for room in the channel.
SendBlocking(c) ==
    /\ reader[c] # IdleReader
    /\ channel[reader[c].to] = None
    /\ channel' = [channel EXCEPT ![reader[c].to] = reader[c].answer]
    /\ reader' = [reader EXCEPT ![c] = IdleReader]
    /\ UNCHANGED <<current, ended, logical, wire, attempt, canceled, requests>>

\* The send, which gives up when the slot is taken.
Send(c) ==
    /\ reader[c] # IdleReader
    /\ channel' = [channel EXCEPT ![reader[c].to] = IF @ = None THEN reader[c].answer ELSE @]
    /\ reader' = [reader EXCEPT ![c] = IdleReader]
    /\ UNCHANGED <<current, ended, logical, wire, attempt, canceled, requests>>

-----------------------------------------------------------------------------
AttemptStep(g) ==
    \/ ReserveLogical(g) \/ ReserveWire(g) \/ Gate(g) \/ Write(g) \/ TakeAnswer(g) \/ GiveUp(g)
    \/ FreeWire(g) \/ FreeLogical(g)

Next ==
    \/ \E c \in Conns : Connects(c) \/ Deliver(c) \/ Send(c)
    \/ Disconnects
    \/ \E g \in Attempts : Cancel(g) \/ Start(g) \/ AttemptStep(g)

Spec == Init /\ [][Next]_vars

\* Goroutines run, writes have a deadline and the timer fires.
LiveSpec ==
    /\ Spec
    /\ \A g \in Attempts : WF_vars(AttemptStep(g))
    /\ \A c \in Conns : WF_vars(Send(c))

-----------------------------------------------------------------------------
(* Properties.                                                             *)

\* Every variable has its type.
AgentCommandTypeOK ==
    /\ current \in Conns \cup {None}
    /\ ended \subseteq Conns
    /\ logical \in [Jobs -> Attempts \cup {None}]
    /\ wire \in [Wires -> Attempts \cup {None}]
    /\ attempt \in [Attempts -> Attempt]
    /\ channel \in [Attempts -> Answer \cup {None}]
    /\ canceled \subseteq Attempts
    /\ requests \subseteq Answer
    /\ reader \in [Conns -> Reader]

\* The private wire ids: "a late result cannot complete a retry of the same
\* queue job" (agent_command_routing.go).  What a private attempt returns is the
\* answer to its own request; any other attempt's is at least the answer to a
\* request of its job that went out on the connection that answered.
AnswerIsOwn ==
    \A g \in Attempts : attempt[g].outcome = "answered" =>
       LET a == attempt[g].answer IN
       /\ g \in Private => a.of = g
       /\ JobOf[a.of] = JobOf[g]
       /\ a.conn = attempt[g].conn

\* The logical reservation: of the attempts of a job at most one at a time is
\* between its reservation and its return, so that a job never has two requests
\* under way.
Reserves(g) == attempt[g].pc \in {"wire", "send", "sending", "wait", "free", "unreserve"}

OneInFlight ==
    \A g, h \in Attempts : Reserves(g) /\ Reserves(h) /\ JobOf[g] = JobOf[h] => g = h

\* The CompareAndDelete calls: the map holds the entries of attempts under way
\* and no other, so an id can be used again as soon as its attempt has returned
\* and the map does not grow.
PendingExact ==
    /\ \A j \in Jobs : logical[j] # None => Reserves(logical[j]) /\ JobOf[logical[j]] = j
    /\ \A w \in Wires : wire[w] # None =>
          /\ attempt[wire[w]].pc \in {"send", "sending", "wait", "free"}
          /\ WireOf(wire[w]) = w

\* "canceled before dispatch" is only said of a request that did not reach the
\* agent, whatever the context, the write and the connection did in which order.
NotSentIsTruthful ==
    \A g \in Attempts : attempt[g].outcome \in {"not sent", "busy", "offline"}
                           => \A r \in requests : r.of # g

\* Every attempt returns, although its agent may never answer.
AttemptsReturn == \A g \in Attempts : At(g, "logical") ~> At(g, "returned")

\* The read loop of a connection never stays with an answer: neither a duplicate
\* nor one whose attempt has returned stops the messages behind it.
ReadersGoOn == \A c \in Conns : reader[c] # IdleReader ~> reader[c] = IdleReader
=============================================================================

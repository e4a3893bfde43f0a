---------------------------- MODULE ResultDelivery ----------------------------
(***************************************************************************)
(* One prober, the collector, and the websocket connections between them:  *)
(* how a ping result travels from the Pinger thread to the database.       *)
(*                                                                         *)
(*   prober     probe.py: the four coroutines of one event loop            *)
(*              (maintain_collector_connection, transmit_results,          *)
(*              receive_messages, requeue_stale_messages), and the queue   *)
(*              the Pinger thread fills                                    *)
(*   link       connection slots; each connects a websocket of the prober  *)
(*              with a handle_client coroutine of the collector.  A slot   *)
(*              is reused once both ends have let go of it                 *)
(*   collector  server.py: handle_client, handle_auth_message,             *)
(*              handle_output_message; writer.py: the Writer thread        *)
(*                                                                         *)
(* A step runs a coroutine from one await to the next.  What several       *)
(* probers do to the collector's registry is the subject of Collector;     *)
(* here the registry holds the name of this prober or does not.            *)
(***************************************************************************)
EXTENDS Naturals, Sequences, FiniteSets, Functions

CONSTANTS
  Results,      \* the results the pinger may produce
  Conns,        \* connection slots
  NoConn,       \* a task that does not exist or is done has no connection
  Ids,          \* message ids (the nonces of transmit_results)
  AckTimeout,   \* MESSAGE_ACK_TIMEOUT, in ticks of the clock
  Window,       \* frames a connection holds in one direction (a model bound)
  MaxFaults     \* faults the environment may inject (a model bound)

ASSUME NoConnAssumption == NoConn \notin Conns
ASSUME IdsAssumption == Ids \subseteq Nat
ASSUME ResultsAssumption == IsFiniteSet(Results)
ASSUME BoundsAssumption ==
  AckTimeout \in Nat /\ Window \in Nat \ {0} /\ MaxFaults \in Nat

VARIABLES
  \* --- the prober
  pinger,       \* the Pinger thread: running, finishing its last round, stopped
  queue,        \* results_queue
  unconf,       \* unconfirmed_list: sent, not acknowledged (its order is not kept)
  hand,         \* the message transmit_results awaits the sending of, if any
  mpc,          \* maintain_collector_connection: connect, serving, dead, stopped
  ws,           \* its websocket
  tws,          \* the websocket of the transmit task
  rws,          \* the websocket of the receive task
  qpc,          \* the requeue task: done, asleep, awake
  \* --- the connections
  cl,           \* the prober's end: open or closed (websocket.open)
  link,         \* the path between the ends: up or down
  sopen,        \* the collector's end is open
  up,           \* frames from the prober the collector has not read
  down,         \* acknowledgements the prober has not read
  \* --- the collector
  sv,           \* handle_client: unauth, lookup, targets, authed, done
  registered,   \* the prober's name is in clients
  wq,           \* write_queue (writing a point twice changes nothing: a set)
  writer,       \* the Writer thread: running or dead
  \* --- the environment and the history of the run
  faults,       \* faults that may still happen
  produced,     \* results the pinger produced
  accepted,     \* results the collector has put on write_queue at some time
  stored,       \* results in the database
  dropped,      \* results lost by transmit_results with its connection
  lostOn        \* of these, the ones lost on the connection now in a slot

proberVars == <<pinger, queue, unconf, hand, mpc, ws, tws, rws, qpc>>
linkVars == <<cl, link, sopen, up, down>>
collectorVars == <<sv, registered, wq, writer>>
historyVars == <<produced, accepted, stored, dropped, lostOn>>
vars == <<proberVars, linkVars, collectorVars, faults, historyVars>>

-----------------------------------------------------------------------------
(* Data *)

\* An entry of unconfirmed_list.  age: time since message_transmit_time, as far
\* as it matters.  stale: message_transmit_time is below the stale_cutoff_time
\* that requeue_stale_messages remembers while it sleeps.
Sent == [r : Results, id : Ids, age : 0 .. AckTimeout + 1, stale : BOOLEAN]

Frame == [type : {"auth"}] \cup [type : {"output"}, r : Results, id : Ids]

Auth == [type |-> "auth"]

Output(m) == [type |-> "output", r |-> m.r, id |-> m.id]

\* The results the prober still holds.
Held == Range(queue) \cup {m.r : m \in unconf \cup hand}

Outputs(c) == {f \in Range(up[c]) : f.type = "output"}

UsedIds ==
  {m.id : m \in unconf \cup hand}
    \cup UNION {{f.id : f \in Outputs(c)} \cup Range(down[c]) : c \in Conns}

\* The nonce starts at a random number of 40 bits whenever the task is started
\* and counts up: no id in use is taken again (collisions are left out).
FreshIds == Ids \ UsedIds

\* (mutant: the nonce starts at the same number every time)
SameId == CHOOSE i \in Ids : TRUE

FreshId == CHOOSE i \in FreshIds : TRUE

\* (mutant: the cutoff is the time itself, MESSAGE_ACK_TIMEOUT is not taken off)
CutoffNow(S) == {[m EXCEPT !.stale = TRUE] : m \in S}
\* (mutant: the timeout is in milliseconds, the clock in seconds)
CutoffNever(S) == {[m EXCEPT !.stale = FALSE] : m \in S}

\* requeue_stale_messages computes its cutoff from the clock.
Cutoff(S) == {[m EXCEPT !.stale = m.age > AckTimeout] : m \in S}

\* A second passes for the messages of S; more than AckTimeout + 1 is the same.
Aged(S) == {[m EXCEPT !.age = IF @ > AckTimeout THEN @ ELSE @ + 1] : m \in S}

Stale == {m \in unconf : m.stale}

\* (mutant: the second comprehension reads the clock again)
FreshByNow == {m \in unconf : m.age <= AckTimeout}
\* (mutant: unconfirmed_list is not filtered)
FreshAll == unconf

\* The filter opposite to that of Stale.
Fresh == {m \in unconf : ~m.stale}

\* (mutant: an ack confirms everything sent up to its message)
ConfirmedUpTo(i) == {m \in unconf : m.id <= i}

\* The entries an acknowledgement removes.
Confirmed(i) == {m \in unconf : m.id = i}

\* Every order in which the results of S can be put back in the queue.
Orders(S) ==
  {s \in UNION {[1 .. n -> S] : n \in 0 .. Cardinality(Results)} :
     Range(s) = S /\ \A i, j \in DOMAIN s : s[i] = s[j] => i = j}

\* (mutant: the list of them is put in the queue, not each of them)
PutAtOnce(S) == {Append(queue, S)}

\* The queue when the results of S have been put back in it, in any order.
PutBack(S) == {queue \o order : order \in Orders({m.r : m \in S})}

\* A broken link has delivered any part of what was under way.
Prefixes(s) == {SubSeq(s, 1, n) : n \in 0 .. Len(s)}

\* The event loop of the prober runs until its main coroutine ends.
LoopRuns == mpc \in {"connect", "serving"}

Init ==
  /\ pinger = "running"
  /\ queue = <<>> /\ unconf = {} /\ hand = {}
  /\ mpc = "connect" /\ ws = NoConn
  /\ tws = NoConn /\ rws = NoConn /\ qpc = "done"
  /\ cl = [c \in Conns |-> "closed"]
  /\ link = [c \in Conns |-> "down"]
  /\ sopen = [c \in Conns |-> FALSE]
  /\ up = [c \in Conns |-> <<>>]
  /\ down = [c \in Conns |-> <<>>]
  /\ sv = [c \in Conns |-> "done"]
  /\ registered = FALSE /\ wq = {} /\ writer = "running"
  /\ faults = MaxFaults
  /\ produced = {} /\ accepted = {} /\ stored = {} /\ dropped = {}
  /\ lostOn = [c \in Conns |-> {}]

-----------------------------------------------------------------------------
(* The prober: the Pinger thread and its end *)

\* handle_output at the end of a round: the round's result goes on the queue.
PingerOutput(r) ==
  /\ pinger # "stopped"
  /\ r \notin produced
  /\ produced' = produced \cup {r}
  /\ queue' = Append(queue, r)
  /\ pinger' = IF pinger = "finishing" THEN "stopped" ELSE pinger
  /\ UNCHANGED <<unconf, hand, mpc, ws, tws, rws, qpc, linkVars, collectorVars,
                 faults, accepted, stored, dropped, lostOn>>

\* A signal: keep_going is cleared, the pinger finishes the round it is in, if
\* any, and the event loop stops.  (A callback of the loop's last pass runs as
\* if it had run before.)
Shutdown ==
  /\ LoopRuns
  /\ mpc' = "stopped"
  /\ pinger' \in {"finishing", "stopped"}
  /\ UNCHANGED <<queue, unconf, hand, ws, tws, rws, qpc, linkVars, collectorVars,
                 faults, historyVars>>

-----------------------------------------------------------------------------
(* The prober: maintain_collector_connection *)

\* Both ends have let go of the connection that was in slot c.
FreeSlot(c) == cl[c] = "closed" /\ sv[c] = "done" /\ c # tws /\ c # rws

\* websockets.connect and the send of the auth message succeed.  (When the
\* connection cannot be made, OSError, the coroutine sleeps and tries again.)
ConnectOk(c) ==
  /\ mpc = "connect" /\ FreeSlot(c)
  /\ mpc' = "serving" /\ ws' = c
  /\ cl' = [cl EXCEPT ![c] = "open"]
  /\ link' = [link EXCEPT ![c] = "up"]
  /\ sopen' = [sopen EXCEPT ![c] = TRUE]
  /\ up' = [up EXCEPT ![c] = <<Auth>>]
  /\ down' = [down EXCEPT ![c] = <<>>]
  /\ sv' = [sv EXCEPT ![c] = "unauth"]
  /\ lostOn' = [lostOn EXCEPT ![c] = {}]
  /\ UNCHANGED <<pinger, queue, unconf, hand, tws, rws, qpc, registered, wq, writer,
                 faults, produced, accepted, stored, dropped>>

\* The handshake fails (InvalidHandshake), or the connection closes under the
\* send of the auth message (ConnectionClosed): neither is an OSError, so the
\* coroutine and with it the event loop ends.  The Pinger thread goes on.
ConnectAborted ==
  /\ mpc = "connect" /\ faults > 0
  /\ mpc' = "dead" /\ faults' = faults - 1
  /\ UNCHANGED <<pinger, queue, unconf, hand, ws, tws, rws, qpc, linkVars,
                 collectorVars, historyVars>>

\* One pass of the inner loop: tasks that are not there or done are started
\* with the current websocket; a task that still runs keeps its own.
Supervise ==
  /\ mpc = "serving" /\ cl[ws] = "open"
  /\ tws = NoConn \/ rws = NoConn \/ qpc = "done"
  /\ tws' = IF tws = NoConn THEN ws ELSE tws
  /\ rws' = IF rws = NoConn THEN ws ELSE rws
  /\ qpc' = IF qpc = "done" THEN "asleep" ELSE qpc
  /\ unconf' = IF qpc = "done" THEN Cutoff(unconf) ELSE unconf
  /\ hand' = IF qpc = "done" THEN Cutoff(hand) ELSE hand
  /\ UNCHANGED <<pinger, queue, mpc, ws, linkVars, collectorVars, faults, historyVars>>

\* The inner loop ends when the websocket is not open any more.
SuperviseClosed ==
  /\ mpc = "serving" /\ cl[ws] = "closed"
  /\ mpc' = "connect" /\ ws' = NoConn
  /\ UNCHANGED <<pinger, queue, unconf, hand, tws, rws, qpc, linkVars, collectorVars,
                 faults, historyVars>>

-----------------------------------------------------------------------------
(* The prober: transmit_results *)

NewMessage == [r |-> Head(queue), id |-> FreshId, age |-> 0, stale |-> FALSE]

\* The head of the queue gets the next nonce and is written to the websocket;
\* on a broken link the frame is lost, which the prober does not see.
SendHead ==
  /\ LoopRuns /\ tws # NoConn /\ hand = {}
  /\ queue # <<>> /\ FreshIds # {}
  /\ cl[tws] = "open" /\ Len(up[tws]) < Window
  /\ queue' = Tail(queue)
  /\ up' = IF link[tws] = "up"
             THEN [up EXCEPT ![tws] = Append(@, Output(NewMessage))]
             ELSE up
  /\ UNCHANGED <<pinger, mpc, ws, tws, rws, qpc, cl, link, sopen, down, collectorVars,
                 faults, historyVars>>

\* send returns without suspending: the message is appended in the same step.
TransmitSends ==
  /\ SendHead
  /\ unconf' = unconf \cup {NewMessage}
  /\ hand' = hand

\* send suspends (flow control): the message is in no list meanwhile.
TransmitSuspends ==
  /\ SendHead
  /\ hand' = {NewMessage}
  /\ unconf' = unconf

\* send returns after having suspended, also when the connection was closed
\* in order meanwhile.
TransmitResumes ==
  /\ LoopRuns /\ hand # {}
  /\ unconf' = unconf \cup hand
  /\ hand' = {}
  /\ UNCHANGED <<pinger, queue, mpc, ws, tws, rws, qpc, linkVars, collectorVars,
                 faults, historyVars>>

\* (mutant: the task survives the exception and goes on with its websocket)
LoseAndGoOn(r) ==
  /\ dropped' = dropped \cup {r}
  /\ lostOn' = [lostOn EXCEPT ![tws] = @ \cup {r}]
  /\ UNCHANGED <<pinger, unconf, mpc, ws, tws, rws, qpc, linkVars, collectorVars,
                 faults, produced, accepted, stored>>

\* The exception ends the task and the message it had is in no list.
Lose(r) ==
  /\ dropped' = dropped \cup {r}
  /\ lostOn' = [lostOn EXCEPT ![tws] = @ \cup {r}]
  /\ tws' = NoConn
  /\ UNCHANGED <<pinger, unconf, mpc, ws, rws, qpc, linkVars, collectorVars,
                 faults, produced, accepted, stored>>

\* The websocket is closed: send raises, the task ends, and the message it had
\* taken from the queue is gone with it.
TransmitFails ==
  /\ LoopRuns /\ tws # NoConn /\ cl[tws] = "closed"
  /\ hand = {} /\ queue # <<>>
  /\ queue' = Tail(queue) /\ hand' = hand
  /\ Lose(Head(queue))

\* The connection is lost while send is suspended.
TransmitFailsSuspended ==
  /\ LoopRuns /\ tws # NoConn /\ cl[tws] = "closed"
  /\ \E m \in hand : Lose(m.r)
  /\ hand' = {} /\ queue' = queue

-----------------------------------------------------------------------------
(* The prober: receive_messages and requeue_stale_messages *)

\* An output_ack: every entry with its id leaves unconfirmed_list.  (The
\* target_list messages of this coroutine are not about results.)
ReceiveAck ==
  /\ LoopRuns /\ rws # NoConn /\ down[rws] # <<>>
  /\ unconf' = unconf \ Confirmed(Head(down[rws]))
  /\ down' = [down EXCEPT ![rws] = Tail(@)]
  /\ UNCHANGED <<pinger, queue, hand, mpc, ws, tws, rws, qpc, cl, link, sopen, up,
                 collectorVars, faults, historyVars>>

\* recv raises when the websocket is closed and all it received has been read.
ReceiveFails ==
  /\ LoopRuns /\ rws # NoConn /\ cl[rws] = "closed" /\ down[rws] = <<>>
  /\ rws' = NoConn
  /\ UNCHANGED <<pinger, queue, unconf, hand, mpc, ws, tws, qpc, linkVars,
                 collectorVars, faults, historyVars>>

\* The task wakes up, puts the entries older than the cutoff it computed BEFORE
\* it slept back in the queue, computes the next cutoff and sleeps again.
RequeueStale ==
  /\ LoopRuns /\ qpc = "awake"
  /\ queue' \in PutBack(Stale)
  /\ unconf' = Cutoff(Fresh)
  /\ hand' = Cutoff(hand)
  /\ qpc' = "asleep"
  /\ UNCHANGED <<pinger, mpc, ws, tws, rws, linkVars, collectorVars, faults, historyVars>>

\* A second passes: sent messages age and a sleep of one second is over.
Tick ==
  /\ LoopRuns
  /\ qpc = "asleep" \/ \E m \in unconf \cup hand : m.age <= AckTimeout
  /\ unconf' = Aged(unconf)
  /\ hand' = Aged(hand)
  /\ qpc' = IF qpc = "asleep" THEN "awake" ELSE qpc
  /\ UNCHANGED <<pinger, queue, mpc, ws, tws, rws, linkVars, collectorVars, faults,
                 historyVars>>

-----------------------------------------------------------------------------
(* The connections *)

\* The connection is lost: part of what was under way still arrives.
LinkBreaks(c) ==
  /\ link[c] = "up" /\ faults > 0
  /\ link' = [link EXCEPT ![c] = "down"]
  /\ \E s \in Prefixes(up[c]) : up' = [up EXCEPT ![c] = s]
  /\ \E s \in Prefixes(down[c]) : down' = [down EXCEPT ![c] = s]
  /\ faults' = faults - 1
  /\ UNCHANGED <<proberVars, cl, sopen, collectorVars, historyVars>>

\* The library tells one end: a reset, a close frame, or no pong in time.
ClientNotices(c) ==
  /\ link[c] = "down" /\ cl[c] = "open"
  /\ cl' = [cl EXCEPT ![c] = "closed"]
  /\ UNCHANGED <<proberVars, link, sopen, up, down, collectorVars, faults, historyVars>>

ServerNotices(c) ==
  /\ link[c] = "down" /\ sopen[c]
  /\ sopen' = [sopen EXCEPT ![c] = FALSE]
  /\ UNCHANGED <<proberVars, cl, link, up, down, collectorVars, faults, historyVars>>

\* The collector closes its websocket; its handler can still read what the
\* library received before.
ServerCloses(c, received) ==
  /\ link' = [link EXCEPT ![c] = "down"]
  /\ sopen' = [sopen EXCEPT ![c] = FALSE]
  /\ up' = [up EXCEPT ![c] = received]
  /\ UNCHANGED <<cl, down>>

-----------------------------------------------------------------------------
(* The collector: handle_auth_message and the end of handle_client *)

AuthArrives(c) == sv[c] = "unauth" /\ up[c] # <<>> /\ Head(up[c]) = Auth

\* The name is not registered: the prober is looked up in the database.
AuthUnregistered(c) ==
  /\ AuthArrives(c) /\ ~registered
  /\ sv' = [sv EXCEPT ![c] = "lookup"]
  /\ up' = [up EXCEPT ![c] = Tail(@)]
  /\ UNCHANGED <<proberVars, cl, link, sopen, down, registered, wq, writer, faults,
                 historyVars>>

\* "Duplicate name": the connection is closed, the session has no name.
AuthDuplicate(c) ==
  /\ AuthArrives(c) /\ registered
  /\ sv' = [sv EXCEPT ![c] = "done"]
  /\ ServerCloses(c, <<>>)
  /\ UNCHANGED <<proberVars, registered, wq, writer, faults, historyVars>>

\* The lookup finds no such prober (somebody deleted it: a fault).
AuthUnknown(c) ==
  /\ sv[c] = "lookup" /\ faults > 0
  /\ sv' = [sv EXCEPT ![c] = "done"]
  /\ faults' = faults - 1
  /\ ServerCloses(c, <<>>)
  /\ UNCHANGED <<proberVars, registered, wq, writer, historyVars>>

\* The lookup succeeds: the client is registered, its targets are looked up.
AuthRegister(c) ==
  /\ sv[c] = "lookup"
  /\ sv' = [sv EXCEPT ![c] = "targets"]
  /\ registered' = TRUE
  /\ UNCHANGED <<proberVars, linkVars, wq, writer, faults, historyVars>>

\* The targets are sent; handle_auth_message returns the name of the client.
TargetsSent(c) ==
  /\ sv[c] = "targets" /\ sopen[c]
  /\ sv' = [sv EXCEPT ![c] = "authed"]
  /\ UNCHANGED <<proberVars, linkVars, registered, wq, writer, faults, historyVars>>

\* The prober has no targets (a fault of its configuration): its connection is
\* closed, handle_auth_message returns the name all the same.
TargetsEmpty(c) ==
  /\ sv[c] = "targets" /\ faults > 0
  /\ sv' = [sv EXCEPT ![c] = "authed"]
  /\ faults' = faults - 1
  /\ \E s \in Prefixes(up[c]) : ServerCloses(c, s)
  /\ UNCHANGED <<proberVars, registered, wq, writer, historyVars>>

\* The connection closed meanwhile: the send of the target list raises out of
\* handle_auth_message, client_name is still None in handle_client, and the
\* finally clause removes None from clients, not the name.
TargetsFail(c) ==
  /\ sv[c] = "targets" /\ ~sopen[c]
  /\ sv' = [sv EXCEPT ![c] = "done"]
  /\ UNCHANGED <<proberVars, linkVars, registered, wq, writer, faults, historyVars>>

\* recv raises ConnectionClosed: the session ends, its name is popped.
SessionEnds(c) ==
  /\ sv[c] \in {"unauth", "authed"} /\ ~sopen[c] /\ up[c] = <<>>
  /\ sv' = [sv EXCEPT ![c] = "done"]
  /\ registered' = IF sv[c] = "authed" THEN FALSE ELSE registered
  /\ UNCHANGED <<proberVars, linkVars, wq, writer, faults, historyVars>>

-----------------------------------------------------------------------------
(* The collector: output messages, the Writer thread, the process *)

OutputArrives(c) == sv[c] = "authed" /\ up[c] # <<>> /\ Head(up[c]).type = "output"

Enqueue(f) ==
  /\ wq' = wq \cup {f.r}
  /\ accepted' = accepted \cup {f.r}

\* handle_output_message puts the message on write_queue; the ack follows.
HandleOutput(c) ==
  /\ OutputArrives(c) /\ sopen[c] /\ Len(down[c]) < Window
  /\ Enqueue(Head(up[c]))
  /\ up' = [up EXCEPT ![c] = Tail(@)]
  /\ down' = IF link[c] = "up"
               THEN [down EXCEPT ![c] = Append(@, Head(up[c]).id)]
               ELSE down
  /\ UNCHANGED <<proberVars, cl, link, sopen, sv, registered, writer, faults,
                 produced, stored, dropped, lostOn>>

\* The message was read before the close: it is enqueued, then the send of the
\* ack raises and the session ends with what it has not read.
HandleOutputClosed(c) ==
  /\ OutputArrives(c) /\ ~sopen[c]
  /\ Enqueue(Head(up[c]))
  /\ up' = [up EXCEPT ![c] = <<>>]
  /\ sv' = [sv EXCEPT ![c] = "done"]
  /\ registered' = FALSE
  /\ UNCHANGED <<proberVars, cl, link, sopen, down, writer, faults,
                 produced, stored, dropped, lostOn>>

\* The writer stores a message.  (Points are keyed by prober, target and time:
\* neither the order nor a second copy matters to the database.)
WriterStores(r) ==
  /\ writer = "running" /\ r \in wq
  /\ wq' = wq \ {r}
  /\ stored' = stored \cup {r}
  /\ UNCHANGED <<proberVars, linkVars, sv, registered, writer, faults,
                 produced, accepted, dropped, lostOn>>

\* record_poll_data raises: nothing catches it in run, the thread is gone; the
\* collector keeps accepting and acknowledging.
WriterDies(r) ==
  /\ writer = "running" /\ r \in wq /\ faults > 0
  /\ wq' = wq \ {r}
  /\ writer' = "dead"
  /\ faults' = faults - 1
  /\ UNCHANGED <<proberVars, linkVars, sv, registered, historyVars>>

\* The collector process is restarted: sessions, registry and write_queue were
\* in memory only.
CollectorRestarts ==
  /\ faults > 0
  /\ faults' = faults - 1
  /\ sv' = [c \in Conns |-> "done"]
  /\ link' = [c \in Conns |-> "down"]
  /\ sopen' = [c \in Conns |-> FALSE]
  /\ up' = [c \in Conns |-> <<>>]
  /\ registered' = FALSE /\ wq' = {} /\ writer' = "running"
  /\ UNCHANGED <<proberVars, cl, down, historyVars>>

-----------------------------------------------------------------------------
Supervisor == (\E c \in Conns : ConnectOk(c)) \/ Supervise \/ SuperviseClosed

Transmit == TransmitSends \/ TransmitSuspends \/ TransmitResumes
              \/ TransmitFails \/ TransmitFailsSuspended

Receive == ReceiveAck \/ ReceiveFails

Notices(c) == ClientNotices(c) \/ ServerNotices(c)

Session(c) ==
  \/ AuthUnregistered(c) \/ AuthDuplicate(c) \/ AuthRegister(c)
  \/ TargetsSent(c) \/ TargetsFail(c)
  \/ HandleOutput(c) \/ HandleOutputClosed(c) \/ SessionEnds(c)

Faults ==
  \/ ConnectAborted \/ CollectorRestarts
  \/ \E c \in Conns : LinkBreaks(c) \/ AuthUnknown(c) \/ TargetsEmpty(c)
  \/ \E r \in Results : WriterDies(r)

Next ==
  \/ \E r \in Results : PingerOutput(r) \/ WriterStores(r)
  \/ Shutdown \/ Supervisor \/ Transmit \/ Receive \/ RequeueStale \/ Tick
  \/ \E c \in Conns : Notices(c) \/ Session(c)
  \/ Faults

Spec == Init /\ [][Next]_vars

\* What the schedulers give: each coroutine and thread that can go on does, the
\* clock advances, and the keepalive of the library finds every broken
\* connection.  Faults, signals and the pinger owe nothing.
Fairness ==
  /\ WF_vars(Supervisor) /\ WF_vars(Transmit) /\ WF_vars(Receive)
  /\ WF_vars(RequeueStale) /\ WF_vars(Tick)
  /\ \A c \in Conns : WF_vars(ClientNotices(c)) /\ WF_vars(ServerNotices(c))
                       /\ WF_vars(Session(c))
  /\ \A r \in Results : WF_vars(WriterStores(r))

FairSpec == Spec /\ Fairness

-----------------------------------------------------------------------------
(* Properties *)

\* Every variable keeps its type.
TypeOK ==
  /\ pinger \in {"running", "finishing", "stopped"}
  /\ queue \in Seq(Results)
  /\ unconf \in SUBSET Sent
  /\ hand \in SUBSET Sent
  /\ mpc \in {"connect", "serving", "dead", "stopped"}
  /\ ws \in Conns \cup {NoConn}
  /\ mpc = "serving" => ws \in Conns
  /\ tws \in Conns \cup {NoConn}
  /\ rws \in Conns \cup {NoConn}
  /\ qpc \in {"done", "asleep", "awake"}
  /\ cl \in [Conns -> {"open", "closed"}]
  /\ link \in [Conns -> {"up", "down"}]
  /\ sopen \in [Conns -> BOOLEAN]
  /\ up \in [Conns -> Seq(Frame)]
  /\ down \in [Conns -> Seq(Ids)]
  /\ sv \in [Conns -> {"unauth", "lookup", "targets", "authed", "done"}]
  /\ registered \in BOOLEAN
  /\ wq \in SUBSET Results
  /\ writer \in {"running", "dead"}
  /\ faults \in Nat
  /\ produced \in SUBSET Results
  /\ accepted \in SUBSET Results
  /\ stored \in SUBSET Results
  /\ dropped \in SUBSET Results
  /\ lostOn \in [Conns -> SUBSET Results]

\* A result is in one place of the prober, once: at one position of the queue,
\* or in one entry of unconfirmed_list, or in the hands of transmit_results.
\* ("it is critical that these two list comprehensions have opposite filters")
SinglePlace ==
  /\ \A i, j \in DOMAIN queue : queue[i] = queue[j] => i = j
  /\ \A m \in unconf \cup hand : m.r \notin Range(queue)
  /\ \A m, n \in unconf \cup hand : m.r = n.r => m = n
  /\ unconf \cap hand = {}
  /\ \A m, n \in hand : m = n

\* No result disappears unnoticed: the prober holds it, or the collector has
\* accepted it, or it went down with the transmit task of a lost connection.
\* Acknowledgements that arrive late, for an older copy, or from a connection
\* that is gone never make the prober forget a result that was not accepted.
Accounted == produced \subseteq Held \cup accepted \cup dropped

\* A lost connection costs at most one result: the transmit task stays bound to
\* its websocket, ends with the first send on it that fails, and is started
\* again on another websocket only.
OneLossPerConnection == \A c \in Conns : \A r, s \in lostOn[c] : r = s

\* What makes the safety properties inductive.  Nothing comes from nowhere;
Origins ==
  /\ Held \cup dropped \cup accepted \subseteq produced
  /\ wq \subseteq accepted

\* a frame under way carries the result its id stands for in unconfirmed_list;
FramesSound ==
  \A c \in Conns : \A f \in Range(up[c]) :
    f.type = "output" =>
      /\ f.r \in produced
      /\ \A m \in unconf \cup hand : m.id = f.id => m.r = f.r

\* an acknowledgement under way is for a result the collector accepted;
AcksSound ==
  \A c \in Conns : \A i \in Range(down[c]) :
    \A m \in unconf \cup hand : m.id = i => m.r \in accepted

\* what the remembered cutoff selects is late;
StaleAreLate == \A m \in unconf \cup hand : m.stale => m.age > AckTimeout

\* and the connection a result was lost on is closed, its transmit task ended.
LossesClosed == \A c \in Conns : lostOn[c] # {} => cl[c] = "closed" /\ tws # c

\* An id that is under way, or that a message waits for, stands for one result
\* only, across reconnections, repeated sends and late acknowledgements: the
\* inductive invariant of the delivery protocol.
DeliveryInv ==
  /\ TypeOK /\ SinglePlace /\ Accounted /\ OneLossPerConnection
  /\ Origins /\ FramesSound /\ AcksSound /\ StaleAreLate /\ LossesClosed

\* A message goes back to the queue only when it has not been acknowledged for
\* longer than MESSAGE_ACK_TIMEOUT, whatever was sent, acknowledged or resumed
\* while the task slept on a cutoff computed earlier.
RequeuedOnlyWhenLate ==
  [][\A m \in unconf : m.r \in Range(queue') => m.age > AckTimeout]_vars

\* The prober and the collector keep the promise of DeliveryPromise.
Promise == INSTANCE DeliveryPromise WITH pending <- Held

PromiseKept == Promise!Spec

\* The name is in clients although no session is left that will pop it.
Leaked == registered /\ \A c \in Conns : sv[c] \notin {"targets", "authed"}

\* What was in write_queue when the collector was restarted or the writer died.
Forgotten == accepted \ (wq \cup stored)

\* Every result gets to the database, through any finite number of faults,
\* unless one of the accidents the code does not recover from befalls it.
Delivered ==
  \A r \in Results :
    r \in produced ~> \/ r \in stored \cup dropped \cup Forgotten
                      \/ ~LoopRuns \/ writer = "dead" \/ Leaked
=============================================================================

------------------------------- MODULE Collector -------------------------------
(***************************************************************************)
(* The collector's event loop with several probers (server.py): the        *)
(* registry clients, the sessions that enter and leave it, and the         *)
(* check_server_messages task that sends changed target lists.             *)
(*                                                                         *)
(* The Django ORM is called through sync_to_async: the lookups of a        *)
(* session and of notify_probers are jobs of ONE worker thread             *)
(* (thread_sensitive=True) and come back to the event loop in their order; *)
(* get_unread_messages has a thread of its own.  Between the two ends of   *)
(* such a call the other coroutines run and the web server changes the     *)
(* database.                                                               *)
(*                                                                         *)
(* A target list is a version number.  What a session does with ping       *)
(* results is the subject of ResultDelivery.                               *)
(***************************************************************************)
EXTENDS Naturals, Sequences, SequencesExt

CONSTANTS
  Names,          \* names of probers
  Conns,          \* the connections that will be made
  Who,            \* the name in the auth message of each connection
  NoConn,         \* no connection
  Messages,       \* the CollectorMessages the web server will post
  Deletable,      \* names that may be deleted (a model bound)
  MaxVersion,     \* edits of a target list end here (a model bound)
  EmptyVersions   \* the versions of target lists that are empty

ASSUME NoConnAssumption == NoConn \notin Conns
ASSUME WhoAssumption == Who \in [Conns -> Names]
ASSUME VersionAssumption == MaxVersion \in Nat \ {0} /\ EmptyVersions \subseteq Nat

VARIABLES
  \* --- the database and the web server
  targets,        \* version of each prober's target list; 0: no such prober
  posted,         \* CollectorMessages in the database
  read,           \* of these, the ones marked read
  \* --- connections and their handle_client coroutines
  sopen,          \* the collector's end is open
  h,              \* handle_client: none, auth, lookup, targets, authed, done
  clients,        \* registry: the connection registered under a name
  keys,           \* its keys in the order of the dictionary
  \* --- the worker thread of the ORM
  jobs,           \* calls submitted and not executed
  results,        \* answers the event loop has not taken up
  \* --- check_server_messages
  npc,            \* asleep, query, marking, ready, notifying, awaiting, dead
  got,            \* the messages get_unread_messages listed
  rest,           \* keys the loop over clients has still to visit
  size,           \* the size of clients when the loop began
  \* --- history
  sent,           \* the version last sent on a connection, 0 if none
  due,            \* the versions in the database when messages were last listed
  leaked          \* connections whose session ended without popping its name

dbVars == <<targets, posted, read>>
sessionVars == <<sopen, h, clients, keys>>
workerVars == <<jobs, results>>
notifierVars == <<npc, got, rest, size>>
historyVars == <<sent, due, leaked>>
vars == <<dbVars, sessionVars, workerVars, notifierVars, historyVars>>

\* A call of the ORM: the lookup of a prober's name, or the target list for the
\* session or for the notifier, always for the prober of connection c.
Job == [kind : {"lookup", "session", "notify"}, c : Conns]
Answer == [kind : {"lookup", "session", "notify"}, c : Conns, v : 0 .. MaxVersion]

NoTargets(v) == v = 0 \/ v \in EmptyVersions

Init ==
  /\ targets = [n \in Names |-> 1]
  /\ posted = {} /\ read = {}
  /\ sopen = [c \in Conns |-> FALSE]
  /\ h = [c \in Conns |-> "none"]
  /\ clients = [n \in Names |-> NoConn] /\ keys = <<>>
  /\ jobs = <<>> /\ results = <<>>
  /\ npc = "query" /\ got = {} /\ rest = <<>> /\ size = 0
  /\ sent = [c \in Conns |-> 0]
  /\ due = [n \in Names |-> 0]
  /\ leaked = {}

-----------------------------------------------------------------------------
(* The web server *)

\* A form changes the target list of a prober.
Edit(n) ==
  /\ targets[n] \in 1 .. MaxVersion - 1
  /\ targets' = [targets EXCEPT ![n] = @ + 1]
  /\ UNCHANGED <<posted, read, sessionVars, workerVars, notifierVars, historyVars>>

\* A prober is deleted.
Delete(n) ==
  /\ n \in Deletable /\ targets[n] # 0
  /\ targets' = [targets EXCEPT ![n] = 0]
  /\ UNCHANGED <<posted, read, sessionVars, workerVars, notifierVars, historyVars>>

\* update_prober_targets posts a NotifyProbers message.
Post(m) ==
  /\ m \notin posted
  /\ posted' = posted \cup {m}
  /\ UNCHANGED <<targets, read, sessionVars, workerVars, notifierVars, historyVars>>

-----------------------------------------------------------------------------
(* Sessions *)

Connect(c) ==
  /\ h[c] = "none"
  /\ h' = [h EXCEPT ![c] = "auth"]
  /\ sopen' = [sopen EXCEPT ![c] = TRUE]
  /\ UNCHANGED <<dbVars, clients, keys, workerVars, notifierVars, historyVars>>

\* The prober goes away and the library finds out.
Disconnect(c) ==
  /\ sopen[c]
  /\ sopen' = [sopen EXCEPT ![c] = FALSE]
  /\ UNCHANGED <<dbVars, h, clients, keys, workerVars, notifierVars, historyVars>>

Registered(n) == n \in Range(keys)

\* handle_auth_message: a name that is not registered is looked up.
AuthUnregistered(c) ==
  /\ h[c] = "auth" /\ ~Registered(Who[c])
  /\ h' = [h EXCEPT ![c] = "lookup"]
  /\ jobs' = Append(jobs, [kind |-> "lookup", c |-> c])
  /\ UNCHANGED <<dbVars, sopen, clients, keys, results, notifierVars, historyVars>>

\* The session of a closed connection without a name ends in recv.
CloseSession(c) ==
  /\ h' = [h EXCEPT ![c] = "done"]
  /\ sopen' = [sopen EXCEPT ![c] = FALSE]

\* A name that is registered: the connection is closed.
AuthDuplicate(c) ==
  /\ h[c] = "auth" /\ Registered(Who[c])
  /\ CloseSession(c)
  /\ UNCHANGED <<dbVars, clients, keys, workerVars, notifierVars, historyVars>>

\* (mutant: with a thread pool answers come back in any order)
AnyAnswer == DOMAIN results

\* The event loop takes up answers in the order the worker gave them.
NextAnswer == {1} \cap DOMAIN results

TakeUp(i, kind, c) ==
  /\ results[i].kind = kind /\ results[i].c = c
  /\ results' = RemoveAt(results, i)

\* (mutant: a list of names, not a dictionary)
AppendKey(n) == Append(keys, n)

\* Setting a key of a dictionary that has it keeps its place.
KeysWith(n) == IF Registered(n) THEN keys ELSE Append(keys, n)

\* The prober is known: it is registered, whatever clients holds by now, and
\* its targets are looked up.
Register(c) ==
  /\ \E i \in NextAnswer : TakeUp(i, "lookup", c) /\ results[i].v # 0
  /\ h' = [h EXCEPT ![c] = "targets"]
  /\ clients' = [clients EXCEPT ![Who[c]] = c]
  /\ keys' = KeysWith(Who[c])
  /\ rest' = IF Registered(Who[c]) \/ npc \notin {"notifying", "awaiting"}
               THEN rest ELSE Append(rest, Who[c])
  /\ jobs' = Append(jobs, [kind |-> "session", c |-> c])
  /\ UNCHANGED <<dbVars, sopen, npc, got, size, historyVars>>

\* The prober is not known.
RejectUnknown(c) ==
  /\ \E i \in NextAnswer : TakeUp(i, "lookup", c) /\ results[i].v = 0
  /\ CloseSession(c)
  /\ UNCHANGED <<dbVars, clients, keys, jobs, notifierVars, historyVars>>

\* The rest of send_target_list, to connection c: an empty list closes the
\* connection, another one is sent; on a closed connection send raises.
SendTargets(c, v) ==
  /\ NoTargets(v) \/ sopen[c]
  /\ sopen' = [sopen EXCEPT ![c] = @ /\ ~NoTargets(v)]
  /\ sent' = IF NoTargets(v) THEN sent ELSE [sent EXCEPT ![c] = v]

SendRaises(c, v) == ~NoTargets(v) /\ ~sopen[c]

\* send_target_list returns into handle_auth_message, and this its name.
SessionTargets(c) ==
  /\ \E i \in NextAnswer : TakeUp(i, "session", c) /\ SendTargets(c, results[i].v)
  /\ h' = [h EXCEPT ![c] = "authed"]
  /\ UNCHANGED <<dbVars, clients, keys, jobs, notifierVars, due, leaked>>

\* It raises through handle_auth_message: handle_client has no client_name yet
\* and pops None.
SessionTargetsFail(c) ==
  /\ \E i \in NextAnswer : TakeUp(i, "session", c) /\ SendRaises(c, results[i].v)
  /\ h' = [h EXCEPT ![c] = "done"]
  /\ leaked' = leaked \cup {c}
  /\ UNCHANGED <<dbVars, sopen, clients, keys, jobs, notifierVars, sent, due>>

\* The keys are names, each of them once.
Without(s, n) ==
  IF n \in Range(s) THEN RemoveAt(s, CHOOSE i \in DOMAIN s : s[i] = n) ELSE s

\* (mutant: nothing is popped)
KeepName(n) == UNCHANGED <<clients, keys, rest>>

\* (mutant: the loop runs over a copy of the keys)
PopNameOnly(n) ==
  /\ clients' = [clients EXCEPT ![n] = NoConn]
  /\ keys' = Without(keys, n)
  /\ rest' = rest

\* handle_client_disconnect pops the NAME, whichever connection it leads to.
PopName(n) ==
  /\ clients' = [clients EXCEPT ![n] = NoConn]
  /\ keys' = Without(keys, n)
  /\ rest' = Without(rest, n)

\* recv raises: the session of a closed connection ends.
SessionEnds(c) ==
  /\ h[c] \in {"auth", "authed"} /\ ~sopen[c]
  /\ h' = [h EXCEPT ![c] = "done"]
  /\ IF h[c] = "authed" THEN PopName(Who[c]) ELSE UNCHANGED <<clients, keys, rest>>
  /\ UNCHANGED <<dbVars, sopen, workerVars, npc, got, size, historyVars>>

-----------------------------------------------------------------------------
(* The worker thread: each call reads the database when it is executed *)

Worker ==
  /\ jobs # <<>>
  /\ results' = Append(results, [kind |-> Head(jobs).kind, c |-> Head(jobs).c,
                                 v |-> targets[Who[Head(jobs).c]]])
  /\ jobs' = Tail(jobs)
  /\ UNCHANGED <<dbVars, sessionVars, notifierVars, historyVars>>

-----------------------------------------------------------------------------
(* check_server_messages, get_unread_messages and notify_probers *)

WakeUp ==
  /\ npc = "asleep"
  /\ npc' = "query"
  /\ UNCHANGED <<dbVars, sessionVars, workerVars, got, rest, size, historyVars>>

\* get_unread_messages lists the unread messages ...
ListUnread ==
  /\ npc = "query"
  /\ npc' = "marking"
  /\ got' = posted \ read
  /\ due' = IF got' = {} THEN due ELSE targets
  /\ UNCHANGED <<dbVars, sessionVars, workerVars, rest, size, sent, leaked>>

\* ... and in a second statement marks what is unread by then.
MarkRead ==
  /\ npc = "marking"
  /\ npc' = "ready"
  /\ read' = posted
  /\ UNCHANGED <<targets, posted, sessionVars, workerVars, got, rest, size, historyVars>>

\* The task goes on with the list.  Nothing is awaited up to the end of the first
\* turn of "for name in clients": it sleeps, or waits for the first prober's list.
CheckMessages ==
  /\ npc = "ready"
  /\ IF got = {} \/ keys = <<>>
       THEN npc' = "asleep" /\ UNCHANGED <<jobs, rest, size>>
       ELSE /\ npc' = "awaiting" /\ size' = Len(keys) /\ rest' = Tail(keys)
            /\ jobs' = Append(jobs, [kind |-> "notify", c |-> clients[Head(keys)]])
  /\ got' = {}
  /\ UNCHANGED <<dbVars, sessionVars, results, historyVars>>

\* The next turn of "for name in clients" finds the dictionary changed in size:
\* RuntimeError, and nobody awaits the task.
NotifyRuntimeError ==
  /\ npc = "notifying" /\ Len(keys) # size
  /\ npc' = "dead" /\ rest' = <<>>
  /\ UNCHANGED <<dbVars, sessionVars, workerVars, got, size, historyVars>>

NotifyNext ==
  /\ npc = "notifying" /\ Len(keys) = size /\ rest # <<>>
  /\ npc' = "awaiting"
  /\ jobs' = Append(jobs, [kind |-> "notify", c |-> clients[Head(rest)]])
  /\ rest' = Tail(rest)
  /\ UNCHANGED <<dbVars, sessionVars, results, got, size, historyVars>>

NotifyDone ==
  /\ npc = "notifying" /\ Len(keys) = size /\ rest = <<>>
  /\ npc' = "asleep"
  /\ UNCHANGED <<dbVars, sessionVars, workerVars, got, rest, size, historyVars>>

\* (mutant: return where the loop goes on)
AfterFirst == "asleep"

\* After a client the loop goes on with the next.
AfterSend == "notifying"

NotifyTargets(c) ==
  /\ \E i \in NextAnswer : TakeUp(i, "notify", c) /\ SendTargets(c, results[i].v)
  /\ npc' = AfterSend
  /\ UNCHANGED <<dbVars, h, clients, keys, jobs, got, rest, size, due, leaked>>

\* send raises ConnectionClosed through notify_probers and check_server_messages.
NotifyTargetsFail(c) ==
  /\ \E i \in NextAnswer : TakeUp(i, "notify", c) /\ SendRaises(c, results[i].v)
  /\ npc' = "dead" /\ rest' = <<>>
  /\ UNCHANGED <<dbVars, sessionVars, jobs, got, size, historyVars>>

-----------------------------------------------------------------------------
WebServer == (\E n \in Names : Edit(n) \/ Delete(n)) \/ (\E m \in Messages : Post(m))

Session(c) ==
  \/ AuthUnregistered(c) \/ AuthDuplicate(c) \/ Register(c) \/ RejectUnknown(c)
  \/ SessionTargets(c) \/ SessionTargetsFail(c) \/ SessionEnds(c)

Notifier ==
  \/ WakeUp \/ ListUnread \/ MarkRead \/ CheckMessages
  \/ NotifyRuntimeError \/ NotifyNext \/ NotifyDone
  \/ \E c \in Conns : NotifyTargets(c) \/ NotifyTargetsFail(c)

Next ==
  \/ WebServer \/ Worker \/ Notifier
  \/ \E c \in Conns : Connect(c) \/ Disconnect(c) \/ Session(c)

Spec == Init /\ [][Next]_vars

\* Coroutines and threads that can go on do; people and probers owe nothing.
Fairness == WF_vars(Worker) /\ WF_vars(Notifier) /\ \A c \in Conns : WF_vars(Session(c))

FairSpec == Spec /\ Fairness

-----------------------------------------------------------------------------
(* Properties *)

TypeOK ==
  /\ targets \in [Names -> 0 .. MaxVersion]
  /\ posted \in SUBSET Messages /\ read \in SUBSET Messages
  /\ sopen \in [Conns -> BOOLEAN]
  /\ h \in [Conns -> {"none", "auth", "lookup", "targets", "authed", "done"}]
  /\ clients \in [Names -> Conns \cup {NoConn}]
  /\ \A i, j \in DOMAIN keys : keys[i] = keys[j] => i = j
  /\ keys \in Seq(Names) /\ rest \in Seq(Names) /\ size \in Nat
  /\ jobs \in Seq(Job) /\ results \in Seq(Answer)
  /\ npc \in {"asleep", "query", "marking", "ready", "notifying", "awaiting", "dead"}
  /\ got \in SUBSET Messages
  /\ sent \in [Conns -> 0 .. MaxVersion]
  /\ due \in [Names -> 0 .. MaxVersion]
  /\ leaked \in SUBSET Conns

\* A prober is never sent a target list older than one it was sent before,
\* although its session and notify_probers look lists up for it concurrently.
TargetsNeverRegress == [][\A c \in Conns : sent'[c] >= sent[c]]_vars

\* The keys the notifier's loop visits lead to connections, of sessions that
\* got a list or are about to: clients[name] never fails in notify_probers.
VisitedAreRegistered ==
  /\ \A n \in Names : clients[n] # NoConn <=> Registered(n)
  /\ npc \in {"notifying", "awaiting"} => Range(rest) \subseteq Range(keys)

\* A change that was in the database when a message was listed reaches every
\* prober that is registered and stays so, unless the notifier has died.
Notified ==
  \A c \in Conns, v \in 1 .. MaxVersion :
    due[Who[c]] = v /\ clients[Who[c]] = c ~>
      sent[c] >= v \/ ~sopen[c] \/ clients[Who[c]] # c \/ npc = "dead"

\* The entry of a closed connection leaves the registry, except when its session
\* ended before it had its name.
ClosedLeaveRegistry ==
  \A c \in Conns :
    clients[Who[c]] = c /\ ~sopen[c] ~> clients[Who[c]] # c \/ c \in leaked

\* The docstring of notify_probers (server.py:200): "Send current target list to
\* all connected probers".  With probers left to visit, the loop could only go on
\* if no client came or went while it waited for the one before.
LoopGoesOn == npc = "notifying" /\ rest # <<>> => Len(keys) = size
=============================================================================

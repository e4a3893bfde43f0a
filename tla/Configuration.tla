----------------------------- MODULE Configuration -----------------------------
(***************************************************************************)
(* The configuration of the probers: rows of probers, targets and probe    *)
(* groups (pingweb/models.py), the forms that write them (pingweb/views.py *)
(* and class_views.py), the button that has the collector send the lists   *)
(* out, the collector's check_server_messages, and its read of the list of *)
(* one prober for its session and for notify_probers (server.py).          *)
(*                                                                         *)
(* No request and no read is one transaction.  The forms are worked on by  *)
(* the processes of the web server, the read by the one worker thread of   *)
(* the collector's ORM, the messages by another: each statement, and each  *)
(* atomic block of Django, is a step of its own.  The registry of several  *)
(* probers and sessions is the subject of Collector.                       *)
(***************************************************************************)
EXTENDS Naturals

CONSTANTS
  Probers, Targets, Groups,  \* keys, of which a row may be made
  Names, Addresses,          \* what a prober and a target are edited to
  Group,                     \* the content of the row of any group
  NoRow,
  InitialRows, InitialLinks, \* the configuration to begin with
  Name,                      \* the prober whose list the collector reads
  Workers,                   \* processes of the web server
  MaxPosts                   \* forms posted, deletions too (a model bound)

Ids == Probers \cup Targets \cup Groups

Content(id) ==
  IF id \in Probers THEN Names ELSE IF id \in Targets THEN Addresses ELSE {Group}

ASSUME KeysAssumption ==
  Probers \cap Targets = {} /\ Probers \cap Groups = {} /\ Targets \cap Groups = {}

ASSUME ContentAssumption ==
  NoRow \notin Names \cup Addresses \cup {Group} /\ Name \in Names /\ MaxPosts \in Nat

\* What the database enforces holds at the start.
ASSUME InitialAssumption ==
  /\ InitialRows \in [Ids -> Names \cup Addresses \cup {Group, NoRow}]
  /\ \A id \in Ids : InitialRows[id] \in Content(id) \cup {NoRow}
  /\ \A p, q \in Probers : InitialRows[p] # NoRow /\ InitialRows[p] = InitialRows[q] => p = q
  /\ InitialLinks \in
       [Groups -> SUBSET {x \in Probers \cup Targets : InitialRows[x] # NoRow}]
  /\ \A g \in Groups : InitialRows[g] = NoRow => InitialLinks[g] = {}

VARIABLES
  rows,     \* the content of each row, NoRow where there is none
  links,    \* the probers and targets of a group
  made,     \* keys that have been given out: they are not given again
  post,     \* what each worker does for the form it was posted
  posts,    \* how many forms have been posted
  pending,  \* there is an unread NotifyProbers message
  notifier, \* check_server_messages: asleep, marking, notifying, awaiting, dead
  listed,   \* its SELECT found a message
  session,  \* the prober's entry in clients: none, open, closed, leaked
  reader,   \* send_target_list: idle, lookup, groups, reading, send
  prober,   \* the prober it found
  rest,     \* groups it has still to read
  list,     \* targets it has found
  sent,     \* the list last sent on its open connection
  \* --- history
  form,     \* what was last chosen for a group
  mixed,    \* groups with two forms at a time, or one that failed
  deleted,  \* keys that were deleted some time
  dirty,    \* the configuration has changed since the button was pressed
  missed,   \* pressed between an empty SELECT and its UPDATE, and no read since
  steady    \* links that were there all the time of this read

dbVars == <<rows, links, made>>
webVars == <<post, posts>>
messageVars == <<pending, missed>>
notifierVars == <<notifier, listed>>
clientVars == <<session, sent>>
readVars == <<reader, prober, rest, list>>
historyVars == <<form, mixed, deleted>>
collectorVars == <<messageVars, notifierVars, clientVars, readVars>>
vars == <<dbVars, webVars, collectorVars, historyVars, dirty, steady>>

Exists(id) == rows[id] # NoRow

Idle == [step |-> "idle"]

Field(step) == IF step \in {"readProbers", "setProbers"} THEN Probers ELSE Targets

-----------------------------------------------------------------------------
(* What the prober called Name has to ping *)

\* A target of a group of the prober.
Pairs == {gt \in Groups \X Targets :
            /\ gt[2] \in links[gt[1]]
            /\ \E p \in links[gt[1]] \cap Probers : rows[p] = Name}

Entry(t) == <<t, rows[t]>>

Configured == {Entry(gt[2]) : gt \in Pairs}

\* The history of a read is kept along with every step.
Witness ==
  /\ dirty' = (dirty \/ <<rows, links>>' # <<rows, links>>)
  /\ steady' = IF reader = "idle" THEN {} ELSE steady \cap Pairs'

Quiet == UNCHANGED <<dirty, steady>>

-----------------------------------------------------------------------------
(* The web server *)

\* A form of a group chooses probers and targets that exist.
Choices(id) == IF id \in Groups THEN SUBSET {x \in Probers \cup Targets : Exists(x)} ELSE {{}}

\* list_ and edit_ views: the row is looked up or is to be made, the form valid.
PostForm(w, id) ==
  /\ post[w] = Idle /\ posts < MaxPosts /\ posts' = posts + 1
  /\ Exists(id) \/ id \notin made
  /\ made' = made \cup {id}
  /\ \E value \in Content(id), chosen \in Choices(id) :
       /\ id \in Probers => \A p \in Probers \ {id} : rows[p] # value
       /\ post' = [post EXCEPT ![w] = [step |-> "row", id |-> id, value |-> value,
                                       chosen |-> chosen, old |-> {}]]
       /\ form' = IF id \in Groups THEN [form EXCEPT ![id] = chosen] ELSE form
  /\ mixed' = IF \E v \in Workers : post[v] # Idle /\ post[v].id = id
                THEN mixed \cup {id} ELSE mixed \ {id}
  /\ UNCHANGED <<rows, links, collectorVars, deleted>> /\ Quiet

Turned(w, next) == post' = [post EXCEPT ![w] = next]

\* save() updates the row, or inserts it: also where it was deleted meanwhile.
\* The name of a prober is unique.
SaveRow(w) ==
  /\ post[w].step = "row"
  /\ LET id == post[w].id
     IN  /\ id \in Probers => \A p \in Probers \ {id} : rows[p] # post[w].value
         /\ rows' = [rows EXCEPT ![id] = post[w].value]
         /\ Turned(w, IF id \in Groups THEN [post[w] EXCEPT !.step = "readProbers"] ELSE Idle)
  /\ UNCHANGED <<links, made, posts, collectorVars, historyVars>> /\ Witness

\* Probers first, then targets: set() reads what is linked ...
ReadLinks(w) ==
  /\ post[w].step \in {"readProbers", "readTargets"}
  /\ Turned(w, [post[w] EXCEPT
                  !.step = IF @ = "readProbers" THEN "setProbers" ELSE "setTargets",
                  !.old = links[post[w].id] \cap Field(post[w].step)])
  /\ UNCHANGED <<dbVars, posts, collectorVars, historyVars>> /\ Quiet

\* (mutant: nothing is taken out)
OnlyAdded(linked, old, new) == linked \cup (new \ old)

\* ... and takes out and puts in the difference.
Updated(linked, old, new) == (linked \ (old \ new)) \cup (new \ old)

\* The database ignores a link to a row that has gone.
SetLinks(w) ==
  /\ post[w].step \in {"setProbers", "setTargets"}
  /\ LET g == post[w].id
         new == post[w].chosen \cap Field(post[w].step)
     IN  /\ links' = IF Exists(g)
                       THEN [links EXCEPT ![g] =
                               {x \in Updated(@, post[w].old, new) : Exists(x)}]
                       ELSE links
         /\ Turned(w, IF post[w].step = "setProbers"
                        THEN [post[w] EXCEPT !.step = "readTargets"] ELSE Idle)
  /\ UNCHANGED <<rows, made, posts, collectorVars, historyVars>> /\ Witness

\* The database fails, or refuses a name that was given meanwhile: what was
\* done of the form stays.
PostFails(w) ==
  /\ post[w] # Idle
  /\ Turned(w, Idle)
  /\ mixed' = mixed \cup {post[w].id}
  /\ UNCHANGED <<dbVars, posts, collectorVars, form, deleted>> /\ Quiet

\* (mutant: the links to the row stay)
Unlinked(id) == [g \in Groups |-> IF g = id THEN {} ELSE links[g]]

\* The rows of the links go with either of their ends.
WithoutLinks(id) == [g \in Groups |-> IF g = id THEN {} ELSE links[g] \ {id}]

\* ProberDelete, TargetDelete, ProbeGroupDelete
Delete(id) ==
  /\ Exists(id) /\ posts < MaxPosts /\ posts' = posts + 1
  /\ rows' = [rows EXCEPT ![id] = NoRow]
  /\ links' = WithoutLinks(id)
  /\ deleted' = deleted \cup {id}
  /\ UNCHANGED <<made, post, collectorVars, form, mixed>> /\ Witness

\* update_prober_targets
PostMessage ==
  /\ pending' = TRUE /\ dirty' = FALSE
  /\ missed' = (notifier = "marking" /\ ~listed)
  /\ UNCHANGED <<dbVars, webVars, notifierVars, clientVars, readVars, historyVars, steady>>

-----------------------------------------------------------------------------
(* get_unread_messages of the collector *)

\* (mutant: the list is made after the update)
AfterUpdate == FALSE

\* The messages are listed before the update marks them.
Unread == pending

\* list(messages)
ListUnread ==
  /\ notifier = "asleep" /\ notifier' = "marking"
  /\ listed' = Unread
  /\ UNCHANGED <<dbVars, webVars, messageVars, clientVars, readVars, historyVars>> /\ Quiet

\* messages.update(read=True): all that are unread by then, listed or not.
MarkRead ==
  /\ notifier = "marking" /\ notifier' = IF listed THEN "notifying" ELSE "asleep"
  /\ pending' = FALSE /\ listed' = FALSE
  /\ UNCHANGED <<dbVars, webVars, missed, clientVars, readVars, historyVars>> /\ Quiet

\* The task dies: the database fails, clients changes under the loop, or the
\* send to another prober raises.
NotifierDies ==
  /\ notifier \in {"asleep", "marking", "notifying"} /\ notifier' = "dead"
  /\ listed' = FALSE
  /\ UNCHANGED <<dbVars, webVars, messageVars, clientVars, readVars, historyVars>> /\ Quiet

\* The prober is not in clients.
NotifySkips ==
  /\ notifier = "notifying" /\ session = "none" /\ notifier' = "asleep"
  /\ UNCHANGED <<dbVars, webVars, messageVars, listed, clientVars, readVars, historyVars>> /\ Quiet

-----------------------------------------------------------------------------
(* The session of the prober, and the read of its list *)

\* The worker thread executes one read at a time, and the answers are taken up
\* in their order.
Begin ==
  /\ reader = "idle" /\ reader' = "lookup"
  /\ steady' = Pairs /\ missed' = FALSE
  /\ UNCHANGED <<dbVars, webVars, pending, listed, sent, prober, rest, list, historyVars, dirty>>

\* The turn of the prober in notify_probers.
BeginNotify ==
  /\ notifier = "notifying" /\ session # "none" /\ notifier' = "awaiting"
  /\ UNCHANGED session /\ Begin

\* handle_auth_message registers the prober.
BeginSession ==
  /\ session = "none" /\ session' = "open"
  /\ UNCHANGED notifier /\ Begin

Disconnect ==
  /\ session = "open" /\ session' = "closed" /\ sent' = {}
  /\ UNCHANGED <<dbVars, webVars, messageVars, notifierVars, readVars, historyVars>> /\ Quiet

\* The read is the session's unless the notifier awaits it.
SessionReads == reader # "idle" /\ notifier # "awaiting"

\* recv raises, the name is popped.
SessionEnds ==
  /\ session = "closed" /\ ~SessionReads /\ session' = "none"
  /\ UNCHANGED <<dbVars, webVars, messageVars, notifierVars, sent, readVars, historyVars>> /\ Quiet

\* Prober.objects.get; of no prober the list is empty.
FindProber ==
  /\ reader = "lookup"
  /\ \/ \E p \in Probers : rows[p] = Name /\ prober' = p /\ reader' = "groups"
     \/ (\A p \in Probers : rows[p] # Name) /\ reader' = "send" /\ UNCHANGED prober
  /\ list' = {} /\ rest' = {}
  /\ UNCHANGED <<dbVars, webVars, messageVars, notifierVars, clientVars, historyVars>> /\ Quiet

\* get_unique_targets: self.probegroup_set.all()
ListGroups ==
  /\ reader = "groups" /\ reader' = "reading"
  /\ rest' = {g \in Groups : prober \in links[g]}
  /\ UNCHANGED <<dbVars, webVars, messageVars, notifierVars, clientVars, prober, list, historyVars>>
  /\ Quiet

\* (mutant: update forgets the groups before)
Replaced(found) == found

\* A set of rows is one of keys: a target that was found stays as it was found.
Joined(found) == list \cup {e \in found : \A f \in list : f[1] # e[1]}

\* group.targets.all()
ReadGroup(g) ==
  /\ reader = "reading" /\ g \in rest
  /\ rest' = rest \ {g}
  /\ list' = Joined({Entry(t) : t \in links[g] \cap Targets})
  /\ UNCHANGED <<dbVars, webVars, messageVars, notifierVars, clientVars, reader, prober, historyVars>>
  /\ Quiet

EndRead ==
  /\ reader = "reading" /\ rest = {} /\ reader' = "send"
  /\ UNCHANGED <<dbVars, webVars, messageVars, notifierVars, clientVars, prober, rest, list, historyVars>>
  /\ Quiet

EndOfRead ==
  /\ reader' = "idle" /\ prober' = NoRow /\ rest' = {} /\ list' = {} /\ steady' = {}
  /\ UNCHANGED <<dbVars, webVars, messageVars, listed, historyVars, dirty>>

\* send_target_list returns to the notifier or to the session.
Returned == IF notifier = "awaiting" THEN "asleep" ELSE notifier

\* It raises: the notifier dies; a session ends without popping its name.
Raised ==
  IF notifier = "awaiting"
    THEN notifier' = "dead" /\ UNCHANGED clientVars
    ELSE session' = "leaked" /\ sent' = {} /\ UNCHANGED notifier

SendList ==
  /\ reader = "send" /\ list # {} /\ session = "open"
  /\ sent' = list /\ notifier' = Returned /\ UNCHANGED session
  /\ EndOfRead

\* An empty list closes the connection.
CloseOnEmpty ==
  /\ reader = "send" /\ list = {}
  /\ session' = IF session = "open" THEN "closed" ELSE session
  /\ notifier' = Returned /\ sent' = {}
  /\ EndOfRead

\* send raises ConnectionClosed, or a query of the read fails.
SendFails ==
  /\ \/ reader = "send" /\ list # {} /\ session # "open"
     \/ reader \in {"lookup", "groups", "reading"}
  /\ Raised
  /\ EndOfRead

-----------------------------------------------------------------------------
Init ==
  /\ rows = InitialRows /\ links = InitialLinks
  /\ made = {id \in Ids : rows[id] # NoRow}
  /\ post = [w \in Workers |-> Idle] /\ posts = 0
  /\ pending = FALSE /\ missed = FALSE
  /\ notifier = "asleep" /\ listed = FALSE /\ session = "none" /\ sent = {}
  /\ reader = "idle" /\ prober = NoRow /\ rest = {} /\ list = {}
  /\ form = links /\ mixed = {} /\ deleted = {}
  /\ dirty = FALSE /\ steady = {}

WebServer ==
  \/ \E w \in Workers :
       (\E id \in Ids : PostForm(w, id)) \/ SaveRow(w) \/ ReadLinks(w) \/ SetLinks(w) \/ PostFails(w)
  \/ (\E id \in Ids : Delete(id)) \/ PostMessage

CheckMessages == ListUnread \/ MarkRead \/ NotifierDies \/ NotifySkips

CollectorRead ==
  \/ BeginNotify \/ BeginSession \/ FindProber \/ ListGroups
  \/ (\E g \in Groups : ReadGroup(g)) \/ EndRead
  \/ SendList \/ CloseOnEmpty \/ SendFails

Next == WebServer \/ CheckMessages \/ Disconnect \/ SessionEnds \/ CollectorRead

Spec == Init /\ [][Next]_vars

-----------------------------------------------------------------------------
(* Properties *)

Member == Probers \cup Targets

Form == [step : {"row", "readProbers", "setProbers", "readTargets", "setTargets"},
         id : Ids, value : Names \cup Addresses \cup {Group},
         chosen : SUBSET Member, old : SUBSET Member]

\* A form in work is of a key that was given out; only that of a group has links.
FormOK(f) ==
  /\ f \in Form /\ f.value \in Content(f.id) /\ f.id \in made
  /\ f.step # "row" => f.id \in Groups

DbOK ==
  /\ rows \in [Ids -> Names \cup Addresses \cup {Group, NoRow}]
  /\ \A id \in Ids : rows[id] \in Content(id) \cup {NoRow}
  /\ links \in [Groups -> SUBSET {x \in Member : Exists(x)}]
  /\ \A g \in Groups : ~Exists(g) => links[g] = {}
  /\ \A p, q \in Probers : Exists(p) /\ rows[p] = rows[q] => p = q
  /\ made \subseteq Ids /\ {id \in Ids : Exists(id)} \subseteq made

WebOK ==
  /\ post \in [Workers -> {Idle} \cup Form]
  /\ \A w \in Workers : post[w] = Idle \/ FormOK(post[w])
  /\ posts \in 0 .. MaxPosts
  /\ form \in [Groups -> SUBSET Member] /\ mixed \subseteq Ids /\ deleted \subseteq Ids

ReadOK ==
  /\ reader \in {"idle", "lookup", "groups", "reading", "send"}
  /\ prober \in Probers \cup {NoRow}
  /\ rest \subseteq Groups /\ list \subseteq Targets \X Addresses
  /\ sent \subseteq Targets \X Addresses
  /\ pending \in BOOLEAN /\ dirty \in BOOLEAN /\ missed \in BOOLEAN /\ listed \in BOOLEAN
  /\ notifier \in {"asleep", "marking", "notifying", "awaiting", "dead"}
  /\ session \in {"none", "open", "closed", "leaked"}
  /\ notifier = "awaiting" => reader # "idle"
  /\ listed => notifier = "marking"
  /\ steady \subseteq Groups \X Targets

TypeOK == DbOK /\ WebOK /\ ReadOK

\* After a press of the button that follows the last change, the prober has the
\* list that is configured once the collector has worked off the message, although
\* reads that began earlier, for the session or for an earlier message, may end in
\* between (server.py:70-92, 199-225).  Let off are a press the collector marks
\* read without having listed it (models.py:145-147), and a dead notifier: after
\* these nothing sends the list.
UpToDate ==
  session = "open" /\ reader = "idle" /\ notifier = "asleep" /\ ~pending /\ ~dirty /\ ~missed
    => sent = Configured

\* A target that is in a group of the prober all the time the list is read is in
\* the list, whatever other forms do to this group and others between the
\* queries of get_unique_targets (models.py:23).
SteadyAreListed ==
  reader = "send" => \A gt \in steady : \E e \in list : e[1] = gt[2]

\* A group that no form is being saved to holds what was chosen on the last one,
\* but for rows that were deleted: edits that do not overlap and do not fail
\* leave nothing of the forms before, in three transactions each
\* (views.py:237-247).
GroupIsItsForm ==
  \A g \in Groups :
    Exists(g) /\ g \notin mixed \cup deleted /\ (\A w \in Workers : post[w] # Idle => post[w].id # g)
      => links[g] \subseteq form[g] /\ form[g] \ links[g] \subseteq deleted
=============================================================================

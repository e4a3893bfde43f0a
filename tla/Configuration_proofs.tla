-------------------------- MODULE Configuration_proofs --------------------------
(* Proofs about Configuration, for any probers, targets, groups and workers. *)
EXTENDS Configuration, TLAPS

\* ----- the forms

\* Who works on a key that is not mixed works on it alone.
OneWorker ==
  \A v, w \in Workers :
    post[v] # Idle /\ post[w] # Idle /\ post[v].id = post[w].id /\ post[v].id \notin mixed => v = w

\* What a form chose is there or was deleted; the form of a group that is not
\* mixed is the last one.
ChosenBy(f) ==
  /\ \A x \in f.chosen : Exists(x) \/ x \in deleted
  /\ f.step # "row" => Exists(f.id) \/ f.id \in deleted
  /\ f.id \in Groups \ mixed => f.chosen = form[f.id]

ChosenExist == \A w \in Workers : post[w] # Idle => ChosenBy(post[w])

\* A field of a group holds what was chosen, but for deletions.
Holds(g, field) ==
  links[g] \cap field \subseteq form[g] /\ (form[g] \cap field) \ links[g] \subseteq deleted

\* What was read of a field is what is there, but for deletions.
Known(g, field, old) ==
  links[g] \cap field \subseteq old /\ old \ links[g] \subseteq deleted /\ old \subseteq field

\* How far a worker has got with a group.
WorkedOn(f) ==
  f.id \in Groups \ (mixed \cup deleted) =>
    /\ f.step = "setProbers" => Known(f.id, Probers, f.old)
    /\ f.step \in {"readTargets", "setTargets"} => Holds(f.id, Probers)
    /\ f.step = "setTargets" => Known(f.id, Targets, f.old)

WorkSound == \A w \in Workers : post[w] # Idle => WorkedOn(post[w])

AtRest(g) == \A w \in Workers : post[w] # Idle => post[w].id # g

\* A group nobody works on has got both fields.
RestedHold ==
  \A g \in Groups \ (mixed \cup deleted) :
    Exists(g) /\ AtRest(g) => Holds(g, Probers) /\ Holds(g, Targets)

\* ----- the read of the collector

Listed(gt) == \E e \in list : e[1] = gt[2]

\* The notifier has a message in hand and has still to read the list.
Owed == listed \/ notifier = "notifying"

\* What was pressed after the last change has been seen by a read that began
\* since, or there was nothing to press for.
Clean ==
  /\ ~dirty /\ session = "open" /\ notifier # "dead" /\ ~Owed
  /\ ~pending \/ notifier = "marking"
  /\ ~missed

GroupsOf(p) == {g \in Groups : p \in links[g]}
EntriesOf(groups) == {Entry(t) : t \in UNION {links[g] \cap Targets : g \in groups}}

\* A steady link is of the prober that was found; its group has still to be read,
\* or its target is listed.
SteadySound ==
  /\ steady \subseteq Pairs
  /\ reader = "idle" => steady = {}
  /\ reader \in {"groups", "reading"} => prober \in Probers /\ (steady # {} => rows[prober] = Name)
  /\ reader = "groups" => list = {}
  /\ reader = "reading" => \A gt \in steady : gt[1] \in rest \/ Listed(gt)
  /\ reader = "send" => \A gt \in steady : Listed(gt)

\* Then a read finds what is configured, and the last one did.
CleanSound ==
  Clean =>
    /\ reader = "idle" => sent = Configured
    /\ reader \in {"groups", "reading"} => rows[prober] = Name
    /\ reader = "reading" => rest \subseteq GroupsOf(prober) /\ list = EntriesOf(GroupsOf(prober) \ rest)
    /\ reader = "send" => list = Configured

FormInv == TypeOK /\ OneWorker /\ ChosenExist /\ WorkSound /\ RestedHold

ReadInv == SteadySound /\ CleanSound

USE DEF dbVars, webVars, messageVars, notifierVars, clientVars, readVars, collectorVars, historyVars

-----------------------------------------------------------------------------
(* Types *)

LEMMA ContentTypes ==
  ASSUME NEW id \in Ids
  PROVE  /\ Content(id) \subseteq Names \cup Addresses \cup {Group}
         /\ NoRow \notin Content(id)
         /\ id \in Targets => Content(id) = Addresses
         /\ id \in Probers => Content(id) = Names
  BY KeysAssumption, ContentAssumption DEF Content, Ids

LEMMA InitTypes == Init => TypeOK
  <1> SUFFICES ASSUME Init PROVE TypeOK
    OBVIOUS
  <1>1. links \in [Groups -> SUBSET {x \in Member : Exists(x)}]
    BY InitialAssumption DEF Init, Exists, Member
  <1>2. DbOK
    BY <1>1, InitialAssumption DEF Init, Exists, DbOK
  <1>3. WebOK
    BY <1>1, ContentAssumption DEF Init, WebOK
  <1>4. ReadOK
    BY DEF Init, ReadOK
  <1> QED BY <1>2, <1>3, <1>4 DEF TypeOK

\* A worker that is not idle has a form.
LEMMA WorkerForm ==
  ASSUME WebOK, NEW w \in Workers, post[w] # Idle
  PROVE  /\ FormOK(post[w]) /\ post[w] \in Form
         /\ post[w].id \in Ids /\ post[w].chosen \subseteq Member /\ post[w].old \subseteq Member
  BY DEF WebOK, FormOK, Form

LEMMA StepIsWork ==
  ASSUME NEW w, post[w].step # "idle"
  PROVE  post[w] # Idle
  BY DEF Idle

LEMMA SameDb ==
  ASSUME DbOK, UNCHANGED <<rows, links, made>>
  PROVE  DbOK'
  BY DEF DbOK, Exists

LEMMA SameWeb ==
  ASSUME WebOK, UNCHANGED <<post, posts, made, form, mixed, deleted>>
  PROVE  WebOK'
  BY DEF WebOK, FormOK

\* A worker turns to the next step of its form, or to no form.
LEMMA TurnedWeb ==
  ASSUME WebOK, NEW w \in Workers, NEW next, Turned(w, next), UNCHANGED <<posts, made, form, deleted>>,
         mixed' \subseteq Ids, next = Idle \/ (next \in Form /\ FormOK(next))
  PROVE  WebOK'
  <1>1. post' \in [Workers -> {Idle} \cup Form]
    BY DEF WebOK, Turned
  <1>2. ASSUME NEW v \in Workers PROVE (post[v] = Idle \/ FormOK(post[v]))'
    BY DEF WebOK, Turned, FormOK
  <1> QED BY <1>1, <1>2 DEF WebOK

LEMMA PostFormTypes ==
  ASSUME TypeOK, NEW w \in Workers, NEW id \in Ids, PostForm(w, id)
  PROVE  TypeOK'
  <1>1. PICK value \in Content(id), chosen \in Choices(id) :
          /\ post' = [post EXCEPT ![w] = [step |-> "row", id |-> id, value |-> value,
                                          chosen |-> chosen, old |-> {}]]
          /\ form' = IF id \in Groups THEN [form EXCEPT ![id] = chosen] ELSE form
    BY DEF PostForm
  <1> DEFINE f == [step |-> "row", id |-> id, value |-> value, chosen |-> chosen, old |-> {}]
  <1>2. value \in Names \cup Addresses \cup {Group}
    BY ContentTypes
  <1>3. chosen \subseteq Member
    BY DEF Choices, Member
  <1>4. f \in Form /\ f.value \in Content(f.id) /\ f.id = id /\ f.step = "row"
    BY <1>2, <1>3 DEF Form
  <1>5. post' = [post EXCEPT ![w] = f]
    BY <1>1
  <1> HIDE DEF f
  <1>6. made' = made \cup {id} /\ UNCHANGED <<rows, links>>
    BY DEF PostForm
  <1>7. DbOK'
    BY <1>6 DEF TypeOK, DbOK, Exists
  <1>8. WebOK'
    <2>1. post' \in [Workers -> {Idle} \cup Form]
      BY <1>4, <1>5 DEF TypeOK, WebOK
    <2>2. ASSUME NEW v \in Workers PROVE (post[v] = Idle \/ FormOK(post[v]))'
      BY <1>4, <1>5, <1>6 DEF TypeOK, WebOK, FormOK
    <2>3. posts' \in 0 .. MaxPosts
      BY ContentAssumption DEF PostForm, TypeOK, WebOK
    <2>4. form' \in [Groups -> SUBSET Member]
      BY <1>1, <1>3 DEF TypeOK, WebOK
    <2>5. mixed' \subseteq Ids /\ deleted' \subseteq Ids
      BY DEF PostForm, TypeOK, WebOK
    <2> QED BY <2>1, <2>2, <2>3, <2>4, <2>5 DEF WebOK
  <1>9. ReadOK'
    BY DEF PostForm, Quiet, TypeOK, ReadOK
  <1> QED BY <1>7, <1>8, <1>9 DEF TypeOK

LEMMA WitnessTypes ==
  ASSUME TypeOK, Witness, UNCHANGED collectorVars
  PROVE  ReadOK'
  BY DEF TypeOK, ReadOK, Witness, Pairs

LEMMA SaveRowTypes ==
  ASSUME TypeOK, NEW w \in Workers, SaveRow(w)
  PROVE  TypeOK'
  <1> DEFINE f == post[w]
             next == IF f.id \in Groups THEN [f EXCEPT !.step = "readProbers"] ELSE Idle
  <1>1. f # Idle /\ f.step = "row"
    BY StepIsWork DEF SaveRow
  <1>2. /\ f \in Form /\ FormOK(f) /\ f.id \in Ids /\ f.value \in Content(f.id) /\ f.id \in made
    BY <1>1, WorkerForm DEF TypeOK, FormOK
  <1>3. /\ rows' = [rows EXCEPT ![f.id] = f.value] /\ Turned(w, next)
        /\ UNCHANGED <<links, made, posts, collectorVars, historyVars>> /\ Witness
        /\ f.id \in Probers => \A p \in Probers \ {f.id} : rows[p] # f.value
    BY DEF SaveRow
  <1> HIDE DEF f
  <1>4. f.value \in Names \cup Addresses \cup {Group} /\ f.value # NoRow
    BY <1>2, ContentTypes
  <1>5. \A id \in Ids : rows'[id] = IF id = f.id THEN f.value ELSE rows[id]
    BY <1>3 DEF TypeOK, DbOK
  <1>6. DbOK'
    <2>1. rows' \in [Ids -> Names \cup Addresses \cup {Group, NoRow}]
      BY <1>2, <1>3, <1>4 DEF TypeOK, DbOK
    <2>2. \A id \in Ids : rows'[id] \in Content(id) \cup {NoRow}
      BY <1>2, <1>5 DEF TypeOK, DbOK
    <2>3. \A id \in Ids : Exists(id) => Exists(id)'
      BY <1>4, <1>5 DEF Exists
    <2>4. links' \in [Groups -> SUBSET {x \in Member : Exists(x)'}]
      BY <1>3, <2>3 DEF TypeOK, DbOK, Member, Ids
    <2>5. \A g \in Groups : ~Exists(g)' => links'[g] = {}
      BY <1>3, <2>3 DEF TypeOK, DbOK, Ids
    <2>6. ASSUME NEW p \in Probers, NEW q \in Probers, Exists(p)', rows'[p] = rows'[q]
          PROVE  p = q
      BY <2>6, <1>3, <1>5 DEF TypeOK, DbOK, Exists, Ids
    <2>7. made' \subseteq Ids /\ {id \in Ids : Exists(id)'} \subseteq made'
      BY <1>2, <1>3, <1>5 DEF TypeOK, DbOK, Exists
    <2> QED BY <2>1, <2>2, <2>4, <2>5, <2>6, <2>7 DEF DbOK, Exists
  <1>7. WebOK'
    <2>1. f.id \in Groups => [f EXCEPT !.step = "readProbers"] \in Form /\ FormOK([f EXCEPT !.step = "readProbers"])
      BY <1>2 DEF Form, FormOK
    <2> QED BY <1>3, <2>1, TurnedWeb DEF TypeOK, WebOK
  <1>8. ReadOK'
    BY <1>3, WitnessTypes
  <1> QED BY <1>6, <1>7, <1>8 DEF TypeOK

LEMMA ReadLinksTypes ==
  ASSUME TypeOK, NEW w \in Workers, ReadLinks(w)
  PROVE  TypeOK'
  <1> DEFINE f == post[w]
             next == [f EXCEPT !.step = IF @ = "readProbers" THEN "setProbers" ELSE "setTargets",
                               !.old = links[f.id] \cap Field(f.step)]
  <1>1. f # Idle /\ f.step \in {"readProbers", "readTargets"}
    BY StepIsWork DEF ReadLinks
  <1>2. f \in Form /\ FormOK(f) /\ f.id \in Groups
    BY <1>1, WorkerForm DEF TypeOK, FormOK
  <1>3. Turned(w, next) /\ UNCHANGED <<dbVars, posts, collectorVars, historyVars>> /\ Quiet
    BY DEF ReadLinks
  <1> HIDE DEF f
  <1>4. links[f.id] \cap Field(f.step) \subseteq Member
    BY <1>2 DEF TypeOK, DbOK
  <1>5. next \in Form /\ FormOK(next)
    <2>1. next \in Form /\ next.id = f.id /\ next.value = f.value
      BY <1>2, <1>4 DEF Form
    <2> QED BY <2>1, <1>2 DEF FormOK
  <1> HIDE DEF next
  <1>6. WebOK'
    BY <1>3, <1>5, TurnedWeb DEF TypeOK, WebOK
  <1>7. DbOK' /\ ReadOK'
    BY <1>3, SameDb DEF TypeOK, ReadOK, Quiet
  <1> QED BY <1>6, <1>7 DEF TypeOK

LEMMA SetLinksTypes ==
  ASSUME TypeOK, NEW w \in Workers, SetLinks(w)
  PROVE  TypeOK'
  <1> DEFINE f == post[w]
             g == f.id
             new == f.chosen \cap Field(f.step)
             next == IF f.step = "setProbers" THEN [f EXCEPT !.step = "readTargets"] ELSE Idle
  <1>1. f # Idle /\ f.step \in {"setProbers", "setTargets"}
    BY StepIsWork DEF SetLinks
  <1>2. f \in Form /\ FormOK(f) /\ g \in Groups
    BY <1>1, WorkerForm DEF TypeOK, FormOK
  <1>3. /\ links' = IF Exists(g) THEN [links EXCEPT ![g] = {x \in Updated(@, f.old, new) : Exists(x)}]
                    ELSE links
        /\ Turned(w, next)
        /\ UNCHANGED <<rows, made, posts, collectorVars, historyVars>> /\ Witness
    BY DEF SetLinks
  <1> HIDE DEF f
  <1>4. links[g] \subseteq Member /\ f.chosen \subseteq Member
    BY <1>2 DEF TypeOK, DbOK, Form
  <1>5. {x \in Updated(links[g], f.old, new) : Exists(x)} \subseteq {x \in Member : Exists(x)}
    BY <1>4 DEF Updated
  <1>6. DbOK'
    <2>1. links' \in [Groups -> SUBSET {x \in Member : Exists(x)}]
      BY <1>2, <1>3, <1>5 DEF TypeOK, DbOK
    <2>2. \A h \in Groups : ~Exists(h) => links'[h] = {}
      BY <1>2, <1>3 DEF TypeOK, DbOK
    <2> QED BY <1>3, <2>1, <2>2 DEF TypeOK, DbOK, Exists
  <1>7. next = Idle \/ (next \in Form /\ FormOK(next))
    BY <1>2 DEF Form, FormOK
  <1> HIDE DEF next
  <1>8. WebOK'
    BY <1>3, <1>7, TurnedWeb DEF TypeOK, WebOK
  <1>9. ReadOK'
    BY <1>3, WitnessTypes
  <1> QED BY <1>6, <1>8, <1>9 DEF TypeOK

LEMMA PostFailsTypes ==
  ASSUME TypeOK, NEW w \in Workers, PostFails(w)
  PROVE  TypeOK'
  <1>1. post[w] # Idle /\ post[w].id \in Ids
    BY WorkerForm DEF TypeOK, PostFails
  <1>2. /\ Turned(w, Idle) /\ mixed' \subseteq Ids
        /\ UNCHANGED <<dbVars, posts, collectorVars, form, deleted>> /\ Quiet
    BY <1>1 DEF PostFails, TypeOK, WebOK
  <1>3. WebOK'
    BY <1>2, TurnedWeb DEF TypeOK
  <1>4. DbOK' /\ ReadOK'
    BY <1>2, SameDb DEF TypeOK, ReadOK, Quiet
  <1> QED BY <1>3, <1>4 DEF TypeOK

LEMMA DeleteTypes ==
  ASSUME TypeOK, NEW id \in Ids, Delete(id)
  PROVE  TypeOK'
  <1>1. /\ Exists(id) /\ rows' = [rows EXCEPT ![id] = NoRow] /\ links' = WithoutLinks(id)
        /\ posts < MaxPosts /\ posts' = posts + 1 /\ deleted' = deleted \cup {id}
        /\ UNCHANGED <<made, post, collectorVars, form, mixed>> /\ Witness
    BY DEF Delete
  <1>2. \A x \in Ids : rows'[x] = IF x = id THEN NoRow ELSE rows[x]
    BY <1>1 DEF TypeOK, DbOK
  <1>3. DbOK'
    <2>1. rows' \in [Ids -> Names \cup Addresses \cup {Group, NoRow}]
      BY <1>1 DEF TypeOK, DbOK
    <2>2. \A x \in Ids : rows'[x] \in Content(x) \cup {NoRow}
      BY <1>2 DEF TypeOK, DbOK
    <2>3. \A x \in Ids : Exists(x) /\ x # id => Exists(x)'
      BY <1>2 DEF Exists
    <2>4. \A g \in Groups : links'[g] \subseteq {x \in Member : Exists(x)'} /\ (g = id => links'[g] = {})
      BY <1>1, <2>3 DEF TypeOK, DbOK, Member, Ids, WithoutLinks
    <2>5. links' \in [Groups -> SUBSET {x \in Member : Exists(x)'}]
      BY <1>1, <2>4 DEF WithoutLinks
    <2>6. \A g \in Groups : ~Exists(g)' => links'[g] = {}
      BY <1>1, <2>3, <2>4 DEF TypeOK, DbOK, Ids, WithoutLinks
    <2>7. ASSUME NEW p \in Probers, NEW q \in Probers, Exists(p)', rows'[p] = rows'[q]
          PROVE  p = q
      BY <2>7, <1>2 DEF TypeOK, DbOK, Exists, Ids
    <2>8. made' \subseteq Ids /\ {x \in Ids : Exists(x)'} \subseteq made'
      BY <1>1, <1>2 DEF TypeOK, DbOK, Exists
    <2> QED BY <2>1, <2>2, <2>5, <2>6, <2>7, <2>8 DEF DbOK, Exists
  <1>4. WebOK'
    BY <1>1, ContentAssumption DEF TypeOK, WebOK, FormOK
  <1>5. ReadOK'
    BY <1>1, WitnessTypes
  <1> QED BY <1>3, <1>4, <1>5 DEF TypeOK

\* What the collector reads is of the rows.
LEMMA EntryTypes ==
  ASSUME TypeOK, NEW g \in Groups, NEW t \in links[g] \cap Targets
  PROVE  Entry(t) \in Targets \X Addresses
  <1>1. t \in Ids /\ Exists(t)
    BY DEF TypeOK, DbOK, Ids
  <1>2. rows[t] \in Addresses
    BY <1>1, ContentTypes DEF TypeOK, DbOK, Exists
  <1> QED BY <1>2 DEF Entry

\* Neither the button nor the collector writes the configuration.
ReadStep ==
  PostMessage \/ CheckMessages \/ Disconnect \/ SessionEnds \/ CollectorRead

LEMMA ReadKeepsWeb ==
  ASSUME ReadStep \/ UNCHANGED vars
  PROVE  UNCHANGED <<rows, links, made, post, posts, form, mixed, deleted>>
  <1>1. CASE PostMessage \/ CheckMessages \/ Disconnect \/ SessionEnds \/ UNCHANGED vars
    BY <1>1 DEF PostMessage, CheckMessages, ListUnread, MarkRead, NotifierDies, NotifySkips,
                Disconnect, SessionEnds, vars
  <1>2. CASE CollectorRead
    BY <1>2 DEF CollectorRead, Begin, BeginNotify, BeginSession, FindProber, ListGroups, ReadGroup,
                EndRead, SendList, CloseOnEmpty, SendFails, EndOfRead
  <1> QED BY <1>1, <1>2 DEF ReadStep

LEMMA ReadTypes ==
  ASSUME TypeOK, ReadStep \/ UNCHANGED vars
  PROVE  TypeOK'
  <1>1. UNCHANGED <<rows, links, made, post, posts, form, mixed, deleted>>
    BY ReadKeepsWeb
  <1>2. DbOK' /\ WebOK'
    BY <1>1, SameDb DEF TypeOK, WebOK, FormOK
  <1>3. ReadOK'
    <2>1. CASE PostMessage
      BY <2>1 DEF PostMessage, TypeOK, ReadOK
    <2>2. CASE BeginNotify \/ BeginSession
      <3>1. Pairs \subseteq Groups \X Targets
        BY DEF Pairs
      <3>2. CASE BeginNotify
        BY <3>1, <3>2 DEF BeginNotify, Begin, TypeOK, ReadOK
      <3>3. CASE BeginSession
        BY <3>1, <3>3 DEF BeginSession, Begin, TypeOK, ReadOK
      <3> QED BY <2>2, <3>2, <3>3
    <2>3. CASE FindProber
      BY <2>3 DEF FindProber, Quiet, TypeOK, ReadOK
    <2>4. CASE ListGroups
      BY <2>4 DEF ListGroups, Quiet, TypeOK, ReadOK
    <2>5. ASSUME NEW g \in Groups, ReadGroup(g) PROVE ReadOK'
      <3>1. \A t \in links[g] \cap Targets : Entry(t) \in Targets \X Addresses
        BY EntryTypes
      <3>2. list' \subseteq Targets \X Addresses
        BY <2>5, <3>1 DEF ReadGroup, Joined, TypeOK, ReadOK
      <3> QED BY <2>5, <3>2 DEF ReadGroup, Quiet, TypeOK, ReadOK
    <2>6. CASE EndRead
      BY <2>6 DEF EndRead, Quiet, TypeOK, ReadOK
    <2>7. CASE SendList \/ CloseOnEmpty \/ SendFails
      BY <2>7 DEF SendList, CloseOnEmpty, SendFails, EndOfRead, Returned, Raised, TypeOK, ReadOK
    <2>8. CASE UNCHANGED vars
      BY <2>8 DEF vars, TypeOK, ReadOK
    <2>9. CASE CheckMessages
      <3>1. CASE ListUnread
        BY <3>1 DEF ListUnread, Unread, Quiet, TypeOK, ReadOK
      <3>2. CASE MarkRead
        BY <3>2 DEF MarkRead, Quiet, TypeOK, ReadOK
      <3>3. CASE NotifierDies
        BY <3>3 DEF NotifierDies, Quiet, TypeOK, ReadOK
      <3>4. CASE NotifySkips
        BY <3>4 DEF NotifySkips, Quiet, TypeOK, ReadOK
      <3> QED BY <2>9, <3>1, <3>2, <3>3, <3>4 DEF CheckMessages
    <2>10. CASE Disconnect \/ SessionEnds
      BY <2>10 DEF Disconnect, SessionEnds, Quiet, TypeOK, ReadOK
    <2> QED BY <2>1, <2>2, <2>3, <2>4, <2>5, <2>6, <2>7, <2>8, <2>9, <2>10 DEF ReadStep, CollectorRead
  <1> QED BY <1>2, <1>3 DEF TypeOK

LEMMA StepTypes == TypeOK /\ [Next]_vars => TypeOK'
  <1> SUFFICES ASSUME TypeOK, [Next]_vars PROVE TypeOK'
    OBVIOUS
  <1>1. ASSUME NEW w \in Workers, NEW id \in Ids, PostForm(w, id) PROVE TypeOK'
    BY <1>1, PostFormTypes
  <1>2. ASSUME NEW w \in Workers, SaveRow(w) \/ ReadLinks(w) \/ SetLinks(w) \/ PostFails(w)
        PROVE  TypeOK'
    BY <1>2, SaveRowTypes, ReadLinksTypes, SetLinksTypes, PostFailsTypes
  <1>3. ASSUME NEW id \in Ids, Delete(id) PROVE TypeOK'
    BY <1>3, DeleteTypes
  <1>4. CASE ReadStep \/ UNCHANGED vars
    BY <1>4, ReadTypes
  <1> QED BY <1>1, <1>2, <1>3, <1>4 DEF Next, WebServer, ReadStep

\* Rows, links, forms and reads are what TypeOK says of them: no two probers have
\* one name, no link leads to a row that is not there (models.py:7-30).
THEOREM TypeCorrect == Spec => []TypeOK
  <1>1. Init => TypeOK
    BY InitTypes
  <1>2. TypeOK /\ [Next]_vars => TypeOK'
    BY StepTypes
  <1> QED BY <1>1, <1>2, PTL DEF Spec

-----------------------------------------------------------------------------
(* What the forms leave in a group *)

LEMMA InitForms == Init => FormInv
  <1> SUFFICES ASSUME Init PROVE FormInv
    OBVIOUS
  <1>1. TypeOK
    BY InitTypes
  <1>2. \A w \in Workers : post[w] = Idle
    BY DEF Init
  <1>3. form = links
    BY DEF Init
  <1>4. OneWorker /\ ChosenExist /\ WorkSound
    BY <1>2 DEF OneWorker, ChosenExist, WorkSound
  <1>5. RestedHold
    BY <1>3 DEF RestedHold, Holds
  <1> QED BY <1>1, <1>4, <1>5 DEF FormInv

LEMMA PostFormForms ==
  ASSUME FormInv, NEW w \in Workers, NEW id \in Ids, PostForm(w, id)
  PROVE  (OneWorker /\ ChosenExist /\ WorkSound /\ RestedHold)'
  <1>1. PICK value \in Content(id), chosen \in Choices(id) :
          /\ post' = [post EXCEPT ![w] = [step |-> "row", id |-> id, value |-> value,
                                          chosen |-> chosen, old |-> {}]]
          /\ form' = IF id \in Groups THEN [form EXCEPT ![id] = chosen] ELSE form
    BY DEF PostForm
  <1> DEFINE f == [step |-> "row", id |-> id, value |-> value, chosen |-> chosen, old |-> {}]
  <1>2. f.id = id /\ f.step = "row" /\ f.chosen = chosen /\ f # Idle
    BY DEF Idle
  <1>3. post' = [post EXCEPT ![w] = f]
    BY <1>1
  <1> HIDE DEF f
  <1>4. post'[w] = f /\ \A v \in Workers : v # w => post'[v] = post[v]
    BY <1>3 DEF FormInv, TypeOK, WebOK
  <1>5. /\ post[w] = Idle /\ UNCHANGED <<rows, links, deleted>>
        /\ mixed' = IF \E v \in Workers : post[v] # Idle /\ post[v].id = id
                      THEN mixed \cup {id} ELSE mixed \ {id}
    BY DEF PostForm
  <1>6. \A g \in Groups : g # id => form'[g] = form[g]
    BY <1>1 DEF FormInv, TypeOK, WebOK
  <1>7. id \in Groups => form'[id] = chosen
    BY <1>1 DEF FormInv, TypeOK, WebOK
  <1>8. \A x \in chosen : Exists(x)
    BY DEF Choices
  <1>9. \A v \in Workers : v # w /\ post[v] # Idle /\ post[v].id = id => id \in mixed'
    BY <1>5
  <1>10. \A x : x # id => (x \in mixed' <=> x \in mixed)
    BY <1>5
  <1>11. OneWorker'
    <2> SUFFICES ASSUME NEW v \in Workers, NEW u \in Workers, post'[v] # Idle, post'[u] # Idle,
                        post'[v].id = post'[u].id, post'[v].id \notin mixed'
                 PROVE  v = u
      BY DEF OneWorker
    <2>1. CASE post'[v].id = id
      BY <2>1, <1>4, <1>9
    <2>2. CASE post'[v].id # id
      BY <2>2, <1>2, <1>4, <1>10 DEF FormInv, OneWorker
    <2> QED BY <2>1, <2>2
  <1>12. ChosenExist'
    <2> SUFFICES ASSUME NEW u \in Workers, post'[u] # Idle PROVE ChosenBy(post[u])'
      BY DEF ChosenExist
    <2>1. CASE u = w
      BY <2>1, <1>2, <1>4, <1>5, <1>7, <1>8 DEF Exists, ChosenBy
    <2>2. CASE u # w
      BY <2>2, <1>4, <1>5, <1>6, <1>9, <1>10 DEF Exists, FormInv, ChosenExist, ChosenBy
    <2> QED BY <2>1, <2>2
  <1>13. \A g \in Groups : \A field : g # id /\ Holds(g, field) => Holds(g, field)'
    BY <1>5, <1>6 DEF Holds
  <1>14. WorkSound'
    <2> SUFFICES ASSUME NEW u \in Workers, post'[u] # Idle PROVE WorkedOn(post[u])'
      BY DEF WorkSound
    <2>1. CASE u = w
      BY <2>1, <1>2, <1>4 DEF WorkedOn
    <2>2. CASE u # w /\ post'[u].id \in Groups \ (mixed' \cup deleted')
      <3>1. post'[u] = post[u] /\ post[u].id # id
        BY <2>2, <1>4, <1>9
      <3>2. post[u].id \in Groups \ (mixed \cup deleted)
        BY <2>2, <3>1, <1>5, <1>10
      <3>3. form'[post[u].id] = form[post[u].id]
        BY <3>1, <3>2, <1>6
      <3>4. WorkedOn(post[u])
        BY <2>2, <3>1 DEF FormInv, WorkSound
      <3> QED BY <3>1, <3>2, <3>3, <3>4, <1>5 DEF WorkedOn, Known, Holds
    <2>3. CASE post'[u].id \notin Groups \ (mixed' \cup deleted')
      BY <2>3 DEF WorkedOn
    <2> QED BY <2>1, <2>2, <2>3
  <1>15. RestedHold'
    <2> SUFFICES ASSUME NEW g \in Groups \ (mixed' \cup deleted'), Exists(g)', AtRest(g)'
                 PROVE  Holds(g, Probers)' /\ Holds(g, Targets)'
      BY DEF RestedHold
    <2>1. g # id
      BY <1>2, <1>4 DEF AtRest
    <2>2. AtRest(g) /\ Exists(g) /\ g \in Groups \ (mixed \cup deleted)
      BY <2>1, <1>4, <1>5, <1>10 DEF AtRest, Exists
    <2> QED BY <2>1, <2>2, <1>13 DEF FormInv, RestedHold
  <1> QED BY <1>11, <1>12, <1>14, <1>15

\* A worker goes on with its form, or ends it: the rows, the forms chosen and
\* what was deleted stay, rows may be made, and one group's links may change.
Goes(w, next, g) ==
  /\ Turned(w, next) /\ UNCHANGED <<form, mixed, deleted>>
  /\ \A x : Exists(x) => Exists(x)'
  /\ \A h \in Groups \ {g} : links'[h] = links[h] /\ (Exists(h)' => Exists(h))
  /\ next # Idle => next.id = g /\ (next.step # "row" => Exists(g)' \/ g \in deleted)

\* What such a step has to show of the group it works on.
LEMMA GoesSound ==
  ASSUME FormInv, NEW w \in Workers, post[w] # Idle, NEW g, g = post[w].id,
         NEW next, Goes(w, next, g), next # Idle => next.chosen = post[w].chosen,
         next # Idle => WorkedOn(next)',
         next = Idle /\ g \in Groups \ (mixed \cup deleted) => Holds(g, Probers)' /\ Holds(g, Targets)'
  PROVE  (OneWorker /\ ChosenExist /\ WorkSound /\ RestedHold)'
  <1>1. post'[w] = next /\ \A v \in Workers : v # w => post'[v] = post[v]
    BY DEF FormInv, TypeOK, WebOK, Goes, Turned
  <1>2. UNCHANGED <<form, mixed, deleted>>
    BY DEF Goes
  <1>3. OneWorker'
    BY <1>1 DEF FormInv, OneWorker, Goes
  <1>4. ChosenExist'
    <2> SUFFICES ASSUME NEW u \in Workers, post'[u] # Idle PROVE ChosenBy(post[u])'
      BY DEF ChosenExist
    <2>1. CASE u = w
      <3>1. ChosenBy(post[w]) /\ next.id = post[w].id /\ next.chosen = post[w].chosen
        BY <2>1, <1>1 DEF FormInv, ChosenExist, Goes
      <3>2. ChosenBy(next)'
        BY <2>1, <3>1, <1>1, <1>2 DEF ChosenBy, Goes
      <3> QED BY <2>1, <3>2, <1>1 DEF ChosenBy, Exists
    <2>2. CASE u # w
      BY <2>2, <1>1, <1>2 DEF FormInv, ChosenExist, ChosenBy, Goes
    <2> QED BY <2>1, <2>2
  <1>5. \A h \in Groups \ {g} : \A field : Holds(h, field) => Holds(h, field)'
    BY DEF Goes, Holds
  <1>6. WorkSound'
    <2> SUFFICES ASSUME NEW u \in Workers, post'[u] # Idle PROVE WorkedOn(post[u])'
      BY DEF WorkSound
    <2>1. CASE u = w
      BY <2>1, <1>1 DEF WorkedOn, Known, Holds
    <2>2. CASE u # w /\ post[u].id \in Groups \ (mixed \cup deleted)
      <3>1. post'[u] = post[u] /\ post[u].id # g
        BY <2>2, <1>1 DEF FormInv, OneWorker
      <3>2. links'[post[u].id] = links[post[u].id]
        BY <3>1, <2>2 DEF Goes
      <3>3. WorkedOn(post[u])
        BY <2>2, <3>1 DEF FormInv, WorkSound
      <3> QED BY <3>1, <3>2, <3>3, <1>2 DEF WorkedOn, Known, Holds
    <2>3. CASE u # w /\ post[u].id \notin Groups \ (mixed \cup deleted)
      BY <2>3, <1>1, <1>2 DEF WorkedOn
    <2> QED BY <2>1, <2>2, <2>3
  <1>7. RestedHold'
    <2> SUFFICES ASSUME NEW h \in Groups \ (mixed' \cup deleted'), Exists(h)', AtRest(h)'
                 PROVE  Holds(h, Probers)' /\ Holds(h, Targets)'
      BY DEF RestedHold
    <2>1. CASE h = g
      <3>1. next = Idle
        BY <2>1, <1>1 DEF AtRest, Goes
      <3> QED BY <2>1, <3>1, <1>2
    <2>2. CASE h # g
      <3>1. AtRest(h) /\ Exists(h)
        BY <2>2, <1>1 DEF AtRest, Goes
      <3> QED BY <2>2, <3>1, <1>2, <1>5 DEF FormInv, RestedHold
    <2> QED BY <2>1, <2>2
  <1> QED BY <1>3, <1>4, <1>6, <1>7

LEMMA SaveRowForms ==
  ASSUME FormInv, NEW w \in Workers, SaveRow(w)
  PROVE  (OneWorker /\ ChosenExist /\ WorkSound /\ RestedHold)'
  <1>1. PICK f : f = post[w]
    OBVIOUS
  <1>2. PICK next : next = IF f.id \in Groups THEN [f EXCEPT !.step = "readProbers"] ELSE Idle
    OBVIOUS
  <1>3. post[w] # Idle /\ f # Idle /\ f.step = "row"
    BY <1>1, StepIsWork DEF SaveRow
  <1>4. f \in Form /\ f.id \in Ids /\ f.value \in Content(f.id)
    BY <1>1, <1>3, WorkerForm DEF FormInv, TypeOK, FormOK
  <1>5. /\ rows' = [rows EXCEPT ![f.id] = f.value] /\ Turned(w, next)
        /\ UNCHANGED <<links, form, mixed, deleted>>
    BY <1>1, <1>2 DEF SaveRow
  <1>6. f.value # NoRow
    BY <1>4, ContentTypes
  <1>7. /\ \A id \in Ids : rows'[id] = IF id = f.id THEN f.value ELSE rows[id]
        /\ \A x : x # f.id => rows'[x] = rows[x]
    BY <1>5 DEF FormInv, TypeOK, DbOK
  <1>8. Exists(f.id)' /\ (\A x : Exists(x) => Exists(x)') /\ (\A h \in Groups \ {f.id} : Exists(h)' => Exists(h))
    BY <1>4, <1>6, <1>7 DEF Exists
  <1>9. f.id \in Groups => /\ next # Idle /\ next.id = f.id /\ next.chosen = f.chosen
                           /\ next.step = "readProbers"
    BY <1>2, <1>4 DEF Form, Idle
  <1>10. f.id \notin Groups => next = Idle
    BY <1>2
  <1>11. Goes(w, next, f.id)
    BY <1>5, <1>8, <1>9, <1>10 DEF Goes
  <1>12. next # Idle => WorkedOn(next)' /\ next.chosen = post[w].chosen
    BY <1>1, <1>9, <1>10 DEF WorkedOn
  <1> QED BY <1>1, <1>3, <1>9, <1>10, <1>11, <1>12, GoesSound

LEMMA ReadLinksForms ==
  ASSUME FormInv, NEW w \in Workers, ReadLinks(w)
  PROVE  (OneWorker /\ ChosenExist /\ WorkSound /\ RestedHold)'
  <1>1. PICK f : f = post[w]
    OBVIOUS
  <1>2. PICK next : next = [f EXCEPT !.step = IF @ = "readProbers" THEN "setProbers" ELSE "setTargets",
                                     !.old = links[f.id] \cap Field(f.step)]
    OBVIOUS
  <1>3. post[w] # Idle /\ f.step \in {"readProbers", "readTargets"}
    BY <1>1, StepIsWork DEF ReadLinks
  <1>4. f \in Form
    BY <1>1, <1>3, WorkerForm DEF FormInv, TypeOK
  <1>5. Turned(w, next) /\ UNCHANGED <<rows, links, form, mixed, deleted>>
    BY <1>1, <1>2 DEF ReadLinks
  <1>6. ChosenBy(f) /\ WorkedOn(f)
    BY <1>1, <1>3 DEF FormInv, ChosenExist, WorkSound
  <1>7. /\ next.id = f.id /\ next.chosen = f.chosen /\ next.old = links[f.id] \cap Field(f.step)
        /\ next.step = IF f.step = "readProbers" THEN "setProbers" ELSE "setTargets"
    BY <1>2, <1>4 DEF Form
  <1>8. next # Idle
    BY <1>7 DEF Idle
  <1>9. Goes(w, next, f.id)
    BY <1>3, <1>5, <1>6, <1>7 DEF Goes, Exists, ChosenBy
  <1>10. WorkedOn(next)'
    <2>1. CASE f.step = "readProbers"
      BY <2>1, <1>5, <1>7 DEF WorkedOn, Known, Field
    <2>2. CASE f.step = "readTargets"
      BY <2>2, <1>5, <1>6, <1>7 DEF WorkedOn, Known, Holds, Field
    <2> QED BY <1>3, <2>1, <2>2
  <1> QED BY <1>1, <1>3, <1>7, <1>8, <1>9, <1>10, GoesSound

LEMMA SetLinksForms ==
  ASSUME FormInv, NEW w \in Workers, SetLinks(w)
  PROVE  (OneWorker /\ ChosenExist /\ WorkSound /\ RestedHold)'
  <1>1. PICK f : f = post[w]
    OBVIOUS
  <1>2. PICK next : next = IF f.step = "setProbers" THEN [f EXCEPT !.step = "readTargets"] ELSE Idle
    OBVIOUS
  <1>3. PICK g : g = f.id
    OBVIOUS
  <1>4. PICK new : new = f.chosen \cap Field(f.step)
    OBVIOUS
  <1>5. post[w] # Idle /\ f.step \in {"setProbers", "setTargets"}
    BY <1>1, StepIsWork DEF SetLinks
  <1>6. f \in Form /\ FormOK(f) /\ g \in Groups
    BY <1>1, <1>3, <1>5, WorkerForm DEF FormInv, TypeOK, FormOK
  <1>7. /\ links' = IF Exists(g) THEN [links EXCEPT ![g] = {x \in Updated(@, f.old, new) : Exists(x)}]
                    ELSE links
        /\ Turned(w, next) /\ UNCHANGED <<rows, form, mixed, deleted>>
    BY <1>1, <1>2, <1>3, <1>4 DEF SetLinks
  <1>8. ChosenBy(f) /\ WorkedOn(f)
    BY <1>1, <1>5 DEF FormInv, ChosenExist, WorkSound
  <1>9. /\ f.step = "setProbers" => /\ next.id = g /\ next.chosen = f.chosen /\ next.step = "readTargets"
                                    /\ next # Idle
        /\ f.step = "setTargets" => next = Idle
    BY <1>2, <1>3, <1>6 DEF Form, Idle
  <1>10. Goes(w, next, g)
    <2>1. \A h \in Groups \ {g} : links'[h] = links[h]
      BY <1>7 DEF FormInv, TypeOK, DbOK
    <2>2. next # Idle => next.id = g /\ (Exists(g)' \/ g \in deleted)
      BY <1>3, <1>5, <1>7, <1>8, <1>9 DEF ChosenBy, Exists
    <2>3. (\A x : Exists(x) => Exists(x)') /\ (\A h \in Groups \ {g} : Exists(h)' => Exists(h))
      BY <1>7 DEF Exists
    <2> QED BY <1>7, <2>1, <2>2, <2>3 DEF Goes
  <1>11. ASSUME g \notin mixed \cup deleted
         PROVE  /\ f.step = "setProbers" => Holds(g, Probers)'
                /\ f.step = "setTargets" => Holds(g, Probers)' /\ Holds(g, Targets)'
    <2>1. Exists(g) /\ f.chosen = form[g] /\ \A x \in f.chosen : Exists(x) \/ x \in deleted
      BY <1>3, <1>5, <1>6, <1>8, <1>11 DEF ChosenBy
    <2>2. PICK after : after = {x \in Updated(links[g], f.old, new) : Exists(x)}
      OBVIOUS
    <2>3. links'[g] = after
      BY <1>6, <1>7, <2>1, <2>2 DEF FormInv, TypeOK, DbOK
    <2>4. PICK there : there = {x \in Member : Exists(x)}
      OBVIOUS
    <2>5. links[g] \subseteq there /\ f.chosen \subseteq Member
      BY <1>6, <2>4 DEF FormInv, TypeOK, DbOK, Form
    <2>6. PICK field, other : /\ field = Field(f.step)
                              /\ other = IF f.step = "setProbers" THEN Targets ELSE Probers
      OBVIOUS
    <2>7. field \cap other = {} /\ new = form[g] \cap field /\ new \ there \subseteq deleted
      BY <1>4, <1>5, <2>1, <2>4, <2>5, <2>6, KeysAssumption DEF Field
    <2>8. Known(g, field, f.old)
      BY <1>3, <1>5, <1>6, <1>8, <1>11, <2>6 DEF WorkedOn, Field
    <2>9. f.old \subseteq field /\ links[g] \cap field \subseteq f.old /\ f.old \ links[g] \subseteq deleted
      BY <2>8 DEF Known
    <2>10. after = Updated(links[g], f.old, new) \cap there
      <3>1. Updated(links[g], f.old, new) \subseteq Member
        BY <2>4, <2>5, <1>4 DEF Updated
      <3> QED BY <2>2, <2>4, <3>1
    <2>11. /\ after \cap field \subseteq new /\ new \ after \subseteq deleted
           /\ after \cap other = links[g] \cap other
      <3>1. after \cap field \subseteq new
        BY <2>9, <2>10 DEF Updated
      <3>2. new \ after \subseteq deleted
        BY <2>5, <2>7, <2>9, <2>10 DEF Updated
      <3>3. after \cap other = links[g] \cap other
        BY <2>5, <2>7, <2>9, <2>10 DEF Updated
      <3> QED BY <3>1, <3>2, <3>3
    <2>12. Holds(g, field)'
      BY <1>7, <2>3, <2>7, <2>11 DEF Holds
    <2>13. f.step = "setProbers" => field = Probers
      BY <2>6 DEF Field
    <2>14. f.step = "setTargets" => field = Targets /\ other = Probers /\ Holds(g, Probers)
      BY <1>3, <1>6, <1>8, <1>11, <2>6 DEF Field, WorkedOn
    <2>15. f.step = "setTargets" => Holds(g, Probers)'
      BY <1>7, <2>3, <2>11, <2>14 DEF Holds
    <2> QED BY <2>12, <2>13, <2>14, <2>15
  <1>12. next # Idle => WorkedOn(next)' /\ next.chosen = post[w].chosen
    BY <1>1, <1>5, <1>7, <1>9, <1>11 DEF WorkedOn
  <1>13. next = Idle /\ g \in Groups \ (mixed \cup deleted) => Holds(g, Probers)' /\ Holds(g, Targets)'
    BY <1>5, <1>9, <1>11
  <1> QED BY <1>1, <1>3, <1>5, <1>10, <1>12, <1>13, GoesSound

LEMMA PostFailsForms ==
  ASSUME FormInv, NEW w \in Workers, PostFails(w)
  PROVE  (OneWorker /\ ChosenExist /\ WorkSound /\ RestedHold)'
  <1>1. /\ post[w] # Idle /\ Turned(w, Idle) /\ mixed' = mixed \cup {post[w].id}
        /\ UNCHANGED <<rows, links, form, deleted>>
    BY DEF PostFails
  <1>2. post'[w] = Idle /\ \A v \in Workers : v # w => post'[v] = post[v]
    BY <1>1 DEF FormInv, TypeOK, WebOK, Turned
  <1>3. OneWorker'
    BY <1>1, <1>2 DEF FormInv, OneWorker
  <1>4. ChosenExist'
    BY <1>1, <1>2 DEF FormInv, ChosenExist, ChosenBy, Exists
  <1>5. WorkSound'
    BY <1>1, <1>2 DEF FormInv, WorkSound, WorkedOn, Known, Holds
  <1>6. RestedHold'
    <2> SUFFICES ASSUME NEW h \in Groups \ (mixed' \cup deleted'), Exists(h)', AtRest(h)'
                 PROVE  Holds(h, Probers)' /\ Holds(h, Targets)'
      BY DEF RestedHold
    <2>1. AtRest(h) /\ Exists(h) /\ h \notin mixed \cup deleted
      BY <1>1, <1>2 DEF AtRest, Exists
    <2> QED BY <2>1, <1>1 DEF FormInv, RestedHold, Holds
  <1> QED BY <1>3, <1>4, <1>5, <1>6

LEMMA DeleteForms ==
  ASSUME FormInv, NEW id \in Ids, Delete(id)
  PROVE  (OneWorker /\ ChosenExist /\ WorkSound /\ RestedHold)'
  <1>1. /\ rows' = [rows EXCEPT ![id] = NoRow] /\ links' = WithoutLinks(id)
        /\ deleted' = deleted \cup {id} /\ UNCHANGED <<post, form, mixed>>
    BY DEF Delete
  <1>2. \A x : x # id => (Exists(x) <=> Exists(x)')
    BY <1>1 DEF FormInv, TypeOK, DbOK, Exists
  <1>3. \A g \in Groups \ deleted' : links'[g] = links[g] \ {id}
    BY <1>1 DEF WithoutLinks
  <1>4. \A g \in Groups \ deleted' : \A field : Holds(g, field) => Holds(g, field)'
    BY <1>1, <1>3 DEF Holds
  <1>5. \A g \in Groups \ deleted' : \A field, old : Known(g, field, old) => Known(g, field, old)'
    BY <1>1, <1>3 DEF Known
  <1>6. OneWorker'
    BY <1>1 DEF FormInv, OneWorker
  <1>7. ChosenExist'
    BY <1>1, <1>2 DEF FormInv, ChosenExist, ChosenBy
  <1>8. WorkSound'
    <2> SUFFICES ASSUME NEW u \in Workers, post'[u] # Idle PROVE WorkedOn(post[u])'
      BY DEF WorkSound
    <2>1. WorkedOn(post[u])
      BY <1>1 DEF FormInv, WorkSound
    <2> QED BY <2>1, <1>1, <1>3 DEF WorkedOn, Known, Holds
  <1>9. RestedHold'
    <2> SUFFICES ASSUME NEW h \in Groups \ (mixed' \cup deleted'), Exists(h)', AtRest(h)'
                 PROVE  Holds(h, Probers)' /\ Holds(h, Targets)'
      BY DEF RestedHold
    <2>1. AtRest(h) /\ Exists(h) /\ h \notin mixed \cup deleted
      BY <1>1, <1>2 DEF AtRest
    <2> QED BY <2>1, <1>4 DEF FormInv, RestedHold
  <1> QED BY <1>6, <1>7, <1>8, <1>9

LEMMA StepForms == FormInv /\ [Next]_vars => FormInv'
  <1> SUFFICES ASSUME FormInv, [Next]_vars PROVE FormInv'
    OBVIOUS
  <1>1. TypeOK'
    BY StepTypes DEF FormInv
  <1>2. (OneWorker /\ ChosenExist /\ WorkSound /\ RestedHold)'
    <2>1. ASSUME NEW w \in Workers, NEW id \in Ids, PostForm(w, id)
          PROVE  (OneWorker /\ ChosenExist /\ WorkSound /\ RestedHold)'
      BY <2>1, PostFormForms
    <2>2. ASSUME NEW w \in Workers, SaveRow(w) \/ ReadLinks(w) \/ SetLinks(w) \/ PostFails(w)
          PROVE  (OneWorker /\ ChosenExist /\ WorkSound /\ RestedHold)'
      BY <2>2, SaveRowForms, ReadLinksForms, SetLinksForms, PostFailsForms
    <2>3. ASSUME NEW id \in Ids, Delete(id)
          PROVE  (OneWorker /\ ChosenExist /\ WorkSound /\ RestedHold)'
      BY <2>3, DeleteForms
    <2>4. CASE ReadStep \/ UNCHANGED vars
      <3>1. UNCHANGED <<rows, links, post, form, mixed, deleted>>
        BY <2>4, ReadKeepsWeb
      <3> QED BY <3>1 DEF FormInv, OneWorker, ChosenExist, ChosenBy, WorkSound, WorkedOn,
                          RestedHold, AtRest, Exists, Known, Holds
    <2> QED BY <2>1, <2>2, <2>3, <2>4 DEF Next, WebServer, ReadStep
  <1> QED BY <1>1, <1>2 DEF FormInv

\* A group at rest, whose last form neither overlapped another nor failed, holds
\* what that form chose, but for rows that were deleted: the three transactions
\* of a form leave nothing of the forms before (views.py:237-247).
THEOREM GroupsAreForms == Spec => []GroupIsItsForm
  <1>1. FormInv => GroupIsItsForm
    <2> SUFFICES ASSUME FormInv, NEW g \in Groups, Exists(g), g \notin mixed \cup deleted,
                        \A w \in Workers : post[w] # Idle => post[w].id # g
                 PROVE  links[g] \subseteq form[g] /\ form[g] \ links[g] \subseteq deleted
      BY DEF GroupIsItsForm
    <2>1. Holds(g, Probers) /\ Holds(g, Targets)
      BY DEF FormInv, RestedHold, AtRest
    <2>2. links[g] \subseteq Member /\ form[g] \subseteq Member
      BY DEF FormInv, TypeOK, DbOK, WebOK
    <2> QED BY <2>1, <2>2 DEF Holds, Member
  <1> QED BY <1>1, InitForms, StepForms, PTL DEF Spec

-----------------------------------------------------------------------------
(* What the collector reads meanwhile *)

\* What is read of a configuration that stays.
LEMMA SameConfiguration ==
  ASSUME UNCHANGED <<rows, links>>
  PROVE  /\ Pairs' = Pairs /\ Configured' = Configured
         /\ \A p : GroupsOf(p)' = GroupsOf(p)
         /\ \A groups : EntriesOf(groups)' = EntriesOf(groups)
  BY DEF Pairs, Configured, Entry, GroupsOf, EntriesOf

\* The name of the prober is of one row.
LEMMA OneProber ==
  ASSUME TypeOK, NEW p \in Probers, NEW q \in Probers, rows[p] = Name, rows[q] = Name
  PROVE  p = q
  BY ContentAssumption DEF TypeOK, DbOK, Exists

\* What a prober that was found has to ping.
LEMMA PairsOf ==
  ASSUME TypeOK, prober \in Probers, rows[prober] = Name
  PROVE  Pairs = {gt \in Groups \X Targets : gt[2] \in links[gt[1]] /\ gt[1] \in GroupsOf(prober)}
  BY OneProber DEF Pairs, GroupsOf

LEMMA ConfiguredOf ==
  ASSUME TypeOK, prober \in Probers, rows[prober] = Name
  PROVE  Configured = EntriesOf(GroupsOf(prober))
  <1>1. \A t : (\E gt \in Pairs : gt[2] = t) <=> (t \in UNION {links[g] \cap Targets : g \in GroupsOf(prober)})
    <2>1. ASSUME NEW gt \in Pairs
          PROVE  gt[2] \in UNION {links[g] \cap Targets : g \in GroupsOf(prober)}
      BY PairsOf
    <2>2. ASSUME NEW t, NEW g \in GroupsOf(prober), t \in links[g] \cap Targets
          PROVE  <<g, t>> \in Pairs /\ <<g, t>>[2] = t
      BY <2>2, PairsOf DEF GroupsOf
    <2> QED BY <2>1, <2>2
  <1> QED BY <1>1 DEF Configured, EntriesOf

LEMMA InitReads == Init => ReadInv
  BY DEF Init, ReadInv, SteadySound, CleanSound, Clean, Configured, Pairs

\* A step that changes at most one row, and the links.
LEMMA WritesReads ==
  ASSUME TypeOK, TypeOK', ReadInv, Witness, UNCHANGED collectorVars,
         NEW id, \A x : x # id => rows'[x] = rows[x]
  PROVE  ReadInv'
  <1>1. SteadySound'
    <2>1. steady' \subseteq Pairs'
      BY DEF Witness
    <2>2. steady' \subseteq steady /\ (reader = "idle" => steady' = {})
      BY DEF Witness, ReadInv, SteadySound
    <2>3. ASSUME reader \in {"groups", "reading"}, steady' # {}
          PROVE  rows'[prober] = Name
      <3>1. PICK p \in Probers : rows'[p] = Name
        BY <2>1, <2>3 DEF Pairs
      <3>2. prober \in Probers /\ rows[prober] = Name
        BY <2>2, <2>3 DEF ReadInv, SteadySound
      <3>3. p # prober => rows[p] = Name \/ rows'[prober] = Name
        BY <3>1, <3>2
      <3> QED BY <3>1, <3>2, <3>3, OneProber
    <2> QED BY <2>1, <2>2, <2>3 DEF ReadInv, SteadySound, Listed
  <1>2. CleanSound'
    <2> SUFFICES ASSUME Clean' PROVE CleanSound'
      BY DEF CleanSound
    <2>1. Clean /\ UNCHANGED <<rows, links>>
      BY DEF Clean, Owed, Witness
    <2> QED BY <2>1, SameConfiguration DEF ReadInv, CleanSound
  <1> QED BY <1>1, <1>2 DEF ReadInv

\* A step that neither the rows nor the read see.
LEMMA QuietReads ==
  ASSUME ReadInv, UNCHANGED <<rows, links, readVars, sent, steady>>,
         Clean' => Clean
  PROVE  ReadInv'
  BY SameConfiguration DEF ReadInv, SteadySound, CleanSound, Listed

LEMMA FindProberReads ==
  ASSUME TypeOK, ReadInv, FindProber
  PROVE  ReadInv'
  <1>1. UNCHANGED <<rows, links, messageVars, notifierVars, clientVars, dirty, steady>> /\ list' = {}
    BY DEF FindProber, Quiet
  <1>2. CASE \E p \in Probers : rows[p] = Name /\ prober' = p /\ reader' = "groups"
    BY <1>1, <1>2, SameConfiguration DEF ReadInv, SteadySound, CleanSound
  <1>3. CASE (\A p \in Probers : rows[p] # Name) /\ reader' = "send"
    <2>1. Pairs = {} /\ Configured = {}
      BY <1>3 DEF Pairs, Configured
    <2>2. steady = {}
      BY <2>1 DEF ReadInv, SteadySound
    <2> QED BY <1>1, <1>3, <2>1, <2>2, SameConfiguration DEF ReadInv, SteadySound, CleanSound
  <1> QED BY <1>2, <1>3 DEF FindProber

LEMMA ListGroupsReads ==
  ASSUME TypeOK, ReadInv, ListGroups
  PROVE  ReadInv'
  <1>1. /\ UNCHANGED <<rows, links, messageVars, notifierVars, clientVars, prober, list, dirty, steady>>
        /\ reader = "groups" /\ reader' = "reading" /\ rest' = GroupsOf(prober)
    BY DEF ListGroups, Quiet, GroupsOf
  <1>2. prober \in Probers /\ list = {} /\ steady \subseteq Pairs
    BY <1>1 DEF ReadInv, SteadySound
  <1>3. \A gt \in steady : gt[1] \in rest'
    <2> SUFFICES ASSUME NEW gt \in steady PROVE gt[1] \in rest'
      OBVIOUS
    <2>1. rows[prober] = Name
      BY <1>1 DEF ReadInv, SteadySound
    <2> QED BY <1>1, <1>2, <2>1, PairsOf
  <1>4. EntriesOf({}) = {} /\ GroupsOf(prober) \ rest' = {}
    BY <1>1 DEF EntriesOf
  <1>5. SteadySound'
    BY <1>1, <1>2, <1>3, SameConfiguration DEF ReadInv, SteadySound
  <1>6. CleanSound'
    <2>1. Clean' => Clean /\ rows[prober] = Name
      BY <1>1 DEF Clean, Owed, ReadInv, CleanSound
    <2>2. GroupsOf(prober)' = GroupsOf(prober) /\ EntriesOf({})' = EntriesOf({})
      BY <1>1 DEF GroupsOf, EntriesOf, Entry
    <2>3. EntriesOf(GroupsOf(prober) \ rest)' = {}
      BY <1>1, <1>4, <2>2 DEF EntriesOf
    <2> QED BY <1>1, <1>2, <2>1, <2>2, <2>3 DEF CleanSound
  <1> QED BY <1>5, <1>6 DEF ReadInv

LEMMA ReadGroupReads ==
  ASSUME TypeOK, ReadInv, NEW g \in Groups, ReadGroup(g)
  PROVE  ReadInv'
  <1> DEFINE found == {Entry(t) : t \in links[g] \cap Targets}
  <1>1. /\ UNCHANGED <<rows, links, messageVars, notifierVars, clientVars, reader, prober, dirty, steady>>
        /\ reader = "reading" /\ g \in rest /\ rest' = rest \ {g} /\ list' = Joined(found)
    BY DEF ReadGroup, Quiet
  <1>2. list \subseteq list' /\ \A e \in found : \E f \in list' : f[1] = e[1]
    BY <1>1 DEF Joined
  <1>3. SteadySound'
    <2>1. ASSUME NEW gt \in steady PROVE gt[1] \in rest' \/ Listed(gt)'
      <3>1. gt[1] \in rest \/ Listed(gt)
        BY <1>1 DEF ReadInv, SteadySound
      <3>2. CASE Listed(gt)
        BY <3>2, <1>2 DEF Listed
      <3>3. CASE gt[1] = g
        <4>1. gt[2] \in links[g] \cap Targets
          BY <3>3 DEF ReadInv, SteadySound, Pairs
        <4>2. Entry(gt[2]) \in found /\ Entry(gt[2])[1] = gt[2]
          BY <4>1 DEF Entry
        <4> QED BY <4>2, <1>2 DEF Listed
      <3> QED BY <3>1, <3>2, <3>3, <1>1
    <2> QED BY <2>1, <1>1, SameConfiguration DEF ReadInv, SteadySound
  <1>4. CleanSound'
    <2> SUFFICES ASSUME Clean' PROVE CleanSound'
      BY DEF CleanSound
    <2>1. Clean /\ rows[prober] = Name /\ rest \subseteq GroupsOf(prober)
          /\ list = EntriesOf(GroupsOf(prober) \ rest)
      BY <1>1 DEF Clean, Owed, ReadInv, CleanSound
    <2>2. \A e \in list : e = Entry(e[1])
      BY <2>1 DEF EntriesOf, Entry
    <2>3. \A e \in found : e = Entry(e[1])
      BY DEF Entry
    <2>4. list' = list \cup found
      BY <1>1, <2>2, <2>3 DEF Joined
    <2>5. GroupsOf(prober) \ rest' = (GroupsOf(prober) \ rest) \cup {g}
      BY <1>1, <2>1
    <2>6. list \cup found = EntriesOf(GroupsOf(prober) \ rest')
      BY <2>1, <2>5 DEF EntriesOf
    <2>7. EntriesOf(GroupsOf(prober) \ rest)' = EntriesOf(GroupsOf(prober) \ rest')
      BY <1>1 DEF EntriesOf, GroupsOf, Entry
    <2>8. rest' \subseteq GroupsOf(prober)'
      BY <1>1, <2>1 DEF GroupsOf
    <2> QED BY <1>1, <2>1, <2>4, <2>6, <2>7, <2>8 DEF CleanSound
  <1> QED BY <1>3, <1>4 DEF ReadInv

LEMMA EndReadReads ==
  ASSUME TypeOK, ReadInv, EndRead
  PROVE  ReadInv'
  <1>1. /\ UNCHANGED <<rows, links, messageVars, notifierVars, clientVars, prober, rest, list, dirty, steady>>
        /\ reader = "reading" /\ rest = {} /\ reader' = "send"
    BY DEF EndRead, Quiet
  <1>2. SteadySound'
    BY <1>1, SameConfiguration DEF ReadInv, SteadySound, Listed
  <1>3. CleanSound'
    <2> SUFFICES ASSUME Clean' PROVE CleanSound'
      BY DEF CleanSound
    <2>1. Clean /\ prober \in Probers /\ rows[prober] = Name /\ list = EntriesOf(GroupsOf(prober) \ {})
      BY <1>1 DEF Clean, Owed, ReadInv, SteadySound, CleanSound
    <2>2. GroupsOf(prober) \ {} = GroupsOf(prober)
      OBVIOUS
    <2>3. list = Configured
      BY <2>1, <2>2, ConfiguredOf
    <2> QED BY <1>1, <2>3, SameConfiguration DEF CleanSound
  <1> QED BY <1>2, <1>3 DEF ReadInv

LEMMA SendListReads ==
  ASSUME TypeOK, ReadInv, SendList
  PROVE  ReadInv'
  <1>1. /\ UNCHANGED <<rows, links, messageVars, listed, session, dirty>>
        /\ reader = "send" /\ reader' = "idle" /\ sent' = list /\ notifier' = Returned /\ steady' = {}
    BY DEF SendList, EndOfRead
  <1>2. SteadySound'
    BY <1>1 DEF SteadySound
  <1>3. Clean' => Clean
    BY <1>1 DEF Clean, Owed, Returned
  <1>4. CleanSound'
    BY <1>1, <1>3, SameConfiguration DEF ReadInv, CleanSound
  <1> QED BY <1>2, <1>4 DEF ReadInv

\* After a read that sent nothing, the connection is closed or the notifier dead.
LEMMA NotSentReads ==
  ASSUME ReadInv, CloseOnEmpty \/ SendFails
  PROVE  ReadInv'
  <1>1. ~Clean'
    BY DEF CloseOnEmpty, SendFails, Raised, Clean
  <1>2. reader' = "idle" /\ steady' = {}
    BY DEF CloseOnEmpty, SendFails, EndOfRead
  <1> QED BY <1>1, <1>2 DEF ReadInv, SteadySound, CleanSound

\* A message that is marked read was listed, unless a read has begun since or it
\* was missed.
LEMMA CheckMessagesReads ==
  ASSUME TypeOK, ReadInv, CheckMessages
  PROVE  ReadInv'
  <1>1. UNCHANGED <<rows, links, readVars, clientVars, steady>>
    BY DEF CheckMessages, ListUnread, MarkRead, NotifierDies, NotifySkips, Quiet
  <1>2. CASE ListUnread
    BY <1>1, <1>2, QuietReads DEF ListUnread, Unread, Quiet, Clean, Owed, TypeOK, ReadOK
  <1>3. CASE MarkRead
    BY <1>1, <1>3, QuietReads DEF MarkRead, Quiet, Clean, Owed
  <1>4. CASE NotifierDies \/ NotifySkips
    BY <1>1, <1>4, QuietReads DEF NotifierDies, NotifySkips, Clean
  <1> QED BY <1>2, <1>3, <1>4 DEF CheckMessages

LEMMA StepReads == TypeOK /\ ReadInv /\ [Next]_vars => ReadInv'
  <1> SUFFICES ASSUME TypeOK, ReadInv, [Next]_vars PROVE ReadInv'
    OBVIOUS
  <1>0. TypeOK'
    BY StepTypes
  <1>1. ASSUME NEW w \in Workers, NEW id \in Ids, PostForm(w, id) PROVE ReadInv'
    BY <1>1, QuietReads DEF PostForm, Quiet, Clean, Owed
  <1>2. ASSUME NEW w \in Workers, SaveRow(w) PROVE ReadInv'
    <2>1. \A x : x # post[w].id => rows'[x] = rows[x]
      BY <1>2 DEF SaveRow, TypeOK, DbOK
    <2> QED BY <1>0, <1>2, <2>1, WritesReads DEF SaveRow
  <1>3. ASSUME NEW w \in Workers, ReadLinks(w) PROVE ReadInv'
    BY <1>3, QuietReads DEF ReadLinks, Quiet, Clean, Owed
  <1>4. ASSUME NEW w \in Workers, SetLinks(w) PROVE ReadInv'
    BY <1>0, <1>4, WritesReads DEF SetLinks
  <1>5. ASSUME NEW w \in Workers, PostFails(w) PROVE ReadInv'
    BY <1>5, QuietReads DEF PostFails, Quiet, Clean, Owed
  <1>6. ASSUME NEW id \in Ids, Delete(id) PROVE ReadInv'
    <2>1. \A x : x # id => rows'[x] = rows[x]
      BY <1>6 DEF Delete, TypeOK, DbOK
    <2> QED BY <1>0, <1>6, <2>1, WritesReads DEF Delete
  <1>7. CASE PostMessage
    <2>1. ~Clean'
      BY <1>7 DEF PostMessage, Clean, Owed
    <2> QED BY <1>7, <2>1, QuietReads DEF PostMessage
  <1>8. CASE BeginNotify \/ BeginSession
    BY <1>8, SameConfiguration DEF BeginNotify, BeginSession, Begin, ReadInv, SteadySound, CleanSound, Listed
  <1>9. CASE FindProber
    BY <1>9, FindProberReads
  <1>10. CASE ListGroups
    BY <1>10, ListGroupsReads
  <1>11. ASSUME NEW g \in Groups, ReadGroup(g) PROVE ReadInv'
    BY <1>11, ReadGroupReads
  <1>12. CASE EndRead
    BY <1>12, EndReadReads
  <1>13. CASE SendList
    BY <1>13, SendListReads
  <1>14. CASE CloseOnEmpty \/ SendFails
    BY <1>14, NotSentReads
  <1>15. CASE CheckMessages
    BY <1>15, CheckMessagesReads
  <1>16. CASE Disconnect \/ SessionEnds
    <2>1. ~Clean' /\ UNCHANGED <<rows, links, readVars, steady>>
      BY <1>16 DEF Disconnect, SessionEnds, Quiet, Clean
    <2> QED BY <2>1, SameConfiguration DEF ReadInv, SteadySound, CleanSound, Listed
  <1>17. CASE UNCHANGED vars
    BY <1>17, QuietReads DEF vars, Clean, Owed
  <1> QED BY <1>1, <1>2, <1>3, <1>4, <1>5, <1>6, <1>7, <1>8, <1>9, <1>10, <1>11, <1>12, <1>13, <1>14,
             <1>15, <1>16, <1>17
          DEF Next, WebServer, CollectorRead

LEMMA ReadInvariant == Spec => [](TypeOK /\ ReadInv)
  BY InitTypes, StepTypes, InitReads, StepReads, PTL DEF Spec

\* A target that is in a group of the prober all the time the collector reads
\* the list is in the list it sends (models.py:23, server.py:179).
THEOREM SteadyListed == Spec => []SteadyAreListed
  <1>1. ReadInv => SteadyAreListed
    BY DEF ReadInv, SteadySound, SteadyAreListed, Listed
  <1> QED BY <1>1, ReadInvariant, PTL

\* After a press of the button that follows the last change, and once its message
\* is worked off, the prober has been sent the list that is configured, whatever
\* reads were under way, unless the message was marked without having been listed
\* or the notifier is dead (server.py:70-92, 199-225, models.py:145-147).
THEOREM ListsUpToDate == Spec => []UpToDate
  <1>1. TypeOK /\ ReadInv => UpToDate
    BY DEF TypeOK, ReadOK, ReadInv, CleanSound, Clean, Owed, UpToDate
  <1> QED BY <1>1, ReadInvariant, PTL
=============================================================================

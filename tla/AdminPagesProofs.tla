--------------------------- MODULE AdminPagesProofs ---------------------------
(***************************************************************************)
(* Proofs about AdminPages, for any rows, secrets and number of calls, and *)
(* whatever answers are late: TypeCorrect, BackupsCurrent, KeysAreCurrent. *)
(***************************************************************************)
EXTENDS AdminPages, TLAPS

-------------------------------------------------------------------------------
(* The cache *)

\* Nothing new is shown, and no answer is under way that was not before.
Quiet(q, e) ==
  /\ e.data \in {q.data, None}
  /\ e.fetch = "served" => q.fetch = "served" /\ e.got = q.got

LEMMA SendQuiet ==
  ASSUME NEW V, NEW q \in Cache!Entries(V)
  PROVE  /\ Cache!Send(q) \in Cache!Entries(V) /\ Quiet(q, Cache!Send(q))
         /\ Cache!Send(q).fetch = "sent"
BY DEF Cache!Entries, Cache!Send, Quiet

LEMMA FetchedQuiet ==
  ASSUME NEW V, NEW q \in Cache!Entries(V)
  PROVE  /\ Cache!Fetched(q) \in Cache!Entries(V) /\ Quiet(q, Cache!Fetched(q))
         /\ Cache!Fetching(Cache!Fetched(q))
BY SendQuiet DEF Cache!Fetched, Cache!Fetching, Quiet

LEMMA InvalidatedQuiet ==
  ASSUME NEW V, NEW q \in Cache!Entries(V)
  PROVE  /\ Cache!Invalidated(q) \in Cache!Entries(V) /\ Quiet(q, Cache!Invalidated(q))
         /\ Cache!Fetching(Cache!Invalidated(q))
         /\ q.fetch = "served" /\ q.data # None => Cache!Invalidated(q).fetch = "sent"
BY SendQuiet DEF Cache!Invalidated, Cache!Fetching, Quiet

LEMMA EmptyShows ==
  ASSUME NEW V
  PROVE  /\ Cache!Empty \in Cache!Entries(V) /\ Cache!Empty.data = None
         /\ Cache!Empty.fetch = "none"
BY DEF Cache!Empty, Cache!Entries

LEMMA OnMountQuiet ==
  ASSUME NEW V, NEW q \in Cache!Entries(V), NEW e \in Cache!OnMount(q)
  PROVE  e \in Cache!Entries(V) /\ Quiet(q, e)
<1>1. CASE e = Cache!Fetched(q)
  BY <1>1, FetchedQuiet
<1>2. CASE e = q
  BY <1>2 DEF Quiet
<1>3. CASE e = Cache!Send(Cache!Empty)
  <2>1. /\ e \in Cache!Entries(V) /\ Quiet(Cache!Empty, e) /\ e.fetch = "sent"
    BY <1>3, EmptyShows, SendQuiet
  <2> QED
    BY <2>1, EmptyShows DEF Quiet
<1> QED
  BY <1>1, <1>2, <1>3 DEF Cache!OnMount

LEMMA ServedGets ==
  ASSUME NEW V, NEW q \in Cache!Entries(V), NEW v \in V
  PROVE  /\ Cache!Served(q, v) \in Cache!Entries(V)
         /\ Cache!Served(q, v).data = q.data
         /\ Cache!Served(q, v).fetch = "served" /\ Cache!Served(q, v).got = v
BY DEF Cache!Entries, Cache!Served

LEMMA AnsweredShows ==
  ASSUME NEW V, NEW q \in Cache!Entries(V)
  PROVE  /\ Cache!Answered(q) \in Cache!Entries(V)
         /\ Cache!Answered(q).data = q.got /\ Cache!Answered(q).fetch = "none"
BY DEF Cache!Entries, Cache!Answered

LEMMA FailingQuiet ==
  ASSUME NEW V, NEW q \in Cache!Entries(V)
  PROVE  /\ Cache!Failing(q) \in Cache!Entries(V) /\ Quiet(q, Cache!Failing(q))
         /\ Cache!Failing(q).fetch = "none" /\ Cache!Failing(q).error
BY DEF Cache!Entries, Cache!Failing, Quiet

-------------------------------------------------------------------------------
(* Type correctness *)

Answers == IF tour = "keys" THEN 0..MaxGen ELSE SUBSET Rows
Places == Pages(tour) \cup {"away", "broken"}

\* The calls of the rows' dialogs, and the page each call is sent from.
Confirmed == {"restore", "delete", "terminate", "rotate"}
Home(k) ==
  CASE k \in {"run", "restore", "delete"} -> "backups"
    [] k = "terminate" -> "sessions"
    [] k = "rotate" -> "secrets"
    [] k = "reveal" -> "dashboard"
    [] k = "maintain" -> "dbops"

Ons == Rows \cup Secrets \cup Operations \cup {None}
Dialogs == {NoDialog} \cup {d \in [kind : Confirmed, on : Ons] : d.on \in Targets(d.kind)}
Sent ==
  {c \in [kind : Kinds, on : Ons, state : {"sent", "done"}, here : BOOLEAN, gen : 0..MaxGen] :
     /\ c.on \in Targets(c.kind)
     /\ c.kind = "run" /\ c.state = "done" => c.on \in Rows}

\* What is open belongs to the page.
PageInv ==
  /\ place \in Places /\ (place = "broken" => tour = "keys")
  /\ catalog \in {"none", "loading", "loaded", "failed"} /\ typed \in BOOLEAN
  /\ dialog \in Dialogs /\ (dialog # NoDialog => place = Home(dialog.kind))
  /\ shown \in Results(place)

\* A call is answered on the page that sent it, if that is open; rotations one by one.
CallsInv ==
  /\ calls \in [Slots -> {Free} \cup Sent]
  /\ \A s \in Slots : calls[s] # Free => Home(calls[s].kind) \in Pages(tour)
  /\ \A s \in Slots : calls[s].here => place = Home(calls[s].kind)
  /\ \A s, i \in Slots :
       /\ calls[s].here /\ calls[s].kind = "rotate"
       /\ calls[i].here /\ calls[i].kind = "rotate"
       => s = i

ServerTyped ==
  /\ configured \in BOOLEAN
  /\ rows \in [Rows -> {"new", "there", "dying", "gone"}]
  /\ gen \in 0..MaxGen
  /\ known \in [made : SUBSET Rows, removed : SUBSET Rows, gen : 0..MaxGen]

QueryTyped ==
  /\ query \in Cache!Entries(Answers) /\ valid \in BOOLEAN
  /\ old \subseteq {"answer", "data"} /\ ("answer" \in old => query.fetch = "served")

TypeInv ==
  /\ ShellTypeOK /\ tour \in Tours
  /\ ServerTyped /\ QueryTyped /\ PageInv /\ CallsInv

\* A call is none, or one that was sent.
LEMMA SentIsTyped ==
  ASSUME NEW c \in {Free} \cup Sent
  PROVE  /\ c = Free \/ c.on \in Targets(c.kind)
         /\ c.kind \in Kinds \cup {"none"} /\ c.state \in {"none", "sent", "done"}
         /\ c.here \in BOOLEAN /\ c.gen \in 0..MaxGen
         /\ c = Free <=> c.kind = "none"
         /\ c = Free <=> c.state = "none"
         /\ c.here => c # Free
<1>1. CASE c = Free
  BY <1>1, ConstantsAssumption DEF Free
<1>2. CASE c \in Sent
  <2>1. c.kind # "none" /\ c.state # "none"
    BY <1>2 DEF Sent, Kinds
  <2>2. c # Free
    BY <2>1 DEF Free
  <2> QED
    BY <1>2, <2>1, <2>2 DEF Sent
<1> QED
  BY <1>1, <1>2

LEMMA TypesHold == TypeInv => TypeOK
<1> SUFFICES ASSUME TypeInv PROVE TypeOK
  OBVIOUS
<1>1. dialog = NoDialog \/ dialog.on \in Targets(dialog.kind)
  BY DEF TypeInv, PageInv, Dialogs
<1>2. ASSUME NEW s \in Slots
      PROVE  /\ calls[s] = Free \/ calls[s].on \in Targets(calls[s].kind)
             /\ calls[s].kind \in Kinds \cup {"none"}
             /\ calls[s].state \in {"none", "sent", "done"}
             /\ calls[s].here \in BOOLEAN /\ calls[s].gen \in 0..MaxGen
  <2>1. calls[s] \in {Free} \cup Sent
    BY DEF TypeInv, CallsInv
  <2> QED
    BY <2>1, SentIsTyped
<1>3. QueryTyped /\ ServerTyped /\ PageInv /\ ShellTypeOK /\ tour \in Tours
  BY DEF TypeInv
<1> QED
  BY <1>1, <1>2, <1>3 DEF TypeOK, QueryTyped, Answers, ServerTyped, PageInv, Places

\* What was old stays so, for as long as it is there.
Kept(o) ==
  /\ "answer" \in o /\ query'.fetch = "served" => "answer" \in old'
  /\ "data" \in o /\ query'.data # None => "data" \in old'

LEMMA AgesTyped ==
  ASSUME NEW o \in SUBSET {"answer", "data"}, Ages(o)
  PROVE  /\ old' \subseteq {"answer", "data"} /\ ("answer" \in old' => query'.fetch = "served")
         /\ Kept(o)
BY DEF Ages, Kept

\* The page that opens.
LEMMA OpensTyped ==
  ASSUME NEW p \in Places, NEW q \in Cache!Entries(Answers), NEW v \in BOOLEAN,
         Opens(p, q, v), UNCHANGED tour, p = "broken" => tour = "keys",
         old \subseteq {"answer", "data"}
  PROVE  /\ PageInv' /\ QueryTyped' /\ valid' = v /\ place' = p
         /\ Quiet(q, query') /\ Kept(old)
         /\ OnQuery' /\ ~valid' => Cache!Fetching(query')
<1>1. /\ place' = p /\ catalog' \in {"loading", "none"}
      /\ dialog' = NoDialog /\ typed' = FALSE /\ shown' = "none"
  BY DEF Opens
<1>2. PageInv'
  BY <1>1 DEF PageInv, Places, Dialogs, Results
<1>o. /\ old' \subseteq {"answer", "data"} /\ ("answer" \in old' => query'.fetch = "served")
      /\ Kept(old)
  BY AgesTyped DEF Opens
<1>3. CASE p # QueryPage \/ ~Reads
  <2>1. ~OnQuery'
    BY <1>1, <1>3 DEF OnQuery, QueryPage, Reads
  <2>2. query' = q /\ valid' = v
    BY <1>3 DEF Opens
  <2>3. Quiet(q, query')
    BY <2>2 DEF Quiet
  <2> QED
    BY <1>1, <1>2, <1>o, <2>1, <2>2, <2>3 DEF QueryTyped, Answers
<1>4. CASE p = QueryPage /\ Reads /\ v
  <2>1. query' \in Cache!OnMount(q) /\ valid' = v
    BY <1>4 DEF Opens
  <2> QED
    BY <1>1, <1>2, <1>4, <1>o, <2>1, OnMountQuiet DEF QueryTyped, Answers
<1>5. CASE p = QueryPage /\ Reads /\ ~v
  <2>1. query' = Cache!Fetched(q) /\ valid' = v
    BY <1>5 DEF Opens
  <2> QED
    BY <1>1, <1>2, <1>o, <2>1, FetchedQuiet DEF QueryTyped, Answers
<1> QED
  BY <1>3, <1>4, <1>5

\* The page is left: no call is of the page any more.
LEMMA CallsGone ==
  ASSUME CallsInv, UNCHANGED tour, calls' = CallsLeft \/ calls' = [s \in Slots |-> Free]
  PROVE  CallsInv'
<1>1. CASE calls' = CallsLeft
  <2>1. ASSUME NEW s \in Slots
        PROVE  /\ calls'[s] \in {Free} \cup Sent /\ ~calls'[s].here
               /\ calls'[s] # Free => calls[s] # Free /\ calls'[s].kind = calls[s].kind
    <3>1. calls[s] \in {Free} \cup Sent /\ calls'[s] = [calls[s] EXCEPT !.here = FALSE]
      BY <1>1 DEF CallsInv, CallsLeft
    <3>2. CASE calls[s] = Free
      <4>1. Free \in [kind : {"none"}, on : {None}, state : {"none"}, here : {FALSE}, gen : {0}]
        BY DEF Free
      <4>2. [Free EXCEPT !.here = FALSE] = Free
        BY <4>1
      <4>3. ~Free.here
        BY DEF Free
      <4> QED
        BY <3>1, <3>2, <4>2, <4>3
    <3>3. CASE calls[s] \in Sent
      <4>1. calls'[s] \in Sent /\ calls'[s].kind = calls[s].kind /\ ~calls'[s].here
        BY <3>1, <3>3 DEF Sent
      <4>2. calls[s] # Free
        BY <3>3 DEF Sent, Free, Kinds
      <4> QED
        BY <4>1, <4>2
    <3> QED
      BY <3>1, <3>2, <3>3
  <2>2. calls' \in [Slots -> {Free} \cup Sent]
    BY <1>1, <2>1 DEF CallsLeft
  <2>3. \A s \in Slots : calls'[s] # Free => Home(calls'[s].kind) \in Pages(tour)
    BY <2>1 DEF CallsInv
  <2> QED
    BY <2>1, <2>2, <2>3 DEF CallsInv, Pages, Sent, Targets
<1>2. CASE calls' = [s \in Slots |-> Free]
  BY <1>2 DEF CallsInv, Free
<1> QED
  BY <1>1, <1>2

\* One call is served, or answered; the page stays, unless a rotation takes it.
LEMMA OneCall ==
  ASSUME CallsInv, UNCHANGED tour, NEW s \in Slots, NEW c \in {Free} \cup Sent,
         calls' = [calls EXCEPT ![s] = c],
         c # Free => c.kind = calls[s].kind /\ c.here = calls[s].here /\ calls[s] # Free,
         \/ place' = place
         \/ calls[s].here /\ calls[s].kind = "rotate" /\ c = Free
  PROVE  CallsInv'
<1>1. /\ calls' \in [Slots -> {Free} \cup Sent] /\ calls'[s] = c
      /\ \A i \in Slots : i # s => calls'[i] = calls[i]
  BY DEF CallsInv
<1>2. ~Free.here
  BY DEF Free
<1>3. \A i \in Slots : calls'[i] # Free =>
        calls[i] # Free /\ calls'[i].kind = calls[i].kind /\ calls'[i].here = calls[i].here
  BY <1>1
<1>4. \A i \in Slots : calls'[i].here =>
        calls[i].here /\ calls'[i].kind = calls[i].kind /\ calls'[i] # Free
  BY <1>2, <1>3
<1>5. \A i \in Slots : calls'[i] # Free => Home(calls'[i].kind) \in Pages(tour)
  BY <1>3 DEF CallsInv
<1>6. ASSUME NEW i \in Slots, calls'[i].here PROVE place' = Home(calls'[i].kind)
  <2>1. calls[i].here /\ calls'[i].kind = calls[i].kind /\ place = Home(calls[i].kind)
    BY <1>4, <1>6 DEF CallsInv
  <2>2. CASE place' = place
    BY <2>1, <2>2
  <2>3. CASE calls[s].here /\ calls[s].kind = "rotate" /\ c = Free
    <3>1. i # s
      BY <1>1, <1>2, <1>6, <2>3
    <3>2. place = "secrets"
      BY <2>3 DEF CallsInv, Home
    <3>3. calls[i].kind \in Kinds
      <4>1. calls[i] \in {Free} \cup Sent
        BY DEF CallsInv
      <4> QED
        BY <2>1, <4>1, SentIsTyped DEF Sent
    <3>4. calls[i].kind = "rotate"
      BY <2>1, <3>2, <3>3 DEF Home, Kinds
    <3> QED
      BY <2>1, <2>3, <3>1, <3>4 DEF CallsInv
  <2> QED
    BY <2>2, <2>3
<1>7. \A i, k \in Slots :
        /\ calls'[i].here /\ calls'[i].kind = "rotate"
        /\ calls'[k].here /\ calls'[k].kind = "rotate"
        => i = k
  BY <1>4 DEF CallsInv
<1> QED
  BY <1>1, <1>5, <1>6, <1>7 DEF CallsInv, Pages, Sent, Targets

\* A call is sent.
LEMMA SendsTyped ==
  ASSUME CallsInv, NEW k \in Kinds, NEW on \in Ons, on \in Targets(k), Sends(k, on),
         place \in Places, place = Home(k), k = "rotate" => ~Pending("rotate")
  PROVE  CallsInv'
<1> DEFINE s == CHOOSE i \in Slots : calls[i] = Free
           c == [kind |-> k, on |-> on, state |-> "sent", here |-> TRUE, gen |-> 0]
<1>1. s \in Slots /\ calls[s] = Free /\ calls' = [calls EXCEPT ![s] = c]
      /\ UNCHANGED <<tour, place>>
  BY DEF Sends
<1>2. c \in Sent
  <2>1. 0 \in 0..MaxGen
    BY ConstantsAssumption
  <2> QED
    BY <2>1 DEF Sent
<1>3. /\ calls' \in [Slots -> {Free} \cup Sent] /\ calls'[s] = c
      /\ \A i \in Slots : i # s => calls'[i] = calls[i]
  BY <1>1, <1>2 DEF CallsInv
<1>4. Home(k) \in Pages(tour)
  BY DEF Places, Home, Kinds
<1> HIDE DEF s
<1>5. c.kind = k
  OBVIOUS
<1> HIDE DEF c
<1>6. \A i \in Slots : calls'[i] # Free => Home(calls'[i].kind) \in Pages(tour)
  BY <1>3, <1>4, <1>5 DEF CallsInv
<1>7. \A i \in Slots : calls'[i].here => place' = Home(calls'[i].kind)
  BY <1>1, <1>3, <1>5 DEF CallsInv
<1>8. \A i, l \in Slots :
        /\ calls'[i].here /\ calls'[i].kind = "rotate"
        /\ calls'[l].here /\ calls'[l].kind = "rotate"
        => i = l
  BY <1>3, <1>5 DEF CallsInv, Pending
<1> QED
  BY <1>1, <1>3, <1>6, <1>7, <1>8 DEF CallsInv, Pages, Sent, Targets

\* What the server does to a call that it serves, and to the rows.
LEMMA ServeCallTyped ==
  ASSUME TypeInv, NEW s \in Slots, ServeCall(s)
  PROVE  ServerTyped' /\ CallsInv'
<1>1. /\ UNCHANGED <<tour, place, configured, known>> /\ calls[s].state = "sent"
      /\ configured \in BOOLEAN /\ rows \in [Rows -> {"new", "there", "dying", "gone"}]
      /\ gen \in 0..MaxGen /\ CallsInv
      /\ known \in [made : SUBSET Rows, removed : SUBSET Rows, gen : 0..MaxGen]
  BY DEF ServeCall, TypeInv, ServerTyped
<1>2. calls[s] # Free /\ calls[s] \in Sent /\ calls \in [Slots -> {Free} \cup Sent]
  BY <1>1 DEF CallsInv, Free
<1> DEFINE done == [calls[s] EXCEPT !.state = "done"]
<1>3. /\ calls[s].kind # "run" => done \in Sent
      /\ done.kind = calls[s].kind /\ done.here = calls[s].here
  BY <1>2 DEF Sent
<1>4. Done(s) = [calls EXCEPT ![s] = done]
  BY <1>2 DEF Done
\* The call gets its answer.
<1>5. ASSUME NEW c \in Sent, c.kind = calls[s].kind, c.here = calls[s].here,
             calls' = [calls EXCEPT ![s] = c]
      PROVE  CallsInv'
  BY <1>1, <1>2, <1>5, OneCall
<1>6. ASSUME calls' = Done(s), calls[s].kind # "run" PROVE CallsInv'
  <2> HIDE DEF done
  <2> QED
    BY <1>3, <1>4, <1>5, <1>6
<1>7. ASSUME NEW g \in 0..MaxGen, calls' = [Done(s) EXCEPT ![s].gen = g], calls[s].kind # "run"
      PROVE  CallsInv'
  <2>1. calls' = [calls EXCEPT ![s] = [done EXCEPT !.gen = g]]
    BY <1>2, <1>4, <1>7
  <2>2. [done EXCEPT !.gen = g] \in Sent
        /\ [done EXCEPT !.gen = g].kind = calls[s].kind /\ [done EXCEPT !.gen = g].here = calls[s].here
    <3> HIDE DEF done
    <3> QED
      BY <1>3, <1>7 DEF Sent
  <2> HIDE DEF done
  <2> QED
    BY <1>5, <2>1, <2>2
<1>8. CASE calls[s].kind = "run"
  <2>1. PICK r \in Rows : /\ rows' = [rows EXCEPT ![r] = "there"] /\ gen' = gen
                          /\ calls' = [Done(s) EXCEPT ![s].on = r]
    BY <1>8 DEF ServeCall, ServeRun
  <2>2. calls' = [calls EXCEPT ![s] = [done EXCEPT !.on = r]]
    BY <1>2, <1>4, <2>1
  <2>3. [done EXCEPT !.on = r] \in Sent
        /\ [done EXCEPT !.on = r].kind = calls[s].kind /\ [done EXCEPT !.on = r].here = calls[s].here
    <3>1. r \in Ons /\ r \in Targets("run")
      BY DEF Ons, Targets
    <3>2. done \in [kind : Kinds, on : Ons, state : {"sent", "done"}, here : BOOLEAN, gen : 0..MaxGen]
      BY <1>2 DEF Sent
    <3> HIDE DEF done
    <3> QED
      BY <1>3, <1>8, <3>1, <3>2 DEF Sent
  <2>4. CallsInv'
    <3> HIDE DEF done
    <3> QED
      BY <1>5, <2>2, <2>3
  <2> QED
    BY <1>1, <2>1, <2>4 DEF ServerTyped
<1>9. CASE calls[s].kind = "delete"
  BY <1>1, <1>6, <1>9 DEF ServeCall, ServeDelete, ServerTyped
<1>10. CASE calls[s].kind = "terminate"
  <2>1. /\ rows' = [rows EXCEPT ![calls[s].on] =
                      IF rows[calls[s].on] = "there" THEN "dying" ELSE rows[calls[s].on]]
        /\ calls' = Done(s) /\ gen' = gen
    BY <1>10 DEF ServeCall, ServeTerminate
  <2>2. calls[s].on \in Rows
    BY <1>2, <1>10 DEF Sent, Targets
  <2>3. rows' \in [Rows -> {"new", "there", "dying", "gone"}]
    BY <1>1, <2>1, <2>2
  <2> QED
    BY <1>1, <1>6, <1>10, <2>1, <2>3 DEF ServerTyped
<1>11. CASE calls[s].kind = "rotate"
  <2>1. /\ gen' \in {gen, gen + 1} /\ (gen' = gen + 1 => gen < MaxGen) /\ rows' = rows
        /\ calls' = Done(s) \/ calls' = [Done(s) EXCEPT ![s].gen = gen']
    BY <1>1, <1>11 DEF ServeCall, ServeRotate
  <2>2. gen' \in 0..MaxGen
    BY <1>1, <2>1, ConstantsAssumption
  <2> QED
    BY <1>1, <1>6, <1>7, <1>11, <2>1, <2>2 DEF ServerTyped
<1>12. CASE calls[s].kind = "reveal"
  BY <1>1, <1>6, <1>12 DEF ServeCall, ServeReveal, ServerTyped
<1>13. CASE calls[s].kind \in {"maintain", "restore"}
  BY <1>1, <1>6, <1>13 DEF ServeCall, ServeMaintain, ServerTyped
<1>14. calls[s].kind \in Kinds
  BY <1>2 DEF Sent
<1> QED
  BY <1>8, <1>9, <1>10, <1>11, <1>12, <1>13, <1>14 DEF Kinds

\* An answer: what the tab learns from it.
LEMMA AnsweredTyped ==
  ASSUME TypeInv, NEW s \in Slots, Answered(s)
  PROVE  known' \in [made : SUBSET Rows, removed : SUBSET Rows, gen : 0..MaxGen]
<1>1. /\ known \in [made : SUBSET Rows, removed : SUBSET Rows, gen : 0..MaxGen]
      /\ calls[s].state = "done" /\ calls[s] \in {Free} \cup Sent
  BY DEF TypeInv, ServerTyped, Answered, CallsInv
<1>2. calls[s] \in Sent
  BY <1>1 DEF Free
<1>3. calls[s].kind \in Kinds /\ calls[s].gen \in 0..MaxGen
      /\ (calls[s].kind \in {"run", "delete", "terminate"} => calls[s].on \in Rows)
  BY <1>1, <1>2 DEF Sent, Targets
<1> QED
  BY <1>1, <1>3 DEF Answered, Learns

\* The dialog of a kind is closed, with the answer to the call that it sent.
LEMMA ClosesTyped ==
  ASSUME PageInv, NEW s \in Slots, ClosesDialog(s), UNCHANGED tour, place' = place, catalog' = catalog,
         shown' \in Results(place)
  PROVE  PageInv'
<1>1. \/ dialog' = NoDialog /\ typed' = FALSE
      \/ UNCHANGED <<dialog, typed>>
  BY DEF ClosesDialog
<1> QED
  BY <1>1 DEF PageInv, Places, Dialogs, Sent, Targets, Pages

LEMMA TypeStep == TypeInv /\ [Next]_vars => TypeInv'
<1> SUFFICES ASSUME TypeInv, [Next]_vars PROVE TypeInv'
  OBVIOUS
<1>t. /\ ShellTypeOK /\ tour \in Tours /\ ServerTyped /\ QueryTyped /\ PageInv /\ CallsInv
      /\ query \in Cache!Entries(Answers) /\ valid \in BOOLEAN
      /\ old \subseteq {"answer", "data"} /\ ("answer" \in old => query.fetch = "served")
  BY DEF TypeInv, QueryTyped
<1>tour. UNCHANGED tour
  BY DEF Next, vars, Go, LogsIn, LogsOut, Waits, ReloadsTab, LosesSession, Reloads, Serve, Arrive, Fail,
         CatalogArrives, Poll, Refresh, OpenDialog, Sets, Types, CloseDialog, Confirm, RunBackup,
         Reveal, Hide, Maintain, Sends, RowsChange, ServeCall, Fails, ListCallDone, RestoreDone,
         RotateDone, RevealDone, MaintainDone
\* The shell's steps.
<1>shell. ShellTypeOK'
  <2>1. CASE UNCHANGED shellVars
    BY <1>t, <2>1 DEF ShellTypeOK, shellVars
  <2>2. CASE LoginSucceeds \/ LoginFails \/ Logout \/ Reload \/ CookieChanges \/ Submit \/ Unauthorized
    BY <1>t, <2>2 DEF ShellTypeOK, LoginSucceeds, LoginFails, Logout, Reload, CookieChanges, Submit,
                      Unauthorized, ClearToken
  <2> QED
    BY <2>1, <2>2 DEF Next, vars, Go, LogsIn, LogsOut, Waits, ReloadsTab, LosesSession, Reloads, Serve,
         Arrive, Fail, CatalogArrives, Poll, Refresh, OpenDialog, Sets, Types, CloseDialog, Confirm,
         RunBackup, Reveal, Hide, Maintain, Sends, RowsChange, ServeCall, Fails, ListCallDone,
         RestoreDone, RotateDone, RevealDone, MaintainDone
\* What stays is typed.
<1>s. UNCHANGED <<serverVars, known>> => ServerTyped'
  BY <1>t DEF ServerTyped, serverVars
<1>q. UNCHANGED cacheVars => QueryTyped'
  BY <1>t, <1>tour DEF QueryTyped, Answers, cacheVars
<1>g. UNCHANGED <<place, pageVars>> => PageInv'
  BY <1>t, <1>tour DEF PageInv, Places, Pages, Dialogs, Sent, Targets, pageVars
<1>c. UNCHANGED <<place, calls>> => CallsInv'
  BY <1>t, <1>tour DEF CallsInv, Pages, Sent, Targets
<1>d. ServerTyped' /\ QueryTyped' /\ PageInv' /\ CallsInv' => TypeInv'
  BY <1>t, <1>tour, <1>shell DEF TypeInv
\* The entry changes.
<1>e. ASSUME NEW e \in Cache!Entries(Answers), query' = e, valid' \in BOOLEAN,
             NEW o \in SUBSET {"answer", "data"},
             Ages(o) \/ (old' = o /\ ("answer" \in o => query'.fetch = "served"))
      PROVE  QueryTyped'
  <2>1. old' \subseteq {"answer", "data"} /\ ("answer" \in old' => query'.fetch = "served")
    BY <1>e, AgesTyped
  <2> QED
    BY <1>e, <1>tour, <2>1 DEF QueryTyped, Answers
\* What a page shows.
<1>h. ASSUME UNCHANGED <<place, catalog>>, dialog' = dialog, typed' \in BOOLEAN, shown' \in Results(place)
      PROVE  PageInv'
  BY <1>h, <1>t, <1>tour DEF PageInv, Places, Pages, Dialogs, Sent, Targets
<1>none. \A p : "none" \in Results(p)
  BY DEF Results
<1>x. PageInv => shown \in Results(place) /\ typed \in BOOLEAN
  BY DEF PageInv
<1>f. ASSUME NEW s \in Slots, Frees(s), place' = place PROVE CallsInv'
  BY <1>f, <1>t, <1>tour, OneCall DEF Frees
<1>i. Invalidate => QueryTyped'
  <2>1. TooEarly \in SUBSET {"answer", "data"}
    BY <1>t DEF TooEarly
  <2> QED
    BY <1>t, <1>e, <2>1, InvalidatedQuiet DEF Invalidate
<1>1. ASSUME NEW p \in Pages(tour) \cup {"away"}, Go(p) PROVE TypeInv'
  <2>1. p \in Places /\ p # "broken" /\ Opens(p, query, valid)
    BY <1>1, <1>t, ConstantsAssumption DEF Go, Places, Pages
  <2> QED
    BY <1>1, <2>1, <1>t, <1>tour, <1>s, <1>d, OpensTyped, CallsGone DEF Go
<1>2. CASE LogsIn
  <2>1. /\ place \in Places /\ (place = "broken" => tour = "keys")
        /\ Opens(place, query, valid) /\ UNCHANGED <<serverVars, calls, known>>
    BY <1>2, <1>t DEF LogsIn, PageInv
  <2>2. PageInv' /\ QueryTyped' /\ place' = place
    BY <2>1, <1>t, <1>tour, OpensTyped
  <2> QED
    BY <2>1, <2>2, <1>s, <1>c, <1>d
<1>3. CASE LogsOut
  <2>1. /\ catalog' = "none" /\ dialog' = NoDialog /\ typed' = FALSE /\ shown' = "none"
        /\ calls' = CallsLeft /\ UNCHANGED <<place, cacheVars>> /\ UNCHANGED <<serverVars, known>>
    BY <1>3 DEF LogsOut, Closes
  <2>2. PageInv'
    BY <2>1, <1>t, <1>tour, <1>none DEF PageInv, Places, Pages, Dialogs
  <2> QED
    BY <2>1, <2>2, <1>t, <1>tour, <1>s, <1>q, <1>d, CallsGone
<1>4. CASE Waits
  BY <1>4, <1>s, <1>q, <1>g, <1>c, <1>d DEF Waits
<1>5. ASSUME NEW p \in Places, p # "broken", Reloads(p) PROVE TypeInv'
  <2>1. calls' = [s \in Slots |-> Free] /\ UNCHANGED <<serverVars, known>>
    BY <1>5 DEF Reloads
  <2>2. CallsInv' /\ ServerTyped'
    BY <2>1, <1>t, <1>tour, <1>s, CallsGone
  <2>3. CASE Opens(p, Cache!Empty, TRUE)
    BY <2>2, <2>3, <1>5, <1>t, <1>tour, <1>d, OpensTyped, EmptyShows
  <2>4. CASE /\ place' = p /\ query' = Cache!Empty /\ valid' = TRUE /\ old' = {}
             /\ catalog' = "none" /\ dialog' = NoDialog /\ typed' = FALSE /\ shown' = "none"
    <3>1. PageInv'
      BY <2>4, <1>5, <1>tour, <1>none DEF PageInv, Places, Pages, Dialogs
    <3> QED
      BY <2>2, <2>4, <3>1, <1>e, <1>d, EmptyShows
  <2> QED
    BY <1>5, <2>3, <2>4 DEF Reloads
<1>6. CASE ReloadsTab \/ LosesSession
  <2>1. Path \in Places /\ Path # "broken"
    <3>1. CASE place = "broken"
      BY <3>1, <1>t DEF Path, PageInv, Places, Pages
    <3>2. CASE place # "broken"
      BY <3>2, <1>t DEF Path, PageInv
    <3> QED
      BY <3>1, <3>2
  <2> QED
    BY <1>6, <2>1, <1>5 DEF ReloadsTab, LosesSession
<1>7. CASE Serve
  <2>1. Answer \in Answers
    BY <1>t DEF Answer, Answers, ServerTyped
  <2> QED
    BY <1>7, <2>1, <1>t, <1>s, <1>g, <1>c, <1>e, <1>d, ServedGets DEF Serve
<1>8. CASE Arrive
  <2>1. PICK o \in {{}, {"data"}} : old' = o
    BY <1>8 DEF Arrive
  <2> QED
    BY <1>8, <2>1, <1>t, <1>s, <1>g, <1>c, <1>e, <1>d, AnsweredShows DEF Arrive
<1>9. CASE Fail
  BY <1>9, <1>t, <1>s, <1>g, <1>c, <1>e, <1>d, FailingQuiet DEF Fail
<1>10. CASE CatalogArrives
  <2>1. PageInv'
    BY <1>10, <1>t, <1>tour DEF CatalogArrives, PageInv, Places, Pages, Dialogs, Targets
  <2> QED
    BY <1>10, <2>1, <1>s, <1>q, <1>c, <1>d DEF CatalogArrives
<1>11. CASE Poll
  BY <1>11, <1>t, <1>s, <1>g, <1>c, <1>e, <1>d, SendQuiet DEF Poll
<1>12. CASE Refresh
  BY <1>12, <1>t, <1>s, <1>g, <1>c, <1>e, <1>d, InvalidatedQuiet DEF Refresh
\* Dialogs and buttons.
<1>13. ASSUME NEW d \in Dialogs, d # NoDialog => place = Home(d.kind), NEW b \in BOOLEAN, Sets(d, b)
       PROVE  TypeInv'
  <2>1. dialog' = d /\ typed' = b /\ UNCHANGED <<place, catalog, shown>>
    BY <1>13 DEF Sets
  <2>2. PageInv'
    BY <1>13, <2>1, <1>t, <1>tour DEF PageInv, Places, Pages, Dialogs, Targets
  <2> QED
    BY <1>13, <2>2, <1>s, <1>q, <1>c, <1>d DEF Sets
<1>14. ASSUME NEW k \in Confirmed, NEW on \in Targets(k), OpenDialog(k, on) PROVE TypeInv'
  <2>1. on \in Ons
    BY <1>14 DEF Targets, Confirmed, Ons
  <2>2. [kind |-> k, on |-> on] \in Dialogs
    BY <1>14, <2>1 DEF Dialogs
  <2>3. place = Home(k)
    BY <1>14 DEF OpenDialog, Home
  <2>4. Sets([kind |-> k, on |-> on], FALSE)
    BY <1>14 DEF OpenDialog
  <2> QED
    BY <2>2, <2>3, <2>4, <1>13
<1>15. CASE Types
  BY <1>15, <1>13, <1>t DEF Types, PageInv
<1>16. CASE CloseDialog
  BY <1>16, <1>13 DEF CloseDialog, Dialogs
<1>17. ASSUME NEW k \in Kinds, NEW on \in Ons, on \in Targets(k), Sends(k, on),
              place = Home(k), k = "rotate" => ~Pending("rotate"),
              UNCHANGED <<catalog, dialog, typed>>, shown' = shown \/ shown' = "none"
       PROVE  TypeInv'
  <2>1. UNCHANGED <<place, cacheVars>> /\ UNCHANGED <<serverVars, known>>
    BY <1>17 DEF Sends
  <2>2. CallsInv'
    <3>1. place \in Places
      BY <1>t DEF PageInv
    <3> QED
      BY <1>17, <3>1, <1>t, SendsTyped
  <2>3. PageInv'
    BY <1>17, <2>1, <1>t, <1>x, <1>none, <1>h
  <2> QED
    BY <2>1, <2>2, <2>3, <1>s, <1>q, <1>d
<1>18. CASE RunBackup \/ Reveal
  <2>1. None \in Ons /\ None \in Targets("run") /\ None \in Targets("reveal")
    BY DEF Ons, Targets
  <2> QED
    BY <1>18, <2>1, <1>17 DEF RunBackup, Reveal, Home, Kinds, pageVars
<1>19. CASE Confirm
  <2>1. dialog \in Dialogs /\ dialog # NoDialog
    BY <1>19, <1>t DEF Confirm, PageInv, NoDialog
  <2>2. /\ dialog.kind \in Confirmed /\ dialog.on \in Ons /\ dialog.on \in Targets(dialog.kind)
        /\ place = Home(dialog.kind)
    BY <2>1, <1>t DEF Dialogs, PageInv
  <2>3. dialog.kind \in Kinds
    BY <2>2 DEF Confirmed, Kinds
  <2> QED
    BY <1>19, <2>2, <2>3, <1>17 DEF Confirm, pageVars
<1>20. ASSUME NEW op \in Operations, Maintain(op) PROVE TypeInv'
  <2> DEFINE on == [op EXCEPT !.full = op.full /\ op.op = "vacuum"]
  <2>1. on \in Operations
    <3>1. (op.full /\ op.op = "vacuum") \in BOOLEAN
      BY DEF Operations
    <3> QED
      BY <3>1 DEF Operations
  <2>2. on \in Ons /\ on \in Targets("maintain") /\ "maintain" \in Kinds /\ place = Home("maintain")
    BY <1>20, <2>1 DEF Ons, Targets, Kinds, Maintain, Home
  <2>3. Sends("maintain", on) /\ UNCHANGED <<catalog, dialog, typed>> /\ shown' = "none"
    BY <1>20 DEF Maintain
  <2> HIDE DEF on
  <2> QED
    BY <2>2, <2>3, <1>17
<1>21. CASE Hide
  BY <1>21, <1>x, <1>t, <1>none, <1>h, <1>s, <1>q, <1>c, <1>d DEF Hide
<1>22. ASSUME NEW r \in Rows, RowsChange(r) PROVE TypeInv'
  <2>1. ServerTyped'
    BY <1>22, <1>t DEF RowsChange, ServerTyped
  <2> QED
    BY <1>22, <2>1, <1>q, <1>g, <1>c, <1>d DEF RowsChange
\* Calls.
<1>23. ASSUME NEW s \in Slots, ServeCall(s) PROVE TypeInv'
  <2>1. UNCHANGED <<place, cacheVars, pageVars>>
    BY <1>23 DEF ServeCall
  <2> QED
    BY <1>23, <2>1, <1>q, <1>g, <1>d, ServeCallTyped
<1>24. ASSUME NEW s \in Slots, Answered(s), UNCHANGED serverVars PROVE ServerTyped'
  BY <1>24, <1>t, AnsweredTyped DEF ServerTyped, serverVars
<1>25. ASSUME NEW s \in Slots, ClosesDialog(s), UNCHANGED <<place, catalog, shown>> PROVE PageInv'
  BY <1>25, <1>t, <1>tour, <1>x, ClosesTyped
<1>26. ASSUME NEW s \in Slots, calls[s].here, calls[s].kind \in Kinds PROVE place = Home(calls[s].kind)
  BY <1>26, <1>t DEF CallsInv
<1>27. ASSUME NEW s \in Slots, Fails(s) PROVE TypeInv'
  <2>1. shown' \in Results(place)
    <3>1. CASE calls[s].kind = "maintain" /\ calls[s].here
      <4>1. place = "dbops"
        BY <3>1, <1>26 DEF Home, Kinds
      <4> QED
        BY <1>27, <3>1, <4>1 DEF Fails, Lands, Results
    <3>2. CASE ~(calls[s].kind = "maintain" /\ calls[s].here)
      BY <1>27, <3>2, <1>x, <1>t DEF Fails, Lands
    <3> QED
      BY <3>1, <3>2
  <2>2. PageInv'
    BY <1>27, <2>1, <1>x, <1>t, <1>h DEF Fails
  <2>3. CallsInv'
    BY <1>27, <1>f DEF Fails
  <2> QED
    BY <1>27, <2>2, <2>3, <1>s, <1>q, <1>d DEF Fails
<1>28. ASSUME NEW s \in Slots, ListCallDone(s) PROVE TypeInv'
  BY <1>28, <1>i, <1>24, <1>25, <1>f, <1>d DEF ListCallDone, Answered
<1>29. ASSUME NEW s \in Slots, RestoreDone(s) PROVE TypeInv'
  BY <1>29, <1>q, <1>24, <1>25, <1>f, <1>d DEF RestoreDone, Answered
<1>30. ASSUME NEW s \in Slots, RevealDone(s) \/ MaintainDone(s) PROVE TypeInv'
  <2>1. Answered(s) /\ UNCHANGED <<place, serverVars, cacheVars, catalog, dialog, typed>>
    BY <1>30 DEF RevealDone, MaintainDone
  <2>2. shown' \in Results(place)
    <3>1. CASE calls[s].here
      <4>1. \/ place = "dashboard" /\ shown' = "key"
            \/ place = "dbops" /\ shown' = "ok"
        BY <1>30, <3>1, <1>26 DEF RevealDone, MaintainDone, Lands, Home, Kinds
      <4> QED
        BY <4>1 DEF Results
    <3>2. CASE ~calls[s].here
      BY <1>30, <3>2, <1>x, <1>t DEF RevealDone, MaintainDone, Lands
    <3> QED
      BY <3>1, <3>2
  <2> QED
    BY <2>1, <2>2, <1>x, <1>t, <1>h, <1>q, <1>24, <1>f, <1>d DEF Answered
<1>31. ASSUME NEW s \in Slots, RotateDone(s) PROVE TypeInv'
  <2>1. Answered(s) /\ Frees(s) /\ Invalidate /\ UNCHANGED serverVars /\ calls[s].kind = "rotate"
    BY <1>31 DEF RotateDone, Answered
  <2>2. ServerTyped' /\ QueryTyped'
    BY <2>1, <1>i, <1>24
  <2>3. calls[s].here => place = "secrets" /\ tour = "keys"
    <3>1. calls[s].here => place = "secrets"
      BY <2>1, <1>26 DEF Home, Kinds
    <3>2. "secrets" \in Places => tour = "keys"
      BY <1>t, ConstantsAssumption DEF Places, Pages
    <3> QED
      BY <3>1, <3>2, <1>t DEF PageInv
  <2>4. CASE ~calls[s].here
    BY <1>31, <2>1, <2>2, <2>4, <1>g, <1>f, <1>d DEF RotateDone, Lands
  <2>5. CASE calls[s].here /\ place' = "broken"
    <3>1. catalog' = "none" /\ dialog' = NoDialog /\ typed' = FALSE /\ shown' = "none"
      BY <1>31, <2>3, <2>5, <1>tour DEF RotateDone, Lands
    <3>2. PageInv'
      BY <2>3, <2>5, <3>1, <1>tour, <1>none DEF PageInv, Places, Dialogs
    <3>3. CallsInv'
      BY <2>1, <2>5, <1>t, <1>tour, OneCall DEF Frees
    <3> QED
      BY <2>2, <3>2, <3>3, <1>d
  <2>6. CASE calls[s].here /\ place' # "broken"
    <3>1. /\ shown' = "rotated"
          /\ ClosesDialog(s) /\ UNCHANGED <<place, catalog>>
      BY <1>31, <2>6 DEF RotateDone, Lands
    <3>2. shown' \in Results(place)
      BY <2>3, <2>6, <3>1 DEF Results
    <3>3. PageInv'
      BY <3>1, <3>2, <1>t, <1>tour, ClosesTyped
    <3> QED
      BY <2>1, <2>2, <3>1, <3>3, <1>f, <1>d
  <2> QED
    BY <2>4, <2>5, <2>6
<1>32. CASE UNCHANGED vars
  BY <1>32, <1>s, <1>q, <1>g, <1>c, <1>d DEF vars
<1> QED
  BY <1>1, <1>2, <1>3, <1>4, <1>6, <1>7, <1>8, <1>9, <1>10, <1>11, <1>12, <1>14, <1>15, <1>16,
     <1>18, <1>19, <1>20, <1>21, <1>22, <1>23, <1>27, <1>28, <1>29, <1>30, <1>31, <1>32
     DEF Next, Confirmed

LEMMA TypeInvariant == Spec => []TypeInv
<1>1. Init => TypeInv
  <2> SUFFICES ASSUME Init PROVE TypeInv
    OBVIOUS
  <2>1. ShellTypeOK /\ tour \in Tours /\ QueryTyped
    BY EmptyShows DEF Init, ShellInit, ShellTypeOK, QueryTyped
  <2>2. ServerTyped
    BY ConstantsAssumption DEF Init, ServerTyped
  <2>3. PageInv
    BY DEF Init, PageInv, Places, Dialogs, Results
  <2>4. CallsInv
    BY DEF Init, CallsInv, Free
  <2> QED
    BY <2>1, <2>2, <2>3, <2>4 DEF TypeInv
<1> QED
  BY <1>1, TypeStep, PTL DEF Spec

\* What the pages, the calls and the server keep stays within its types, whatever page
\* an answer finds open: a result is only shown by a page that has a place for it.
THEOREM TypeCorrect == Spec => []TypeOK
BY TypeInvariant, TypesHold, PTL

-------------------------------------------------------------------------------
(* What was done stays done *)

\* Rotations and backups are not undone: nothing is new again, nothing comes back, no
\* key gets older.
Forward ==
  /\ gen <= gen'
  /\ \A r \in Rows : /\ rows[r] # "new" => rows'[r] # "new"
                     /\ rows[r] = "gone" => rows'[r] = "gone"

\* The server has done what it acknowledged, and what the tab was told.
KeepsWord(s) ==
  /\ calls[s].gen <= gen
  /\ calls[s].state = "done" /\ calls[s].kind = "run" => rows[calls[s].on] # "new"
  /\ calls[s].state = "done" /\ calls[s].kind = "delete" => rows[calls[s].on] = "gone"

DoneInv ==
  /\ known.gen <= gen
  /\ \A s \in Slots : KeepsWord(s)
  /\ tour = "backups" => /\ \A r \in known.made : rows[r] # "new"
                         /\ \A r \in known.removed : rows[r] = "gone"

\* What a step does to the calls and to what the tab knows of them.
CallsMove ==
  \/ UNCHANGED known /\ \A s \in Slots :
       \/ /\ calls'[s].state = calls[s].state /\ calls'[s].kind = calls[s].kind
          /\ calls'[s].on = calls[s].on /\ calls'[s].gen = calls[s].gen
       \/ calls'[s].state # "done" /\ calls'[s].gen = 0
       \/ /\ calls'[s].kind = calls[s].kind /\ calls'[s].gen \in {calls[s].gen, gen'}
          /\ calls'[s].kind = "run" => rows'[calls'[s].on] # "new"
          /\ calls'[s].kind = "delete" => rows'[calls'[s].on] = "gone"
  \/ UNCHANGED <<rows, gen>> /\ \E s \in Slots : Answered(s)

LEMMA ServeCallMoves ==
  ASSUME TypeInv, NEW s \in Slots, ServeCall(s)
  PROVE  Forward /\ CallsMove
<1>1. /\ UNCHANGED known /\ calls[s].state = "sent"
      /\ rows \in [Rows -> {"new", "there", "dying", "gone"}] /\ gen \in Nat
      /\ calls \in [Slots -> {Free} \cup Sent]
  <2>1. 0..MaxGen \subseteq Nat
    BY ConstantsAssumption
  <2> QED
    BY <2>1 DEF ServeCall, TypeInv, ServerTyped, CallsInv
<1>2. calls[s] # Free /\ calls[s] \in Sent /\ calls[s].kind \in Kinds
  BY <1>1 DEF Free, Sent
<1>3. \A i \in Slots : calls[i] \in {Free} \cup Sent
  BY <1>1
\* The other calls, and how the served one may look.
<1>4. ASSUME NEW c, calls' = [calls EXCEPT ![s] = c],
             /\ c.kind = calls[s].kind /\ c.gen \in {calls[s].gen, gen'}
             /\ c.kind = "run" => rows'[c.on] # "new"
             /\ c.kind = "delete" => rows'[c.on] = "gone"
      PROVE  CallsMove
  <2>1. calls'[s] = c /\ \A i \in Slots : i # s => calls'[i] = calls[i]
    BY <1>1, <1>4
  <2> QED
    BY <1>1, <1>4, <2>1 DEF CallsMove
<1> DEFINE done == [calls[s] EXCEPT !.state = "done"]
<1>5. /\ Done(s) = [calls EXCEPT ![s] = done]
      /\ done.kind = calls[s].kind /\ done.on = calls[s].on /\ done.gen = calls[s].gen
      /\ done \in [kind : Kinds, on : Ons, state : {"sent", "done"}, here : BOOLEAN, gen : 0..MaxGen]
  BY <1>1, <1>2 DEF Done, Sent
<1> HIDE DEF done
<1>6. CASE calls[s].kind = "run"
  <2>1. PICK r \in Rows : /\ rows' = [rows EXCEPT ![r] = "there"] /\ gen' = gen /\ rows[r] = "new"
                          /\ calls' = [Done(s) EXCEPT ![s].on = r]
    BY <1>6 DEF ServeCall, ServeRun
  <2> DEFINE c == [done EXCEPT !.on = r]
  <2>2. calls' = [calls EXCEPT ![s] = c] /\ c.kind = done.kind /\ c.on = r /\ c.gen = done.gen
    BY <1>1, <1>5, <2>1
  <2>3. rows'[r] = "there"
    BY <1>1, <2>1
  <2>4. CallsMove
    <3> HIDE DEF c
    <3> QED
      BY <1>4, <1>5, <1>6, <2>2, <2>3
  <2> QED
    BY <1>1, <2>1, <2>4 DEF Forward
<1>7. CASE calls[s].kind = "delete"
  <2>1. rows' = [rows EXCEPT ![calls[s].on] = "gone"] /\ calls' = Done(s) /\ gen' = gen
    BY <1>7 DEF ServeCall, ServeDelete
  <2>2. calls[s].on \in Rows
    BY <1>2, <1>7 DEF Sent, Targets
  <2>3. rows'[calls[s].on] = "gone"
    BY <1>1, <2>1, <2>2
  <2>4. CallsMove
    BY <1>4, <1>5, <1>7, <2>1, <2>3
  <2>5. Forward
    BY <1>1, <2>1, <2>2 DEF Forward
  <2> QED
    BY <2>4, <2>5
<1>8. CASE calls[s].kind = "terminate"
  <2>1. /\ rows' = [rows EXCEPT ![calls[s].on] =
                      IF rows[calls[s].on] = "there" THEN "dying" ELSE rows[calls[s].on]]
        /\ calls' = Done(s) /\ gen' = gen
    BY <1>8 DEF ServeCall, ServeTerminate
  <2>2. Forward
    BY <1>1, <2>1 DEF Forward
  <2> QED
    BY <1>4, <1>5, <1>8, <2>1, <2>2
<1>9. CASE calls[s].kind = "rotate" /\ calls[s].on = "JWT_SECRET"
  <2>1. /\ gen' = gen + 1 /\ rows' = rows
        /\ calls' = [Done(s) EXCEPT ![s].gen = gen']
    BY <1>9 DEF ServeCall, ServeRotate
  <2> DEFINE c == [done EXCEPT !.gen = gen']
  <2>2. calls' = [calls EXCEPT ![s] = c] /\ c.kind = done.kind /\ c.gen = gen'
    BY <1>1, <1>5, <2>1
  <2>3. CallsMove
    <3> HIDE DEF c
    <3> QED
      BY <1>4, <1>5, <1>9, <2>2
  <2> QED
    BY <1>1, <2>1, <2>3 DEF Forward
<1>10. CASE \/ calls[s].kind \in {"maintain", "restore", "reveal"}
            \/ calls[s].kind = "rotate" /\ calls[s].on # "JWT_SECRET"
  <2>1. UNCHANGED <<rows, gen>> /\ calls' = Done(s)
    BY <1>10 DEF ServeCall, ServeMaintain, ServeReveal, ServeRotate
  <2>2. CallsMove
    BY <1>4, <1>5, <1>10, <2>1
  <2> QED
    BY <1>1, <2>1, <2>2 DEF Forward
<1> QED
  BY <1>2, <1>6, <1>7, <1>8, <1>9, <1>10 DEF Kinds

LEMMA ServerSteps ==
  ASSUME TypeInv, [Next]_vars
  PROVE  Forward /\ CallsMove /\ UNCHANGED tour
<1>t. /\ rows \in [Rows -> {"new", "there", "dying", "gone"}] /\ gen \in Nat
      /\ calls \in [Slots -> {Free} \cup Sent]
  <2>1. 0..MaxGen \subseteq Nat
    BY ConstantsAssumption
  <2> QED
    BY <2>1 DEF TypeInv, ServerTyped, CallsInv
<1>s. UNCHANGED <<rows, gen>> => Forward
  BY <1>t DEF Forward
<1>c. UNCHANGED <<calls, known>> => CallsMove
  BY DEF CallsMove
<1>l. calls' = CallsLeft /\ UNCHANGED known => CallsMove
  <2>1. calls' = CallsLeft => \A s \in Slots :
          /\ calls'[s].state = calls[s].state /\ calls'[s].kind = calls[s].kind
          /\ calls'[s].on = calls[s].on /\ calls'[s].gen = calls[s].gen
    <3> SUFFICES ASSUME calls' = CallsLeft, NEW s \in Slots
                 PROVE  /\ calls'[s].state = calls[s].state /\ calls'[s].kind = calls[s].kind
                        /\ calls'[s].on = calls[s].on /\ calls'[s].gen = calls[s].gen
      OBVIOUS
    <3>1. calls'[s] = [calls[s] EXCEPT !.here = FALSE]
      BY DEF CallsLeft
    <3>2. calls[s] \in {Free} \cup Sent
      BY <1>t
    <3> QED
      BY <3>1, <3>2 DEF Free, Sent
  <2> QED
    BY <2>1 DEF CallsMove
\* One call is sent, or given up.
<1>o. ASSUME NEW s \in Slots, NEW c, calls' = [calls EXCEPT ![s] = c], c.state # "done" /\ c.gen = 0,
             UNCHANGED known
      PROVE  CallsMove
  <2>1. calls'[s] = c /\ \A i \in Slots : i # s => calls'[i] = calls[i]
    BY <1>o, <1>t
  <2> QED
    BY <1>o, <2>1 DEF CallsMove
<1>free. Free.state # "done" /\ Free.gen = 0
  BY DEF Free
<1>n. ASSUME NEW k, NEW on, Sends(k, on) PROVE Forward /\ CallsMove /\ UNCHANGED tour
  <2> DEFINE s == CHOOSE i \in Slots : calls[i] = Free
             c == [kind |-> k, on |-> on, state |-> "sent", here |-> TRUE, gen |-> 0]
  <2>1. s \in Slots /\ calls' = [calls EXCEPT ![s] = c] /\ UNCHANGED <<rows, gen, tour, known>>
    BY <1>n DEF Sends, serverVars
  <2>2. c.state # "done" /\ c.gen = 0
    OBVIOUS
  <2> HIDE DEF s, c
  <2> QED
    BY <2>1, <2>2, <1>o, <1>s
<1>1. ASSUME NEW p, Go(p) PROVE Forward /\ CallsMove /\ UNCHANGED tour
  BY <1>1, <1>s, <1>l DEF Go, serverVars
<1>2. CASE LogsIn \/ Waits
  BY <1>2, <1>s, <1>c DEF LogsIn, Waits, serverVars
<1>3. CASE LogsOut
  BY <1>3, <1>s, <1>l DEF LogsOut, Closes, serverVars
<1>4. CASE ReloadsTab \/ LosesSession
  <2>1. calls' = [s \in Slots |-> Free] /\ UNCHANGED <<rows, gen, known, tour>>
    BY <1>4 DEF ReloadsTab, LosesSession, Reloads, serverVars
  <2>2. CallsMove
    BY <2>1, <1>free DEF CallsMove
  <2> QED
    BY <2>1, <2>2, <1>s
<1>5. CASE Serve \/ Arrive \/ Fail \/ CatalogArrives \/ Poll \/ Refresh \/ Types \/ CloseDialog \/ Hide
  BY <1>5, <1>s, <1>c DEF Serve, Arrive, Fail, CatalogArrives, Poll, Refresh, Types, CloseDialog, Hide,
                         Sets, serverVars
<1>6. ASSUME NEW k, NEW on, OpenDialog(k, on) PROVE Forward /\ CallsMove /\ UNCHANGED tour
  BY <1>6, <1>s, <1>c DEF OpenDialog, Sets, serverVars
<1>7. CASE Confirm \/ RunBackup \/ Reveal
  BY <1>7, <1>n DEF Confirm, RunBackup, Reveal
<1>8. ASSUME NEW op, Maintain(op) PROVE Forward /\ CallsMove /\ UNCHANGED tour
  BY <1>8, <1>n DEF Maintain
<1>9. ASSUME NEW r \in Rows, RowsChange(r) PROVE Forward /\ CallsMove /\ UNCHANGED tour
  BY <1>9, <1>t, <1>c DEF RowsChange, Forward
<1>10. ASSUME NEW s \in Slots, ServeCall(s) PROVE Forward /\ CallsMove /\ UNCHANGED tour
  BY <1>10, ServeCallMoves DEF ServeCall
<1>11. ASSUME NEW s \in Slots, Fails(s) PROVE Forward /\ CallsMove /\ UNCHANGED tour
  BY <1>11, <1>s, <1>o, <1>free DEF Fails, Frees, serverVars
<1>12. ASSUME NEW s \in Slots,
              ListCallDone(s) \/ RestoreDone(s) \/ RotateDone(s) \/ RevealDone(s) \/ MaintainDone(s)
       PROVE  Forward /\ CallsMove /\ UNCHANGED tour
  <2>1. Answered(s) /\ UNCHANGED <<rows, gen, tour>>
    BY <1>12 DEF ListCallDone, RestoreDone, RotateDone, RevealDone, MaintainDone, serverVars
  <2> QED
    BY <2>1, <1>s DEF CallsMove
<1>13. CASE UNCHANGED vars
  BY <1>13, <1>s, <1>c DEF vars, serverVars
<1> QED
  BY <1>1, <1>2, <1>3, <1>4, <1>5, <1>6, <1>7, <1>8, <1>9, <1>10, <1>11, <1>12, <1>13 DEF Next

LEMMA DoneStep ==
  ASSUME TypeInv, TypeInv', DoneInv, [Next]_vars
  PROVE  DoneInv'
<1>t. /\ gen \in Nat /\ gen' \in Nat /\ gen <= gen' /\ known.gen \in Nat
      /\ known \in [made : SUBSET Rows, removed : SUBSET Rows, gen : 0..MaxGen]
      /\ calls \in [Slots -> {Free} \cup Sent] /\ calls' \in [Slots -> {Free} \cup Sent]
      /\ \A s \in Slots : calls[s].gen \in Nat
  <2>1. 0..MaxGen \subseteq Nat
    BY ConstantsAssumption
  <2>2. \A s \in Slots : calls[s].gen \in Nat
    BY <2>1, SentIsTyped DEF TypeInv, CallsInv
  <2>3. gen <= gen'
    BY ServerSteps DEF Forward
  <2> QED
    BY <2>1, <2>2, <2>3 DEF TypeInv, ServerTyped, CallsInv
<1>f. /\ \A r \in Rows : (rows[r] # "new" => rows'[r] # "new") /\ (rows[r] = "gone" => rows'[r] = "gone")
      /\ UNCHANGED tour
  BY ServerSteps DEF Forward
\* What a call that was served is on.
<1>on. ASSUME NEW s \in Slots, calls[s].state = "done"
       PROVE  calls[s].kind \in {"run", "delete", "terminate"} => calls[s].on \in Rows
  <2>1. calls[s] \in Sent
    BY <1>on, <1>t DEF Free
  <2> QED
    BY <1>on, <2>1 DEF Sent, Targets
<1>k. ASSUME known' = known PROVE known'.gen <= gen' /\ (tour' = "backups" =>
                 (\A r \in known'.made : rows'[r] # "new") /\ (\A r \in known'.removed : rows'[r] = "gone"))
  BY <1>k, <1>t, <1>f DEF DoneInv, KeepsWord
<1>s. ASSUME NEW s \in Slots, calls'[s].state = calls[s].state, calls'[s].kind = calls[s].kind,
             calls'[s].on = calls[s].on, calls'[s].gen = calls[s].gen
      PROVE  KeepsWord(s)'
  <2>1. calls'[s].gen <= gen'
    BY <1>s, <1>t DEF DoneInv, KeepsWord
  <2> QED
    BY <1>s, <1>on, <1>f, <2>1 DEF DoneInv, KeepsWord
<1>1. ASSUME UNCHANGED known, NEW s \in Slots,
             \/ /\ calls'[s].state = calls[s].state /\ calls'[s].kind = calls[s].kind
                /\ calls'[s].on = calls[s].on /\ calls'[s].gen = calls[s].gen
             \/ calls'[s].state # "done" /\ calls'[s].gen = 0
             \/ /\ calls'[s].kind = calls[s].kind /\ calls'[s].gen \in {calls[s].gen, gen'}
                /\ calls'[s].kind = "run" => rows'[calls'[s].on] # "new"
                /\ calls'[s].kind = "delete" => rows'[calls'[s].on] = "gone"
      PROVE  KeepsWord(s)'
  <2>1. calls[s].gen <= gen' /\ 0 <= gen' /\ gen' <= gen'
    BY <1>t DEF DoneInv, KeepsWord
  <2> QED
    BY <1>1, <1>s, <2>1 DEF KeepsWord
<1>2. CASE UNCHANGED known /\ \A s \in Slots :
             \/ /\ calls'[s].state = calls[s].state /\ calls'[s].kind = calls[s].kind
                /\ calls'[s].on = calls[s].on /\ calls'[s].gen = calls[s].gen
             \/ calls'[s].state # "done" /\ calls'[s].gen = 0
             \/ /\ calls'[s].kind = calls[s].kind /\ calls'[s].gen \in {calls[s].gen, gen'}
                /\ calls'[s].kind = "run" => rows'[calls'[s].on] # "new"
                /\ calls'[s].kind = "delete" => rows'[calls'[s].on] = "gone"
  <2>1. \A s \in Slots : KeepsWord(s)'
    BY <1>1, <1>2
  <2> QED
    BY <1>2, <1>k, <2>1 DEF DoneInv, KeepsWord
\* The tab learns of a call: it was done.
<1>3. ASSUME NEW s \in Slots, Answered(s), UNCHANGED <<rows, gen>> PROVE DoneInv'
  <2>1. calls[s].state = "done" /\ calls' = [calls EXCEPT ![s] = Free] /\ Learns(s)
    BY <1>3 DEF Answered, Frees
  <2>2. calls'[s] = Free /\ \A i \in Slots : i # s => calls'[i] = calls[i]
    BY <1>t, <2>1
  <2>3. ASSUME NEW i \in Slots
        PROVE  KeepsWord(i)'
    <3>1. CASE i = s
      BY <1>t, <2>2, <3>1 DEF Free, KeepsWord
    <3>2. CASE i # s
      BY <1>s, <2>2, <3>2
    <3> QED
      BY <3>1, <3>2
  <2>4. calls[s].kind = "terminate" => tour # "backups"
    <3>1. calls[s].kind = "terminate" => calls[s] # Free
      BY DEF Free
    <3>2. calls[s].kind = "terminate" => "sessions" \in Pages(tour)
      BY <3>1 DEF TypeInv, CallsInv, Home
    <3> QED
      BY <3>2 DEF Pages
  <2>5. /\ calls[s].gen <= gen /\ known.gen <= gen
        /\ calls[s].kind = "run" => rows[calls[s].on] # "new"
        /\ calls[s].kind = "delete" => rows[calls[s].on] = "gone"
    BY <2>1 DEF DoneInv, KeepsWord
  <2>6. known'.gen <= gen
    BY <1>t, <2>1, <2>5 DEF Learns
  <2>7. ASSUME tour = "backups"
        PROVE  (\A r \in known'.made : rows[r] # "new") /\ (\A r \in known'.removed : rows[r] = "gone")
    BY <1>t, <2>1, <2>4, <2>5, <2>7 DEF Learns, DoneInv
  <2> QED
    BY <1>3, <1>f, <2>3, <2>6, <2>7 DEF DoneInv, KeepsWord
<1> QED
  BY <1>2, <1>3, ServerSteps DEF CallsMove

-------------------------------------------------------------------------------
(* The list catches up *)

\* An answer that is not older than what the tab was told.
Current(v) ==
  /\ tour = "keys" => v >= known.gen
  /\ tour = "backups" =>
       /\ known.made \subseteq v \cup {r \in Rows : rows[r] = "gone"}
       /\ known.removed \cap v = {}

\* What is shown as valid and is not old is current, and so is the answer that is under
\* way; and an open page that shows something else fetches, or shows an error.
CurrentInv ==
  /\ query.fetch = "served" /\ "answer" \notin old => Current(query.got)
  /\ valid /\ query.data # None /\ "data" \notin old => Current(query.data)
  /\ OnQuery /\ ~valid => Cache!Fetching(query) \/ query.error \/ query.data = None

\* What a step does to the entry: nothing new is shown; the server answers; the answer is
\* shown; or the entry is invalidated, and an answer under way that stays so is old.
EntryKept ==
  /\ UNCHANGED known
  /\ Quiet(query, query') /\ Kept(old)
  /\ valid' => valid \/ query'.data = None \/ tour = "sessions"
  /\ OnQuery' /\ ~valid' =>
       Cache!Fetching(query') \/ query'.error \/ (OnQuery /\ ~valid /\ query' = query)

EntryServed ==
  /\ UNCHANGED <<known, valid, rows, old>> /\ query'.data = query.data
  /\ query.fetch # "served"
  /\ query'.fetch = "served" /\ query'.got = Answer

EntryArrives ==
  /\ UNCHANGED <<known, rows>> /\ query.fetch = "served"
  /\ query'.fetch = "none" /\ query'.data = query.got /\ valid'
  /\ "answer" \in old => "data" \in old'

EntryStale ==
  /\ ~valid' /\ (OnQuery' => Cache!Fetching(query'))
  /\ query'.fetch = "served" => "answer" \in old'

LEMMA EntrySteps ==
  ASSUME TypeInv, [Next]_vars
  PROVE  EntryKept \/ EntryServed \/ EntryArrives \/ EntryStale
<1> DEFINE Goal == EntryKept \/ EntryServed \/ EntryArrives \/ EntryStale
<1>t. /\ query \in Cache!Entries(Answers) /\ valid \in BOOLEAN /\ place \in Places
      /\ (place = "broken" => tour = "keys")
      /\ old \subseteq {"answer", "data"} /\ ("answer" \in old => query.fetch = "served")
  BY DEF TypeInv, QueryTyped, PageInv
<1>q. Quiet(query, query) /\ (old' = old => Kept(old))
  BY DEF Quiet, Kept
<1>y. ASSUME Ages(old) PROVE Kept(old)
  BY <1>t, <1>y, AgesTyped
\* The entry stays, and no page opens.
<1>k. ASSUME UNCHANGED <<known, query, valid, old, tour>>, OnQuery' => OnQuery PROVE Goal
  BY <1>k, <1>q, <1>t DEF EntryKept
<1>a. ASSUME UNCHANGED <<tour, place>>, auth' => auth PROVE OnQuery' => OnQuery
  BY <1>a DEF OnQuery, QueryPage, Reads
<1>o. ASSUME NEW p \in Places, p = "broken" => tour = "keys", Opens(p, query, valid), UNCHANGED <<tour, known>>
      PROVE  Goal
  BY <1>o, <1>t, OpensTyped DEF EntryKept
<1>1. ASSUME NEW p \in Pages(tour) \cup {"away"}, Go(p) PROVE Goal
  <2>1. p \in Places /\ p # "broken"
    BY <1>1, ConstantsAssumption DEF Places, Pages, TypeInv
  <2> QED
    BY <1>1, <1>o, <2>1 DEF Go
<1>2. CASE LogsIn
  BY <1>2, <1>t, <1>o DEF LogsIn
<1>3. CASE LogsOut
  BY <1>3, <1>k, <1>a DEF LogsOut, Closes, Logout, cacheVars
<1>4. CASE Waits
  <2>1. auth' => auth
    BY <1>4 DEF Waits, CookieChanges, Submit, LoginFails
  <2> QED
    BY <1>4, <2>1, <1>k, <1>a DEF Waits, cacheVars
\* A reload forgets the entry.
<1>5. ASSUME NEW p \in Places, p # "broken", Reloads(p) PROVE Goal
  <2>1. UNCHANGED <<known, tour>> /\ Cache!Empty \in Cache!Entries(Answers)
        /\ Cache!Empty.data = None /\ Cache!Empty.fetch = "none"
    BY <1>5, EmptyShows DEF Reloads
  <2>2. valid' /\ Quiet(Cache!Empty, query')
    <3>1. CASE Opens(p, Cache!Empty, TRUE)
      BY <1>5, <1>t, <2>1, <3>1, OpensTyped
    <3>2. CASE query' = Cache!Empty /\ valid' = TRUE
      BY <3>2 DEF Quiet
    <3> QED
      BY <1>5, <3>1, <3>2 DEF Reloads
  <2>3. query'.data = None /\ query'.fetch # "served"
    BY <2>1, <2>2 DEF Quiet
  <2> QED
    BY <2>1, <2>2, <2>3 DEF EntryKept, Quiet, Kept
<1>6. CASE ReloadsTab \/ LosesSession
  <2>1. Path \in Places /\ Path # "broken"
    <3>1. CASE place = "broken"
      BY <3>1, <1>t DEF Path, Places, Pages
    <3>2. CASE place # "broken"
      BY <3>2, <1>t DEF Path
    <3> QED
      BY <3>1, <3>2
  <2> QED
    BY <1>6, <2>1, <1>5 DEF ReloadsTab, LosesSession
<1>7. CASE Serve
  <2>1. Answer \in Answers
    BY DEF Answer, Answers, TypeInv, ServerTyped
  <2> QED
    BY <1>7, <2>1, <1>t, ServedGets DEF Serve, EntryServed, serverVars
<1>8. CASE Arrive
  BY <1>8, <1>t, AnsweredShows DEF Arrive, EntryArrives, serverVars
<1>9. CASE Fail
  BY <1>9, <1>t, <1>y, FailingQuiet DEF Fail, EntryKept
<1>10. CASE Poll
  <2>1. Quiet(query, query') /\ query'.fetch = "sent"
    BY <1>10, <1>t, SendQuiet DEF Poll
  <2> QED
    BY <1>10, <1>y, <2>1 DEF Poll, EntryKept, Cache!Fetching
<1>11. CASE Refresh
  BY <1>11, <1>t, <1>y, InvalidatedQuiet DEF Refresh, EntryKept
<1>12. ASSUME UNCHANGED <<auth, tour, place, cacheVars, known>> PROVE Goal
  BY <1>12, <1>k, <1>a DEF cacheVars
<1>13. CASE CatalogArrives \/ Types \/ CloseDialog \/ Hide
  BY <1>13, <1>12 DEF CatalogArrives, Types, CloseDialog, Hide, Sets, shellVars
<1>14. ASSUME NEW k, NEW on, OpenDialog(k, on) PROVE Goal
  BY <1>14, <1>12 DEF OpenDialog, Sets, shellVars
<1>15. CASE Confirm \/ RunBackup \/ Reveal
  BY <1>15, <1>12 DEF Confirm, RunBackup, Reveal, Sends, shellVars
<1>16. ASSUME NEW op, Maintain(op) PROVE Goal
  BY <1>16, <1>12 DEF Maintain, Sends, shellVars
<1>17. ASSUME NEW r, RowsChange(r) PROVE Goal
  BY <1>17, <1>12 DEF RowsChange, shellVars
<1>18. ASSUME NEW s, ServeCall(s) \/ Fails(s) PROVE Goal
  BY <1>18, <1>12 DEF ServeCall, Fails, shellVars
<1>19. ASSUME NEW s \in Slots, RestoreDone(s) \/ RevealDone(s) \/ MaintainDone(s) PROVE Goal
  <2>1. UNCHANGED <<auth, tour, place, cacheVars>>
    BY <1>19 DEF RestoreDone, RevealDone, MaintainDone, shellVars
  <2>2. UNCHANGED known
    BY <1>19 DEF RestoreDone, RevealDone, MaintainDone, Answered, Learns
  <2> QED
    BY <2>1, <2>2, <1>12
\* The lists are asked for again.
<1>20. ASSUME Invalidate, OnQuery' => OnQuery PROVE Goal
  <2>1. ~valid' /\ query' = IF OnQuery THEN Cache!Invalidated(query) ELSE query
    BY <1>20 DEF Invalidate
  <2>2. query'.fetch = "served" => query.fetch = "served"
    BY <2>1, <1>t, InvalidatedQuiet DEF Quiet
  <2>3. query'.fetch = "served" => "answer" \in old'
    <3>1. Ages(TooEarly) /\ TooEarly \in SUBSET {"answer", "data"}
      BY <1>20, <1>t DEF Invalidate, TooEarly
    <3>2. Kept(TooEarly)
      BY <3>1, AgesTyped
    <3> QED
      BY <2>2, <3>2 DEF Kept, TooEarly
  <2>4. OnQuery => Cache!Fetching(query')
    BY <2>1, <1>t, InvalidatedQuiet
  <2> QED
    BY <1>20, <2>1, <2>3, <2>4 DEF EntryStale
<1>21. ASSUME NEW s, ListCallDone(s) PROVE Goal
  BY <1>21, <1>20, <1>a DEF ListCallDone, shellVars
<1>22. ASSUME NEW s, RotateDone(s) PROVE Goal
  <2>1. UNCHANGED <<auth, tour>> /\ Invalidate
    BY <1>22 DEF RotateDone, shellVars
  <2>2. place' = place \/ place' = "broken"
    BY <1>22 DEF RotateDone
  <2>3. OnQuery' => OnQuery
    BY <2>1, <2>2, ConstantsAssumption DEF OnQuery, QueryPage, Reads, TypeInv
  <2> QED
    BY <2>1, <2>3, <1>20
<1>23. CASE UNCHANGED vars
  BY <1>23, <1>12 DEF vars, shellVars
<1> QED
  BY <1>1, <1>2, <1>3, <1>4, <1>6, <1>7, <1>8, <1>9, <1>10, <1>11, <1>13, <1>14, <1>15, <1>16,
     <1>17, <1>18, <1>19, <1>21, <1>22, <1>23 DEF Next

LEMMA CurrentStep ==
  ASSUME TypeInv, DoneInv, CurrentInv, [Next]_vars
  PROVE  CurrentInv'
<1>t. /\ gen \in Nat /\ known.gen \in Nat
      /\ rows \in [Rows -> {"new", "there", "dying", "gone"}]
      /\ known \in [made : SUBSET Rows, removed : SUBSET Rows, gen : 0..MaxGen]
  <2>1. 0..MaxGen \subseteq Nat
    BY ConstantsAssumption
  <2> QED
    BY <2>1 DEF TypeInv, ServerTyped
<1>f. UNCHANGED tour /\ \A r \in Rows : rows[r] = "gone" => rows'[r] = "gone"
  BY ServerSteps DEF Forward
\* What is current stays so, as long as the tab is told nothing new.
<1>c. ASSUME NEW v, Current(v), UNCHANGED known
      PROVE  /\ query'.got = v => Current(query.got)'
             /\ query'.data = v => Current(query.data)'
  BY <1>c, <1>f DEF Current
<1>1. CASE EntryKept
  <2>1. query'.fetch = "served" /\ "answer" \notin old' => Current(query.got)'
    <3> SUFFICES ASSUME query'.fetch = "served", "answer" \notin old' PROVE Current(query.got)'
      OBVIOUS
    <3>1. PICK v : v = query.got
      OBVIOUS
    <3>2. query'.got = v /\ Current(v) /\ UNCHANGED known
      BY <1>1, <3>1 DEF EntryKept, Quiet, Kept, CurrentInv
    <3> QED
      BY <1>c, <3>2
  <2>2. valid' /\ query'.data # None /\ "data" \notin old' => Current(query.data)'
    <3> SUFFICES ASSUME valid', query'.data # None, "data" \notin old' PROVE Current(query.data)'
      OBVIOUS
    <3>1. PICK v : v = query.data
      OBVIOUS
    <3>2. query'.data = v /\ v # None /\ UNCHANGED known
      BY <1>1, <3>1 DEF EntryKept, Quiet
    <3>3. CASE tour = "sessions"
      BY <1>f, <3>3 DEF Current
    <3>4. CASE tour # "sessions"
      <4>1. Current(v)
        BY <1>1, <3>1, <3>2, <3>4 DEF EntryKept, Kept, CurrentInv
      <4> QED
        BY <1>c, <3>2, <4>1
    <3> QED
      BY <3>3, <3>4
  <2>3. OnQuery' /\ ~valid' => Cache!Fetching(query') \/ query'.error \/ query'.data = None
    BY <1>1 DEF EntryKept, CurrentInv
  <2> QED
    BY <2>1, <2>2, <2>3 DEF CurrentInv
<1>2. CASE EntryServed
  <2> DEFINE v == Answer
  <2>1. Current(v)
    BY <1>t DEF Current, Answer, DoneInv
  <2>2. query'.got = v /\ UNCHANGED known
    BY <1>2 DEF EntryServed
  <2>3. Current(query.got)'
    <3> HIDE DEF v
    <3> QED
      BY <1>c, <2>1, <2>2
  <2>4. valid' /\ query'.data # None /\ "data" \notin old' => Current(query.data)'
    <3> SUFFICES ASSUME valid', query'.data # None, "data" \notin old' PROVE Current(query.data)'
      OBVIOUS
    <3>1. PICK w : w = query.data
      OBVIOUS
    <3>2. query'.data = w /\ Current(w)
      BY <1>2, <3>1 DEF EntryServed, CurrentInv
    <3> QED
      BY <1>c, <2>2, <3>2
  <2>5. Cache!Fetching(query')
    BY <1>2 DEF EntryServed, Cache!Fetching
  <2> QED
    BY <2>3, <2>4, <2>5 DEF CurrentInv
<1>3. CASE EntryArrives
  <2>1. ASSUME "data" \notin old' PROVE Current(query.data)'
    <3>1. PICK v : v = query.got
      OBVIOUS
    <3>2. Current(v) /\ query'.data = v /\ UNCHANGED known
      BY <1>3, <2>1, <3>1 DEF EntryArrives, CurrentInv
    <3> QED
      BY <1>c, <3>2
  <2>2. query'.fetch # "served" /\ valid'
    BY <1>3 DEF EntryArrives
  <2> QED
    BY <2>1, <2>2 DEF CurrentInv
<1>4. CASE EntryStale
  BY <1>4 DEF EntryStale, CurrentInv
<1> QED
  BY <1>1, <1>2, <1>3, <1>4, EntrySteps

LEMMA CurrentInvariant == Spec => [](DoneInv /\ CurrentInv)
<1>1. Init => DoneInv /\ CurrentInv
  <2> SUFFICES ASSUME Init PROVE DoneInv /\ CurrentInv
    OBVIOUS
  <2>1. DoneInv
    BY DEF Init, DoneInv, KeepsWord, Free
  <2>2. query.fetch = "none" /\ query.data = None
    BY EmptyShows DEF Init
  <2> QED
    BY <2>1, <2>2 DEF CurrentInv
<1>2. TypeInv /\ TypeInv' /\ DoneInv /\ [Next]_vars => DoneInv'
  BY DoneStep
<1>3. TypeInv /\ DoneInv /\ CurrentInv /\ [Next]_vars => CurrentInv'
  BY CurrentStep
<1> QED
  BY <1>1, <1>2, <1>3, TypeInvariant, PTL DEF Spec

\* A list of backups at rest agrees with what the user was told of backups made and
\* deleted, whatever pages were open when the answers came: unless it was read before the
\* answer and was under way, with nothing to show yet or its page left, when that came.
THEOREM BackupsCurrent == Spec => []ListCatchesUp
<1>1. CurrentInv => ListCatchesUp
  BY DEF CurrentInv, Current, ListCatchesUp, Settled
<1> QED
  BY <1>1, CurrentInvariant, PTL

\* The keys of the dashboard at rest are not older than a rotation that the user was told
\* of on another page, with the same exception.
THEOREM KeysAreCurrent == Spec => []KeysCurrent
<1>1. CurrentInv => KeysCurrent
  BY DEF CurrentInv, Current, KeysCurrent, Settled
<1> QED
  BY <1>1, CurrentInvariant, PTL
===============================================================================

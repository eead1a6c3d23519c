------------------------------ MODULE AdminPages ------------------------------
(***************************************************************************)
(* The pages of the admin frontend that act on the deployment - backups,   *)
(* sessions, dashboard with its keys, secrets, DB ops - in one tab, under  *)
(* the shell of AdminShell, against the state they act on.                 *)
(*                                                                         *)
(* The pages share the shell and nothing else, but for the keys, which the *)
(* secrets page rotates and the dashboard shows.  A behaviour is a tour of *)
(* the pages that share something: other pages are "away".                 *)
(*                                                                         *)
(* A page shows the answer to a query, which the cache keeps while the     *)
(* user is away, and sends calls, whose answers come whenever they come:   *)
(* the page may have been left, reloaded or opened again since.            *)
(*                                                                         *)
(* The keys are numbered by the rotations of JWT_SECRET.                   *)
(***************************************************************************)
EXTENDS AdminShell, Naturals

CONSTANTS
  Rows,            \* backups, or database sessions
  Secrets,         \* those of the catalog that are rotated
  MaxGen,          \* bound: rotations of JWT_SECRET
  Slots,           \* calls that may be under way together
  None,            \* no data, no row
  Tours            \* the tours that are explored

ASSUME ConstantsAssumption ==
  /\ MaxGen \in Nat
  /\ Secrets \subseteq
       {"ADMIN_TOKEN", "COOKIE_SIGNING_KEY", "PG_META_CRYPTO_KEY", "JWT_SECRET"}
  /\ None \notin Rows \cup Nat
  /\ Tours \subseteq {"backups", "sessions", "keys", "dbops"}

Cache == INSTANCE QueryCache

VARIABLES
  tour, place,   \* the tour, and the page of it that is open
  configured,    \* the admin process has the S3 settings
  rows,          \* each backup in the bucket, each session of the database
  gen,           \* the keys in .env
  query,         \* the cache entry of the list, or of the dashboard's keys
  valid,         \* it was not invalidated since its last answer
  old,           \* history: what was read before a call was done and is kept all the same
  catalog,       \* the secrets page's list of rotatable secrets
  dialog, typed, \* the open dialog; its text field holds what it asks for
  shown,         \* the service key revealed, the result of a rotation or DB operation
  calls,         \* the calls under way
  known          \* history: what acknowledged calls of this tab have done

serverVars == <<configured, rows, gen>>
cacheVars == <<query, valid, old>>
pageVars == <<catalog, dialog, typed, shown>>
vars == <<shellVars, tour, place, serverVars, cacheVars, pageVars, calls, known>>

Pages(t) == IF t = "keys" THEN {"dashboard", "secrets"} ELSE {t}
Kinds == {"run", "restore", "delete", "terminate", "rotate", "reveal", "maintain"}

Operations ==
  [op : {"vacuum", "analyze", "reindex"}, target : {"", "schema", "schema.table"},
   full : BOOLEAN]

HasRows == tour \in {"backups", "sessions"}

\* The results a page shows.
Results(p) ==
  {"none"} \cup CASE p = "dashboard" -> {"key"}
                  [] p = "secrets"   -> {"rotated"}
                  [] p = "dbops"     -> {"ok", "failed"}
                  [] OTHER           -> {}

NoDialog == [kind |-> "none", on |-> None]
Free == [kind |-> "none", on |-> None, state |-> "none", here |-> FALSE, gen |-> 0]
Targets(k) ==
  CASE k \in {"restore", "delete", "terminate"} -> Rows
    [] k = "run" -> Rows \cup {None}
    [] k = "rotate" -> Secrets
    [] k = "maintain" -> Operations
    [] OTHER -> {None}

TypeOK ==
  /\ ShellTypeOK
  /\ tour \in Tours /\ place \in Pages(tour) \cup {"away", "broken"}
  /\ configured \in BOOLEAN
  /\ rows \in [Rows -> {"new", "there", "dying", "gone"}]
  /\ gen \in 0..MaxGen
  /\ query \in Cache!Entries(IF tour = "keys" THEN 0..MaxGen ELSE SUBSET Rows)
  /\ valid \in BOOLEAN /\ old \subseteq {"answer", "data"}
  /\ catalog \in {"none", "loading", "loaded", "failed"}
  /\ typed \in BOOLEAN
  /\ dialog = NoDialog \/ dialog.on \in Targets(dialog.kind)
  /\ shown \in Results(place)
  /\ \A s \in Slots :
       /\ calls[s] = Free \/ calls[s].on \in Targets(calls[s].kind)
       /\ calls[s].kind \in Kinds \cup {"none"}
       /\ calls[s].state \in {"none", "sent", "done"}
       /\ calls[s].here \in BOOLEAN /\ calls[s].gen \in 0..MaxGen
  /\ known \in [made : SUBSET Rows, removed : SUBSET Rows, gen : 0..MaxGen]

Init ==
  /\ ShellInit
  /\ tour \in Tours /\ place = "away"
  /\ configured \in BOOLEAN
  /\ configured \/ tour = "backups"
  /\ rows \in [Rows -> IF configured /\ HasRows THEN {"new", "there"} ELSE {"new"}]
  /\ gen = 0
  /\ query = Cache!Empty /\ valid = TRUE /\ old = {}
  /\ catalog = "none" /\ dialog = NoDialog /\ typed = FALSE /\ shown = "none"
  /\ calls = [s \in Slots |-> Free]
  /\ known = [made |-> {}, removed |-> {}, gen |-> 0]

----------------------------------------------------------------------------
(* Opening and leaving pages *)

QueryPage == IF tour = "keys" THEN "dashboard" ELSE tour
Reads == tour # "dbops"
OnQuery == auth /\ place = QueryPage /\ Reads
Listed == IF ~HasRows \/ query.data = None THEN {} ELSE query.data

\* An answer is old until another request is sent, and makes what is shown old, until
\* another answer.
Ages(o) ==
  old' = {x \in o : IF x = "answer" THEN query'.fetch = "served" ELSE query'.data # None}

\* The page opens, with the cache q: its query fetches what was invalidated.
Opens(p, q, v) ==
  /\ place' = p
  /\ catalog' = IF p = "secrets" THEN "loading" ELSE "none"
  /\ dialog' = NoDialog /\ typed' = FALSE /\ shown' = "none"
  /\ IF p # QueryPage \/ ~Reads THEN query' = q
     ELSE IF v THEN query' \in Cache!OnMount(q)
     ELSE query' = Cache!Fetched(q)
  /\ valid' = v /\ Ages(old)

\* The calls under way are no longer those of the page that is open.
CallsLeft == [s \in Slots |-> [calls[s] EXCEPT !.here = FALSE]]

\* The pages are gone, the shell shows the login; the cache and the calls go on.
Closes ==
  /\ catalog' = "none" /\ dialog' = NoDialog /\ typed' = FALSE /\ shown' = "none"
  /\ calls' = CallsLeft
  /\ UNCHANGED <<place, cacheVars>>

\* The JavaScript starts again, on the same page.
Reloads(p) ==
  /\ IF auth' THEN Opens(p, Cache!Empty, TRUE)
     ELSE /\ place' = p /\ query' = Cache!Empty /\ valid' = TRUE /\ old' = {}
          /\ catalog' = "none" /\ dialog' = NoDialog /\ typed' = FALSE
          /\ shown' = "none"
  /\ calls' = [s \in Slots |-> Free]
  /\ UNCHANGED <<tour, serverVars, known>>

Path == IF place = "broken" THEN "secrets" ELSE place

Go(p) ==
  /\ auth /\ place # "broken" /\ p # place
  /\ Opens(p, query, valid)
  /\ calls' = CallsLeft
  /\ UNCHANGED <<shellVars, tour, serverVars, known>>

\* The user logs in, out, reloads; the cookie changes.
LogsIn ==
  /\ LoginSucceeds
  /\ Opens(place, query, valid)
  /\ UNCHANGED <<tour, serverVars, calls, known>>

Waits ==
  /\ CookieChanges \/ Submit \/ LoginFails
  /\ UNCHANGED <<tour, place, serverVars, cacheVars, pageVars, calls, known>>

LogsOut ==
  /\ Logout /\ place # "broken"
  /\ Closes
  /\ UNCHANGED <<tour, serverVars, known>>

ReloadsTab == Reload /\ Reloads(Path)

Asking == query.fetch = "sent" \/ catalog = "loading"
          \/ \E s \in Slots : calls[s].state = "sent"

LosesSession ==
  /\ Asking
  /\ Unauthorized /\ Reloads(Path)

----------------------------------------------------------------------------
(* The queries *)

\* Names and sizes of the objects, rows of pg_stat_activity, keys of .env.
Answer ==
  IF tour = "keys" THEN gen ELSE {r \in Rows : rows[r] \in {"there", "dying"}}

Serve ==
  /\ query.fetch = "sent" /\ cookie
  /\ configured
  /\ query' = Cache!Served(query, Answer)
  /\ UNCHANGED <<shellVars, tour, place, serverVars, valid, old, pageVars, calls, known>>

Arrive ==
  /\ query.fetch = "served"
  /\ query' = Cache!Answered(query) /\ valid' = TRUE
  /\ old' = IF "answer" \in old THEN {"data"} ELSE {}
  /\ UNCHANGED <<shellVars, tour, place, serverVars, pageVars, calls, known>>

\* An error status, "backup not configured" among them, or no answer.
Fail ==
  /\ query.fetch = "sent"
  /\ query' = Cache!Failing(query) /\ Ages(old)
  /\ UNCHANGED <<shellVars, tour, place, serverVars, valid, pageVars, calls, known>>

CatalogArrives ==
  /\ catalog = "loading" /\ cookie
  /\ catalog' \in {"loaded", "failed"}
  /\ UNCHANGED <<shellVars, tour, place, serverVars, cacheVars, dialog, typed, shown,
                 calls, known>>

\* Faulty: the list is fetched when the page opens and not again.
PollsNever == FALSE
Polls == place = "sessions" /\ auth

\* refetchInterval, while the tab is visible.
Poll ==
  /\ Polls /\ ~Cache!Fetching(query)
  /\ query' = Cache!Send(query) /\ Ages(old)
  /\ UNCHANGED <<shellVars, tour, place, serverVars, valid, pageVars, calls, known>>

\* The refresh buttons are off during a fetch; the dashboard has none.
Refresh ==
  /\ OnQuery /\ tour # "keys" /\ ~Cache!Fetching(query)
  /\ query' = Cache!Invalidated(query) /\ Ages(old)
  /\ valid' = (valid /\ tour = "sessions")
  /\ UNCHANGED <<shellVars, tour, place, serverVars, pageVars, calls, known>>

\* The answer under way is older than what the entry is invalidated for.
TooEarly == IF query.fetch = "served" THEN old \cup {"answer"} ELSE old

\* Faulty: what the page shows is not asked for again.
KeepsList == UNCHANGED cacheVars

\* Faulty: an entry no page uses is left as it is.
OnlyIfOpen ==
  IF ~OnQuery THEN KeepsList
  ELSE query' = Cache!Invalidated(query) /\ valid' = FALSE /\ Ages(TooEarly)

\* invalidateQueries: an entry no page uses is fetched when one does.
Invalidate ==
  /\ valid' = FALSE
  /\ query' = IF OnQuery THEN Cache!Invalidated(query) ELSE query
  /\ Ages(TooEarly)

----------------------------------------------------------------------------
(* What the user does on a page *)

Pending(k) == \E s \in Slots : calls[s].kind = k /\ calls[s].here
ConfigError == query.error /\ ~configured

Sends(k, on) ==
  /\ auth /\ \E s \in Slots : calls[s] = Free
  /\ calls' = [calls EXCEPT ![CHOOSE s \in Slots : calls[s] = Free] =
       [kind |-> k, on |-> on, state |-> "sent", here |-> TRUE, gen |-> 0]]
  /\ UNCHANGED <<shellVars, tour, place, serverVars, cacheVars, known>>

RunBackup ==
  /\ place = "backups" /\ dialog = NoDialog
  /\ ~Pending("run") /\ ~ConfigError
  /\ Sends("run", None) /\ UNCHANGED pageVars

Sets(d, t) ==
  /\ dialog' = d /\ typed' = t
  /\ UNCHANGED <<shellVars, tour, place, serverVars, cacheVars, catalog, shown, calls, known>>

\* The buttons of a row, or of a secret's card.
OpenDialog(k, on) ==
  /\ auth /\ dialog = NoDialog
  /\ \/ place = "backups" /\ k \in {"restore", "delete"} /\ on \in Listed
     \/ place = "sessions" /\ k = "terminate" /\ on \in Listed
     \/ place = "secrets" /\ k = "rotate" /\ catalog = "loaded"
  /\ Sets([kind |-> k, on |-> on], FALSE)

Types == dialog.kind \in {"restore", "rotate"} /\ ~typed /\ Sets(dialog, TRUE)

\* Cancel is off while a restore or a rotation is pending, Escape is not.
CloseDialog == dialog # NoDialog /\ Sets(NoDialog, FALSE)

\* The red button: restore and rotate want the name typed, and not delete but the
\* others are off while one of their kind is pending.
Confirm ==
  /\ dialog.kind # "none"
  /\ dialog.kind \in {"restore", "rotate"} => typed
  /\ dialog.kind = "delete" \/ ~Pending(dialog.kind)
  /\ Sends(dialog.kind, dialog.on) /\ UNCHANGED pageVars

\* The form takes "full" along with a vacuum only.
Maintain(op) ==
  /\ place = "dbops" /\ ~Pending("maintain")
  /\ Sends("maintain", [op EXCEPT !.full = @ /\ op.op = "vacuum"])
  /\ shown' = "none"
  /\ UNCHANGED <<catalog, dialog, typed>>

Reveal ==
  /\ place = "dashboard" /\ query.data # None /\ shown = "none"
  /\ Sends("reveal", None) /\ UNCHANGED pageVars

Hide ==
  /\ shown = "key"
  /\ shown' = "none"
  /\ UNCHANGED <<shellVars, tour, place, serverVars, cacheVars, catalog, dialog, typed,
                 calls, known>>

----------------------------------------------------------------------------
(* The calls at the server *)

Done(s) == [calls EXCEPT ![s].state = "done"]

\* A dump that leaves its object may still be reported as failed (Fails).
ServeRun(s) ==
  \E r \in Rows :
    /\ configured /\ rows[r] = "new"
    /\ rows' = [rows EXCEPT ![r] = "there"]
    /\ calls' = [Done(s) EXCEPT ![s].on = r]
    /\ UNCHANGED gen

\* An object that is not there is deleted with success.
ServeDelete(s) ==
  /\ configured
  /\ rows' = [rows EXCEPT ![calls[s].on] = "gone"]
  /\ calls' = Done(s) /\ UNCHANGED gen

\* The backend is told to stop; that there is none any more is no error.
ServeTerminate(s) ==
  /\ rows' = [rows EXCEPT ![calls[s].on] = IF @ = "there" THEN "dying" ELSE @]
  /\ calls' = Done(s) /\ UNCHANGED gen

\* Only the rotation of JWT_SECRET makes new keys.
ServeRotate(s) ==
  /\ IF calls[s].on = "JWT_SECRET"
     THEN /\ gen < MaxGen /\ gen' = gen + 1
          /\ calls' = [Done(s) EXCEPT ![s].gen = gen']
     ELSE calls' = Done(s) /\ UNCHANGED gen
  /\ UNCHANGED rows

ServeReveal(s) ==
  calls' = Done(s) /\ UNCHANGED <<rows, gen>>

\* REINDEX wants a table.
ServeMaintain(s) ==
  /\ ~(calls[s].on.op = "reindex" /\ calls[s].on.target = "schema")
  /\ calls' = Done(s) /\ UNCHANGED <<rows, gen>>

ServeCall(s) ==
  /\ calls[s].state = "sent" /\ cookie
  /\ CASE calls[s].kind = "run"       -> ServeRun(s)
       [] calls[s].kind = "delete"    -> ServeDelete(s)
       [] calls[s].kind = "terminate" -> ServeTerminate(s)
       [] calls[s].kind = "rotate"    -> ServeRotate(s)
       [] calls[s].kind = "reveal"    -> ServeReveal(s)
       [] calls[s].kind = "maintain"  -> ServeMaintain(s)
       [] calls[s].kind = "restore"   -> configured /\ calls' = Done(s)
                                         /\ UNCHANGED <<rows, gen>>
  /\ UNCHANGED <<shellVars, tour, place, configured, cacheVars, pageVars, known>>

\* Other browsers, the scheduler, the database's clients; a backend that was told
\* to stop stops.
RowsChange(r) ==
  /\ HasRows /\ configured
  /\ rows' = [rows EXCEPT ![r] = IF @ = "new" THEN "there" ELSE "gone"]
  /\ rows[r] # "gone"
  /\ UNCHANGED <<shellVars, tour, place, configured, gen, cacheVars, pageVars, calls, known>>

BackendExits(r) == rows[r] = "dying" /\ RowsChange(r)

----------------------------------------------------------------------------
(* The answers to calls *)

Frees(s) == calls' = [calls EXCEPT ![s] = Free]

\* onSuccess closes whatever dialog of the kind is open.
ClosesDialog(s) ==
  IF calls[s].here /\ dialog.kind = calls[s].kind THEN dialog' = NoDialog /\ typed' = FALSE
  ELSE UNCHANGED <<dialog, typed>>

\* Faulty: the answer lands on the page that is open by then.
LandsAnywhere(s) == TRUE
Lands(s) == calls[s].here

Learns(s) ==
  known' = CASE calls[s].kind = "run" -> [known EXCEPT !.made = @ \cup {calls[s].on}]
             [] calls[s].kind \in {"delete", "terminate"} ->
                  [known EXCEPT !.removed = @ \cup {calls[s].on}]
             [] calls[s].kind = "rotate" /\ calls[s].gen > known.gen ->
                  [known EXCEPT !.gen = calls[s].gen]
             [] OTHER -> known

Answered(s) == calls[s].state = "done" /\ Frees(s) /\ Learns(s)

\* Run, delete, terminate: the list is asked for again, wherever the user is.
ListCallDone(s) ==
  /\ calls[s].kind \in {"run", "delete", "terminate"}
  /\ Answered(s)
  /\ Invalidate /\ ClosesDialog(s)
  /\ UNCHANGED <<shellVars, tour, place, serverVars, catalog, shown>>

RestoreDone(s) ==
  /\ calls[s].kind = "restore" /\ Answered(s)
  /\ ClosesDialog(s)
  /\ UNCHANGED <<shellVars, tour, place, serverVars, cacheVars, catalog, shown>>

\* The services to restart, as the answer lists them: null for ADMIN_TOKEN, of
\* which the banner takes the length.  There is no error boundary: the app is gone.
Restart(key) == IF key = "ADMIN_TOKEN" THEN None ELSE "services"

RotateDone(s) ==
  /\ calls[s].kind = "rotate" /\ Answered(s)
  /\ Invalidate
  /\ IF ~Lands(s) THEN UNCHANGED <<place, pageVars>>
     ELSE IF Restart(calls[s].on) = None
     THEN /\ place' = "broken"
          /\ catalog' = "none" /\ dialog' = NoDialog /\ typed' = FALSE /\ shown' = "none"
     ELSE /\ shown' = "rotated"
          /\ ClosesDialog(s) /\ UNCHANGED <<place, catalog>>
  /\ UNCHANGED <<shellVars, tour, serverVars>>

RevealDone(s) ==
  /\ calls[s].kind = "reveal" /\ Answered(s)
  /\ IF Lands(s) THEN shown' = "key" ELSE UNCHANGED shown
  /\ UNCHANGED <<shellVars, tour, place, serverVars, cacheVars, catalog, dialog, typed>>

MaintainDone(s) ==
  /\ calls[s].kind = "maintain" /\ Answered(s)
  /\ IF Lands(s) THEN shown' = "ok" ELSE UNCHANGED shown
  /\ UNCHANGED <<shellVars, tour, place, serverVars, cacheVars, catalog, dialog, typed>>

\* An error status, or the request or its answer is lost: a toast; the DB ops page
\* shows the error.
Fails(s) ==
  /\ calls[s].state \in {"sent", "done"} /\ Frees(s)
  /\ shown' = IF calls[s].kind = "maintain" /\ Lands(s)
              THEN "failed" ELSE shown
  /\ UNCHANGED <<shellVars, tour, place, serverVars, cacheVars, catalog, dialog, typed,
                 known>>

----------------------------------------------------------------------------
Next ==
  \/ \E p \in Pages(tour) \cup {"away"} : Go(p)
  \/ LogsIn \/ LogsOut \/ Waits \/ ReloadsTab \/ LosesSession
  \/ Serve \/ Arrive \/ Fail \/ CatalogArrives \/ Poll \/ Refresh
  \/ \E k \in {"restore", "delete", "terminate", "rotate"} :
       \E on \in Targets(k) : OpenDialog(k, on)
  \/ Types \/ CloseDialog \/ Confirm \/ RunBackup \/ Reveal \/ Hide
  \/ \E op \in Operations : Maintain(op)
  \/ \E r \in Rows : RowsChange(r)
  \/ \E s \in Slots :
       \/ ServeCall(s) \/ Fails(s)
       \/ ListCallDone(s) \/ RestoreDone(s) \/ RotateDone(s) \/ RevealDone(s)
       \/ MaintainDone(s)

Spec == Init /\ [][Next]_vars

\* The tab is visible, the admin process answers the sessions page now and then, and
\* backends that were told to stop do.  Nothing is assumed of the other tours, where
\* nothing has to happen.
OfSessions == tour = "sessions"

Fairness ==
  /\ WF_vars(Poll) /\ SF_vars(OfSessions /\ Serve) /\ SF_vars(OfSessions /\ Arrive)
  /\ SF_vars(OfSessions /\ LosesSession)
  /\ \A r \in Rows : WF_vars(BackendExits(r))

FairSpec == Spec /\ Fairness

----------------------------------------------------------------------------
(* Properties *)

Settled ==
  OnQuery /\ ~Cache!Fetching(query) /\ query.data # None /\ ~query.error /\ "data" \notin old

\* A list at rest agrees with what the user was told: the backup whose "created"
\* was announced is there, unless somebody else deleted it, and the one whose
\* "deleted" was announced is not, whatever pages were open when the answers came.
\* What the invalidation does not reach is a list that was read before and is still
\* under way, while there is none yet or its page is not open.
ListCatchesUp ==
  (Settled /\ tour = "backups") =>
    /\ known.made \subseteq query.data \cup {r \in Rows : rows[r] = "gone"}
    /\ known.removed \cap query.data = {}

\* The keys of the dashboard at rest are not older than a rotation the user was told
\* of, though the rotation was asked for, and answered, on another page; with the
\* same exception.
KeysCurrent == (Settled /\ tour = "keys") => query.data >= known.gen

\* A session that was terminated leaves the list, though its backend was still
\* there when the list was asked for again.
SessionGone ==
  \A r \in Rows :
    (tour = "sessions" /\ r \in known.removed /\ OnQuery)
      ~> (~OnQuery \/ r \notin Listed)

\* A tab on the sessions page whose cookie does not verify gets to the login form,
\* and does not reload for ever.
EndsAtLogin ==
  (auth /\ ~cookie /\ place = "sessions") ~> (~auth \/ cookie \/ place # "sessions")
===============================================================================

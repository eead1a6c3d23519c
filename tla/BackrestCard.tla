---------------------------- MODULE BackrestCard ----------------------------
(***************************************************************************)
(* The pgBackRest card of the admin frontend (components/                  *)
(* pgbackrest-card.tsx) against the server of PgBackRest, of which only    *)
(* what the card can ask remains: the two flags with their last run, and   *)
(* the list of backups.                                                    *)
(*                                                                         *)
(* The card knows the server by three queries, two of them polled while    *)
(* one of the jobs runs, and by the answers to what it posts.  After an    *)
(* accepted post it writes "running" into the cache itself.  When neither  *)
(* job runs any more it announces the result of those it had seen running  *)
(* and asks for the list again.                                            *)
(*                                                                         *)
(* Runs of both jobs are numbered together.  The list of backups is the    *)
(* number of its newest entry, 0 if that is older than the model.          *)
(***************************************************************************)
EXTENDS Naturals

CONSTANTS
  MaxRuns,         \* bound: runs that anybody starts
  Posts,           \* posts of the card that may be under way together
  None,            \* no data
  NoStanza         \* the list before the stanza is created

\* What the status queries answer.
Status == [running : BOOLEAN, last : 0..MaxRuns]

ASSUME ConstantsAssumption ==
  /\ MaxRuns \in Nat
  /\ None \notin Nat \cup Status /\ NoStanza \notin Nat \cup {None}

Cache == INSTANCE QueryCache

VARIABLES
  job,      \* at the server: each job's flag and last run
  runs,     \* runs started so far
  stanza,   \* the stanza exists
  newest,   \* the newest backup in the repository
  query,    \* the three cache entries
  mounted,  \* the card is on the page
  was,      \* wasBackupRunning, wasRestoreRunning: the jobs for which it holds
  dialog,   \* the restore dialog is open
  post,     \* the posts under way: kind, state, and the run that was accepted
  mine,     \* those this mount of the card sent, which its buttons know of
  toasts,   \* how often the end of each run was announced
  again,    \* announced runs whose end an overtaken answer makes news again
  joined    \* the list was read before the announcement that has to renew it

\* History, read by no action: the answers that arrive out of order.
orderVars == <<again, joined>>
serverVars == <<job, runs, stanza, newest>>
cardVars == <<mounted, was, dialog, toasts>>
vars == <<serverVars, query, cardVars, post, mine, orderVars>>

Jobs == {"backup", "restore"}
Keys == Jobs \cup {"info"}
Runs == 1..MaxRuns
Lists == 0..MaxRuns \cup {NoStanza}
NoPost == [kind |-> "none", state |-> "none", run |-> 0]

TypeOK ==
  /\ job \in [Jobs -> Status]
  /\ runs \in 0..MaxRuns /\ newest \in 0..MaxRuns
  /\ stanza \in BOOLEAN
  /\ \A k \in Keys : query[k] \in Cache!Entries(IF k = "info" THEN Lists ELSE Status)
  /\ mounted \in BOOLEAN /\ was \subseteq Jobs
  /\ dialog \in BOOLEAN
  /\ post \in [Posts -> [kind : {"none", "stanza"} \cup Jobs,
                         state : {"none", "sent", "accepted"}, run : 0..MaxRuns]]
  /\ mine \subseteq Posts
  /\ toasts \in [Jobs \X Runs -> 0..2]
  /\ again \subseteq Jobs \X Runs /\ joined \in BOOLEAN

\* The admin process has just booted.
Init ==
  /\ job = [j \in Jobs |-> [running |-> FALSE, last |-> 0]]
  /\ runs = 0 /\ newest = 0
  /\ stanza \in BOOLEAN
  /\ query = [k \in Keys |-> Cache!Empty]
  /\ mounted = FALSE /\ was = {} /\ dialog = FALSE
  /\ post = [p \in Posts |-> NoPost] /\ mine = {}
  /\ toasts = [t \in Jobs \X Runs |-> 0]
  /\ again = {} /\ joined = FALSE

----------------------------------------------------------------------------
(* The server *)

CanStart == \A j \in Jobs : ~job[j].running

JobStarts(j) ==
  /\ CanStart /\ runs < MaxRuns
  /\ runs' = runs + 1
  /\ job' = [job EXCEPT ![j] = [running |-> TRUE, last |-> runs']]
  /\ UNCHANGED <<stanza, newest>>

\* Another browser, whose card offers it only once there is a stanza.
OtherStarts(j) ==
  /\ stanza /\ JobStarts(j)
  /\ UNCHANGED <<query, cardVars, post, mine, orderVars>>

\* A backup enters the list if it succeeds.
JobEnds(j) ==
  /\ job[j].running
  /\ job' = [job EXCEPT ![j].running = FALSE]
  /\ UNCHANGED newest \/ (j = "backup" /\ newest' = job[j].last)
  /\ UNCHANGED <<runs, stanza, query, cardVars, post, mine, orderVars>>

\* The admin process dies and boots: flags and last runs are package variables.
Crash ==
  /\ job' = [j \in Jobs |-> [running |-> FALSE, last |-> 0]]
  /\ UNCHANGED <<runs, stanza, newest, query, cardVars, post, mine, orderVars>>

\* Both status handlers.
Serve(k) ==
  /\ query[k].fetch = "sent"
  /\ query' = [query EXCEPT ![k] = Cache!Served(@, job[k])]
  /\ UNCHANGED <<serverVars, cardVars, post, mine, orderVars>>

\* The info handler, which runs pgbackrest in the db container (Fail, if that
\* is down).
ServeInfo ==
  /\ query["info"].fetch = "sent"
  /\ LET list == IF stanza THEN newest ELSE NoStanza IN
       query' = [query EXCEPT !["info"] = Cache!Served(@, list)]
  /\ UNCHANGED <<serverVars, cardVars, post, mine, orderVars>>

\* The request, or its answer, is lost, or the list cannot be read.  Only the
\* error of the list is shown.
Fail(k) ==
  /\ query[k].fetch = "sent"
  /\ query' = [query EXCEPT ![k] = [Cache!Failing(@) EXCEPT !.error = k = "info"]]
  /\ UNCHANGED <<serverVars, cardVars, post, mine, orderVars>>

Accept(p, run) == post' = [post EXCEPT ![p].state = "accepted", ![p].run = run]

\* 202; refusals are in PostFails.
ServeStart(p) ==
  /\ post[p].state = "sent" /\ post[p].kind \in Jobs
  /\ JobStarts(post[p].kind) /\ Accept(p, runs')
  /\ UNCHANGED <<query, cardVars, mine, orderVars>>

ServeStanza(p) ==
  /\ post[p].state = "sent" /\ post[p].kind = "stanza"
  /\ stanza' = TRUE /\ Accept(p, 0)
  /\ UNCHANGED <<job, runs, newest, query, cardVars, mine, orderVars>>

----------------------------------------------------------------------------
(* What the card shows *)

Shown(c) == {j \in Jobs : c[j].data # None /\ c[j].data.running}
ShownRunning == Shown(query)
Listed == query["info"].data

\* The panel with the buttons and the list, and the one with Initialize.
Panel == mounted /\ ~query["info"].error /\ Listed \in Nat
NotInitialized == mounted /\ ~query["info"].error /\ Listed = NoStanza

\* canBackup, canRestore.
CanAct == Panel /\ ShownRunning = {}

Pending(kind) == \E p \in mine : post[p].kind = kind

InvalidateInfo(c) == [c EXCEPT !["info"] = Cache!Invalidated(@)]

\* Faulty: the refs are not reset.
KeepsSeen == was
SeenAfterIdle == {}

\* Faulty: the list is not asked for again.
KeepsList(c) == c
AfterIdle(c) == InvalidateInfo(c)

\* An invalidation finds the first list read, but not yet here.
FirstListRead(c) == c["info"].data = None /\ c["info"].fetch = "served"

\* The effect after every rendering: c is the cache that is shown.
Rendered(c) ==
  LET over == {j \in was : c[j].data.last # 0} IN
  IF ~mounted
    THEN query' = c /\ UNCHANGED <<was, toasts, joined>>
  ELSE IF Shown(c) # {}
    THEN query' = c /\ was' = was \cup Shown(c) /\ UNCHANGED <<toasts, joined>>
    ELSE /\ query' = IF was = {} THEN c ELSE AfterIdle(c)
         /\ joined' = IF was = {} THEN joined ELSE FirstListRead(c)
         /\ was' = SeenAfterIdle
         /\ toasts' = [t \in Jobs \X Runs |->
                         IF t[1] \in over /\ c[t[1]].data.last = t[2] /\ toasts[t] < 2
                           THEN toasts[t] + 1 ELSE toasts[t]]

----------------------------------------------------------------------------
(* Queries *)

\* A list that is asked for anew is read after every announcement.
RenewsList == joined' = (joined /\ query'["info"].fetch # "sent")

Mount ==
  /\ ~mounted /\ mounted' = TRUE
  /\ \E i \in Cache!OnMount(query["info"]), b \in Cache!OnMount(query["backup"]),
        r \in Cache!OnMount(query["restore"]) :
       query' = [k \in Keys |-> IF k = "info" THEN i ELSE IF k = "backup" THEN b ELSE r]
  /\ was' = Shown(query')
  /\ RenewsList
  /\ UNCHANGED <<serverVars, dialog, toasts, post, mine, again>>

\* Another page: what the card itself remembers is gone, its posts go on.
Leave ==
  /\ mounted /\ mounted' = FALSE
  /\ was' = {} /\ dialog' = FALSE /\ mine' = {}
  /\ UNCHANGED <<serverVars, query, toasts, post, orderVars>>

\* Faulty: only backups are followed.
PollsBackupsOnly == "backup" \in ShownRunning
\* refetchInterval, of either status query.
Polls == ShownRunning # {}

Poll(k) ==
  /\ mounted /\ Polls
  /\ query' = [query EXCEPT ![k] = Cache!Fetched(@)]
  /\ UNCHANGED <<serverVars, cardVars, post, mine, orderVars>>

\* The runs of ns whose end has been announced.
Announced(j, ns) == {t \in {j} \X (Runs \cap ns) : toasts[t] > 0}

\* A status that was read before the start that the card shows already.
Overtaken(q) == q.data # None /\ q.got.last < q.data.last

Arrive(k) ==
  /\ query[k].fetch = "served"
  /\ Rendered([query EXCEPT ![k] = Cache!Answered(@)])
  /\ again' = IF Overtaken(query[k]) THEN again \cup Announced(k, {query[k].got.last})
                                     ELSE again
  /\ UNCHANGED <<serverVars, mounted, dialog, post, mine>>

ArriveInfo ==
  /\ query["info"].fetch = "served"
  /\ query' = [query EXCEPT !["info"] = Cache!Answered(@)]
  /\ UNCHANGED <<serverVars, cardVars, post, mine, orderVars>>

\* Queries that are not on the page are fetched when it is back.
InvalidateAll ==
  query' = [k \in Keys |-> IF mounted THEN Cache!Invalidated(query[k]) ELSE query[k]]

\* The button is off while the list is being fetched.
Refresh ==
  /\ mounted /\ ~Cache!Fetching(query["info"])
  /\ InvalidateAll /\ RenewsList
  /\ UNCHANGED <<serverVars, cardVars, post, mine, again>>

----------------------------------------------------------------------------
(* Posts *)

Send(p, kind) ==
  /\ post[p] = NoPost
  /\ post' = [post EXCEPT ![p] = [kind |-> kind, state |-> "sent", run |-> 0]]
  /\ mine' = mine \cup {p}
  /\ UNCHANGED <<serverVars, query, cardVars, orderVars>>

\* Initialize is off while it is under way.
InitStanza(p) == NotInitialized /\ ~Pending("stanza") /\ Send(p, "stanza")

\* Nothing stops a second click before the first is answered.
RunBackup(p) == CanAct /\ runs < MaxRuns /\ Send(p, "backup")

\* The label is typed; the dialog stays whatever the card shows since it opened.
SubmitRestore(p) ==
  mounted /\ dialog /\ ~Pending("restore") /\ runs < MaxRuns /\ Send(p, "restore")

SetDialog(open) ==
  /\ mounted /\ dialog' = open
  /\ UNCHANGED <<serverVars, query, mounted, was, toasts, post, mine, orderVars>>

OpenDialog == CanAct /\ ~dialog /\ SetDialog(TRUE)
\* Cancel is off while the post is under way, Escape is not.
CloseDialog == dialog /\ SetDialog(FALSE)

Answer(p) ==
  /\ post' = [post EXCEPT ![p] = NoPost]
  /\ mine' = mine \ {p}

\* Faulty: without the last run.
Bare(j, n) == [query EXCEPT ![j] = Cache!SetData(@, [running |-> TRUE])]
Optimistic(j, n) == [query EXCEPT ![j] = Cache!SetData(@, [running |-> TRUE, last |-> n])]

PostAnswered(p) ==
  /\ post[p].state = "accepted"
  /\ IF post[p].kind = "stanza"
       THEN InvalidateAll /\ RenewsList /\ UNCHANGED <<was, toasts, again>>
       ELSE /\ Rendered(Optimistic(post[p].kind, post[p].run))
            /\ again' = again \cup Announced(post[p].kind, post[p].run .. MaxRuns)
  /\ dialog' = (dialog /\ ~(post[p].kind = "restore" /\ p \in mine))
  /\ Answer(p)
  /\ UNCHANGED <<serverVars, mounted>>

\* 409 while a job runs, another error, or a lost answer: an error is shown,
\* whatever the server did.  Posts are not retried.
PostFails(p) ==
  /\ post[p] # NoPost
  /\ Answer(p)
  /\ UNCHANGED <<serverVars, query, cardVars, orderVars>>

----------------------------------------------------------------------------
Next ==
  \/ \E j \in Jobs : OtherStarts(j) \/ JobEnds(j)
  \/ Crash
  \/ Mount \/ Leave \/ Refresh \/ ServeInfo \/ ArriveInfo
  \/ \E k \in Jobs : Poll(k) \/ Serve(k) \/ Arrive(k)
  \/ \E k \in Keys : Fail(k)
  \/ \E p \in Posts : InitStanza(p) \/ RunBackup(p) \/ SubmitRestore(p)
                        \/ ServeStart(p) \/ ServeStanza(p) \/ PostAnswered(p) \/ PostFails(p)
  \/ OpenDialog \/ CloseDialog

Spec == Init /\ [][Next]_vars

\* Jobs end (their deadlines), the page stays visible so that intervals fire,
\* and not every request of a query is lost or given up for a newer one.
Fairness ==
  /\ \A j \in Jobs : WF_vars(JobEnds(j))
  /\ \A k \in Jobs : WF_vars(Poll(k)) /\ SF_vars(Serve(k)) /\ SF_vars(Arrive(k))

FairSpec == Spec /\ Fairness

----------------------------------------------------------------------------
(* Properties *)

\* The end of a run is announced only when it is over; and once, unless an answer
\* that was overtaken makes it news again: the answer to a start arrives when its run,
\* or a later one, has been announced, or a status that was read before the start
\* arrives after it.
AnnouncedOnce ==
  \A j \in Jobs, n \in Runs :
    /\ toasts[<<j, n>>] > 0 => job[j] # [running |-> TRUE, last |-> n]
    /\ toasts[<<j, n>>] > 1 => <<j, n>> \in again

\* "toast result + invalidate info so the new backup appears" (pgbackrest-card.tsx):
\* a card that has announced a successful backup shows it once the list is there, as
\* long as no other has followed.  What the invalidation does not reach is a first
\* list that was read and is still under way: it is joined, not asked for anew.
ListCatchesUp ==
  \A n \in Runs :
    mounted /\ toasts[<<"backup", n>>] > 0 /\ newest = n /\ ~joined
      /\ ~Cache!Fetching(query["info"]) /\ ~query["info"].error
    => Listed = n

\* A card does not show a run for ever, with all of its buttons off, whatever
\* polls are lost.
CardSettles ==
  ShownRunning # {} ~> ShownRunning = {} \/ ~mounted

============================================================================

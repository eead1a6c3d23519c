-------------------------- MODULE BackrestCardProofs --------------------------
(***************************************************************************)
(* Proofs about BackrestCard, for any number of runs and of posts, however *)
(* late answers are: TypeCorrect, ListShowsBackup and EndAnnouncedOnce.    *)
(*                                                                         *)
(* Of the steps, the proofs use only what StatusSteps and InfoSteps say of *)
(* them: the card learns nothing, or one status is read, arrives or is     *)
(* set by the card.  RunsInv has what was true when a status was read and  *)
(* stays so; ListInv and OnceInv each have what one of the properties      *)
(* needs besides.                                                          *)
(***************************************************************************)
EXTENDS BackrestCard, TLAPS

-------------------------------------------------------------------------------
(* The cache *)

\* Nothing new is shown, and no answer is under way that was not before.
Quiet(q, e) ==
  /\ e.data \in {q.data, None}
  /\ e.fetch = "served" => q.fetch = "served" /\ e.got = q.got

Same(q, e) == Quiet(q, e) /\ e.data = q.data

LEMMA SendSame ==
  ASSUME NEW V, NEW q \in Cache!Entries(V)
  PROVE  /\ Cache!Send(q) \in Cache!Entries(V) /\ Same(q, Cache!Send(q))
         /\ Cache!Send(q).fetch = "sent"
BY DEF Cache!Entries, Cache!Send, Same, Quiet

LEMMA FetchedSame ==
  ASSUME NEW V, NEW q \in Cache!Entries(V)
  PROVE  /\ Cache!Fetched(q) \in Cache!Entries(V) /\ Same(q, Cache!Fetched(q))
         /\ Cache!Fetching(Cache!Fetched(q))
BY SendSame DEF Cache!Fetched, Cache!Fetching, Same, Quiet

LEMMA InvalidatedSame ==
  ASSUME NEW V, NEW q \in Cache!Entries(V)
  PROVE  /\ Cache!Invalidated(q) \in Cache!Entries(V) /\ Same(q, Cache!Invalidated(q))
         /\ \/ Cache!Invalidated(q).fetch = "sent"
            \/ Cache!Invalidated(q) = q /\ q.fetch = "served" /\ q.data = None
BY SendSame DEF Cache!Entries, Cache!Invalidated, Cache!Fetching, Same, Quiet

\* A page that opens shows what the cache has, or fetches.
LEMMA OnMountQuiet ==
  ASSUME NEW V, NEW q \in Cache!Entries(V), NEW e \in Cache!OnMount(q)
  PROVE  /\ e \in Cache!Entries(V) /\ Quiet(q, e)
         /\ e.fetch = "sent" \/ e = q
<1>1. CASE e = Cache!Fetched(q)
  BY <1>1, FetchedSame, SendSame DEF Same, Cache!Fetched
<1>2. CASE e = q
  BY <1>2 DEF Quiet
<1>3. CASE e = Cache!Send(Cache!Empty)
  <2>1. Cache!Empty \in Cache!Entries(V) /\ Cache!Empty.data = None
    BY DEF Cache!Empty, Cache!Entries
  <2>2. /\ e \in Cache!Entries(V) /\ Same(Cache!Empty, e) /\ e.fetch = "sent"
    BY <1>3, <2>1, SendSame
  <2> QED
    BY <2>1, <2>2 DEF Same, Quiet
<1> QED
  BY <1>1, <1>2, <1>3 DEF Cache!OnMount

LEMMA ServedGets ==
  ASSUME NEW V, NEW q \in Cache!Entries(V), NEW v \in V
  PROVE  /\ Cache!Served(q, v) \in Cache!Entries(V)
         /\ Cache!Served(q, v).data = q.data /\ Cache!Served(q, v).error = q.error
         /\ Cache!Served(q, v).fetch = "served" /\ Cache!Served(q, v).got = v
BY DEF Cache!Entries, Cache!Served

LEMMA AnsweredShows ==
  ASSUME NEW V, NEW q \in Cache!Entries(V)
  PROVE  /\ Cache!Answered(q) \in Cache!Entries(V)
         /\ Cache!Answered(q).data = q.got /\ Cache!Answered(q).fetch = "none"
         /\ ~Cache!Answered(q).error
BY DEF Cache!Entries, Cache!Answered

LEMMA SetDataShows ==
  ASSUME NEW V, NEW q \in Cache!Entries(V), NEW v \in V
  PROVE  /\ Cache!SetData(q, v) \in Cache!Entries(V)
         /\ Cache!SetData(q, v).data = v
         /\ Cache!SetData(q, v).fetch = q.fetch /\ Cache!SetData(q, v).got = q.got
BY DEF Cache!Entries, Cache!SetData

LEMMA FailingSame ==
  ASSUME NEW V, NEW q \in Cache!Entries(V), NEW b \in BOOLEAN
  PROVE  LET e == [Cache!Failing(q) EXCEPT !.error = b] IN
         e \in Cache!Entries(V) /\ Same(q, e) /\ e.fetch = "none" /\ e.error = b
BY DEF Cache!Entries, Cache!Failing, Same, Quiet

-------------------------------------------------------------------------------
(* Type correctness *)

AnswersTo(k) == IF k = "info" THEN Lists ELSE Status
Caches(c) == c = [k \in Keys |-> c[k]] /\ \A k \in Keys : c[k] \in Cache!Entries(AnswersTo(k))

\* A post that is under way has a kind, and a job that was accepted, and only that, a run.
PostShapes ==
  {x \in [kind : {"none", "stanza"} \cup Jobs, state : {"none", "sent", "accepted"},
          run : 0..MaxRuns] :
     /\ x.state # "none" => x.kind # "none"
     /\ x.run # 0 => x.kind \in Jobs
     /\ x.state = "accepted" /\ x.kind \in Jobs => x.run # 0}

TypeInv == TypeOK /\ Caches(query) /\ post \in [Posts -> PostShapes]

\* A change of one entry.
LEMMA CacheExcept ==
  ASSUME NEW c, Caches(c), NEW k \in Keys, NEW e \in Cache!Entries(AnswersTo(k))
  PROVE  /\ Caches([c EXCEPT ![k] = e])
         /\ [c EXCEPT ![k] = e][k] = e
         /\ \A i \in Keys : i # k => [c EXCEPT ![k] = e][i] = c[i]
BY DEF Caches

\* What a rendering does: nothing to the statuses; it may ask for the list; and it
\* announces what was seen running and is shown idle now.
LEMMA RenderedShows ==
  ASSUME TypeInv, NEW c, Caches(c), Rendered(c)
  PROVE  /\ Caches(query')
         /\ \A j \in Jobs : query'[j] = c[j]
         /\ \/ query'["info"] = c["info"] /\ joined' = joined
            \/ /\ query'["info"] = Cache!Invalidated(c["info"])
               /\ joined' = FirstListRead(c)
         /\ mounted /\ Shown(c) = {} /\ was # {} =>
              query'["info"] = Cache!Invalidated(c["info"]) /\ joined' = FirstListRead(c)
         /\ \/ ~mounted /\ UNCHANGED <<was, toasts>>
            \/ mounted /\ Shown(c) # {} /\ was' = was \cup Shown(c) /\ UNCHANGED toasts
            \/ /\ mounted /\ Shown(c) = {} /\ was' = {}
               /\ toasts' \in [Jobs \X Runs -> 0..2]
               /\ \A j \in Jobs, n \in Runs :
                    \/ toasts'[<<j, n>>] = toasts[<<j, n>>]
                    \/ /\ toasts'[<<j, n>>] = toasts[<<j, n>>] + 1
                       /\ j \in was /\ c[j].data.last = n
<1> DEFINE i == Cache!Invalidated(c["info"])
           d == [c EXCEPT !["info"] = i]
<1>1. c["info"] \in Cache!Entries(AnswersTo("info")) /\ "info" \in Keys
  BY DEF Caches, Keys
<1>2. i \in Cache!Entries(AnswersTo("info"))
  BY <1>1, InvalidatedSame
<1>3. Caches(d) /\ d["info"] = i /\ \A j \in Jobs : d[j] = c[j]
  <2>1. \A j \in Jobs : j \in Keys /\ j # "info"
    BY DEF Jobs, Keys
  <2> QED
    BY <1>1, <1>2, <2>1, CacheExcept
<1>4. AfterIdle(c) = d
  BY DEF AfterIdle, InvalidateInfo
<1>5. CASE ~mounted
  BY <1>5 DEF Rendered
<1>6. CASE mounted /\ Shown(c) # {}
  BY <1>6 DEF Rendered
<1>7. CASE mounted /\ Shown(c) = {}
  <2>1. /\ query' = IF was = {} THEN c ELSE d
        /\ joined' = IF was = {} THEN joined ELSE FirstListRead(c)
        /\ was' = {}
        /\ toasts' = [t \in Jobs \X Runs |->
                        IF /\ t[1] \in {j \in was : c[j].data.last # 0}
                           /\ c[t[1]].data.last = t[2] /\ toasts[t] < 2
                          THEN toasts[t] + 1 ELSE toasts[t]]
    BY <1>4, <1>7 DEF Rendered, SeenAfterIdle
  <2>2. toasts \in [Jobs \X Runs -> 0..2]
    BY DEF TypeInv, TypeOK
  <2>3. toasts' \in [Jobs \X Runs -> 0..2]
    BY <2>1, <2>2
  <2>4. \A j \in Jobs, n \in Runs :
          \/ toasts'[<<j, n>>] = toasts[<<j, n>>]
          \/ toasts'[<<j, n>>] = toasts[<<j, n>>] + 1 /\ j \in was /\ c[j].data.last = n
    BY <2>1, <2>2
  <2>5. CASE was = {}
    BY <1>7, <2>1, <2>3, <2>4, <2>5
  <2>6. CASE was # {}
    BY <1>3, <1>7, <2>1, <2>3, <2>4, <2>6
  <2> QED
    BY <2>5, <2>6
<1> QED
  BY <1>5, <1>6, <1>7

\* What a server step does to the types.
ServerTyped ==
  /\ job \in [Jobs -> Status] /\ runs \in 0..MaxRuns /\ newest \in 0..MaxRuns
  /\ stanza \in BOOLEAN

LEMMA StartTyped ==
  ASSUME TypeInv, NEW j \in Jobs, JobStarts(j)
  PROVE  ServerTyped' /\ runs' = runs + 1
<1>1. runs + 1 \in 0..MaxRuns /\ runs' = runs + 1
  BY ConstantsAssumption DEF JobStarts, TypeInv, TypeOK
<1>2. [running |-> TRUE, last |-> runs'] \in Status
  BY <1>1 DEF Status
<1>3. job \in [Jobs -> Status]
  BY DEF TypeInv, TypeOK
<1>4. job' = [job EXCEPT ![j] = [running |-> TRUE, last |-> runs']] /\ UNCHANGED <<stanza, newest>>
  BY DEF JobStarts
<1>5. job' \in [Jobs -> Status]
  BY <1>2, <1>3, <1>4
<1> QED
  BY <1>1, <1>4, <1>5 DEF ServerTyped, TypeInv, TypeOK

\* The three caches that a list of queries, a mount or a refresh leaves.
LEMMA RefreshTyped ==
  ASSUME TypeInv, InvalidateAll
  PROVE  /\ Caches(query') /\ \A k \in Keys : Same(query[k], query'[k])
         /\ query'["info"] = query["info"] \/ query'["info"].fetch = "sent"
<1>1. Caches(query)
  BY DEF TypeInv
<1>2. \A k \in Keys : query'[k] = IF mounted THEN Cache!Invalidated(query[k]) ELSE query[k]
  BY DEF InvalidateAll
<1>3. ASSUME NEW k \in Keys
      PROVE  /\ query'[k] \in Cache!Entries(AnswersTo(k)) /\ Same(query[k], query'[k])
             /\ query'[k] = query[k] \/ query'[k].fetch = "sent"
  BY <1>1, <1>2, InvalidatedSame DEF Caches, Same, Quiet
<1>4. query' = [k \in Keys |-> query'[k]]
  BY <1>2 DEF InvalidateAll
<1> QED
  BY <1>2, <1>3, <1>4 DEF Caches, Keys

LEMMA MountTyped ==
  ASSUME TypeInv, Mount
  PROVE  /\ Caches(query') /\ \A k \in Keys : Quiet(query[k], query'[k])
         /\ query'["info"] \in Cache!OnMount(query["info"])
<1>1. PICK i \in Cache!OnMount(query["info"]), b \in Cache!OnMount(query["backup"]),
           r \in Cache!OnMount(query["restore"]) :
        query' = [k \in Keys |-> IF k = "info" THEN i ELSE IF k = "backup" THEN b ELSE r]
  BY DEF Mount
<1>2. Caches(query)
  BY DEF TypeInv
<1>3. /\ i \in Cache!Entries(AnswersTo("info")) /\ Quiet(query["info"], i)
      /\ b \in Cache!Entries(AnswersTo("backup")) /\ Quiet(query["backup"], b)
      /\ r \in Cache!Entries(AnswersTo("restore")) /\ Quiet(query["restore"], r)
  <2>1. "info" \in Keys /\ "backup" \in Keys /\ "restore" \in Keys
    BY DEF Keys, Jobs
  <2> QED
    BY <1>2, <2>1, OnMountQuiet DEF Caches
<1>4. Keys = {"info", "backup", "restore"}
  BY DEF Keys, Jobs
<1>5. query'["info"] = i /\ query'["backup"] = b /\ query'["restore"] = r
  BY <1>1, <1>4
<1>6. query' = [k \in Keys |-> query'[k]]
  BY <1>1
<1>7. \A k \in Keys : query'[k] \in Cache!Entries(AnswersTo(k)) /\ Quiet(query[k], query'[k])
  BY <1>3, <1>4, <1>5
<1> QED
  BY <1>5, <1>6, <1>7 DEF Caches

LEMMA TypeStep == TypeInv /\ [Next]_vars => TypeInv'
<1> SUFFICES ASSUME TypeInv, [Next]_vars PROVE TypeInv'
  OBVIOUS
<1>t. TypeOK /\ Caches(query)
  BY DEF TypeInv
<1>p. post \in [Posts -> PostShapes]
  BY DEF TypeInv
\* The typed parts one by one.
<1>s. ServerTyped /\ (UNCHANGED serverVars => ServerTyped')
  BY <1>t DEF TypeOK, ServerTyped, serverVars
<1>q. ASSUME ServerTyped', Caches(query'),
             mounted' \in BOOLEAN, was' \subseteq Jobs, dialog' \in BOOLEAN,
             toasts' \in [Jobs \X Runs -> 0..2],
             post' \in [Posts -> PostShapes],
             mine' \subseteq Posts, again' \subseteq Jobs \X Runs, joined' \in BOOLEAN
      PROVE  TypeInv'
  <2>1. \A k \in Keys : query'[k] \in Cache!Entries(IF k = "info" THEN Lists ELSE Status)
    BY <1>q DEF Caches, AnswersTo
  <2>2. TypeOK'
    BY <1>q, <2>1 DEF TypeOK, ServerTyped, PostShapes
  <2> QED
    BY <1>q, <2>2 DEF TypeInv
<1>v. /\ mounted \in BOOLEAN /\ was \subseteq Jobs /\ dialog \in BOOLEAN
      /\ toasts \in [Jobs \X Runs -> 0..2] /\ mine \subseteq Posts
      /\ again \subseteq Jobs \X Runs /\ joined \in BOOLEAN
  BY <1>t DEF TypeOK
\* Steps of one entry.
<1>e. ASSUME NEW k \in Keys, NEW e \in Cache!Entries(AnswersTo(k)),
             query' = [query EXCEPT ![k] = e], UNCHANGED <<serverVars, cardVars, post, mine, orderVars>>
      PROVE  TypeInv'
  BY <1>e, <1>t, <1>s, <1>v, <1>p, <1>q, CacheExcept DEF cardVars, orderVars
<1>k. Jobs \subseteq Keys /\ "info" \in Keys /\ "info" \notin Jobs
  BY DEF Jobs, Keys
<1>j. \A k \in Jobs : AnswersTo(k) = Status
  BY <1>k DEF AnswersTo
<1>1. ASSUME NEW j \in Jobs, OtherStarts(j) PROVE TypeInv'
  BY <1>1, <1>t, <1>v, <1>p, <1>q, StartTyped DEF OtherStarts, cardVars, orderVars
<1>2. ASSUME NEW j \in Jobs, JobEnds(j) PROVE TypeInv'
  <2>1. job[j] \in Status /\ job \in [Jobs -> Status]
    BY <1>2, <1>t DEF TypeOK
  <2>2. job' = [job EXCEPT ![j].running = FALSE] /\ newest' \in {newest, job[j].last}
    BY <1>2 DEF JobEnds
  <2>3. job' \in [Jobs -> Status] /\ job[j].last \in 0..MaxRuns
    BY <2>1, <2>2 DEF Status
  <2>4. ServerTyped'
    BY <1>2, <1>s, <2>2, <2>3 DEF JobEnds, ServerTyped
  <2> QED
    BY <1>2, <2>4, <1>t, <1>v, <1>p, <1>q DEF JobEnds, cardVars, orderVars
<1>3. CASE Crash
  <2>1. ServerTyped'
    BY <1>3, <1>s, ConstantsAssumption DEF Crash, ServerTyped, Status
  <2> QED
    BY <1>3, <2>1, <1>t, <1>v, <1>p, <1>q DEF Crash, cardVars, orderVars
<1>4. CASE Mount
  <2>1. was' \subseteq Jobs /\ mounted' \in BOOLEAN /\ joined' \in BOOLEAN
    BY <1>4 DEF Mount, Shown, RenewsList
  <2> QED
    BY <1>4, <2>1, <1>s, <1>v, <1>p, <1>q, MountTyped DEF Mount
<1>5. CASE Leave
  BY <1>5, <1>t, <1>s, <1>v, <1>p, <1>q DEF Leave, orderVars
<1>6. CASE Refresh
  BY <1>6, <1>s, <1>v, <1>p, <1>q, RefreshTyped DEF Refresh, cardVars, RenewsList
<1>7. CASE ServeInfo
  <2> DEFINE list == IF stanza THEN newest ELSE NoStanza
  <2>1. list \in Lists /\ Lists = AnswersTo("info")
    BY <1>s DEF Lists, AnswersTo, ServerTyped
  <2>2. query["info"] \in Cache!Entries(AnswersTo("info"))
    BY <1>t, <1>k DEF Caches
  <2>3. Cache!Served(query["info"], list) \in Cache!Entries(AnswersTo("info"))
    BY <2>1, <2>2, ServedGets
  <2> QED
    BY <1>7, <1>k, <2>3, <1>e DEF ServeInfo
<1>21. CASE ArriveInfo
  <2>1. Cache!Answered(query["info"]) \in Cache!Entries(AnswersTo("info"))
    BY <1>t, <1>k, AnsweredShows DEF Caches
  <2> QED
    BY <1>21, <1>k, <2>1, <1>e DEF ArriveInfo
<1>8. ASSUME NEW k \in Jobs, Poll(k) PROVE TypeInv'
  <2>1. Cache!Fetched(query[k]) \in Cache!Entries(AnswersTo(k))
    BY <1>t, <1>k, FetchedSame DEF Caches
  <2> QED
    BY <1>8, <1>k, <2>1, <1>e DEF Poll
<1>9. ASSUME NEW k \in Jobs, Serve(k) PROVE TypeInv'
  <2>1. job[k] \in AnswersTo(k)
    BY <1>j, <1>s DEF ServerTyped
  <2>2. Cache!Served(query[k], job[k]) \in Cache!Entries(AnswersTo(k))
    BY <1>t, <1>k, <2>1, ServedGets DEF Caches
  <2> QED
    BY <1>9, <1>k, <2>2, <1>e DEF Serve
<1>10. ASSUME NEW k \in Jobs, Arrive(k) PROVE TypeInv'
  <2> DEFINE c == [query EXCEPT ![k] = Cache!Answered(query[k])]
  <2>1. Caches(c)
    BY <1>t, <1>k, AnsweredShows, CacheExcept DEF Caches
  <2>2. Rendered(c) /\ UNCHANGED <<serverVars, mounted, dialog, post, mine>>
    BY <1>10 DEF Arrive
  <2>3. /\ Caches(query') /\ was' \subseteq Jobs /\ toasts' \in [Jobs \X Runs -> 0..2]
        /\ joined' \in BOOLEAN
    <3> HIDE DEF c
    <3> QED
      BY <1>v, <2>1, <2>2, RenderedShows DEF Shown, FirstListRead
  <2>4. again' \subseteq Jobs \X Runs
    BY <1>10, <1>v DEF Arrive, Announced
  <2> QED
    BY <2>2, <2>3, <2>4, <1>s, <1>v, <1>p, <1>q
<1>11. ASSUME NEW k \in Keys, Fail(k) PROVE TypeInv'
  <2> DEFINE b == (k = "info")
             e == [Cache!Failing(query[k]) EXCEPT !.error = b]
  <2>1. e \in Cache!Entries(AnswersTo(k))
    BY <1>t, FailingSame DEF Caches
  <2>2. query' = [query EXCEPT ![k] = e]
    BY <1>11 DEF Fail
  <2>3. UNCHANGED <<serverVars, cardVars, post, mine, orderVars>>
    BY <1>11 DEF Fail
  <2> QED
    BY <2>1, <2>2, <2>3, <1>e
<1>12. ASSUME NEW p \in Posts, InitStanza(p) \/ RunBackup(p) \/ SubmitRestore(p) PROVE TypeInv'
  <2>1. PICK kind \in {"stanza"} \cup Jobs : Send(p, kind)
    BY <1>12 DEF InitStanza, RunBackup, SubmitRestore, Jobs
  <2>2. [kind |-> kind, state |-> "sent", run |-> 0]
          \in PostShapes
    <3>1. 0 \in 0..MaxRuns /\ kind # "none"
      BY ConstantsAssumption DEF Jobs
    <3> QED
      BY <3>1 DEF PostShapes
  <2>3. /\ post' \in [Posts -> PostShapes]
        /\ mine' \subseteq Posts
    BY <2>1, <2>2, <1>p, <1>v DEF Send
  <2> QED
    BY <2>1, <2>3, <1>t, <1>s, <1>v, <1>q DEF Send, cardVars, orderVars
<1>13. ASSUME NEW p \in Posts, NEW n \in 0..MaxRuns, Accept(p, n), post[p].kind # "none",
              n # 0 <=> post[p].kind \in Jobs
       PROVE  post' \in [Posts -> PostShapes]
  BY <1>13, <1>p DEF Accept, PostShapes
<1>14. ASSUME NEW p \in Posts, ServeStart(p) PROVE TypeInv'
  <2>1. post[p].kind \in Jobs /\ JobStarts(post[p].kind) /\ Accept(p, runs')
    BY <1>14 DEF ServeStart
  <2>2. ServerTyped' /\ runs' \in 0..MaxRuns /\ runs' # 0 /\ post[p].kind # "none"
    BY <2>1, <1>t, StartTyped DEF ServerTyped, Jobs, TypeOK
  <2> QED
    BY <1>14, <2>1, <2>2, <1>13, <1>t, <1>v, <1>q DEF ServeStart, cardVars, orderVars
<1>15. ASSUME NEW p \in Posts, ServeStanza(p) PROVE TypeInv'
  <2>1. ServerTyped'
    BY <1>15, <1>s DEF ServeStanza, ServerTyped
  <2>2. post' \in [Posts -> PostShapes]
    BY <1>15, <1>13, ConstantsAssumption DEF ServeStanza, Jobs
  <2> QED
    BY <1>15, <2>1, <2>2, <1>t, <1>v, <1>q DEF ServeStanza, cardVars, orderVars
<1>16. ASSUME NEW p \in Posts, Answer(p)
       PROVE  /\ post' \in [Posts -> PostShapes]
              /\ mine' \subseteq Posts
  BY <1>16, <1>p, <1>v, ConstantsAssumption DEF Answer, NoPost, PostShapes
<1>17. ASSUME NEW p \in Posts, PostAnswered(p) PROVE TypeInv'
  <2>1. dialog' \in BOOLEAN /\ UNCHANGED <<serverVars, mounted>> /\ Answer(p)
    BY <1>17 DEF PostAnswered
  <2>2. CASE post[p].kind = "stanza"
    BY <1>17, <2>1, <2>2, <1>16, <1>s, <1>v, <1>q, RefreshTyped DEF PostAnswered, RenewsList
  <2>3. CASE post[p].kind # "stanza"
    <3> DEFINE j == post[p].kind
               d == Cache!SetData(query[j], [running |-> TRUE, last |-> post[p].run])
               c == Optimistic(j, post[p].run)
    <3>1. j \in Jobs /\ post[p].run \in 0..MaxRuns
      BY <1>17, <1>p, <2>3 DEF PostAnswered, PostShapes
    <3>2. d \in Cache!Entries(AnswersTo(j))
      BY <3>1, <1>t, <1>k, <1>j, SetDataShows DEF Caches, Status
    <3>3. Caches(c)
      BY <3>1, <3>2, <1>t, <1>k, CacheExcept DEF Optimistic
    <3>4. Rendered(c)
      BY <1>17, <2>3 DEF PostAnswered
    <3>5. /\ Caches(query') /\ was' \subseteq Jobs /\ toasts' \in [Jobs \X Runs -> 0..2]
          /\ joined' \in BOOLEAN
      <4> HIDE DEF c
      <4> QED
        BY <1>v, <3>3, <3>4, RenderedShows DEF Shown, FirstListRead
    <3>6. again' \subseteq Jobs \X Runs
      BY <1>17, <1>v, <2>3, <3>1 DEF PostAnswered, Announced
    <3> QED
      BY <2>1, <3>5, <3>6, <1>16, <1>s, <1>v, <1>q
  <2> QED
    BY <2>2, <2>3
<1>18. ASSUME NEW p \in Posts, PostFails(p) PROVE TypeInv'
  BY <1>18, <1>16, <1>t, <1>s, <1>v, <1>q DEF PostFails, cardVars, orderVars
<1>19. CASE OpenDialog \/ CloseDialog
  BY <1>19, <1>t, <1>s, <1>v, <1>p, <1>q DEF OpenDialog, CloseDialog, SetDialog, orderVars
<1>20. CASE UNCHANGED vars
  BY <1>20, <1>t, <1>s, <1>v, <1>p, <1>q DEF vars, cardVars, orderVars
<1> QED
  BY <1>1, <1>2, <1>3, <1>4, <1>5, <1>6, <1>7, <1>8, <1>9, <1>10, <1>11, <1>12, <1>14, <1>15,
     <1>17, <1>18, <1>19, <1>20, <1>21 DEF Next

LEMMA TypeInvariant == Spec => []TypeInv
<1>1. Init => TypeInv
  <2> SUFFICES ASSUME Init PROVE TypeInv
    OBVIOUS
  <2>1. 0 \in 0..MaxRuns
    BY ConstantsAssumption
  <2>2. ServerTyped
    BY <2>1 DEF Init, ServerTyped, Status
  <2>3. Caches(query)
    BY DEF Init, Caches, Cache!Empty, Cache!Entries
  <2>4. NoPost \in PostShapes
    BY <2>1 DEF NoPost, PostShapes
  <2>5. toasts \in [Jobs \X Runs -> 0..2] /\ mounted = FALSE /\ was = {} /\ dialog = FALSE
        /\ mine = {} /\ again = {} /\ joined = FALSE
    BY DEF Init
  <2>6. post \in [Posts -> PostShapes]
    BY <2>4 DEF Init
  <2>7. TypeOK
    BY <2>2, <2>3, <2>5, <2>6 DEF TypeOK, ServerTyped, Caches, AnswersTo, PostShapes
  <2> QED
    BY <2>3, <2>6, <2>7 DEF TypeInv
<1> QED
  BY <1>1, TypeStep, PTL DEF Spec

\* What the card and its server keep stays within its types.
THEOREM TypeCorrect == Spec => []TypeOK
<1>1. TypeInv => TypeOK
  BY DEF TypeInv
<1> QED
  BY <1>1, TypeInvariant, PTL

-------------------------------------------------------------------------------
(* What a step does to what the card knows of the jobs *)

\* A rendering of the statuses in query', which announces what was seen running if
\* nothing is shown running any more, and asks for the list again, or joins.
Announces ==
  /\ mounted /\ Shown(query') = {} /\ was' = {}
  /\ was # {} => query'["info"].fetch = "sent" \/ joined'
  /\ toasts' \in [Jobs \X Runs -> 0..2]
  /\ \A j \in Jobs, n \in Runs :
       \/ toasts'[<<j, n>>] = toasts[<<j, n>>]
       \/ /\ toasts'[<<j, n>>] = toasts[<<j, n>>] + 1
          /\ j \in was /\ query'[j].data.last = n

Renders ==
  /\ mounted' = mounted
  /\ \/ ~mounted /\ UNCHANGED <<was, toasts>>
     \/ mounted /\ Shown(query') # {} /\ was' = was \cup Shown(query') /\ UNCHANGED toasts
     \/ Announces

\* The status of job j is read at the server, reaches the card, or is set by the card
\* when a post for j was answered.
StatusRead(j) ==
  /\ query'[j].data = query[j].data
  /\ query[j].fetch = "sent" /\ query'[j].fetch = "served" /\ query'[j].got = job[j]
  /\ UNCHANGED <<mounted, was, toasts, post, again>>

StatusArrives(j) ==
  /\ query[j].fetch = "served" /\ query'[j].fetch = "none"
  /\ query'[j].data = query[j].got
  /\ Renders /\ UNCHANGED post
  /\ again \subseteq again'
  /\ Overtaken(query[j]) => Announced(j, {query[j].got.last}) \subseteq again'

StatusSet(j) ==
  \E p \in Posts :
    /\ post[p].kind = j /\ post[p].state = "accepted"
    /\ query'[j].data = [running |-> TRUE, last |-> post[p].run]
    /\ query'[j].fetch = query[j].fetch /\ query'[j].got = query[j].got
    /\ post' = [post EXCEPT ![p] = NoPost]
    /\ Renders
    /\ again \subseteq again' /\ Announced(j, post[p].run .. MaxRuns) \subseteq again'

\* Otherwise the card learns nothing, and the server goes on.
StatusesKept ==
  /\ \A j \in Jobs : Quiet(query[j], query'[j])
  /\ UNCHANGED <<toasts, again>>
  /\ \/ UNCHANGED <<mounted, was>> /\ \A j \in Jobs : Same(query[j], query'[j])
     \/ mounted /\ ~mounted' /\ was' = {} /\ UNCHANGED query
     \/ ~mounted /\ mounted' /\ was' = Shown(query')

\* Posts come and go; at most one of them gets a run, which starts now.
NoNewRun == \A p \in Posts : post'[p].run = 0 \/ post'[p] = post[p]
RunAccepted(j) ==
  \E p \in Posts : /\ post'[p].kind = j /\ post'[p].run = runs'
                    /\ \A q \in Posts \ {p} : post'[q] = post[q]

ServerMoves ==
  \/ NoNewRun /\ UNCHANGED <<job, runs, newest>>
  \/ \E j \in Jobs : JobStarts(j) /\ (NoNewRun \/ RunAccepted(j)) /\ UNCHANGED query
  \/ \E j \in Jobs : /\ job[j].running /\ job' = [job EXCEPT ![j].running = FALSE]
                     /\ newest' = newest \/ (j = "backup" /\ newest' = job[j].last)
                     /\ NoNewRun /\ UNCHANGED <<runs, query>>
  \/ /\ job' = [j \in Jobs |-> [running |-> FALSE, last |-> 0]]
     /\ NoNewRun /\ UNCHANGED <<runs, newest, query>>

OneStatus(k) ==
  /\ StatusRead(k) \/ StatusArrives(k) \/ StatusSet(k)
  /\ \A j \in Jobs \ {k} : query'[j] = query[j]
  /\ UNCHANGED serverVars

\* Every step is one of these.
LEMMA StatusSteps ==
  ASSUME TypeInv, [Next]_vars
  PROVE  \/ StatusesKept /\ ServerMoves
         \/ \E k \in Jobs : OneStatus(k)
<1>t. TypeOK /\ Caches(query) /\ post \in [Posts -> PostShapes]
  BY DEF TypeInv
<1> DEFINE Goal == \/ StatusesKept /\ ServerMoves
                   \/ \E k \in Jobs : OneStatus(k)
<1>k. Jobs \subseteq Keys /\ "info" \in Keys /\ "info" \notin Jobs /\ \A k \in Jobs : AnswersTo(k) = Status
  BY DEF Jobs, Keys, AnswersTo
<1>e. \A k \in Keys : query[k] \in Cache!Entries(AnswersTo(k))
  BY <1>t DEF Caches
\* The card is left alone.
<1>c. UNCHANGED <<query, cardVars, orderVars>> => StatusesKept
  BY DEF StatusesKept, Same, Quiet, cardVars, orderVars
\* One entry changes and shows what it did.
<1>o. ASSUME NEW k \in Keys, NEW e \in Cache!Entries(AnswersTo(k)),
             k \in Jobs => Same(query[k], e),
             query' = [query EXCEPT ![k] = e], UNCHANGED <<serverVars, cardVars, post, mine, orderVars>>
      PROVE  StatusesKept /\ ServerMoves
  <2>1. \A j \in Jobs : Same(query[j], query'[j])
    <3>1. query'[k] = e /\ \A i \in Keys : i # k => query'[i] = query[i]
      BY <1>o, <1>t, CacheExcept
    <3>2. ASSUME NEW j \in Jobs PROVE Same(query[j], query'[j])
      <4>1. CASE j = k
        BY <1>o, <3>1, <4>1
      <4>2. CASE j # k
        BY <1>k, <3>1, <4>2 DEF Same, Quiet
      <4> QED
        BY <4>1, <4>2
    <3> QED
      BY <3>2
  <2>2. StatusesKept
    BY <1>o, <2>1 DEF StatusesKept, Same, cardVars, orderVars
  <2>3. ServerMoves
    BY <1>o DEF ServerMoves, NoNewRun, serverVars
  <2> QED
    BY <2>2, <2>3
<1>1. ASSUME NEW j \in Jobs, OtherStarts(j) PROVE Goal
  BY <1>1, <1>c DEF OtherStarts, ServerMoves, NoNewRun
<1>2. ASSUME NEW j \in Jobs, JobEnds(j) PROVE Goal
  BY <1>2, <1>c DEF JobEnds, ServerMoves, NoNewRun
<1>3. CASE Crash
  BY <1>3, <1>c DEF Crash, ServerMoves, NoNewRun
<1>4. CASE Mount
  <2>1. StatusesKept
    BY <1>4, <1>k, MountTyped DEF Mount, StatusesKept
  <2>2. ServerMoves
    BY <1>4 DEF Mount, ServerMoves, NoNewRun, serverVars
  <2> QED
    BY <2>1, <2>2
<1>5. CASE Leave
  <2>1. StatusesKept
    BY <1>5 DEF Leave, StatusesKept, Quiet, orderVars
  <2>2. ServerMoves
    BY <1>5 DEF Leave, ServerMoves, NoNewRun, serverVars
  <2> QED
    BY <2>1, <2>2
<1>6. CASE Refresh
  <2>1. StatusesKept
    BY <1>6, <1>k, RefreshTyped DEF Refresh, StatusesKept, cardVars, Same
  <2>2. ServerMoves
    BY <1>6 DEF Refresh, ServerMoves, NoNewRun, serverVars
  <2> QED
    BY <2>1, <2>2
<1>7. CASE ServeInfo
  <2> DEFINE list == IF stanza THEN newest ELSE NoStanza
             e == Cache!Served(query["info"], list)
  <2>1. list \in Lists /\ Lists = AnswersTo("info")
    BY <1>t DEF Lists, AnswersTo, TypeOK
  <2>2. e \in Cache!Entries(AnswersTo("info"))
    BY <1>e, <1>k, <2>1, ServedGets
  <2>3. query' = [query EXCEPT !["info"] = e] /\ UNCHANGED <<serverVars, cardVars, post, mine, orderVars>>
    BY <1>7 DEF ServeInfo
  <2> QED
    BY <1>k, <2>2, <2>3, <1>o
<1>20. CASE ArriveInfo
  <2> DEFINE e == Cache!Answered(query["info"])
  <2>1. e \in Cache!Entries(AnswersTo("info"))
    BY <1>e, <1>k, AnsweredShows
  <2>2. query' = [query EXCEPT !["info"] = e] /\ UNCHANGED <<serverVars, cardVars, post, mine, orderVars>>
    BY <1>20 DEF ArriveInfo
  <2> QED
    BY <1>k, <2>1, <2>2, <1>o
<1>8. ASSUME NEW k \in Jobs, Poll(k) PROVE Goal
  <2>1. Cache!Fetched(query[k]) \in Cache!Entries(AnswersTo(k)) /\ Same(query[k], Cache!Fetched(query[k]))
    BY <1>e, <1>k, FetchedSame
  <2> QED
    BY <1>8, <1>k, <2>1, <1>o DEF Poll
<1>9. ASSUME NEW k \in Jobs, Serve(k) PROVE Goal
  <2> DEFINE e == Cache!Served(query[k], job[k])
  <2>1. job[k] \in AnswersTo(k) /\ k \in Keys
    BY <1>k, <1>t DEF TypeOK
  <2>2. /\ e \in Cache!Entries(AnswersTo(k))
        /\ e.data = query[k].data /\ e.fetch = "served" /\ e.got = job[k]
    BY <1>e, <2>1, ServedGets
  <2>3. query' = [query EXCEPT ![k] = e]
    BY <1>9 DEF Serve
  <2>4. query'[k] = e /\ \A j \in Jobs \ {k} : query'[j] = query[j]
    BY <1>t, <1>k, <2>1, <2>2, <2>3, CacheExcept
  <2>5. StatusRead(k)
    BY <1>9, <2>2, <2>4 DEF Serve, StatusRead, cardVars, orderVars
  <2> QED
    BY <1>9, <2>4, <2>5 DEF Serve, OneStatus
\* A rendering of c, which shows the statuses of query'.
<1>r. ASSUME NEW c, Caches(c), Rendered(c), mounted' = mounted
      PROVE  Renders /\ \A j \in Jobs : query'[j] = c[j]
  <2>1. /\ \A j \in Jobs : query'[j] = c[j]
        /\ \/ ~mounted /\ UNCHANGED <<was, toasts>>
           \/ mounted /\ Shown(c) # {} /\ was' = was \cup Shown(c) /\ UNCHANGED toasts
           \/ /\ mounted /\ Shown(c) = {} /\ was' = {}
              /\ toasts' \in [Jobs \X Runs -> 0..2]
              /\ \A j \in Jobs, n \in Runs :
                   \/ toasts'[<<j, n>>] = toasts[<<j, n>>]
                   \/ /\ toasts'[<<j, n>>] = toasts[<<j, n>>] + 1
                      /\ j \in was /\ c[j].data.last = n
        /\ mounted /\ Shown(c) = {} /\ was # {} =>
             query'["info"] = Cache!Invalidated(c["info"]) /\ joined' = FirstListRead(c)
    BY <1>r, RenderedShows
  <2>2. Shown(c) = Shown(query')
    BY <2>1 DEF Shown
  <2>3. \/ Cache!Invalidated(c["info"]).fetch = "sent"
        \/ Cache!Invalidated(c["info"]) = c["info"] /\ FirstListRead(c)
    BY <1>r, <1>k, InvalidatedSame DEF Caches, FirstListRead
  <2>4. mounted /\ Shown(c) = {} /\ was # {} => query'["info"].fetch = "sent" \/ joined'
    BY <2>1, <2>3
  <2>5. ASSUME NEW j \in Jobs, NEW n \in Runs, j \in was /\ c[j].data.last = n
        PROVE  j \in was /\ query'[j].data.last = n
    BY <2>1, <2>5
  <2>6. CASE ~mounted
    BY <1>r, <2>1, <2>6 DEF Renders
  <2>7. CASE mounted /\ Shown(c) # {}
    BY <1>r, <2>1, <2>2, <2>7 DEF Renders
  <2>8. CASE mounted /\ Shown(c) = {}
    <3>1. Announces
      BY <2>1, <2>2, <2>4, <2>5, <2>8 DEF Announces
    <3> QED
      BY <1>r, <2>1, <3>1 DEF Renders
  <2> QED
    BY <2>1, <2>6, <2>7, <2>8
<1>10. ASSUME NEW k \in Jobs, Arrive(k) PROVE Goal
  <2> DEFINE e == Cache!Answered(query[k])
             c == [query EXCEPT ![k] = e]
  <2>1. /\ e \in Cache!Entries(AnswersTo(k)) /\ k \in Keys
        /\ e.data = query[k].got /\ e.fetch = "none"
    BY <1>e, <1>k, AnsweredShows
  <2>2. Caches(c) /\ c[k] = e /\ \A i \in Keys : i # k => c[i] = query[i]
    BY <1>t, <2>1, CacheExcept
  <2>3. Rendered(c) /\ UNCHANGED <<serverVars, mounted, post>> /\ query[k].fetch = "served"
    BY <1>10 DEF Arrive
  <2>a. /\ again \subseteq again'
        /\ Overtaken(query[k]) => Announced(k, {query[k].got.last}) \subseteq again'
    BY <1>10 DEF Arrive
  <2>4. Renders /\ \A j \in Jobs : query'[j] = c[j]
    <3> HIDE DEF c
    <3> QED
      BY <2>2, <2>3, <1>r
  <2>5. query'[k] = e /\ \A j \in Jobs \ {k} : query'[j] = query[j]
    BY <1>k, <2>2, <2>4
  <2>6. StatusArrives(k)
    BY <2>1, <2>3, <2>4, <2>5, <2>a DEF StatusArrives
  <2> QED
    BY <2>3, <2>5, <2>6 DEF OneStatus
<1>11. ASSUME NEW k \in Keys, Fail(k) PROVE Goal
  <2> DEFINE b == (k = "info")
             e == [Cache!Failing(query[k]) EXCEPT !.error = b]
  <2>1. e \in Cache!Entries(AnswersTo(k)) /\ Same(query[k], e)
    BY <1>e, FailingSame
  <2>2. query' = [query EXCEPT ![k] = e]
    BY <1>11 DEF Fail
  <2>3. UNCHANGED <<serverVars, cardVars, post, mine, orderVars>>
    BY <1>11 DEF Fail
  <2> QED
    BY <2>1, <2>2, <2>3, <1>o
<1>12. ASSUME NEW p \in Posts, InitStanza(p) \/ RunBackup(p) \/ SubmitRestore(p) PROVE Goal
  <2>1. PICK kind \in {"stanza"} \cup Jobs : Send(p, kind)
    BY <1>12 DEF InitStanza, RunBackup, SubmitRestore, Jobs
  <2>2. post' = [post EXCEPT ![p] = [kind |-> kind, state |-> "sent", run |-> 0]]
    BY <2>1 DEF Send
  <2>3. NoNewRun
    BY <1>t, <2>2 DEF NoNewRun
  <2> QED
    BY <2>1, <2>3, <1>c DEF Send, ServerMoves, serverVars
<1>13. ASSUME NEW p \in Posts, ServeStart(p) PROVE Goal
  <2>1. /\ post[p].kind \in Jobs /\ JobStarts(post[p].kind) /\ UNCHANGED <<query, cardVars, orderVars>>
        /\ post' = [post EXCEPT ![p].state = "accepted", ![p].run = runs']
    BY <1>13 DEF ServeStart, Accept
  <2>2. /\ post'[p].kind = post[p].kind /\ post'[p].run = runs'
        /\ \A q \in Posts \ {p} : post'[q] = post[q]
    BY <1>t, <2>1 DEF PostShapes
  <2>3. RunAccepted(post[p].kind)
    BY <2>1, <2>2 DEF RunAccepted
  <2> QED
    BY <2>1, <2>3, <1>c DEF ServerMoves
<1>14. ASSUME NEW p \in Posts, ServeStanza(p) PROVE Goal
  <2>1. post' = [post EXCEPT ![p].state = "accepted", ![p].run = 0]
    BY <1>14 DEF ServeStanza, Accept
  <2>2. NoNewRun
    BY <1>t, <2>1 DEF NoNewRun, PostShapes
  <2> QED
    BY <1>14, <2>2, <1>c DEF ServeStanza, ServerMoves
<1>15. ASSUME NEW p \in Posts, Answer(p) PROVE NoNewRun
  BY <1>15, <1>t DEF Answer, NoNewRun, NoPost
<1>16. ASSUME NEW p \in Posts, PostAnswered(p) PROVE Goal
  <2>1. UNCHANGED <<serverVars, mounted>> /\ Answer(p) /\ post[p].state = "accepted"
    BY <1>16 DEF PostAnswered
  <2>2. CASE post[p].kind = "stanza"
    <3>1. InvalidateAll /\ UNCHANGED <<was, toasts, again>>
      BY <1>16, <2>2 DEF PostAnswered
    <3>2. StatusesKept
      BY <2>1, <3>1, <1>k, RefreshTyped DEF StatusesKept, Same
    <3> QED
      BY <2>1, <3>2, <1>15 DEF ServerMoves, serverVars
  <2>3. CASE post[p].kind # "stanza"
    <3> DEFINE j == post[p].kind
               v == [running |-> TRUE, last |-> post[p].run]
               e == Cache!SetData(query[j], v)
               c == [query EXCEPT ![j] = e]
    <3>1. j \in Jobs /\ v \in AnswersTo(j) /\ j \in Keys
      <4>1. j \in Jobs /\ post[p].run \in 0..MaxRuns
        BY <2>1, <2>3, <1>t DEF PostShapes
      <4> QED
        BY <4>1, <1>k DEF Status
    <3>2. /\ e \in Cache!Entries(AnswersTo(j)) /\ e.data = v
          /\ e.fetch = query[j].fetch /\ e.got = query[j].got
      BY <3>1, <1>e, SetDataShows
    <3>3. Caches(c) /\ c[j] = e /\ \A i \in Keys : i # j => c[i] = query[i]
      BY <1>t, <3>1, <3>2, CacheExcept
    <3>4. Rendered(c)
      BY <1>16, <2>3 DEF PostAnswered, Optimistic
    <3>5. Renders /\ \A i \in Jobs : query'[i] = c[i]
      <4> HIDE DEF c
      <4> QED
        BY <2>1, <3>3, <3>4, <1>r
    <3>6. query'[j] = e /\ \A i \in Jobs \ {j} : query'[i] = query[i]
      BY <1>k, <3>1, <3>3, <3>5
    <3>7. again \subseteq again' /\ Announced(j, post[p].run .. MaxRuns) \subseteq again'
      BY <1>16, <2>3 DEF PostAnswered
    <3>8. StatusSet(j)
      BY <2>1, <3>2, <3>5, <3>6, <3>7 DEF StatusSet, Answer
    <3> QED
      BY <2>1, <3>1, <3>6, <3>8 DEF OneStatus
  <2> QED
    BY <2>2, <2>3
<1>17. ASSUME NEW p \in Posts, PostFails(p) PROVE Goal
  BY <1>17, <1>15, <1>c DEF PostFails, ServerMoves, serverVars
<1>18. CASE OpenDialog \/ CloseDialog
  <2>1. UNCHANGED <<serverVars, query, mounted, was, toasts, post, mine, again>>
    BY <1>18 DEF OpenDialog, CloseDialog, SetDialog, orderVars
  <2>2. StatusesKept
    BY <2>1 DEF StatusesKept, Same, Quiet
  <2> QED
    BY <2>1, <2>2 DEF ServerMoves, NoNewRun, serverVars
<1>19. CASE UNCHANGED vars
  BY <1>19, <1>c DEF vars, ServerMoves, NoNewRun, serverVars
<1> QED
  BY <1>1, <1>2, <1>3, <1>4, <1>5, <1>6, <1>7, <1>8, <1>9, <1>10, <1>11, <1>12, <1>13, <1>14,
     <1>16, <1>17, <1>18, <1>19, <1>20 DEF Next

-------------------------------------------------------------------------------
(* Runs are over for good *)

\* The card follows the jobs it shows running, and has a status of those it follows.
CardShape ==
  /\ \A j \in Jobs : query[j].fetch = "served" => query[j].got \in Status
  /\ was # {} => mounted
  /\ mounted => ShownRunning \subseteq was
  /\ \A j \in was : query[j].data # None

LEMMA Statuses ==
  ASSUME TypeInv
  PROVE  /\ None \notin Status
         /\ job \in [Jobs -> Status] /\ runs \in Nat /\ newest \in Nat /\ MaxRuns \in Nat
         /\ \A j \in Jobs : /\ query[j].data \in Status \cup {None}
                            /\ query[j].got \in Status \cup {None}
                            /\ job[j].last \in Nat
         /\ \A p \in Posts : post[p] \in PostShapes /\ post[p].run \in 0..MaxRuns
         /\ toasts \in [Jobs \X Runs -> 0..2]
         /\ was \subseteq Jobs
<1>1. TypeOK /\ Caches(query) /\ post \in [Posts -> PostShapes] /\ MaxRuns \in Nat
      /\ None \notin Status
  BY ConstantsAssumption DEF TypeInv
<1>2. \A j \in Jobs : query[j] \in Cache!Entries(Status)
  BY <1>1 DEF Caches, AnswersTo, Keys, Jobs
<1>3. \A j \in Jobs : query[j].data \in Status \cup {None} /\ query[j].got \in Status \cup {None}
  BY <1>2 DEF Cache!Entries
<1>4. job \in [Jobs -> Status] /\ runs \in Nat /\ newest \in Nat
  BY <1>1 DEF TypeOK
<1>5. \A j \in Jobs : job[j].last \in Nat
  BY <1>1, <1>4 DEF Status
<1> QED
  BY <1>1, <1>3, <1>4, <1>5 DEF TypeOK, PostShapes

LEMMA RunningStatus ==
  ASSUME TypeInv, NEW p \in Posts
  PROVE  [running |-> TRUE, last |-> post[p].run] # None
<1>1. [running |-> TRUE, last |-> post[p].run] \in Status
  BY Statuses DEF Status
<1> QED
  BY <1>1, Statuses

LEMMA ShapeStep ==
  ASSUME TypeInv, TypeInv', CardShape, [Next]_vars
  PROVE  CardShape'
<1>a. ShownRunning = Shown(query) /\ ShownRunning' = Shown(query')
  BY DEF ShownRunning
<1>s. \A j \in Jobs : query'[j].data \in Status \cup {None}
  <2>1. Caches(query')
    BY DEF TypeInv
  <2>2. \A j \in Jobs : query'[j] \in Cache!Entries(Status)
    BY <2>1 DEF Caches, AnswersTo, Keys, Jobs
  <2> QED
    BY <2>2 DEF Cache!Entries
<1>w. /\ Shown(query') = {j \in Jobs : query'[j].data # None /\ query'[j].data.running}
      /\ Shown(query) = {j \in Jobs : query[j].data # None /\ query[j].data.running}
  BY DEF Shown
<1>j. was \subseteq Jobs
  BY Statuses
<1>1. CASE StatusesKept
  <2>1. \A j \in Jobs : query'[j].fetch = "served" => query'[j].got \in Status
    BY <1>1 DEF StatusesKept, Quiet, CardShape
  <2>2. CASE UNCHANGED <<mounted, was>> /\ \A j \in Jobs : Same(query[j], query'[j])
    <3>1. \A j \in Jobs : query'[j].data = query[j].data
      BY <2>2 DEF Same
    <3>2. Shown(query') = Shown(query)
      BY <1>w, <3>1
    <3> QED
      BY <1>a, <1>j, <2>1, <2>2, <3>1, <3>2 DEF CardShape
  <2>3. CASE mounted /\ ~mounted' /\ was' = {} /\ UNCHANGED query
    BY <2>1, <2>3 DEF CardShape
  <2>4. CASE ~mounted /\ mounted' /\ was' = Shown(query')
    BY <1>a, <1>s, <1>w, <2>1, <2>4 DEF CardShape
  <2> QED
    BY <1>1, <2>2, <2>3, <2>4 DEF StatusesKept
<1>2. ASSUME NEW k \in Jobs, OneStatus(k) PROVE CardShape'
  <2>o. \A j \in Jobs : j # k => query'[j] = query[j]
    BY <1>2 DEF OneStatus
  <2>1. CASE StatusRead(k)
    <3>1. \A j \in Jobs : query'[j].data = query[j].data
      BY <2>1, <2>o DEF StatusRead
    <3>2. Shown(query') = Shown(query)
      BY <1>w, <3>1
    <3>3. \A j \in Jobs : query'[j].fetch = "served" => query'[j].got \in Status
      BY <2>1, <2>o, Statuses DEF StatusRead, CardShape
    <3>4. UNCHANGED <<mounted, was>>
      BY <2>1 DEF StatusRead
    <3> QED
      BY <1>a, <1>j, <3>1, <3>2, <3>3, <3>4 DEF CardShape
  \* The status of k is one, and was' is rendered from what is shown.
  <2>2. ASSUME Renders, query'[k].data # None,
               query'[k].fetch = "served" => query'[k].got \in Status
        PROVE  CardShape'
    <3>1. \A j \in Jobs : query'[j].fetch = "served" => query'[j].got \in Status
      BY <2>2, <2>o DEF CardShape
    <3>2. \A j \in was : query'[j].data # None
      BY <2>2, <2>o, <1>j DEF CardShape
    <3>3. CASE ~mounted /\ UNCHANGED <<mounted, was>>
      BY <3>1, <3>3 DEF CardShape
    <3>4. CASE mounted /\ mounted' /\ was' = was \cup Shown(query')
      BY <1>a, <1>s, <1>w, <3>1, <3>2, <3>4 DEF CardShape
    <3>5. CASE mounted /\ mounted' /\ was' = {} /\ Shown(query') = {}
      BY <1>a, <3>1, <3>5 DEF CardShape
    <3> QED
      BY <2>2, <3>3, <3>4, <3>5 DEF Renders, Announces
  <2>3. CASE StatusArrives(k)
    BY <2>2, <2>3, Statuses DEF StatusArrives, CardShape
  <2>4. CASE StatusSet(k)
    <3>1. PICK p \in Posts : /\ query'[k].data = [running |-> TRUE, last |-> post[p].run]
                             /\ query'[k].fetch = query[k].fetch /\ query'[k].got = query[k].got
                             /\ Renders
      BY <2>4 DEF StatusSet
    <3>2. query'[k].data # None
      BY <3>1, RunningStatus
    <3> QED
      BY <2>2, <3>1, <3>2 DEF CardShape
  <2> QED
    BY <1>2, <2>1, <2>3, <2>4 DEF OneStatus
<1> QED
  BY <1>1, <1>2, StatusSteps

\* A status that is no earlier than the end of run n: later runs have larger numbers,
\* and a server that has just booted knows of none.
After(s, n) == s.last > n \/ (~s.running /\ s.last \in {0, n})

\* Run n of job j was started and is over.
Over(j, n) == n <= runs /\ After(job[j], n)

\* A status that was read at some time: its run was started, and is over if it says so.
WasTrue(j, s) == s.last <= runs /\ (~s.running /\ s.last # 0 => Over(j, s.last))

RunsInv ==
  /\ newest <= runs
  /\ \A j \in Jobs :
       /\ job[j].last <= runs
       /\ query[j].data # None => WasTrue(j, query[j].data)
       /\ query[j].fetch = "served" => WasTrue(j, query[j].got)
       /\ \A n \in Runs : toasts[<<j, n>>] > 0 => Over(j, n)
  /\ \A p \in Posts : post[p].run <= runs

\* What is over stays over: runs are numbered upwards.
LEMMA OverStays ==
  ASSUME TypeInv, RunsInv, ServerMoves
  PROVE  /\ runs <= runs' /\ newest' <= runs' /\ \A j \in Jobs : job'[j].last <= runs'
         /\ \A j \in Jobs, n \in Nat : Over(j, n) => Over(j, n)'
<1>t. job \in [Jobs -> Status] /\ runs \in Nat /\ newest \in Nat /\ \A j \in Jobs : job[j].last \in Nat
  BY Statuses
<1>r. newest <= runs /\ \A j \in Jobs : job[j].last <= runs
  BY DEF RunsInv
<1>1. CASE UNCHANGED <<job, runs, newest>>
  BY <1>1, <1>t, <1>r DEF Over, After
<1>2. ASSUME NEW i \in Jobs, JobStarts(i)
      PROVE  /\ runs <= runs' /\ newest' <= runs' /\ \A j \in Jobs : job'[j].last <= runs'
             /\ \A j \in Jobs, n \in Nat : Over(j, n) => Over(j, n)'
  <2>1. runs' = runs + 1 /\ newest' = newest
    BY <1>2 DEF JobStarts
  <2>2. job'[i] = [running |-> TRUE, last |-> runs + 1] /\ \A j \in Jobs : j # i => job'[j] = job[j]
    BY <1>2, <1>t, <2>1 DEF JobStarts
  <2>3. job'[i].last = runs + 1
    BY <2>2
  <2>4. \A j \in Jobs : job'[j].last <= runs + 1
    BY <1>t, <1>r, <2>2, <2>3
  <2>5. \A n \in Nat : n <= runs => n <= runs + 1 /\ job'[i].last > n
    BY <1>t, <2>3
  <2>6. \A j \in Jobs, n \in Nat : Over(j, n) => Over(j, n)'
    BY <1>t, <2>1, <2>2, <2>5 DEF Over, After
  <2>7. newest <= runs + 1 /\ runs <= runs + 1
    BY <1>t, <1>r
  <2> QED
    BY <2>1, <2>4, <2>6, <2>7
<1>3. ASSUME NEW i \in Jobs, job' = [job EXCEPT ![i].running = FALSE],
             newest' \in {newest, job[i].last}, UNCHANGED runs
      PROVE  /\ runs <= runs' /\ newest' <= runs' /\ \A j \in Jobs : job'[j].last <= runs'
             /\ \A j \in Jobs, n \in Nat : Over(j, n) => Over(j, n)'
  <2>1. \A j \in Jobs : job'[j].last = job[j].last
    BY <1>3, <1>t DEF Status
  <2>2. ~job'[i].running /\ \A j \in Jobs : j # i => job'[j] = job[j]
    BY <1>3, <1>t DEF Status
  <2>3. \A j \in Jobs : job'[j].running => job'[j] = job[j]
    BY <2>2
  <2>4. \A j \in Jobs, n \in Nat : Over(j, n) => Over(j, n)'
    BY <1>3, <1>t, <2>1, <2>3 DEF Over, After
  <2> QED
    BY <1>3, <1>t, <1>r, <2>1, <2>4
<1>4. CASE job' = [j \in Jobs |-> [running |-> FALSE, last |-> 0]] /\ UNCHANGED <<runs, newest>>
  <2>1. \A j \in Jobs : job'[j].last = 0 /\ ~job'[j].running
    BY <1>4
  <2>2. \A j \in Jobs, n \in Nat : Over(j, n) => Over(j, n)'
    BY <1>4, <2>1 DEF Over, After
  <2> QED
    BY <1>4, <1>t, <1>r, <2>1, <2>2
<1> QED
  BY <1>1, <1>2, <1>3, <1>4 DEF ServerMoves

LEMMA RunsStep ==
  ASSUME TypeInv, CardShape, CardShape', RunsInv, [Next]_vars
  PROVE  RunsInv'
<1>t. /\ job \in [Jobs -> Status] /\ runs \in Nat /\ \A j \in Jobs : job[j].last \in Nat
      /\ \A p \in Posts : post[p].run \in Nat
      /\ toasts \in [Jobs \X Runs -> 0..2] /\ None \notin Status /\ Runs \subseteq Nat
      /\ \A j \in Jobs : query[j].data # None => query[j].data \in Status
      /\ \A n \in Runs : n # 0
  BY Statuses DEF Runs
<1>l. \A s \in Status : s.last \in Nat
  BY Statuses DEF Status
<1>1. CASE StatusesKept /\ ServerMoves
  <2>1. /\ runs <= runs' /\ newest' <= runs' /\ \A j \in Jobs : job'[j].last <= runs'
        /\ \A j \in Jobs, n \in Nat : Over(j, n) => Over(j, n)'
        /\ runs' \in Nat
    <3>1. runs' \in Nat
      BY <1>1, <1>t DEF ServerMoves, JobStarts
    <3> QED
      BY <1>1, <3>1, OverStays
  <2>2. ASSUME NEW j \in Jobs, NEW s \in Status, WasTrue(j, s)
        PROVE  WasTrue(j, s)'
    <3>1. s.last \in Nat /\ s.last <= runs
      BY <2>2, <1>l DEF WasTrue
    <3>2. s.last <= runs'
      BY <1>t, <2>1, <3>1
    <3> QED
      BY <2>1, <2>2, <3>1, <3>2 DEF WasTrue
  <2>3. ASSUME NEW j \in Jobs, query'[j].data # None PROVE WasTrue(j, query[j].data)'
    <3>1. PICK s \in Status : query'[j].data = s /\ query[j].data = s /\ WasTrue(j, s)
      BY <1>1, <1>t, <2>3 DEF StatusesKept, Quiet, RunsInv
    <3> QED
      BY <2>2, <3>1 DEF WasTrue, Over, After
  <2>4. ASSUME NEW j \in Jobs, query'[j].fetch = "served" PROVE WasTrue(j, query[j].got)'
    <3>1. PICK s \in Status : query'[j].got = s /\ query[j].got = s /\ WasTrue(j, s)
      BY <1>1, <2>4 DEF StatusesKept, Quiet, RunsInv, CardShape
    <3> QED
      BY <2>2, <3>1 DEF WasTrue, Over, After
  <2>5. \A j \in Jobs, n \in Runs : toasts'[<<j, n>>] > 0 => Over(j, n)'
    BY <1>1, <1>t, <2>1 DEF StatusesKept, RunsInv
  <2>6. \A p \in Posts : post'[p].run <= runs'
    <3>1. ASSUME NEW p \in Posts, post'[p].run = 0 \/ post'[p].run = runs' \/ post'[p] = post[p]
          PROVE  post'[p].run <= runs'
      BY <3>1, <2>1, <1>t DEF RunsInv
    <3>2. \A p \in Posts : post'[p].run = 0 \/ post'[p].run = runs' \/ post'[p] = post[p]
      BY <1>1 DEF ServerMoves, NoNewRun, RunAccepted
    <3> QED
      BY <3>1, <3>2
  <2> QED
    BY <2>1, <2>3, <2>4, <2>5, <2>6 DEF RunsInv
<1>2. ASSUME NEW k \in Jobs, OneStatus(k) PROVE RunsInv'
  <2>o. /\ \A j \in Jobs : j # k => query'[j] = query[j]
        /\ job' = job /\ runs' = runs /\ newest' = newest
    BY <1>2 DEF OneStatus, serverVars
  <2>1. ASSUME query'[k].data # None => WasTrue(k, query'[k].data),
               query'[k].fetch = "served" => WasTrue(k, query'[k].got),
               \A p \in Posts : post'[p].run <= runs,
               \A j \in Jobs, n \in Runs : toasts'[<<j, n>>] > 0 => Over(j, n)
        PROVE  RunsInv'
    <3>1. ASSUME NEW j \in Jobs
          PROVE  /\ query'[j].data # None => WasTrue(j, query'[j].data)
                 /\ query'[j].fetch = "served" => WasTrue(j, query'[j].got)
      BY <2>1, <2>o DEF RunsInv
    <3>2. ASSUME NEW j \in Jobs
          PROVE  /\ query'[j].data # None => WasTrue(j, query[j].data)'
                 /\ query'[j].fetch = "served" => WasTrue(j, query[j].got)'
      BY <3>1, <2>o DEF WasTrue, Over, After
    <3> QED
      BY <2>1, <2>o, <3>2 DEF RunsInv, Over, After
  \* What a rendering announces is over.
  <2>2. ASSUME Renders, \A j \in Jobs : query'[j].data # None => WasTrue(j, query'[j].data)
        PROVE  \A j \in Jobs, n \in Runs : toasts'[<<j, n>>] > 0 => Over(j, n)
    <3> SUFFICES ASSUME NEW j \in Jobs, NEW n \in Runs, toasts'[<<j, n>>] > 0
                 PROVE  Over(j, n)
      OBVIOUS
    <3>1. CASE toasts'[<<j, n>>] = toasts[<<j, n>>]
      BY <3>1 DEF RunsInv
    <3>2. CASE toasts'[<<j, n>>] # toasts[<<j, n>>]
      <4>1. Shown(query') = {} /\ j \in was /\ query'[j].data.last = n
        BY <2>2, <3>2 DEF Renders, Announces
      <4>2. query'[j].data # None
        <5>1. query[j].data # None
          BY <4>1 DEF CardShape
        <5>2. j # k => query'[j].data # None
          BY <2>o, <5>1
        <5>3. j = k => query'[j].data # None
          BY <1>2, <1>t, <5>1, RunningStatus
             DEF OneStatus, StatusRead, StatusArrives, StatusSet, CardShape
        <5> QED
          BY <5>2, <5>3
      <4>3. ~query'[j].data.running
        BY <4>1, <4>2 DEF Shown
      <4> QED
        BY <2>2, <4>1, <4>2, <4>3, <1>t DEF WasTrue
    <3> QED
      BY <3>1, <3>2
  <2>3. CASE StatusRead(k)
    <3>1. WasTrue(k, job[k])
      <4>1. job[k] \in Status /\ job[k].last <= runs
        BY <1>t DEF RunsInv
      <4> QED
        BY <4>1 DEF WasTrue, Over, After
    <3>2. UNCHANGED <<post, toasts>> /\ query'[k].data = query[k].data /\ query'[k].got = job[k]
      BY <2>3 DEF StatusRead
    <3>3. /\ query'[k].data # None => WasTrue(k, query'[k].data)
          /\ \A p \in Posts : post'[p].run <= runs
          /\ \A j \in Jobs, n \in Runs : toasts'[<<j, n>>] > 0 => Over(j, n)
      BY <3>2 DEF RunsInv
    <3> QED
      BY <2>1, <3>1, <3>2, <3>3
  <2>4. CASE StatusArrives(k)
    <3>1. WasTrue(k, query'[k].data) /\ query'[k].fetch = "none" /\ Renders /\ post' = post
      BY <2>4 DEF StatusArrives, RunsInv
    <3>2. \A j \in Jobs : query'[j].data # None => WasTrue(j, query'[j].data)
      BY <2>o, <3>1 DEF RunsInv
    <3>3. \A p \in Posts : post'[p].run <= runs
      BY <3>1 DEF RunsInv
    <3> QED
      BY <2>1, <2>2, <3>1, <3>2, <3>3
  <2>5. CASE StatusSet(k)
    <3>1. PICK p \in Posts : /\ query'[k].data = [running |-> TRUE, last |-> post[p].run]
                             /\ query'[k].fetch = query[k].fetch /\ query'[k].got = query[k].got
                             /\ post' = [post EXCEPT ![p] = NoPost]
                             /\ Renders
      BY <2>5 DEF StatusSet
    <3>2. query'[k].data.running /\ query'[k].data.last = post[p].run /\ post[p].run <= runs
      BY <3>1 DEF RunsInv
    <3>3. WasTrue(k, query'[k].data)
      BY <3>2 DEF WasTrue
    <3>4. \A j \in Jobs : query'[j].data # None => WasTrue(j, query'[j].data)
      BY <2>o, <3>3 DEF RunsInv
    <3>5. \A q \in Posts : post'[q].run <= runs
      <4>1. post \in [Posts -> PostShapes]
        BY DEF TypeInv
      <4> QED
        BY <1>t, <3>1, <4>1 DEF RunsInv, NoPost
    <3>6. query'[k].fetch = "served" => WasTrue(k, query'[k].got)
      BY <3>1 DEF RunsInv
    <3> QED
      BY <2>1, <2>2, <3>1, <3>3, <3>4, <3>5, <3>6
  <2> QED
    BY <1>2, <2>3, <2>4, <2>5 DEF OneStatus
<1> QED
  BY <1>1, <1>2, StatusSteps

-------------------------------------------------------------------------------
(* The list of backups *)

\* What the server answers when it is asked for the list.
TheList == IF stanza THEN newest ELSE NoStanza

\* What a step does to the entry of the list: it is asked for, joined, lost, read at
\* the server, or answered.
InfoMoves ==
  LET q == query["info"]
      e == query'["info"] IN
  \/ e = q /\ joined' = joined
  \/ e.fetch = "sent" /\ e.data \in {q.data, None}
  \/ e = q /\ joined'
  \/ e.fetch = "none" /\ e.error /\ e.data = q.data
  \/ /\ e.fetch = "served" /\ e.got = TheList /\ e.data = q.data
     /\ UNCHANGED <<serverVars, toasts, joined>>
  \/ /\ q.fetch = "served" /\ e.fetch = "none" /\ e.data = q.got
     /\ UNCHANGED <<serverVars, toasts, joined>>

LEMMA InfoSteps ==
  ASSUME TypeInv, [Next]_vars
  PROVE  InfoMoves
<1>t. Caches(query) /\ post \in [Posts -> PostShapes]
  BY DEF TypeInv
<1>k. Jobs \subseteq Keys /\ "info" \in Keys /\ "info" \notin Jobs
  BY DEF Jobs, Keys
<1>e. \A k \in Keys : query[k] \in Cache!Entries(AnswersTo(k))
  BY <1>t DEF Caches
<1>s. query'["info"] = query["info"] /\ joined' = joined => InfoMoves
  BY DEF InfoMoves
\* The entry of a status changes.
<1>o. ASSUME NEW k \in Jobs, NEW e, query' = [query EXCEPT ![k] = e], joined' = joined
      PROVE  InfoMoves
  BY <1>o, <1>t, <1>k, <1>s DEF Caches
<1>i. ASSUME query'["info"].fetch = "sent", Same(query["info"], query'["info"]) PROVE InfoMoves
  BY <1>i DEF InfoMoves, Same
\* The list is renewed, or left alone.
<1>n. ASSUME query'["info"] = query["info"] \/ query'["info"].fetch = "sent", RenewsList,
             Quiet(query["info"], query'["info"])
      PROVE  InfoMoves
  <2>1. CASE query'["info"].fetch = "sent"
    BY <1>n, <2>1 DEF InfoMoves, Quiet
  <2>2. CASE query'["info"] = query["info"] /\ query'["info"].fetch # "sent"
    <3>1. joined' = joined
      BY <1>n, <2>2 DEF RenewsList, TypeInv, TypeOK
    <3> QED
      BY <2>2, <3>1, <1>s
  <2> QED
    BY <1>n, <2>1, <2>2
<1>r. ASSUME NEW k \in Jobs, NEW e \in Cache!Entries(AnswersTo(k)), Rendered([query EXCEPT ![k] = e])
      PROVE  InfoMoves
  <2> DEFINE c == [query EXCEPT ![k] = e]
  <2>1. Caches(c) /\ c["info"] = query["info"]
    BY <1>t, <1>k, CacheExcept
  <2>2. \/ query'["info"] = c["info"] /\ joined' = joined
        \/ query'["info"] = Cache!Invalidated(c["info"]) /\ joined' = FirstListRead(c)
    <3>1. Rendered(c)
      BY <1>r
    <3> HIDE DEF c
    <3> QED
      BY <2>1, <3>1, RenderedShows
  <2>3. FirstListRead(c) = FirstListRead(query)
    BY <2>1 DEF FirstListRead
  <2>4. CASE query'["info"] = query["info"] /\ joined' = joined
    BY <2>4, <1>s
  <2>5. CASE query'["info"] = Cache!Invalidated(query["info"]) /\ joined' = FirstListRead(query)
    <3>1. /\ Same(query["info"], query'["info"])
          /\ \/ query'["info"].fetch = "sent"
             \/ query'["info"] = query["info"] /\ FirstListRead(query)
      BY <2>5, <1>e, <1>k, InvalidatedSame DEF FirstListRead
    <3>2. CASE query'["info"].fetch = "sent"
      BY <3>1, <3>2, <1>i
    <3>3. CASE query'["info"] = query["info"] /\ FirstListRead(query)
      BY <2>5, <3>3 DEF InfoMoves
    <3> QED
      BY <3>1, <3>2, <3>3
  <2> QED
    BY <2>1, <2>2, <2>3, <2>4, <2>5
<1>1. CASE UNCHANGED <<query, joined>>
  BY <1>1, <1>s
<1>2. CASE Mount
  <2>1. query'["info"] \in Cache!OnMount(query["info"])
    BY <1>2, MountTyped
  <2>2. Quiet(query["info"], query'["info"])
        /\ (query'["info"].fetch = "sent" \/ query'["info"] = query["info"])
    BY <1>e, <1>k, <2>1, OnMountQuiet
  <2>3. RenewsList
    BY <1>2 DEF Mount
  <2> QED
    BY <2>2, <2>3, <1>n
<1>3. ASSUME InvalidateAll, RenewsList PROVE InfoMoves
  <2>1. Same(query["info"], query'["info"])
        /\ (query'["info"] = query["info"] \/ query'["info"].fetch = "sent")
    BY <1>3, <1>k, RefreshTyped
  <2> QED
    BY <1>3, <2>1, <1>n DEF Same
<1>4. CASE ServeInfo
  <2> DEFINE e == Cache!Served(query["info"], TheList)
  <2>1. TheList \in Lists /\ Lists = AnswersTo("info")
    BY DEF Lists, AnswersTo, TypeInv, TypeOK, TheList
  <2>2. e.data = query["info"].data /\ e.fetch = "served" /\ e.got = TheList
    BY <1>e, <1>k, <2>1, ServedGets
  <2>3. query'["info"] = e
    BY <1>4, <1>t, <1>k DEF ServeInfo, Caches, TheList
  <2> QED
    BY <1>4, <2>2, <2>3 DEF ServeInfo, InfoMoves, cardVars, orderVars
<1>10. CASE ArriveInfo
  <2> DEFINE e == Cache!Answered(query["info"])
  <2>1. e.data = query["info"].got /\ e.fetch = "none"
    BY <1>e, <1>k, AnsweredShows
  <2>2. query'["info"] = e
    BY <1>10, <1>t, <1>k DEF ArriveInfo, Caches
  <2> QED
    BY <1>10, <2>1, <2>2 DEF ArriveInfo, InfoMoves, cardVars, orderVars
<1>5. ASSUME NEW k \in Jobs, Poll(k) \/ Serve(k) PROVE InfoMoves
  BY <1>5, <1>o DEF Poll, Serve, orderVars
<1>6. ASSUME NEW k \in Jobs, Arrive(k) PROVE InfoMoves
  <2>1. Cache!Answered(query[k]) \in Cache!Entries(AnswersTo(k))
    BY <1>e, <1>k, AnsweredShows
  <2> QED
    BY <1>6, <2>1, <1>r DEF Arrive
<1>7. ASSUME NEW k \in Keys, Fail(k) PROVE InfoMoves
  <2>1. CASE k = "info"
    <3>1. \E b \in BOOLEAN : b /\ query' = [query EXCEPT ![k] = [Cache!Failing(query[k]) EXCEPT !.error = b]]
      <4>1. (k = "info") = TRUE
        BY <2>1
      <4> QED
        BY <1>7, <4>1 DEF Fail
    <3>2. PICK b \in BOOLEAN :
            b /\ query' = [query EXCEPT ![k] = [Cache!Failing(query[k]) EXCEPT !.error = b]]
      BY <3>1
    <3> DEFINE e == [Cache!Failing(query[k]) EXCEPT !.error = b]
    <3>3. Same(query[k], e) /\ e.error = b /\ e.fetch = "none"
      BY <1>e, FailingSame
    <3>4. query'["info"] = e
      BY <2>1, <3>2, <1>t, <1>k DEF Caches
    <3> QED
      BY <2>1, <3>2, <3>3, <3>4 DEF InfoMoves, Same
  <2>2. CASE k # "info"
    <3>1. k \in Jobs
      BY <2>2 DEF Keys
    <3> QED
      BY <1>7, <3>1, <1>o DEF Fail, orderVars
  <2> QED
    BY <2>1, <2>2
<1>8. ASSUME NEW p \in Posts, PostAnswered(p) PROVE InfoMoves
  <2>1. CASE post[p].kind = "stanza"
    BY <1>8, <2>1, <1>3 DEF PostAnswered
  <2>2. CASE post[p].kind # "stanza"
    <3> DEFINE j == post[p].kind
               v == [running |-> TRUE, last |-> post[p].run]
               e == Cache!SetData(query[j], v)
    <3>1. j \in Jobs /\ post[p].run \in 0..MaxRuns
      BY <1>8, <2>2, <1>t DEF PostAnswered, PostShapes
    <3>2. AnswersTo(j) = Status /\ v \in Status
      BY <3>1, <1>k DEF AnswersTo, Status
    <3>3. e \in Cache!Entries(AnswersTo(j))
      BY <3>1, <3>2, <1>e, <1>k, SetDataShows
    <3>4. Rendered([query EXCEPT ![j] = e])
      BY <1>8, <2>2 DEF PostAnswered, Optimistic
    <3> QED
      BY <3>1, <3>3, <3>4, <1>r
  <2> QED
    BY <2>1, <2>2
<1>9. CASE Refresh
  BY <1>9, <1>3 DEF Refresh
<1> QED
  <2>1. CASE UNCHANGED vars
    BY <2>1, <1>1 DEF vars, orderVars
  <2>2. CASE Next
    <3>1. CASE UNCHANGED <<query, joined>>
      BY <3>1, <1>1
    <3>2. CASE ~UNCHANGED <<query, joined>>
      BY <2>2, <3>2, <1>2, <1>4, <1>5, <1>6, <1>7, <1>8, <1>9, <1>10
         DEF Next, OtherStarts, JobEnds, Crash, Leave, InitStanza, RunBackup, SubmitRestore, Send,
             ServeStart, ServeStanza, PostFails, OpenDialog, CloseDialog, SetDialog, orderVars
    <3> QED
      BY <3>1, <3>2
  <2> QED
    BY <2>1, <2>2

\* The list that is there when a request ends has n, or there is only an error.
Coming(q, n) ==
  \/ q.fetch = "sent"
  \/ q.fetch = "served" /\ q.got = n
  \/ q.fetch = "none" /\ (q.error \/ q.data = n)

\* Jobs, their results and the list come after the stanza; and after a backup was
\* announced that has not been followed by another, the list is under way, lost or there.
ListInv ==
  /\ dialog => stanza
  /\ Listed \in Nat => stanza
  /\ query["info"].fetch = "served" /\ query["info"].got \in Nat => stanza
  /\ \A p \in Posts : post[p].kind \in Jobs => stanza
  /\ job["backup"].running => stanza
  /\ newest # 0 => stanza
  /\ \A n \in Runs : toasts[<<"backup", n>>] > 0 /\ newest = n /\ ~joined =>
       Coming(query["info"], n)

\* Nobody can act on the card before the stanza is there.
LEMMA StanzaFirst ==
  ASSUME TypeInv, ListInv, [Next]_vars
  PROVE  /\ stanza => stanza'
         /\ dialog' => stanza'
         /\ \A p \in Posts : post'[p].kind \in Jobs => stanza'
         /\ job'["backup"].running => stanza'
         /\ newest' # 0 => stanza'
<1>t. /\ post \in [Posts -> PostShapes] /\ job \in [Jobs -> Status] /\ stanza \in BOOLEAN
      /\ dialog \in BOOLEAN /\ "backup" \in Jobs
  BY DEF TypeInv, TypeOK, Jobs
<1> DEFINE Goal == /\ stanza => stanza'
                   /\ dialog' => stanza'
                   /\ \A p \in Posts : post'[p].kind \in Jobs => stanza'
                   /\ job'["backup"].running => stanza'
                   /\ newest' # 0 => stanza'
<1>g. ASSUME stanza' PROVE Goal
  BY <1>g
\* Without a stanza nothing of this changes.
<1>u. ASSUME stanza' = stanza, dialog' => dialog, \A p \in Posts : post'[p].kind \in Jobs => post[p].kind \in Jobs,
             job'["backup"].running => job["backup"].running, newest' = newest
      PROVE  Goal
  BY <1>u DEF ListInv
<1>a. CanAct => stanza
  BY DEF CanAct, Panel, ListInv
<1>p. ASSUME NEW p \in Posts, Answer(p)
      PROVE  \A q \in Posts : post'[q].kind \in Jobs => post[q].kind \in Jobs
  BY <1>p, <1>t DEF Answer, NoPost, Jobs
<1>1. ASSUME NEW j \in Jobs, OtherStarts(j) PROVE Goal
  BY <1>1, <1>g DEF OtherStarts, JobStarts
<1>2. ASSUME NEW j \in Jobs, JobEnds(j) PROVE Goal
  <2>1. /\ job[j].running /\ job' = [job EXCEPT ![j].running = FALSE]
        /\ UNCHANGED <<stanza, dialog, post>>
    BY <1>2 DEF JobEnds, cardVars
  <2>2. job'["backup"].running => job["backup"].running
    BY <2>1, <1>t DEF Status
  <2>3. CASE j = "backup"
    BY <2>1, <2>3, <1>g DEF ListInv
  <2>4. CASE j # "backup"
    BY <1>2, <2>1, <2>2, <2>4, <1>u DEF JobEnds
  <2> QED
    BY <2>3, <2>4
<1>3. CASE Crash
  BY <1>3, <1>t, <1>u DEF Crash, cardVars
<1>4. CASE Mount \/ Leave \/ Refresh \/ ServeInfo \/ ArriveInfo
  BY <1>4, <1>u DEF Mount, Leave, Refresh, ServeInfo, ArriveInfo, cardVars, serverVars
<1>5. ASSUME NEW k \in Keys, Poll(k) \/ Serve(k) \/ Arrive(k) \/ Fail(k) PROVE Goal
  BY <1>5, <1>u DEF Poll, Serve, Arrive, Fail, cardVars, serverVars
<1>6. ASSUME NEW p \in Posts, InitStanza(p) PROVE Goal
  <2>1. post' = [post EXCEPT ![p] = [kind |-> "stanza", state |-> "sent", run |-> 0]]
        /\ UNCHANGED <<serverVars, cardVars>>
    BY <1>6 DEF InitStanza, Send
  <2>2. \A q \in Posts : post'[q].kind \in Jobs => post[q].kind \in Jobs
    BY <2>1, <1>t DEF Jobs
  <2> QED
    BY <2>1, <2>2, <1>u DEF serverVars, cardVars
<1>7. ASSUME NEW p \in Posts, RunBackup(p) \/ SubmitRestore(p) PROVE Goal
  BY <1>7, <1>a, <1>g DEF RunBackup, SubmitRestore, Send, serverVars, ListInv
<1>8. ASSUME NEW p \in Posts, ServeStart(p) PROVE Goal
  BY <1>8, <1>g DEF ServeStart, JobStarts, ListInv
<1>9. ASSUME NEW p \in Posts, ServeStanza(p) PROVE Goal
  BY <1>9, <1>g DEF ServeStanza
<1>10. ASSUME NEW p \in Posts, PostAnswered(p) \/ PostFails(p) PROVE Goal
  <2>1. (dialog' => dialog) /\ Answer(p) /\ UNCHANGED serverVars
    BY <1>10, <1>t DEF PostAnswered, PostFails, cardVars
  <2>2. \A q \in Posts : post'[q].kind \in Jobs => post[q].kind \in Jobs
    BY <2>1, <1>p
  <2> QED
    BY <2>1, <2>2, <1>u DEF serverVars
<1>11. CASE OpenDialog
  BY <1>11, <1>a, <1>g DEF OpenDialog, SetDialog, serverVars
<1>12. CASE CloseDialog
  BY <1>12, <1>u DEF CloseDialog, SetDialog, serverVars
<1>13. CASE UNCHANGED vars
  BY <1>13, <1>u DEF vars, serverVars, cardVars
<1> QED
  BY <1>1, <1>2, <1>3, <1>4, <1>5, <1>6, <1>7, <1>8, <1>9, <1>10, <1>11, <1>12, <1>13 DEF Next, Keys

LEMMA ListStep ==
  ASSUME TypeInv, RunsInv, ListInv, [Next]_vars
  PROVE  ListInv'
<1>t. /\ job \in [Jobs -> Status] /\ newest \in Nat /\ None \notin Nat /\ NoStanza \notin Nat
      /\ toasts \in [Jobs \X Runs -> 0..2] /\ "backup" \in Jobs /\ \A n \in Runs : n # 0
  BY Statuses, ConstantsAssumption DEF Jobs, Runs
<1>i. InfoMoves /\ Listed = query["info"].data /\ Listed' = query'["info"].data
  BY InfoSteps DEF Listed
<1>s. /\ stanza => stanza'
      /\ newest # 0 => stanza
      /\ query["info"].data \in Nat => stanza
      /\ query["info"].fetch = "served" /\ query["info"].got \in Nat => stanza
  BY <1>i, StanzaFirst DEF ListInv
<1>l. TheList \in Nat => stanza
  BY <1>t DEF TheList
<1>1. /\ Listed' \in Nat => stanza'
      /\ query'["info"].fetch = "served" /\ query'["info"].got \in Nat => stanza'
  BY <1>t, <1>i, <1>s, <1>l DEF InfoMoves
<1>2. ASSUME NEW n \in Runs, toasts'[<<"backup", n>>] > 0, newest' = n, ~joined'
      PROVE  Coming(query'["info"], n)
  <2>1. CASE toasts'[<<"backup", n>>] # toasts[<<"backup", n>>]
    <3>1. Announces /\ was # {}
      BY <1>t, <2>1, StatusSteps
         DEF StatusesKept, OneStatus, StatusRead, StatusArrives, StatusSet, Renders, Announces
    <3> QED
      BY <1>2, <3>1 DEF Announces, Coming
  <2>2. CASE toasts'[<<"backup", n>>] = toasts[<<"backup", n>>] /\ newest = n
    <3>1. ~joined => Coming(query["info"], n)
      BY <1>2, <2>2 DEF ListInv
    <3>2. n # 0 /\ stanza /\ TheList = n
      BY <1>t, <1>s, <2>2 DEF TheList
    <3> QED
      BY <1>2, <1>i, <3>1, <3>2 DEF InfoMoves, Coming
  <2>3. CASE toasts'[<<"backup", n>>] = toasts[<<"backup", n>>] /\ newest # n
    <3>1. Over("backup", n)
      BY <1>2, <1>t, <2>3 DEF RunsInv
    <3>2. job["backup"].running /\ job["backup"].last = n
      BY <1>2, <2>3, StatusSteps DEF ServerMoves, JobStarts, OneStatus, serverVars
    <3> QED
      BY <1>t, <3>1, <3>2 DEF Over, After, Runs
  <2> QED
    BY <2>1, <2>2, <2>3
<1> QED
  BY <1>1, <1>2, <1>i, StanzaFirst DEF ListInv

\* A card that has announced a successful backup shows it once the list is there, as long
\* as no other has followed: the list is asked for anew, or read after the announcement;
\* except the first list, if it was read already and is still under way.
THEOREM ListShowsBackup == Spec => []ListCatchesUp
<1>1. Init => CardShape /\ RunsInv /\ ListInv
  <2> SUFFICES ASSUME Init PROVE CardShape /\ RunsInv /\ ListInv
    OBVIOUS
  <2>1. \A k \in Keys : query[k] = Cache!Empty /\ query[k].fetch = "none" /\ query[k].data = None
    BY DEF Init, Cache!Empty
  <2>2. Jobs \subseteq Keys /\ "info" \in Keys /\ "backup" \in Jobs
    BY DEF Keys, Jobs
  <2>3. CardShape
    BY <2>1, <2>2 DEF Init, CardShape, ShownRunning, Shown
  <2>4. RunsInv
    BY <2>1, <2>2 DEF Init, RunsInv, NoPost
  <2>5. ListInv
    BY <2>1, <2>2, ConstantsAssumption DEF Init, ListInv, Listed, NoPost, Jobs, Coming
  <2> QED
    BY <2>3, <2>4, <2>5
<1>2. TypeInv /\ TypeInv' /\ CardShape /\ [Next]_vars => CardShape'
  BY ShapeStep
<1>3. TypeInv /\ CardShape /\ CardShape' /\ RunsInv /\ [Next]_vars => RunsInv'
  BY RunsStep
<1>4. TypeInv /\ RunsInv /\ ListInv /\ [Next]_vars => ListInv'
  BY ListStep
<1>5. ListInv => ListCatchesUp
  BY DEF ListInv, ListCatchesUp, Coming, Listed, Cache!Fetching
<1> QED
  BY <1>1, <1>2, <1>3, <1>4, <1>5, TypeInvariant, PTL DEF Spec

-------------------------------------------------------------------------------
(* Announcements *)

Followed(j) == j \in was \/ j \in ShownRunning
Answering(j) == query[j].fetch = "served"
IdleAt(j, n) == query[j].data # None /\ ~query[j].data.running /\ query[j].data.last = n

\* An answer under way was read after the end of n; if it does not name n, the server
\* will not either.
ReadAfter(j, n) ==
  Answering(j) =>
    After(query[j].got, n) /\ (query[j].got.last # n => job[j].last # n)

\* A card that follows the job does not show n; and an answer can bring n back only by
\* overtaking a run that is shown.
Unseen(j, n) ==
  Followed(j) =>
    \/ query[j].data.last > n
    \/ /\ query[j].data.last < n /\ job[j].last # n
       /\ Answering(j) => query[j].got.last # n

\* The runs of job j whose end was announced, and those the card shows at their end, are
\* over for its queries too; and what was announced is not seen again.
OnceInv ==
  /\ \A j \in Jobs, n \in Runs : toasts[<<j, n>>] > 1 => <<j, n>> \in again
  /\ \A j \in Jobs, n \in Runs : toasts[<<j, n>>] > 0 \/ IdleAt(j, n) => ReadAfter(j, n)
  /\ \A j \in Jobs, n \in Runs :
       toasts[<<j, n>>] > 0 /\ <<j, n>> \notin again => Unseen(j, n)

\* The server's steps: a job that is not at run n does not get there again.
LEMMA LastStays ==
  ASSUME TypeInv, RunsInv, ServerMoves
  PROVE  \A j \in Jobs, n \in Runs : n <= runs /\ job[j].last # n => job'[j].last # n
<1>t. job \in [Jobs -> Status] /\ runs \in Nat /\ Runs \subseteq Nat \ {0}
  BY Statuses DEF Runs
<1> SUFFICES ASSUME NEW j \in Jobs, NEW n \in Runs, n <= runs, job[j].last # n
             PROVE  job'[j].last # n
  OBVIOUS
<1>1. CASE job' = job
  BY <1>1
<1>2. ASSUME NEW i \in Jobs, JobStarts(i) PROVE job'[j].last # n
  <2>1. runs' = runs + 1 /\ job' = [job EXCEPT ![i] = [running |-> TRUE, last |-> runs']]
    BY <1>2 DEF JobStarts
  <2>2. job'[j] = job[j] \/ job'[j].last = runs + 1
    BY <1>t, <2>1
  <2> QED
    BY <1>t, <2>2
<1>3. ASSUME NEW i \in Jobs, job' = [job EXCEPT ![i].running = FALSE] PROVE job'[j].last # n
  BY <1>t, <1>3 DEF Status
<1>4. CASE job' = [i \in Jobs |-> [running |-> FALSE, last |-> 0]]
  BY <1>t, <1>4
<1> QED
  BY <1>1, <1>2, <1>3, <1>4 DEF ServerMoves

\* What OnceInv is about, of a step in which the card learns nothing.
LEMMA KeptFollows ==
  ASSUME StatusesKept, NEW j \in Jobs
  PROVE  /\ UNCHANGED <<toasts, again>>
         /\ Followed(j)' => Followed(j) /\ query'[j].data = query[j].data
         /\ Answering(j)' => Answering(j) /\ query'[j].got = query[j].got
         /\ query'[j].data \in {query[j].data, None}
<1>1. /\ UNCHANGED <<toasts, again>> /\ query'[j].data \in {query[j].data, None}
      /\ Answering(j)' => Answering(j) /\ query'[j].got = query[j].got
  BY DEF StatusesKept, Quiet, Answering
<1>2. j \in ShownRunning' => j \in ShownRunning /\ query'[j].data = query[j].data
  BY <1>1 DEF ShownRunning, Shown
<1>3. CASE UNCHANGED <<mounted, was>> /\ \A i \in Jobs : Same(query[i], query'[i])
  BY <1>1, <1>2, <1>3 DEF Same, Followed
<1>4. CASE was' = {} /\ UNCHANGED query
  BY <1>1, <1>2, <1>4 DEF Followed
<1>5. CASE was' = Shown(query')
  BY <1>1, <1>2, <1>5 DEF Followed, ShownRunning
<1> QED
  BY <1>3, <1>4, <1>5 DEF StatusesKept

\* Runs that were announced, or are shown at their end, are over at the server.
LEMMA EndedRuns ==
  ASSUME TypeInv, RunsInv, NEW j \in Jobs, NEW n \in Runs, toasts[<<j, n>>] > 0 \/ IdleAt(j, n)
  PROVE  Over(j, n)
BY DEF RunsInv, IdleAt, WasTrue, Runs

LEMMA OnceKept ==
  ASSUME TypeInv, RunsInv, OnceInv, StatusesKept, ServerMoves
  PROVE  OnceInv'
<1>1. ASSUME NEW j \in Jobs, NEW n \in Runs, toasts[<<j, n>>] > 0 \/ IdleAt(j, n)
      PROVE  n <= runs /\ (job[j].last # n => job'[j].last # n)
  BY <1>1, EndedRuns, LastStays DEF Over
<1>2. ASSUME NEW j \in Jobs, NEW n \in Runs, toasts'[<<j, n>>] > 0 \/ IdleAt(j, n)'
      PROVE  ReadAfter(j, n)'
  <2>1. toasts[<<j, n>>] > 0 \/ IdleAt(j, n)
    BY <1>2, KeptFollows DEF IdleAt
  <2>2. ReadAfter(j, n)
    BY <2>1 DEF OnceInv
  <2> QED
    BY <1>1, <2>1, <2>2, KeptFollows DEF ReadAfter, After
<1>3. ASSUME NEW j \in Jobs, NEW n \in Runs, toasts'[<<j, n>>] > 0, <<j, n>> \notin again'
      PROVE  Unseen(j, n)'
  <2>1. toasts[<<j, n>>] > 0 /\ <<j, n>> \notin again
    BY <1>3, KeptFollows
  <2>2. Unseen(j, n)
    BY <2>1 DEF OnceInv
  <2> QED
    BY <1>1, <2>1, <2>2, KeptFollows DEF Unseen
<1>4. \A j \in Jobs, n \in Runs : toasts'[<<j, n>>] > 1 => <<j, n>> \in again'
  BY KeptFollows DEF OnceInv
<1> QED
  BY <1>2, <1>3, <1>4 DEF OnceInv

\* The steps of one status leave the server alone, and the status of the other job.
LEMMA OneKept ==
  ASSUME NEW k \in Jobs, OneStatus(k)
  PROVE  /\ UNCHANGED <<job, runs, newest>>
         /\ \A j \in Jobs : j # k => query'[j] = query[j]
         /\ \A j \in Jobs : j # k =>
              (Answering(j)' <=> Answering(j)) /\ (j \in ShownRunning' <=> j \in ShownRunning)
BY DEF OneStatus, serverVars, Answering, ShownRunning, Shown

LEMMA OnceRead ==
  ASSUME TypeInv, RunsInv, OnceInv, NEW k \in Jobs, OneStatus(k), StatusRead(k)
  PROVE  OnceInv'
<1>1. /\ query'[k].data = query[k].data /\ query'[k].got = job[k]
      /\ UNCHANGED <<mounted, was, toasts, post, again>>
  BY DEF StatusRead
<1>2. UNCHANGED <<job, runs>> /\ \A j \in Jobs : j # k => query'[j] = query[j]
  BY OneKept
<1>3. \A j \in Jobs : query'[j].data = query[j].data
  BY <1>1, <1>2
<1>4. ShownRunning' = ShownRunning
  BY <1>3 DEF ShownRunning, Shown
<1>5. ASSUME NEW j \in Jobs, NEW n \in Runs, toasts'[<<j, n>>] > 0 \/ IdleAt(j, n)'
      PROVE  ReadAfter(j, n)'
  <2>1. toasts[<<j, n>>] > 0 \/ IdleAt(j, n)
    BY <1>1, <1>3, <1>5 DEF IdleAt
  <2>2. ReadAfter(j, n) /\ After(job[j], n)
    BY <2>1, EndedRuns DEF OnceInv, Over
  <2>3. CASE j = k
    BY <1>1, <1>2, <2>2, <2>3 DEF ReadAfter, After
  <2>4. CASE j # k
    BY <1>2, <2>2, <2>4 DEF ReadAfter, After, Answering
  <2> QED
    BY <2>3, <2>4
<1>6. ASSUME NEW j \in Jobs, NEW n \in Runs, toasts'[<<j, n>>] > 0, <<j, n>> \notin again'
      PROVE  Unseen(j, n)'
  <2>1. Unseen(j, n)
    BY <1>1, <1>6 DEF OnceInv
  <2>2. CASE j = k
    BY <1>1, <1>2, <1>4, <2>1, <2>2 DEF Unseen, Followed
  <2>3. CASE j # k
    BY <1>1, <1>2, <1>4, <2>1, <2>3 DEF Unseen, Followed, Answering
  <2> QED
    BY <2>2, <2>3
<1>7. \A j \in Jobs, n \in Runs : toasts'[<<j, n>>] > 1 => <<j, n>> \in again'
  BY <1>1 DEF OnceInv
<1> QED
  BY <1>5, <1>6, <1>7 DEF OnceInv

\* An answer that names a run which was announced comes to a card that does not follow
\* the job, or makes the run news again.
LEMMA ArrivesAgain ==
  ASSUME TypeInv, CardShape, OnceInv, NEW k \in Jobs, StatusArrives(k),
         NEW n \in Runs, toasts[<<k, n>>] > 0, <<k, n>> \notin again', Followed(k)
  PROVE  /\ query'[k].data.last # n
         /\ query'[k].data.last < n => job[k].last # n
<1>1. query[k].fetch = "served" /\ query'[k].data = query[k].got /\ again \subseteq again'
  BY DEF StatusArrives
<1>2. Unseen(k, n) /\ ReadAfter(k, n)
  BY <1>1 DEF OnceInv
<1>3. query[k].data # None
  BY DEF Followed, CardShape, ShownRunning, Shown
<1>4. ASSUME query[k].data.last > n, query[k].got.last = n PROVE FALSE
  <2>1. Overtaken(query[k])
    BY <1>3, <1>4 DEF Overtaken, Runs
  <2>2. <<k, n>> \in Announced(k, {query[k].got.last})
    BY <1>4 DEF Announced
  <2> QED
    BY <2>1, <2>2 DEF StatusArrives
<1>5. query[k].got.last # n
  BY <1>1, <1>2, <1>4 DEF Unseen, Answering
<1> QED
  BY <1>1, <1>2, <1>5 DEF ReadAfter, Answering

LEMMA OnceArrives ==
  ASSUME TypeInv, TypeInv', CardShape, RunsInv, OnceInv, NEW k \in Jobs, OneStatus(k),
         StatusArrives(k)
  PROVE  OnceInv'
<1>t. /\ toasts \in [Jobs \X Runs -> 0..2] /\ was \subseteq Jobs
      /\ \A j \in Jobs : query[j].got # None => query[j].got \in Status
      /\ Runs \subseteq Nat \ {0} /\ \A s \in Status : s.last \in Nat
  BY Statuses DEF Runs, Status
<1>1. /\ query'[k].data = query[k].got /\ Answering(k) /\ ~Answering(k)'
      /\ Renders /\ again \subseteq again' /\ query[k].got \in Status
  BY DEF StatusArrives, Answering, CardShape
<1>2. UNCHANGED job /\ \A j \in Jobs : j # k => query'[j] = query[j]
  BY OneKept
\* What is announced now is shown at its end.
<1>3. ASSUME NEW j \in Jobs, NEW n \in Runs, toasts'[<<j, n>>] # toasts[<<j, n>>]
      PROVE  /\ Announces /\ toasts'[<<j, n>>] = toasts[<<j, n>>] + 1
             /\ j \in was /\ query'[j].data.last = n
             /\ j # k => IdleAt(j, n)
  <2>1. /\ Announces /\ toasts'[<<j, n>>] = toasts[<<j, n>>] + 1
        /\ j \in was /\ query'[j].data.last = n
    BY <1>1, <1>3 DEF Renders, Announces
  <2>2. ASSUME j # k PROVE IdleAt(j, n)
    <3>1. query[j].data # None /\ query'[j] = query[j]
      BY <1>2, <2>1, <2>2 DEF CardShape
    <3>2. ~query[j].data.running
      BY <2>1, <3>1 DEF Announces, Shown
    <3> QED
      BY <2>1, <3>1, <3>2 DEF IdleAt
  <2> QED
    BY <2>1, <2>2
\* Nothing is followed after an announcement.
<1>4. Announces => \A j \in Jobs : ~Followed(j)'
  BY DEF Announces, Followed, ShownRunning
<1>5. ASSUME NEW j \in Jobs, NEW n \in Runs, toasts'[<<j, n>>] > 0 \/ IdleAt(j, n)'
      PROVE  ReadAfter(j, n)'
  <2>1. CASE j = k
    BY <1>1, <2>1 DEF ReadAfter
  <2>2. CASE j # k
    <3>1. toasts[<<j, n>>] > 0 \/ IdleAt(j, n)
      BY <1>2, <1>3, <1>5, <2>2 DEF IdleAt
    <3>2. ReadAfter(j, n)
      BY <3>1 DEF OnceInv
    <3> QED
      BY <1>2, <2>2, <3>2 DEF ReadAfter, After, Answering
  <2> QED
    BY <2>1, <2>2
\* A job is followed that was followed, or whose run arrives.
<1>6. ASSUME NEW j \in Jobs, Followed(j)'
      PROVE  Followed(j) \/ (j = k /\ query[k].got.running)
  <2>1. j \in ShownRunning' => j \in ShownRunning \/ (j = k /\ query[k].got.running)
    BY <1>1, <1>2 DEF ShownRunning, Shown
  <2>2. j \in was' => j \in was \/ j \in ShownRunning'
    BY <1>1 DEF Renders, Announces, ShownRunning
  <2> QED
    BY <1>6, <2>1, <2>2 DEF Followed
<1>7. ASSUME NEW j \in Jobs, NEW n \in Runs, toasts'[<<j, n>>] > 0, <<j, n>> \notin again'
      PROVE  Unseen(j, n)'
  <2> SUFFICES ASSUME Followed(j)' PROVE Unseen(j, n)'
    BY DEF Unseen
  <2>1. toasts[<<j, n>>] > 0 /\ <<j, n>> \notin again
    BY <1>1, <1>3, <1>4, <1>7
  <2>2. Unseen(j, n) /\ ReadAfter(j, n)
    BY <2>1 DEF OnceInv
  <2>3. CASE j # k
    BY <1>2, <1>6, <2>2, <2>3 DEF Unseen, Answering
  <2>4. CASE j = k /\ Followed(k)
    <3>1. /\ query'[k].data.last # n
          /\ query'[k].data.last < n => job[k].last # n
      BY <1>7, <2>1, <2>4, ArrivesAgain
    <3>2. query'[k].data.last \in Nat /\ n \in Nat
      BY <1>t, <1>1
    <3>3. query'[k].data.last > n \/ (query'[k].data.last < n /\ job[k].last # n)
      BY <3>1, <3>2
    <3> QED
      BY <1>1, <1>2, <2>4, <3>3 DEF Unseen
  <2>5. CASE j = k /\ query[k].got.running
    <3>1. query[k].got.last > n
      BY <1>1, <2>2, <2>5 DEF ReadAfter, After
    <3> QED
      BY <1>1, <2>5, <3>1 DEF Unseen
  <2> QED
    BY <1>6, <2>3, <2>4, <2>5
<1>8. ASSUME NEW j \in Jobs, NEW n \in Runs, toasts'[<<j, n>>] > 1
      PROVE  <<j, n>> \in again'
  <2>1. CASE toasts'[<<j, n>>] = toasts[<<j, n>>]
    BY <1>1, <1>8, <2>1 DEF OnceInv
  <2>2. CASE toasts'[<<j, n>>] # toasts[<<j, n>>]
    <3>1. j \in was /\ query'[j].data.last = n /\ Followed(j)
      BY <1>3, <2>2 DEF Followed
    <3>2. toasts[<<j, n>>] > 0
      <4>1. toasts[<<j, n>>] \in 0..2 /\ toasts'[<<j, n>>] = toasts[<<j, n>>] + 1
        BY <1>t, <1>3, <2>2
      <4> QED
        BY <1>8, <4>1
    <3>3. CASE j = k
      BY <3>1, <3>2, <3>3, ArrivesAgain
    <3>4. CASE j # k
      <4>1. query[j].data.last = n
        BY <1>2, <3>1, <3>4
      <4>2. ~Unseen(j, n)
        BY <1>t, <3>1, <4>1 DEF Unseen
      <4> QED
        BY <1>1, <3>2, <4>2 DEF OnceInv
    <3> QED
      BY <3>3, <3>4
  <2> QED
    BY <2>1, <2>2
<1> QED
  BY <1>5, <1>7, <1>8 DEF OnceInv

LEMMA OnceSet ==
  ASSUME TypeInv, CardShape, OnceInv, NEW k \in Jobs, OneStatus(k), StatusSet(k)
  PROVE  OnceInv'
<1>1. PICK p \in Posts :
        /\ query'[k].data = [running |-> TRUE, last |-> post[p].run]
        /\ query'[k].fetch = query[k].fetch /\ query'[k].got = query[k].got
        /\ Renders
        /\ again \subseteq again' /\ Announced(k, post[p].run .. MaxRuns) \subseteq again'
  BY DEF StatusSet
<1>2. UNCHANGED job /\ \A j \in Jobs : j # k => query'[j] = query[j]
  BY OneKept
<1>n. post[p].run \in Nat /\ Runs = 1..MaxRuns /\ MaxRuns \in Nat
  BY Statuses DEF Runs
\* The card shows the run, and so announces nothing.
<1>3. k \in Shown(query')
  BY <1>1, RunningStatus DEF Shown
<1>4. UNCHANGED toasts /\ (UNCHANGED was \/ was' = was \cup Shown(query'))
  BY <1>1, <1>3 DEF Renders, Announces
<1>5. ASSUME NEW j \in Jobs, NEW n \in Runs, toasts'[<<j, n>>] > 0 \/ IdleAt(j, n)'
      PROVE  ReadAfter(j, n)'
  <2>1. query'[k].data.running
    BY <1>1
  <2>2. toasts[<<j, n>>] > 0 \/ IdleAt(j, n)
    BY <1>2, <1>4, <1>5, <2>1 DEF IdleAt
  <2>3. ReadAfter(j, n)
    BY <2>2 DEF OnceInv
  <2>4. query'[j].fetch = query[j].fetch /\ query'[j].got = query[j].got
    BY <1>1, <1>2
  <2> QED
    BY <1>2, <2>3, <2>4 DEF ReadAfter, After, Answering
<1>6. ASSUME NEW j \in Jobs, NEW n \in Runs, toasts'[<<j, n>>] > 0, <<j, n>> \notin again'
      PROVE  Unseen(j, n)'
  <2>1. toasts[<<j, n>>] > 0 /\ Unseen(j, n)
    BY <1>1, <1>4, <1>6 DEF OnceInv
  <2>2. CASE j = k
    <3>1. <<k, n>> \notin Announced(k, post[p].run .. MaxRuns)
      BY <1>1, <1>6, <2>2
    <3>2. post[p].run > n
      BY <1>n, <2>1, <2>2, <3>1 DEF Announced
    <3>3. query'[k].data.last = post[p].run
      BY <1>1
    <3> QED
      BY <2>2, <3>2, <3>3 DEF Unseen
  <2>3. CASE j # k
    <3>1. j \in Shown(query') => j \in ShownRunning
      BY <1>2, <2>3 DEF ShownRunning, Shown
    <3>2. Followed(j)' => Followed(j)
      BY <1>4, <3>1 DEF Followed, ShownRunning
    <3> QED
      BY <1>2, <2>1, <2>3, <3>2 DEF Unseen, Answering
  <2> QED
    BY <2>2, <2>3
<1>7. \A j \in Jobs, n \in Runs : toasts'[<<j, n>>] > 1 => <<j, n>> \in again'
  BY <1>1, <1>4 DEF OnceInv
<1> QED
  BY <1>5, <1>6, <1>7 DEF OnceInv

LEMMA OnceStep ==
  ASSUME TypeInv, TypeInv', CardShape, RunsInv, OnceInv, [Next]_vars
  PROVE  OnceInv'
<1>1. CASE StatusesKept /\ ServerMoves
  BY <1>1, OnceKept
<1>2. ASSUME NEW k \in Jobs, OneStatus(k) PROVE OnceInv'
  BY <1>2, OnceRead, OnceArrives, OnceSet DEF OneStatus
<1> QED
  BY <1>1, <1>2, StatusSteps

\* The end of a run is announced only when it is over, however often the card is left and
\* opened, the server restarted and the status read; and once at most, but for an answer
\* that was overtaken.
THEOREM EndAnnouncedOnce == Spec => []AnnouncedOnce
<1>1. Init => CardShape /\ RunsInv /\ OnceInv
  <2> SUFFICES ASSUME Init PROVE CardShape /\ RunsInv /\ OnceInv
    OBVIOUS
  <2>1. \A k \in Keys : query[k] = Cache!Empty /\ query[k].fetch = "none" /\ query[k].data = None
    BY DEF Init, Cache!Empty
  <2>2. Jobs \subseteq Keys
    BY DEF Keys
  <2>3. CardShape
    BY <2>1, <2>2 DEF Init, CardShape, ShownRunning, Shown
  <2>4. RunsInv
    BY <2>1, <2>2 DEF Init, RunsInv, NoPost
  <2>5. OnceInv
    BY <2>1, <2>2 DEF Init, OnceInv, IdleAt
  <2> QED
    BY <2>3, <2>4, <2>5
<1>2. TypeInv /\ TypeInv' /\ CardShape /\ [Next]_vars => CardShape'
  BY ShapeStep
<1>3. TypeInv /\ CardShape /\ CardShape' /\ RunsInv /\ [Next]_vars => RunsInv'
  BY RunsStep
<1>4. TypeInv /\ TypeInv' /\ CardShape /\ RunsInv /\ OnceInv /\ [Next]_vars => OnceInv'
  BY OnceStep
<1>5. ASSUME RunsInv, OnceInv PROVE AnnouncedOnce
  <2> SUFFICES ASSUME NEW j \in Jobs, NEW n \in Runs
               PROVE  /\ toasts[<<j, n>>] > 0 => job[j] # [running |-> TRUE, last |-> n]
                      /\ toasts[<<j, n>>] > 1 => <<j, n>> \in again
    BY DEF AnnouncedOnce
  <2>1. toasts[<<j, n>>] > 0 => After(job[j], n) /\ n <= runs
    BY <1>5 DEF RunsInv, Over
  <2>2. job[j] = [running |-> TRUE, last |-> n] => ~After(job[j], n)
    <3>1. ASSUME job[j] = [running |-> TRUE, last |-> n] PROVE job[j].running /\ job[j].last = n
      BY <3>1
    <3> QED
      BY <3>1 DEF After, Runs
  <2> QED
    BY <1>5, <2>1, <2>2 DEF OnceInv
<1> QED
  BY <1>1, <1>2, <1>3, <1>4, <1>5, TypeInvariant, PTL DEF Spec
===============================================================================

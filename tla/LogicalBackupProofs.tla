------------------------- MODULE LogicalBackupProofs -------------------------
(***************************************************************************)
(* Theorems about LogicalBackup, for any number of requests, any names and *)
(* any retention count.                                                    *)
(***************************************************************************)
EXTENDS LogicalBackup, FiniteSetTheorems, TLAPS

\* The types, with what they need to be inductive: a job at work has a name.
TypeInv ==
  /\ TypeOK
  /\ \A j \in Jobs : pc[j] # "idle" => name[j] \in Names

LEMMA PutType ==
  ASSUME NEW o \in Objects, TypeOK, Put(o)
  PROVE  store' \subseteq Objects /\ \A x, y \in store' : x.name = y.name => x = y
  BY DEF TypeOK, Put

LEMMA DropType ==
  ASSUME NEW n, TypeOK, MayDrop(n) \/ Drop(n)
  PROVE  store' \subseteq Objects /\ \A x, y \in store' : x.name = y.name => x = y
  BY DEF TypeOK, Drop, MayDrop

\* The history names objects that are, or were, in the bucket.
LEMMA NotedType ==
  ASSUME TypeInv, store' \subseteq Objects, NEW js, Noted(js)
  PROVE  touched' \in [Jobs -> SUBSET Names]
<1> DEFINE changed == NamesIn((store \ store') \cup (store' \ store))
<1>1. changed \subseteq Names
  BY DEF TypeInv, TypeOK, NamesIn, Objects
<1>2. \A j \in Jobs : touched[j] \subseteq Names
  BY DEF TypeInv, TypeOK
<1>3. touched' = [j \in Jobs |-> IF pc'[j] = "idle" THEN {}
                                ELSE IF j \in js THEN touched[j]
                                ELSE touched[j] \cup (changed \cap AtWork(j))]
  BY DEF Noted
<1> HIDE DEF changed
<1> QED
  BY <1>1, <1>2, <1>3

LEMMA TypeStep == TypeInv /\ [Next]_vars => TypeInv'
<1> SUFFICES ASSUME TypeInv, [Next]_vars PROVE TypeInv'
  OBVIOUS
<1> USE ConstantsAssumption DEF Jobs, TypeInv
<1>1. ASSUME NEW r \in Runs, NEW n \in Names, BackupRequested(r, n) PROVE TypeInv'
  BY <1>1 DEF BackupRequested, DumpStarts, pruneVars, TypeOK, DumpPCs, PrunePCs
<1>2. CASE Tick
  <2>1. lastTick' \in Names
    BY <1>2 DEF Tick, TypeOK, Names
  <2> QED
    BY <1>2, <2>1 DEF Tick, DumpStarts, pruneVars, TypeOK, DumpPCs, PrunePCs
<1>3. ASSUME NEW j \in Jobs, UploadReturns(j), Noted({j}) PROVE TypeInv'
  <2>1. pc[j] = "upload" /\ pc' = [pc EXCEPT ![j] = "wait"]
    BY <1>3 DEF UploadReturns
  <2>2. UNCHANGED <<name, since, lastTick, pruneVars>>
    BY <1>3 DEF UploadReturns
  <2>3. errs' \in [Jobs -> SUBSET {"upload", "wait"}]
    BY <1>3 DEF UploadReturns, TypeOK
  <2>4. clock' \in Nat /\ store' \subseteq Objects
        /\ \A x, y \in store' : x.name = y.name => x = y
    <3>1. ASSUME NEW whole \in BOOLEAN, Uploaded(j, whole)
          PROVE  clock' \in Nat /\ store' \subseteq Objects
                 /\ \A x, y \in store' : x.name = y.name => x = y
      <4> DEFINE o == [name |-> name[j], at |-> clock', whole |-> whole, by |-> j]
      <4>1. clock' \in Nat
        BY <3>1 DEF Uploaded, TypeOK
      <4>2. o \in Objects
        BY <2>1, <4>1 DEF Objects
      <4>3. Put(o)
        BY <3>1 DEF Uploaded
      <4> QED
        BY <4>1, <4>2, <4>3, PutType
    <3>2. CASE UNCHANGED <<store, clock>>
      BY <3>2 DEF TypeOK
    <3> QED
      BY <1>3, <3>1, <3>2 DEF UploadReturns
  <2>5. touched' \in [Jobs -> SUBSET Names]
    BY <1>3, <2>4, NotedType
  <2> QED
    BY <2>1, <2>2, <2>3, <2>4, <2>5 DEF TypeOK, DumpPCs, pruneVars
<1>4. ASSUME NEW j \in Jobs, DumpEnds(j), Noted({j}) PROVE TypeInv'
  <2>1. touched' \in [Jobs -> SUBSET Names]
    BY <1>4, NotedType DEF DumpEnds, TypeOK
  <2> QED
    BY <1>4, <2>1 DEF DumpEnds, Succeeds, DumpFails, Goto, Return, pruneVars,
                      TypeOK, DumpPCs, PrunePCs
<1>5. ASSUME NEW j \in Jobs, NEW failed \in BOOLEAN, CleanUp(j, failed), Noted({j})
      PROVE  TypeInv'
  <2>1. store' \subseteq Objects /\ \A x, y \in store' : x.name = y.name => x = y
    BY <1>5, DropType DEF CleanUp
  <2>2. touched' \in [Jobs -> SUBSET Names]
    BY <1>5, <2>1, NotedType
  <2> QED
    BY <1>5, <2>1, <2>2 DEF CleanUp, Return, pruneVars, TypeOK, DumpPCs, PrunePCs
<1>6. CASE ListPage /\ Noted({Scheduler})
  <2>0. touched' \in [Jobs -> SUBSET Names]
    BY <1>6, NotedType DEF ListPage, TypeOK
  <2>1. CASE PruneReturns
    BY <2>0, <1>6, <2>1 DEF ListPage, PruneReturns, ForgetListing, Return, TypeOK,
                      DumpPCs
  <2>2. ASSUME ~PruneReturns PROVE TypeInv'
    <3>1. listed' = listed \cup PageOf(token) /\ UNCHANGED <<store, clock, lastTick, kept, victims, missed>>
      BY <1>6, <2>2 DEF ListPage
    <3>2. listed' \subseteq Objects
      BY <3>1 DEF PageOf, After, TypeOK
    <3>3. CASE Truncated(token)
      <4>1. UNCHANGED jobVars /\ \E o \in PageOf(token) : token' = o.name
        BY <1>6, <2>2, <3>3 DEF ListPage
      <4>2. token' \in Nat
        BY <4>1 DEF PageOf, After, TypeOK, Objects, Names
      <4> QED
        BY <2>0, <3>1, <3>2, <4>1, <4>2 DEF jobVars, TypeOK
    <3>4. CASE ~Truncated(token)
      <4>1. token' = 0 /\ Goto(Scheduler, "pick")
        BY <1>6, <2>2, <3>4 DEF ListPage
      <4>2. pc[Scheduler] = "list"
        BY <1>6 DEF ListPage
      <4> QED
        BY <2>0, <3>1, <3>2, <4>1, <4>2 DEF Goto, TypeOK, PrunePCs
    <3> QED
      BY <3>3, <3>4
  <2> QED
    BY <2>1, <2>2
<1>7. CASE PickVictims /\ Noted({Scheduler})
  <2>0. touched' \in [Jobs -> SUBSET Names]
    BY <1>7, NotedType DEF PickVictims, TypeOK
  <2>1. CASE PruneReturns
    BY <2>0, <1>7, <2>1 DEF PickVictims, PruneReturns, ForgetListing, Return, TypeOK,
                      DumpPCs
  <2>2. ASSUME ~PruneReturns PROVE TypeInv'
    <3>1. kept' \subseteq Objects /\ victims' \subseteq Objects
      BY <1>7, <2>2 DEF PickVictims, WithPrefix, TypeOK
    <3> QED
      BY <1>7, <2>0, <2>2, <3>1 DEF PickVictims, Goto, TypeOK, PrunePCs
  <2> QED
    BY <2>1, <2>2
<1>8. CASE DeleteVictim /\ Noted({Scheduler})
  <2>1. store' \subseteq Objects /\ \A x, y \in store' : x.name = y.name => x = y
    BY <1>8, DropType DEF DeleteVictim
  <2>2. missed' \in BOOLEAN
    BY <1>8 DEF DeleteVictim, TypeOK
  <2>3. touched' \in [Jobs -> SUBSET Names]
    BY <1>8, <2>1, NotedType
  <2> QED
    BY <1>8, <2>1, <2>2, <2>3 DEF DeleteVictim, jobVars, TypeOK
<1>9. CASE PruneEnds /\ Noted({Scheduler})
  <2>1. touched' \in [Jobs -> SUBSET Names]
    BY <1>9, NotedType DEF PruneEnds, TypeOK
  <2> QED
    BY <1>9, <2>1 DEF PruneEnds, PruneReturns, ForgetListing, Return, TypeOK, DumpPCs
<1>10. ASSUME NEW n \in Names, OperatorDeletes(n) PROVE TypeInv'
  <2>1. store' \subseteq Objects /\ \A x, y \in store' : x.name = y.name => x = y
    BY <1>10, DropType DEF OperatorDeletes
  <2>2. touched' \in [Jobs -> SUBSET Names]
    BY <1>10, <2>1, NotedType DEF OperatorDeletes
  <2> QED
    BY <1>10, <2>1, <2>2 DEF OperatorDeletes, jobVars, pruneVars, TypeOK
<1>11. CASE AdminCrash
  BY <1>11 DEF AdminCrash, ForgetListing, TypeOK, DumpPCs
<1>12. CASE UNCHANGED vars
  BY <1>12 DEF vars, jobVars, pruneVars, TypeOK
<1> QED
  BY <1>1, <1>2, <1>3, <1>4, <1>5, <1>6, <1>7, <1>8, <1>9, <1>10, <1>11, <1>12
     DEF Next, JobStep, PruneStep

LEMMA TypeInvariant == Spec => []TypeInv
<1>1. Init => TypeInv
  <2> SUFFICES ASSUME Init PROVE TypeInv
    OBVIOUS
  <2>1. lastTick \in Nat
    BY ConstantsAssumption DEF Init, ConstantsAssumption
  <2>2. missed \in BOOLEAN
    BY DEF Init, NothingToPrune
  <2> QED
    BY <2>1, <2>2 DEF Init, TypeInv, TypeOK, NothingToPrune, Jobs, DumpPCs
<1> QED
  BY <1>1, TypeStep, PTL DEF Spec

\* The bucket and the jobs stay within their types, names in the bucket are
\* unique, and only the scheduler prunes.
THEOREM TypeCorrect == Spec => []TypeOK
<1>1. TypeInv => TypeOK
  BY DEF TypeInv
<1> QED
  BY <1>1, TypeInvariant, PTL

-------------------------------------------------------------------------------
(* Retention *)

\* No two objects have the same time, and none is of the future.
TimesInv ==
  /\ \A o \in store \cup listed : o.at <= clock
  /\ \A x, y \in store \cup listed : x.at = y.at => x = y

\* What is listed has unique names, comes before the token, and is what the
\* bucket holds under those names, if anything, but for what others replaced.
ListInv ==
  /\ pc[Scheduler] \in DumpPCs => listed = {} /\ token = 0
  /\ pc[Scheduler] = "list" => \A x \in listed : x.name <= token
  /\ \A x, y \in listed : x.name = y.name => x = y
  /\ \A x \in listed, o \in store :
       x.name = o.name => x = o \/ x.name \in touched[Scheduler]

Still(x) == x \in store \/ x.name \in touched[Scheduler]

\* The retained objects are there, but for those that others took or replaced.
KeptInv ==
  /\ pc[Scheduler] \in {"list", "pick"} => \A x \in listed : Still(x)
  /\ pc[Scheduler] = "prune" =>
       /\ kept \subseteq ScheduledIn(listed) /\ victims \subseteq ScheduledIn(listed)
       /\ Cardinality(kept) = Retain
       /\ \A k \in kept : Still(k)
       /\ \A k \in kept, v \in victims : k.at > v.at

LEMMA PutFacts ==
  ASSUME NEW o, Put(o)
  PROVE  /\ o \in store'
         /\ \A x \in store' : x = o \/ (x \in store /\ x.name # o.name)
         /\ \A x \in store : x.name # o.name => x \in store'
  BY DEF Put

LEMMA DropFacts ==
  ASSUME NEW n, MayDrop(n) \/ Drop(n)
  PROVE  /\ store' \subseteq store
         /\ \A x \in store : x.name # n => x \in store'
  BY DEF Drop, MayDrop

\* All that a step does to the bucket happens under one name, and what it puts
\* there is new.
OnlyTouches(n, j) ==
  /\ clock' \in {clock, clock + 1}
  /\ \A x \in store' :
       x \in store \/ (x.name = n /\ x.by = j /\ x.at = clock + 1 /\ clock' = clock + 1)
  /\ \A x \in store : x.name # n => x \in store'

LEMMA DumpTouches ==
  ASSUME TypeInv, NEW j \in Jobs, JobStep(j)
  PROVE  OnlyTouches(name[j], j)
<1>1. CASE UploadReturns(j)
  <2>1. ASSUME NEW whole \in BOOLEAN, Uploaded(j, whole) PROVE OnlyTouches(name[j], j)
    <3> DEFINE o == [name |-> name[j], at |-> clock', whole |-> whole, by |-> j]
    <3>1. Put(o) /\ clock' = clock + 1
      BY <2>1 DEF Uploaded
    <3>2. o.name = name[j] /\ o.by = j /\ o.at = clock'
      OBVIOUS
    <3> HIDE DEF o
    <3> QED
      BY <3>1, <3>2, PutFacts DEF OnlyTouches
  <2> QED
    BY <1>1, <2>1 DEF UploadReturns, OnlyTouches
<1>2. CASE DumpEnds(j)
  BY <1>2 DEF DumpEnds, OnlyTouches
<1>3. ASSUME NEW failed \in BOOLEAN, CleanUp(j, failed) PROVE OnlyTouches(name[j], j)
  BY <1>3, DropFacts DEF CleanUp, OnlyTouches
<1> QED
  BY <1>1, <1>2, <1>3 DEF JobStep

LEMMA PruneTouches ==
  ASSUME TypeInv, PruneStep
  PROVE  /\ listed' \subseteq listed \cup store
         /\ \E n \in Names, j \in Jobs : OnlyTouches(n, j)
<1>1. CASE DeleteVictim
  <2>1. PICK v \in victims : MayDrop(v.name) \/ Drop(v.name)
    BY <1>1 DEF DeleteVictim
  <2>2. v.name \in Names
    BY <2>1 DEF TypeInv, TypeOK, Objects
  <2> QED
    BY <1>1, <2>1, <2>2, DropFacts DEF DeleteVictim, OnlyTouches, Jobs
<1>2. CASE ListPage
  <2>1. listed' \subseteq listed \cup store /\ UNCHANGED <<store, clock>>
    BY <1>2 DEF ListPage, PruneReturns, ForgetListing, PageOf, After
  <2>2. name[Scheduler] \in Names
    BY <1>2 DEF ListPage, TypeInv, Jobs
  <2> QED
    BY <2>1, <2>2 DEF OnlyTouches, Jobs
<1>3. CASE PickVictims \/ PruneEnds
  <2>1. listed' \subseteq listed /\ UNCHANGED <<store, clock>>
    BY <1>3 DEF PickVictims, PruneEnds, PruneReturns, ForgetListing
  <2>2. name[Scheduler] \in Names
    BY <1>3 DEF PickVictims, PruneEnds, TypeInv, Jobs
  <2> QED
    BY <2>1, <2>2 DEF OnlyTouches, Jobs
<1> QED
  BY <1>1, <1>2, <1>3 DEF PruneStep

LEMMA TimesKept ==
  ASSUME TypeInv, TypeInv', TimesInv, NEW n, NEW j, OnlyTouches(n, j),
         listed' \subseteq listed \cup store
  PROVE  TimesInv'
<1>1. \A x \in store' \cup listed' :
        x \in store \cup listed \/ (x \in store' /\ x.name = n /\ x.at = clock + 1 /\ clock' = clock + 1)
  BY DEF OnlyTouches
<1>2. \A x \in store \cup listed : x.at \in Nat /\ x.at <= clock
  BY DEF TypeInv, TypeOK, Objects, TimesInv
<1>3. clock \in Nat /\ clock' \in {clock, clock + 1}
  BY DEF TypeInv, TypeOK, OnlyTouches
<1>4. ASSUME NEW x \in store' \cup listed', NEW y \in store' \cup listed', x.at = y.at
      PROVE  x = y
  <2>1. CASE x \in store \cup listed /\ y \in store \cup listed
    BY <1>4, <2>1 DEF TimesInv
  <2>2. CASE x \notin store \cup listed /\ y \notin store \cup listed
    BY <1>1, <2>2 DEF TypeInv, TypeOK
  <2>3. CASE x \in store \cup listed /\ y \notin store \cup listed
    BY <1>1, <1>2, <1>3, <1>4, <2>3
  <2>4. CASE x \notin store \cup listed /\ y \in store \cup listed
    BY <1>1, <1>2, <1>3, <1>4, <2>4
  <2> QED
    BY <2>1, <2>2, <2>3, <2>4
<1>5. \A x \in store' \cup listed' : x.at <= clock'
  BY <1>1, <1>2, <1>3
<1> QED
  BY <1>4, <1>5 DEF TimesInv

LEMMA TimesStep == TypeInv /\ TypeInv' /\ TimesInv /\ [Next]_vars => TimesInv'
<1> SUFFICES ASSUME TypeInv, TypeInv', TimesInv, [Next]_vars PROVE TimesInv'
  OBVIOUS
<1>1. ASSUME NEW r \in Runs, NEW n \in Names, BackupRequested(r, n) PROVE TimesInv'
  BY <1>1 DEF BackupRequested, DumpStarts, pruneVars, TimesInv
<1>2. CASE Tick
  BY <1>2 DEF Tick, DumpStarts, pruneVars, TimesInv
<1>3. ASSUME NEW j \in Jobs, JobStep(j) PROVE TimesInv'
  <2>1. listed' = listed
    BY <1>3 DEF JobStep, UploadReturns, DumpEnds, CleanUp, pruneVars
  <2> QED
    BY <1>3, <2>1, DumpTouches, TimesKept
<1>4. CASE PruneStep
  BY <1>4, PruneTouches, TimesKept
<1>5. ASSUME NEW n \in Names, OperatorDeletes(n) PROVE TimesInv'
  <2>1. OnlyTouches(n, Scheduler) /\ listed' = listed
    BY <1>5, DropFacts DEF OperatorDeletes, OnlyTouches, pruneVars
  <2> QED
    BY <2>1, TimesKept
<1>6. CASE AdminCrash
  BY <1>6 DEF AdminCrash, ForgetListing, TimesInv
<1>7. CASE UNCHANGED vars
  BY <1>7 DEF vars, pruneVars, TimesInv
<1> QED
  BY <1>1, <1>2, <1>3, <1>4, <1>5, <1>6, <1>7 DEF Next

\* Where the prune is over, nothing of it is left.
LEMMA NoPrune ==
  ASSUME pc'[Scheduler] \in DumpPCs, listed' = {}, token' = 0
  PROVE  ListInv' /\ KeptInv'
  BY DEF ListInv, KeptInv, DumpPCs

\* What others do in the bucket under a name at work in job j is noted there.
LEMMA OthersAreNoted ==
  ASSUME TypeInv, NEW js, Noted(js), NEW j \in Jobs, j \notin js, pc'[j] # "idle"
  PROVE  /\ touched[j] \subseteq touched'[j]
         /\ \A x \in store \cup store' :
              x.name \in AtWork(j) =>
                x.name \in touched'[j] \/ (x \in store /\ x \in store')
<1> DEFINE changed == NamesIn((store \ store') \cup (store' \ store))
<1>1. touched'[j] = touched[j] \cup (changed \cap AtWork(j))
  BY DEF Noted
<1>2. \A x \in store \cup store' : x.name \in changed \/ (x \in store /\ x \in store')
  BY DEF NamesIn
<1> HIDE DEF changed
<1> QED
  BY <1>1, <1>2

\* The scheduler's own steps note nothing.
LEMMA OwnStepsNoteNothing ==
  ASSUME TypeInv, NEW js, Noted(js), NEW j \in Jobs, j \in js, pc'[j] # "idle"
  PROVE  touched'[j] = touched[j]
  BY DEF Noted

\* A prune bears what others do in the bucket: it is noted.
LEMMA PruneBesideOthers ==
  ASSUME TypeInv, ListInv, KeptInv, NEW js, Noted(js), Scheduler \notin js,
         UNCHANGED <<pc[Scheduler], pruneVars>>
  PROVE  ListInv' /\ KeptInv'
<1>1. CASE pc[Scheduler] \in DumpPCs
  BY <1>1, NoPrune DEF ListInv, pruneVars
<1>2. CASE pc[Scheduler] \notin DumpPCs
  <2>1. pc'[Scheduler] # "idle" /\ Scheduler \in Jobs
    BY <1>2 DEF DumpPCs, Jobs
  <2>2. touched[Scheduler] \subseteq touched'[Scheduler]
    BY <2>1, OthersAreNoted
  <2>3. \A x \in store \cup store' :
          x.name \in AtWork(Scheduler) =>
            x.name \in touched'[Scheduler] \/ (x \in store /\ x \in store')
    BY <2>1, OthersAreNoted
  <2>4. \A x \in listed : x.name \in AtWork(Scheduler)
    BY DEF AtWork, NamesIn
  <2>5. ListInv'
    <3>1. \A x \in listed, o \in store' :
            x.name = o.name => x = o \/ x.name \in touched'[Scheduler]
      BY <2>2, <2>3, <2>4 DEF ListInv
    <3> QED
      BY <3>1 DEF ListInv, pruneVars
  <2>6. \A x \in listed : Still(x) => Still(x)'
    BY <2>2, <2>3, <2>4 DEF Still
  <2>7. KeptInv'
    BY <2>6 DEF KeptInv, pruneVars, ScheduledIn
  <2> QED
    BY <2>5, <2>7
<1> QED
  BY <1>1, <1>2

PruneInv == TimesInv /\ ListInv /\ KeptInv

\* The next page brings what is in the bucket, under names not yet listed.
LEMMA ListPageStep ==
  ASSUME TypeInv, PruneInv, ListPage, Noted({Scheduler})
  PROVE  ListInv' /\ KeptInv'
<1>0. pc[Scheduler] = "list" /\ store' = store
  BY DEF ListPage
<1>1. CASE PruneReturns
  <2>1. pc'[Scheduler] \in DumpPCs /\ listed' = {} /\ token' = 0
    BY <1>1 DEF PruneReturns, Return, ForgetListing, TypeInv, TypeOK, Jobs, DumpPCs
  <2> QED
    BY <2>1, NoPrune
<1>2. CASE ~PruneReturns
  <2>1. listed' = listed \cup PageOf(token) /\ UNCHANGED <<kept, victims>>
    BY <1>2 DEF ListPage
  <2>2. touched'[Scheduler] = touched[Scheduler]
    <3>1. pc'[Scheduler] \in {"list", "pick"} /\ Scheduler \in Jobs
      BY <1>0, <1>2 DEF ListPage, jobVars, Goto, TypeInv, TypeOK, Jobs
    <3> QED
      BY <3>1, OwnStepsNoteNothing
  <2>3. \A x \in PageOf(token) : x \in store /\ x.name > token
    BY DEF PageOf, After
  <2>4. token \in Nat /\ (\A x \in store \cup listed : x.name \in Nat)
    BY DEF TypeInv, TypeOK, Objects, Names
  <2>5. \A x \in listed : x.name <= token
    BY <1>0 DEF PruneInv, ListInv
  <2>6. \A x, y \in listed' : x.name = y.name => x = y
    <3>1. \A x, y \in PageOf(token) : x.name = y.name => x = y
      BY <2>3 DEF TypeInv, TypeOK
    <3> QED
      BY <2>1, <2>3, <2>4, <2>5, <3>1 DEF PruneInv, ListInv
  <2>7. \A x \in listed', o \in store' :
          x.name = o.name => x = o \/ x.name \in touched'[Scheduler]
    BY <1>0, <2>1, <2>2, <2>3 DEF PruneInv, ListInv, TypeInv, TypeOK
  <2>8. \A x \in listed' : Still(x)'
    BY <1>0, <2>1, <2>2, <2>3 DEF PruneInv, KeptInv, Still
  <2>9. CASE Truncated(token)
    <3>1. pc' = pc
      BY <1>2, <2>9 DEF ListPage, jobVars
    <3>2. PICK o \in PageOf(token) : token' = o.name /\ \A x \in PageOf(token) : x.name <= o.name
      BY <1>2, <2>9 DEF ListPage
    <3>3. \A x \in listed' : x.name <= token'
      BY <2>1, <2>3, <2>4, <2>5, <3>2
    <3> QED
      BY <1>0, <2>6, <2>7, <2>8, <3>1, <3>3 DEF ListInv, KeptInv, DumpPCs
  <2>10. CASE ~Truncated(token)
    <3>1. pc'[Scheduler] = "pick"
      BY <1>2, <2>10 DEF ListPage, Goto, TypeInv, TypeOK, Jobs
    <3> QED
      BY <2>6, <2>7, <2>8, <3>1 DEF ListInv, KeptInv, DumpPCs
  <2> QED
    BY <2>9, <2>10
<1> QED
  BY <1>1, <1>2

\* What is kept is newer than every victim: their times differ.
LEMMA PickVictimsStep ==
  ASSUME TypeInv, PruneInv, PickVictims, Noted({Scheduler})
  PROVE  ListInv' /\ KeptInv'
<1>0. pc[Scheduler] = "pick" /\ store' = store
  BY DEF PickVictims
<1>1. CASE PruneReturns
  <2>1. pc'[Scheduler] \in DumpPCs /\ listed' = {} /\ token' = 0
    BY <1>1 DEF PruneReturns, Return, ForgetListing, TypeInv, TypeOK, Jobs, DumpPCs
  <2> QED
    BY <2>1, NoPrune
<1>2. CASE ~PruneReturns
  <2> DEFINE S == WithPrefix(listed)
  <2>1. PICK K \in SUBSET S : IsHead(K, S) /\ kept' = K /\ victims' = S \ K
    BY <1>2 DEF PickVictims
  <2>2. UNCHANGED <<listed, token>> /\ pc'[Scheduler] = "prune"
    BY <1>2 DEF PickVictims, Goto, TypeInv, TypeOK, Jobs
  <2>8. touched'[Scheduler] = touched[Scheduler]
    BY <2>2, OwnStepsNoteNothing DEF Jobs
  <2>3. S = ScheduledIn(listed)
    BY DEF WithPrefix, ScheduledIn
  <2>4. ASSUME NEW k \in K, NEW v \in S \ K PROVE k.at > v.at
    <3>1. ~(v.at > k.at)
      BY <2>1 DEF IsHead, SortsFirst
    <3>2. k \in listed /\ v \in listed /\ k # v
      BY <2>1, <2>3 DEF ScheduledIn
    <3>3. k.at \in Nat /\ v.at \in Nat /\ k.at # v.at
      BY <3>2 DEF PruneInv, TimesInv, TypeInv, TypeOK, Objects
    <3> QED
      BY <3>1, <3>3
  <2>5. \A x \in listed : Still(x)'
    BY <1>0, <2>8 DEF PruneInv, KeptInv, Still
  <2>6. ListInv'
    BY <1>0, <2>2, <2>8 DEF PruneInv, ListInv, DumpPCs
  <2>7. KeptInv'
    BY <2>1, <2>2, <2>3, <2>4, <2>5 DEF KeptInv, IsHead, ScheduledIn
  <2> QED
    BY <2>6, <2>7
<1> QED
  BY <1>1, <1>2

\* Deleting a victim leaves what is kept alone: it has another name.
LEMMA DeleteVictimStep ==
  ASSUME TypeInv, PruneInv, DeleteVictim, Noted({Scheduler})
  PROVE  ListInv' /\ KeptInv'
<1>1. PICK v \in victims : (MayDrop(v.name) \/ Drop(v.name)) /\ victims' = victims \ {v}
  BY DEF DeleteVictim
<1>2. UNCHANGED <<pc, listed, token, kept>> /\ pc[Scheduler] = "prune"
  BY DEF DeleteVictim, jobVars
<1>7. touched'[Scheduler] = touched[Scheduler]
  BY <1>2, OwnStepsNoteNothing DEF Jobs
<1>3. store' \subseteq store /\ \A x \in store : x.name # v.name => x \in store'
  BY <1>1, DropFacts
<1>4. ASSUME NEW k \in kept PROVE Still(k)'
  <2>1. k \in listed /\ v \in listed /\ k.at > v.at /\ Still(k)
    BY <1>1, <1>2 DEF PruneInv, KeptInv, ScheduledIn
  <2>2. v.at \in Nat
    BY <2>1 DEF TypeInv, TypeOK, Objects
  <2>3. k.name # v.name
    BY <2>1, <2>2 DEF PruneInv, ListInv
  <2> QED
    BY <1>3, <1>7, <2>1, <2>3 DEF Still
<1>5. ListInv'
  BY <1>2, <1>3, <1>7 DEF PruneInv, ListInv
<1>6. KeptInv'
  BY <1>1, <1>2, <1>4 DEF PruneInv, KeptInv, ScheduledIn
<1> QED
  BY <1>5, <1>6

LEMMA PruneInvStep ==
  TypeInv /\ TypeInv' /\ PruneInv /\ [Next]_vars => PruneInv'
<1> SUFFICES ASSUME TypeInv, TypeInv', PruneInv, [Next]_vars PROVE ListInv' /\ KeptInv'
  BY TimesStep DEF PruneInv
<1>0. Scheduler \notin Runs
  BY ConstantsAssumption DEF ConstantsAssumption
<1>1. ASSUME NEW r \in Runs, NEW n \in Names, BackupRequested(r, n) PROVE ListInv' /\ KeptInv'
  <2>1. UNCHANGED <<store, pc[Scheduler], touched, pruneVars>>
    BY <1>0, <1>1 DEF BackupRequested, DumpStarts, TypeInv, TypeOK
  <2> QED
    BY <2>1 DEF PruneInv, ListInv, KeptInv, ScheduledIn, Still, pruneVars
<1>2. CASE Tick
  <2>1. pc[Scheduler] = "idle" /\ pc'[Scheduler] = "upload" /\ UNCHANGED pruneVars
    BY <1>2 DEF Tick, DumpStarts, TypeInv, TypeOK, Jobs
  <2> QED
    BY <2>1, NoPrune DEF PruneInv, ListInv, DumpPCs, pruneVars
<1>3. ASSUME NEW j \in Jobs, JobStep(j) PROVE ListInv' /\ KeptInv'
  <2>1. CASE j \in Runs
    <3>1. UNCHANGED <<pc[Scheduler], pruneVars>> /\ Noted({j})
      BY <1>0, <1>3, <2>1
         DEF JobStep, UploadReturns, DumpEnds, DumpFails, Succeeds, CleanUp, Goto, Return,
             TypeInv, TypeOK, Jobs
    <3>2. Scheduler \notin {j}
      BY <1>0, <2>1
    <3> QED
      BY <3>1, <3>2, PruneBesideOthers DEF PruneInv
  <2>2. CASE j = Scheduler
    <3>1. pc[Scheduler] \in DumpPCs /\ UNCHANGED pruneVars
      BY <1>3, <2>2 DEF JobStep, UploadReturns, DumpEnds, CleanUp, DumpPCs
    <3>2. listed = {} /\ token = 0
      BY <3>1 DEF PruneInv, ListInv
    <3>3. pc'[Scheduler] \in DumpPCs \cup {"list"}
      BY <1>3, <2>2 DEF JobStep, UploadReturns, DumpEnds, DumpFails, Succeeds, CleanUp, Goto,
                        Return, TypeInv, TypeOK, DumpPCs
    <3> QED
      BY <3>1, <3>2, <3>3 DEF ListInv, KeptInv, ScheduledIn, DumpPCs, pruneVars
  <2> QED
    BY <2>1, <2>2 DEF Jobs
<1>4. CASE PruneStep
  <2>1. CASE PruneEnds
    <3>1. pc'[Scheduler] \in DumpPCs /\ listed' = {} /\ token' = 0
      BY <2>1 DEF PruneEnds, PruneReturns, Return, ForgetListing, TypeInv, TypeOK, Jobs, DumpPCs
    <3> QED
      BY <3>1, NoPrune
  <2> QED
    BY <1>4, <2>1, ListPageStep, PickVictimsStep, DeleteVictimStep DEF PruneStep
<1>5. ASSUME NEW n \in Names, OperatorDeletes(n) PROVE ListInv' /\ KeptInv'
  <2>1. UNCHANGED <<pc[Scheduler], pruneVars>> /\ Noted({})
    BY <1>5 DEF OperatorDeletes, jobVars
  <2> QED
    BY <2>1, PruneBesideOthers DEF PruneInv
<1>6. CASE AdminCrash
  BY <1>6, NoPrune DEF AdminCrash, ForgetListing, Jobs, DumpPCs
<1>7. CASE UNCHANGED vars
  BY <1>7 DEF vars, jobVars, pruneVars, PruneInv, ListInv, KeptInv, ScheduledIn, Still
<1> QED
  BY <1>1, <1>2, <1>3, <1>4, <1>5, <1>6, <1>7 DEF Next

LEMMA PruneInvariant == Spec => []PruneInv
<1>1. Init => PruneInv
  BY ConstantsAssumption
     DEF Init, NothingToPrune, PruneInv, TimesInv, ListInv, KeptInv, ScheduledIn,
         Jobs, DumpPCs, ConstantsAssumption
<1>2. TypeInv /\ TypeInv' /\ PruneInv /\ [Next]_vars => PruneInv'
  BY PruneInvStep
<1> QED
  BY <1>1, <1>2, TypeInvariant, PTL DEF Spec

\* Retention deletes an object only from behind Retain newer scheduled ones
\* that are in the bucket at that moment, or that others took or replaced since
\* they were listed (prune and pickRetentionVictims), whatever names are used.
THEOREM RetentionSafe == Spec => RetentionKeepsNewest
<1>1. ASSUME TypeInv, PruneInv, DeleteVictim, NEW o \in store \ store',
             o.name \notin touched[Scheduler]
      PROVE  Cardinality({x \in kept :
               x.at > o.at /\ (x \in store \/ x.name \in touched[Scheduler])}) >= Retain
  <2>1. PICK v \in victims : MayDrop(v.name) \/ Drop(v.name)
    BY <1>1 DEF DeleteVictim
  <2>2. o.name = v.name
    BY <2>1, DropFacts
  <2>3. pc[Scheduler] = "prune"
    BY <1>1 DEF DeleteVictim
  <2>4. o = v
    BY <1>1, <2>1, <2>2, <2>3 DEF PruneInv, KeptInv, ListInv, ScheduledIn
  <2>5. {x \in kept : x.at > o.at /\ (x \in store \/ x.name \in touched[Scheduler])} = kept
    BY <1>1, <2>1, <2>3, <2>4 DEF PruneInv, KeptInv, Still
  <2>6. Cardinality(kept) = Retain
    BY <1>1, <2>3 DEF PruneInv, KeptInv
  <2>7. Cardinality(kept) >= Retain
    BY <2>6, ConstantsAssumption DEF ConstantsAssumption
  <2> QED
    BY <2>5, <2>7
<1>2. TypeInv /\ PruneInv /\ [Next]_vars =>
        [DeleteVictim =>
           \A o \in store \ store' :
             \/ o.name \in touched[Scheduler]
             \/ Cardinality({x \in kept :
                  x.at > o.at /\ (x \in store \/ x.name \in touched[Scheduler])}) >= Retain]_vars
  BY <1>1
<1> QED
  BY <1>2, TypeInvariant, PruneInvariant, PTL DEF Spec, RetentionKeepsNewest

-------------------------------------------------------------------------------
(* Each run and its own object *)

\* A dump that has met no error has left its object, whole, and nobody else has
\* touched it unless that is noted.
Own(j) ==
  /\ since[j] <= clock
  /\ pc[j] = "wait" /\ errs[j] = {} =>
       name[j] \in touched[j] \/ \E o \in Written(j) : o.whole
OwnInv == \A j \in Jobs : Own(j)

\* A job bears the steps of others, which are noted.
LEMMA OwnBesideOthers ==
  ASSUME TypeInv, NEW js, Noted(js), clock' \in {clock, clock + 1},
         NEW j \in Jobs, j \notin js, Own(j),
         UNCHANGED <<pc[j], name[j], since[j], errs[j]>>
  PROVE  Own(j)'
<1>1. since'[j] <= clock'
  BY DEF Own, TypeInv, TypeOK
<1>2. ASSUME pc'[j] = "wait", errs'[j] = {}
      PROVE  name'[j] \in touched'[j] \/ \E o \in Written(j)' : o.whole
  <2>1. touched[j] \subseteq touched'[j]
    BY <1>2, OthersAreNoted
  <2>2. \A x \in store : x.name = name[j] => x.name \in touched'[j] \/ x \in store'
    BY <1>2, OthersAreNoted DEF AtWork
  <2>3. CASE name[j] \in touched[j]
    BY <2>1, <2>3
  <2>4. ASSUME NEW o \in Written(j), o.whole
        PROVE  name'[j] \in touched'[j] \/ \E x \in Written(j)' : x.whole
    BY <2>2, <2>4 DEF Written
  <2> QED
    BY <1>2, <2>3, <2>4 DEF Own
<1> QED
  BY <1>1, <1>2 DEF Own

\* The object that an upload leaves is the job's, and whole if nothing failed.
LEMMA UploadOwns ==
  ASSUME TypeInv, NEW j \in Jobs, Own(j), UploadReturns(j)
  PROVE  Own(j)'
<1>1. pc[j] = "upload" /\ pc'[j] = "wait" /\ UNCHANGED <<name, since>>
  BY DEF UploadReturns, TypeInv, TypeOK
<1>2. since[j] \in Nat /\ clock \in Nat /\ since[j] <= clock
  BY DEF Own, TypeInv, TypeOK
<1>3. CASE UNCHANGED <<store, clock>> /\ "upload" \in errs'[j]
  BY <1>1, <1>3 DEF Own
<1>4. ASSUME NEW whole \in BOOLEAN, Uploaded(j, whole), ~whole => "wait" \in errs'[j]
      PROVE  Own(j)'
  <2> DEFINE o == [name |-> name[j], at |-> clock', whole |-> whole, by |-> j]
  <2>1. Put(o) /\ clock' = clock + 1
    BY <1>4 DEF Uploaded
  <2>2. o.name = name[j] /\ o.by = j /\ o.at = clock' /\ o.whole = whole
    OBVIOUS
  <2> HIDE DEF o
  <2>3. o \in store'
    BY <2>1, PutFacts
  <2>4. o.at > since[j] /\ since[j] <= clock'
    BY <1>2, <2>1, <2>2
  <2>5. o \in Written(j)'
    BY <1>1, <2>2, <2>3, <2>4 DEF Written
  <2>6. errs'[j] = {} => o.whole
    BY <1>4, <2>2
  <2> QED
    BY <1>1, <2>4, <2>5, <2>6 DEF Own
<1>5. PICK e \in SUBSET {"upload", "wait"} :
        /\ errs' = [errs EXCEPT ![j] = e]
        /\ \/ \E whole \in BOOLEAN : (~whole => "wait" \in e) /\ Uploaded(j, whole)
           \/ "upload" \in e /\ UNCHANGED <<store, clock>>
  BY DEF UploadReturns
<1>6. errs'[j] = e
  BY <1>5 DEF TypeInv, TypeOK
<1> QED
  BY <1>3, <1>4, <1>5, <1>6

\* A job that goes anywhere but to its wait has nothing to show.
LEMMA OwnElsewhere ==
  ASSUME TypeInv, NEW j \in Jobs, Own(j), clock' = clock, pc'[j] # "wait",
         since'[j] \in {0, since[j]}
  PROVE  Own(j)'
  BY DEF Own, TypeInv, TypeOK

LEMMA OwnStep == TypeInv /\ TypeInv' /\ OwnInv /\ [Next]_vars => OwnInv'
<1> SUFFICES ASSUME TypeInv, TypeInv', OwnInv, [Next]_vars, NEW i \in Jobs PROVE Own(i)'
  BY DEF OwnInv
<1>0. Own(i)
  BY DEF OwnInv
<1>1. ASSUME NEW j \in Jobs, NEW n, DumpStarts(j, n) PROVE Own(i)'
  <2>1. CASE i = j
    <3>1. pc'[j] = "upload" /\ since'[j] = clock /\ UNCHANGED clock /\ clock \in Nat
      BY <1>1 DEF DumpStarts, TypeInv, TypeOK
    <3> QED
      BY <2>1, <3>1 DEF Own
  <2>2. CASE i # j
    <3>1. UNCHANGED <<pc[i], name[i], since[i], errs[i], touched[i], store, clock>>
      BY <1>1, <2>2 DEF DumpStarts, TypeInv, TypeOK
    <3> QED
      BY <1>0, <3>1 DEF Own, Written
  <2> QED
    BY <2>1, <2>2
<1>2. ASSUME NEW j \in Jobs, JobStep(j) PROVE Own(i)'
  <2>1. CASE i = j
    <3>1. CASE UploadReturns(j)
      BY <1>0, <2>1, <3>1, UploadOwns
    <3>2. CASE DumpEnds(j) \/ \E failed \in BOOLEAN : CleanUp(j, failed)
      <4>1. clock' = clock /\ pc'[j] # "wait" /\ since'[j] \in {0, since[j]}
        BY <3>2 DEF DumpEnds, DumpFails, Succeeds, CleanUp, Goto, Return, TypeInv, TypeOK
      <4> QED
        BY <1>0, <2>1, <4>1, OwnElsewhere
    <3> QED
      BY <1>2, <3>1, <3>2 DEF JobStep
  <2>2. CASE i # j
    <3>1. UNCHANGED <<pc[i], name[i], since[i], errs[i]>>
      BY <1>2, <2>2 DEF JobStep, UploadReturns, DumpEnds, DumpFails, Succeeds, CleanUp, Goto,
                        Return, TypeInv, TypeOK
    <3>2. clock' \in {clock, clock + 1} /\ Noted({j})
      BY <1>2, DumpTouches DEF OnlyTouches, JobStep
    <3>3. i \notin {j}
      BY <2>2
    <3> QED
      BY <1>0, <3>1, <3>2, <3>3, OwnBesideOthers
  <2> QED
    BY <2>1, <2>2
<1>3. CASE PruneStep
  <2>1. pc[Scheduler] \in PrunePCs /\ clock' = clock /\ clock \in Nat /\ Noted({Scheduler})
    BY <1>3 DEF PruneStep, ListPage, PickVictims, DeleteVictim, PruneEnds, PrunePCs, TypeInv,
                TypeOK
  <2>2. CASE i = Scheduler
    <3>1. pc'[i] # "wait" /\ since'[i] \in {0, since[i]}
      BY <1>3, <2>1, <2>2
         DEF PruneStep, ListPage, PickVictims, DeleteVictim, PruneEnds, PruneReturns,
             Goto, Return, jobVars, PrunePCs, TypeInv, TypeOK
    <3> QED
      BY <1>0, <2>1, <3>1, OwnElsewhere
  <2>3. CASE i # Scheduler
    <3>1. UNCHANGED <<pc[i], name[i], since[i], errs[i]>>
      BY <1>3, <2>3 DEF PruneStep, ListPage, PickVictims, DeleteVictim, PruneEnds, PruneReturns,
                        Goto, Return, jobVars, TypeInv, TypeOK
    <3>2. i \notin {Scheduler}
      BY <2>3
    <3> QED
      BY <1>0, <2>1, <3>1, <3>2, OwnBesideOthers
  <2> QED
    BY <2>2, <2>3
<1>4. ASSUME NEW n \in Names, OperatorDeletes(n) PROVE Own(i)'
  <2>1. UNCHANGED <<clock, pc[i], name[i], since[i], errs[i]>> /\ Noted({}) /\ i \notin {}
    BY <1>4 DEF OperatorDeletes, jobVars
  <2> QED
    BY <1>0, <2>1, OwnBesideOthers
<1>5. CASE AdminCrash
  BY <1>0, <1>5, OwnElsewhere DEF AdminCrash
<1>6. CASE UNCHANGED vars
  BY <1>0, <1>6 DEF vars, jobVars, Own, Written
<1> QED
  BY <1>1, <1>2, <1>3, <1>4, <1>5, <1>6 DEF Next, BackupRequested, Tick, Jobs

LEMMA OwnInvariant == Spec => []OwnInv
<1>1. Init => OwnInv
  BY DEF Init, OwnInv, Own
<1> QED
  BY <1>1, OwnStep, TypeInvariant, PTL DEF Spec

\* A backup that RunPgDump reports as made is in the bucket, whole and from
\* that very run, unless somebody else has deleted or replaced it since it was
\* uploaded, whatever names are used.
THEOREM OkIsStored == Spec => OkMeansStored
<1>1. TypeInv /\ OwnInv /\ [Next]_vars =>
        [\A j \in Jobs : DumpEnds(j) /\ Succeeded(j) =>
           name[j] \in touched[j] \/ \E o \in Written(j) : o.whole]_vars
  BY DEF OwnInv, Own, DumpEnds, Succeeded
<1> QED
  BY <1>1, OwnInvariant, TypeInvariant, PTL DEF Spec, OkMeansStored

-------------------------------------------------------------------------------
(* Failed runs *)

\* Errors are those of a dump on its way out.
ErrsInv == \A j \in Jobs : errs[j] # {} => pc[j] \in {"wait", "cleanup"}

LEMMA ErrsStep == TypeInv /\ ErrsInv /\ [Next]_vars => ErrsInv'
<1> SUFFICES ASSUME TypeInv, ErrsInv, [Next]_vars PROVE ErrsInv'
  OBVIOUS
<1> USE DEF TypeInv, TypeOK
<1>1. ASSUME NEW j \in Jobs, NEW n, DumpStarts(j, n) PROVE ErrsInv'
  BY <1>1 DEF DumpStarts, ErrsInv
<1>2. ASSUME NEW j \in Jobs, JobStep(j) PROVE ErrsInv'
  <2>1. CASE UploadReturns(j)
    BY <2>1 DEF UploadReturns, ErrsInv
  <2>2. CASE DumpEnds(j) /\ Succeeded(j)
    BY <2>2 DEF DumpEnds, Succeeded, Succeeds, Goto, Return, ErrsInv
  <2>3. CASE DumpEnds(j) /\ ~Succeeded(j)
    BY <2>3 DEF DumpEnds, DumpFails, Goto, ErrsInv
  <2>4. ASSUME NEW failed \in BOOLEAN, CleanUp(j, failed) PROVE ErrsInv'
    BY <2>4 DEF CleanUp, Return, ErrsInv
  <2> QED
    BY <1>2, <2>1, <2>2, <2>3, <2>4 DEF JobStep
<1>3. CASE PruneStep
  <2>1. pc[Scheduler] \in {"list", "pick", "prune"} /\ Scheduler \in Jobs
    BY <1>3 DEF PruneStep, ListPage, PickVictims, DeleteVictim, PruneEnds, Jobs
  <2>2. errs[Scheduler] = {}
    BY <2>1 DEF ErrsInv
  <2>3. \A i \in Jobs : errs'[i] # {} => errs[i] # {} /\ (i # Scheduler => pc'[i] = pc[i])
    BY <1>3, <2>1 DEF PruneStep, ListPage, PickVictims, DeleteVictim, PruneEnds, PruneReturns,
                      Goto, Return, jobVars
  <2> QED
    BY <2>2, <2>3 DEF ErrsInv
<1>4. ASSUME NEW n \in Names, OperatorDeletes(n) PROVE ErrsInv'
  BY <1>4 DEF OperatorDeletes, jobVars, ErrsInv
<1>5. CASE AdminCrash
  BY <1>5 DEF AdminCrash, ErrsInv
<1>6. CASE UNCHANGED vars
  BY <1>6 DEF vars, jobVars, ErrsInv
<1> QED
  BY <1>1, <1>2, <1>3, <1>4, <1>5, <1>6 DEF Next, BackupRequested, Tick, Jobs

LEMMA ErrsInvariant == Spec => []ErrsInv
<1>1. Init => ErrsInv
  BY DEF Init, ErrsInv
<1> QED
  BY <1>1, ErrsStep, TypeInvariant, PTL DEF Spec

\* A run of pg_dump that fails leaves nothing of its own in the bucket when it
\* returns (RunPgDump's delete on failure), unless the delete failed too, which
\* the error it returns says, or the process died.
THEOREM FailureIsClean == Spec => FailureLeavesNothing
<1>1. ASSUME TypeInv, ErrsInv, [Next]_vars, NEW j \in Jobs, errs[j] # {}, pc'[j] = "idle",
             ~CleanUp(j, TRUE), ~AdminCrash
      PROVE  Written(j) \cap store' = {}
  <2> USE <1>1 DEF TypeInv, TypeOK
  <2>1. pc[j] \in {"wait", "cleanup"}
    BY DEF ErrsInv
  <2>2. CleanUp(j, FALSE)
    <3>1. pc'[j] # pc[j]
      BY <2>1
    <3>2. ASSUME NEW i \in Jobs, NEW n, DumpStarts(i, n) PROVE FALSE
      BY <2>1, <3>1, <3>2 DEF DumpStarts
    <3>3. ASSUME NEW i \in Jobs, JobStep(i) PROVE CleanUp(j, FALSE)
      <4>1. i = j
        BY <3>1, <3>3 DEF JobStep, UploadReturns, DumpEnds, DumpFails, Succeeds, CleanUp, Goto,
                          Return
      <4>2. ~UploadReturns(j)
        BY <2>1 DEF UploadReturns
      <4>3. ~DumpEnds(j)
        BY DEF DumpEnds, Succeeded, DumpFails, Goto
      <4> QED
        BY <3>3, <4>1, <4>2, <4>3 DEF JobStep
    <3>4. ~PruneStep
      BY <2>1, <3>1 DEF PruneStep, ListPage, PickVictims, DeleteVictim, PruneEnds, PruneReturns,
                        Goto, Return, jobVars
    <3>5. ASSUME NEW n \in Names, OperatorDeletes(n) PROVE FALSE
      BY <3>1, <3>5 DEF OperatorDeletes, jobVars
    <3>6. ~UNCHANGED vars
      BY <3>1 DEF vars, jobVars
    <3> QED
      BY <3>2, <3>3, <3>4, <3>5, <3>6 DEF Next, BackupRequested, Tick, Jobs
  <2>3. \A o \in store' : o.name # name[j]
    BY <2>2 DEF CleanUp, Drop
  <2> QED
    BY <2>3 DEF Written
<1>2. TypeInv /\ ErrsInv /\ [Next]_vars =>
        [\A j \in Jobs :
           errs[j] # {} /\ pc'[j] = "idle" /\ ~CleanUp(j, TRUE) /\ ~AdminCrash
             => Written(j) \cap store' = {}]_vars
  BY <1>1
<1> QED
  BY <1>2, TypeInvariant, ErrsInvariant, PTL DEF Spec, FailureLeavesNothing
-------------------------------------------------------------------------------
(* A prune that meets no error catches up *)

FiniteInv == IsFiniteSet(store) /\ IsFiniteSet(listed)

\* The scheduler's own among S, the ones its prunes have to keep down.
OwnIn(S) == {o \in ScheduledIn(S) : o.by = Scheduler}

\* No object of the scheduler's escapes the prune: what comes before the token has been
\* listed, then everything has; then it is kept or still to be deleted, unless
\* a delete has failed.
CoverInv ==
  /\ pc[Scheduler] = "list" => \A o \in OwnIn(store) : o.name <= token => o \in listed
  /\ pc[Scheduler] = "pick" => OwnIn(store) \subseteq listed
  /\ pc[Scheduler] = "prune" /\ ~missed => OwnIn(store) \subseteq kept \cup victims

LEMMA FiniteStep == TypeInv /\ FiniteInv /\ [Next]_vars => FiniteInv'
<1> SUFFICES ASSUME TypeInv, FiniteInv, [Next]_vars PROVE FiniteInv'
  OBVIOUS
<1>1. store' \subseteq store \/ \E o : Put(o)
  BY DropFacts DEF Next, vars, BackupRequested, Tick, DumpStarts, JobStep, UploadReturns,
       Uploaded, DumpEnds, CleanUp, PruneStep, ListPage, PickVictims, DeleteVictim, PruneEnds,
       OperatorDeletes, AdminCrash
<1>2. IsFiniteSet(store')
  <2>1. CASE store' \subseteq store
    BY <2>1, FS_Subset DEF FiniteInv
  <2>2. ASSUME NEW o, Put(o) PROVE IsFiniteSet(store')
    <3>1. IsFiniteSet({x \in store : x.name # o.name})
      BY FS_Subset DEF FiniteInv
    <3> QED
      BY <2>2, <3>1, FS_AddElement DEF Put
  <2> QED
    BY <1>1, <2>1, <2>2
<1>3. listed' \subseteq listed \cup store
  BY PruneTouches DEF Next, vars, pruneVars, BackupRequested, Tick, DumpStarts, JobStep,
       UploadReturns, DumpEnds, CleanUp, OperatorDeletes, AdminCrash, ForgetListing
<1>4. IsFiniteSet(listed \cup store)
  BY FS_Union DEF FiniteInv
<1> QED
  BY <1>2, <1>3, <1>4, FS_Subset DEF FiniteInv

\* A page has every object up to its last name.
LEMMA PageIsPrefix ==
  ASSUME TypeInv, FiniteInv, NEW t \in Nat, NEW m \in PageOf(t), NEW o \in After(t),
         o.name <= m.name
  PROVE  o \in PageOf(t)
<1> DEFINE Below(x) == {y \in After(t) : y.name < x.name}
<1>1. m \in store /\ o \in store /\ (\A x \in store : x.name \in Nat)
  BY DEF PageOf, After, TypeInv, TypeOK, Objects, Names
<1>2. Below(o) \subseteq Below(m)
  BY <1>1 DEF After
<1>3. IsFiniteSet(Below(m))
  BY FS_Subset DEF After, FiniteInv
<1>4. Cardinality(Below(o)) <= Cardinality(Below(m)) /\ IsFiniteSet(Below(o))
  BY <1>2, <1>3, FS_Subset
<1>5. Cardinality(Below(o)) \in Nat /\ Cardinality(Below(m)) \in Nat
  BY <1>3, <1>4, FS_CardinalityType
<1>6. Cardinality(Below(m)) < PageSize
  BY DEF PageOf
<1>7. Cardinality(Below(o)) < PageSize
  BY <1>4, <1>5, <1>6, ConstantsAssumption DEF ConstantsAssumption
<1> QED
  BY <1>7 DEF PageOf

\* The cover bears what removes scheduled objects and leaves the prune alone.
LEMMA CoverShrinks ==
  ASSUME CoverInv, OwnIn(store') \subseteq OwnIn(store),
         UNCHANGED <<pc[Scheduler], pruneVars>>
  PROVE  CoverInv'
<1>1. OwnIn(store)' \subseteq OwnIn(store)
  BY DEF OwnIn, ScheduledIn
<1> QED
  BY <1>1 DEF CoverInv, pruneVars

LEMMA ListPageCovers ==
  ASSUME TypeInv, FiniteInv, CoverInv, ListPage
  PROVE  CoverInv'
<1>0. pc[Scheduler] = "list" /\ store' = store /\ token \in Nat
      /\ \A x \in store : x.name \in Nat
  BY DEF ListPage, TypeInv, TypeOK, Objects, Names
<1>1. CASE PruneReturns
  BY <1>1 DEF PruneReturns, Return, TypeInv, TypeOK, Jobs, CoverInv
<1>2. CASE ~PruneReturns
  <2>1. listed' = listed \cup PageOf(token)
    BY <1>2 DEF ListPage
  <2>2. \A o \in OwnIn(store) : o.name <= token => o \in listed
    BY <1>0 DEF CoverInv
  <2>3. CASE Truncated(token)
    <3>1. pc' = pc
      BY <1>2, <2>3 DEF ListPage, jobVars
    <3>2. PICK m \in PageOf(token) : token' = m.name
      BY <1>2, <2>3 DEF ListPage
    <3>3. ASSUME NEW o \in OwnIn(store), o.name <= m.name PROVE o \in listed'
      <4>1. CASE o.name <= token
        BY <2>1, <2>2, <4>1
      <4>2. CASE o.name > token
        <5>1. o \in After(token)
          BY <4>2 DEF After, OwnIn, ScheduledIn
        <5> QED
          BY <1>0, <2>1, <3>3, <5>1, PageIsPrefix
      <4>3. o.name \in Nat
        BY <1>0 DEF OwnIn, ScheduledIn
      <4> QED
        BY <1>0, <4>1, <4>2, <4>3
    <3> QED
      BY <1>0, <3>1, <3>2, <3>3 DEF CoverInv, OwnIn, ScheduledIn
  <2>4. CASE ~Truncated(token)
    <3>1. pc'[Scheduler] = "pick"
      BY <1>2, <2>4 DEF ListPage, Goto, TypeInv, TypeOK, Jobs
    <3>2. \A o \in OwnIn(store) : o.name <= token \/ o \in After(token)
      BY <1>0 DEF OwnIn, ScheduledIn, After
    <3>3. OwnIn(store) \subseteq listed'
      BY <2>1, <2>2, <2>4, <3>2 DEF Truncated
    <3> QED
      BY <1>0, <3>1, <3>3 DEF CoverInv, OwnIn, ScheduledIn
  <2> QED
    BY <2>3, <2>4
<1> QED
  BY <1>1, <1>2

LEMMA PickAndDeleteCover ==
  ASSUME TypeInv, CoverInv, PickVictims \/ DeleteVictim \/ PruneEnds
  PROVE  CoverInv'
<1>1. CASE PruneReturns /\ pc[Scheduler] # "idle"
  BY <1>1 DEF PruneReturns, Return, TypeInv, TypeOK, Jobs, CoverInv
<1>2. CASE PickVictims /\ ~PruneReturns
  <2>1. OwnIn(store) \subseteq WithPrefix(listed)
    BY <1>2 DEF PickVictims, CoverInv, OwnIn, ScheduledIn, WithPrefix
  <2>2. WithPrefix(listed) \subseteq kept' \cup victims' /\ store' = store
    BY <1>2 DEF PickVictims
  <2>3. pc'[Scheduler] = "prune"
    BY <1>2 DEF PickVictims, Goto, TypeInv, TypeOK, Jobs
  <2> QED
    BY <2>1, <2>2, <2>3 DEF CoverInv, OwnIn, ScheduledIn
<1>3. CASE DeleteVictim
  <2>1. PICK v \in victims, failed \in BOOLEAN :
          /\ IF failed THEN MayDrop(v.name) ELSE Drop(v.name)
          /\ missed' = (missed \/ failed)
          /\ victims' = victims \ {v}
    BY <1>3 DEF DeleteVictim
  <2>2. pc'[Scheduler] = "prune" /\ pc[Scheduler] = "prune" /\ kept' = kept
    BY <1>3 DEF DeleteVictim, jobVars
  <2>3. CASE failed
    BY <2>1, <2>2, <2>3 DEF CoverInv
  <2>4. CASE ~failed
    <3>1. missed' = missed
      BY <2>1, <2>4 DEF TypeInv, TypeOK
    <3>2. store' = {x \in store : x.name # v.name}
      BY <2>1, <2>4 DEF Drop
    <3> QED
      BY <2>1, <2>2, <3>1, <3>2 DEF CoverInv, OwnIn, ScheduledIn
  <2> QED
    BY <2>3, <2>4
<1> QED
  BY <1>1, <1>2, <1>3 DEF PickVictims, PruneEnds

LEMMA CoverStep ==
  TypeInv /\ FiniteInv /\ PruneInv /\ CoverInv /\ [Next]_vars => CoverInv'
<1> SUFFICES ASSUME TypeInv, FiniteInv, PruneInv, CoverInv, [Next]_vars
             PROVE  CoverInv'
  OBVIOUS
<1>0. Scheduler \notin Runs
  BY ConstantsAssumption DEF ConstantsAssumption
<1>1. ASSUME NEW r \in Runs, NEW n \in Names, BackupRequested(r, n) PROVE CoverInv'
  <2>1. UNCHANGED <<store, pc[Scheduler], pruneVars>>
    BY <1>0, <1>1 DEF BackupRequested, DumpStarts, TypeInv, TypeOK, Jobs
  <2> QED
    BY <2>1, CoverShrinks DEF OwnIn, ScheduledIn
<1>2. CASE Tick
  <2>1. pc'[Scheduler] = "upload"
    BY <1>2 DEF Tick, DumpStarts, TypeInv, TypeOK, Jobs
  <2> QED
    BY <2>1 DEF CoverInv
<1>3. ASSUME NEW j \in Jobs, JobStep(j) PROVE CoverInv'
  <2>1. CASE j \in Runs
    <3>1. UNCHANGED <<pc[Scheduler], pruneVars>>
      BY <1>0, <1>3, <2>1
         DEF JobStep, UploadReturns, DumpEnds, DumpFails, Succeeds, CleanUp, Goto, Return,
             TypeInv, TypeOK, Jobs
    <3>3. OwnIn(store') \subseteq OwnIn(store)
      BY <1>0, <1>3, <2>1, DumpTouches DEF OnlyTouches, OwnIn, ScheduledIn
    <3> QED
      BY <3>1, <3>3, CoverShrinks
  <2>2. CASE j = Scheduler
    <3>1. pc[Scheduler] \in DumpPCs /\ token' = token
      BY <1>3, <2>2 DEF JobStep, UploadReturns, DumpEnds, CleanUp, DumpPCs, pruneVars
    <3>2. token' = 0
      BY <3>1 DEF PruneInv, ListInv
    <3>3. pc'[Scheduler] \in DumpPCs \cup {"list"}
      BY <1>3, <2>2 DEF JobStep, UploadReturns, DumpEnds, DumpFails, Succeeds, CleanUp, Goto,
                        Return, TypeInv, TypeOK, DumpPCs
    <3>4. CASE pc'[Scheduler] = "list"
      <4>1. store' = store
        BY <1>3, <2>2, <3>4 DEF JobStep, UploadReturns, DumpEnds, CleanUp, Return, TypeInv,
                                TypeOK
      <4>2. \A o \in store : o.name \in Nat /\ o.name > 0
        BY DEF TypeInv, TypeOK, Objects, Names
      <4> QED
        BY <3>2, <3>4, <4>1, <4>2 DEF CoverInv, OwnIn, ScheduledIn
    <3>5. CASE pc'[Scheduler] \in DumpPCs
      BY <3>5 DEF CoverInv, DumpPCs
    <3> QED
      BY <3>3, <3>4, <3>5
  <2> QED
    BY <2>1, <2>2 DEF Jobs
<1>4. CASE PruneStep
  BY <1>4, ListPageCovers, PickAndDeleteCover DEF PruneStep
<1>5. ASSUME NEW n \in Names, OperatorDeletes(n) PROVE CoverInv'
  BY <1>5, CoverShrinks DEF OperatorDeletes, jobVars, Drop, OwnIn, ScheduledIn
<1>6. CASE AdminCrash
  BY <1>6 DEF AdminCrash, CoverInv, Jobs
<1>7. CASE UNCHANGED vars
  BY <1>7, CoverShrinks DEF vars, jobVars, OwnIn, ScheduledIn
<1> QED
  BY <1>1, <1>2, <1>3, <1>4, <1>5, <1>6, <1>7 DEF Next

LEMMA CoverInvariant == Spec => [](FiniteInv /\ CoverInv)
<1>1. Init => FiniteInv /\ CoverInv
  BY FS_EmptySet DEF Init, NothingToPrune, FiniteInv, CoverInv, Jobs
<1>2. Spec => []PruneInv
  BY PruneInvariant
<1>3. TypeInv /\ PruneInv /\ FiniteInv /\ CoverInv /\ [Next]_vars => FiniteInv' /\ CoverInv'
  BY FiniteStep, CoverStep
<1> QED
  BY <1>1, <1>2, <1>3, TypeInvariant, PTL DEF Spec

\* Of the scheduler's objects within a finite S, there are no more than S has.
LEMMA NoMoreThan ==
  ASSUME NEW S, IsFiniteSet(S), OwnIn(store) \subseteq S, Cardinality(S) <= Retain
  PROVE  Cardinality(OwnIn(store)) <= Retain
<1>1. Cardinality(OwnIn(store)) <= Cardinality(S) /\ IsFiniteSet(OwnIn(store))
  BY FS_Subset
<1>2. Cardinality(S) \in Nat /\ Cardinality(OwnIn(store)) \in Nat /\ Retain \in Nat
  BY <1>1, FS_CardinalityType, ConstantsAssumption DEF ConstantsAssumption
<1> QED
  BY <1>1, <1>2

\* A prune that lists every page and deletes without an error (prune and
\* pickRetentionVictims in scheduler.go) leaves no more than Retain of the
\* objects that the scheduler wrote, whatever names requests use.
THEOREM PruneComplete == Spec => PruneCatchesUp
<1>1. ASSUME TypeInv, PruneInv, FiniteInv, CoverInv, [Next]_vars,
             pc[Scheduler] \in {"pick", "prune"}, pc'[Scheduler] = "idle", ~missed, ~AdminCrash
      PROVE  Cardinality(OwnIn(store)) <= Retain
  <2> USE <1>1
  <2>0. Scheduler \in Jobs /\ Scheduler \notin Runs
    BY ConstantsAssumption DEF ConstantsAssumption, Jobs
  <2>1. CASE PickVictims
    <3>1. Cardinality(WithPrefix(listed)) <= Retain
      BY <2>0, <2>1 DEF PickVictims, Goto, TypeInv, TypeOK
    <3>2. OwnIn(store) \subseteq WithPrefix(listed)
      BY <2>1 DEF PickVictims, CoverInv, OwnIn, ScheduledIn, WithPrefix
    <3>3. IsFiniteSet(WithPrefix(listed))
      BY FS_Subset DEF FiniteInv, WithPrefix
    <3> QED
      BY <3>1, <3>2, <3>3, NoMoreThan
  <2>2. CASE PruneEnds
    <3>1. OwnIn(store) \subseteq kept
      BY <2>2 DEF PruneEnds, CoverInv
    <3>2. kept \subseteq listed /\ Cardinality(kept) = Retain
      BY <2>2 DEF PruneEnds, PruneInv, KeptInv, OwnIn, ScheduledIn
    <3>3. IsFiniteSet(kept) /\ Cardinality(kept) <= Retain
      BY <3>2, FS_Subset, ConstantsAssumption DEF FiniteInv, ConstantsAssumption
    <3> QED
      BY <3>1, <3>3, NoMoreThan
  <2>3. CASE ~PickVictims /\ ~PruneEnds
    <3>1. pc'[Scheduler] # pc[Scheduler]
      OBVIOUS
    <3>2. ASSUME NEW j \in Jobs, NEW n, DumpStarts(j, n) PROVE FALSE
      BY <2>0, <3>1, <3>2 DEF DumpStarts, TypeInv, TypeOK
    <3>3. ASSUME NEW j \in Jobs, JobStep(j) PROVE FALSE
      BY <2>0, <3>1, <3>3 DEF JobStep, UploadReturns, DumpEnds, DumpFails, Succeeds, CleanUp,
                             Goto, Return, TypeInv, TypeOK
    <3>4. ~ListPage /\ ~DeleteVictim
      BY <3>1 DEF ListPage, DeleteVictim, jobVars
    <3>5. ASSUME NEW n \in Names, OperatorDeletes(n) PROVE FALSE
      BY <3>1, <3>5 DEF OperatorDeletes, jobVars
    <3>6. ~UNCHANGED vars
      BY <3>1 DEF vars, jobVars
    <3> QED
      BY <2>3, <3>2, <3>3, <3>4, <3>5, <3>6 DEF Next, PruneStep, BackupRequested, Tick, Jobs
  <2> QED
    BY <2>1, <2>2, <2>3
<1>2. TypeInv /\ PruneInv /\ FiniteInv /\ CoverInv /\ [Next]_vars =>
        [pc[Scheduler] \in {"pick", "prune"} /\ pc'[Scheduler] = "idle"
           /\ ~missed /\ ~AdminCrash
           => Cardinality({o \in ScheduledIn(store) : o.by = Scheduler}) <= Retain]_vars
  BY <1>1 DEF OwnIn
<1> QED
  BY <1>2, TypeInvariant, PruneInvariant, CoverInvariant, PTL DEF Spec, PruneCatchesUp
===============================================================================

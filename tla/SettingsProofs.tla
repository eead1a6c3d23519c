--------------------------- MODULE SettingsProofs ---------------------------
(***************************************************************************)
(* Theorems about Settings, for any number of typed values and of GETs     *)
(* under way together.                                                     *)
(***************************************************************************)
EXTENDS Settings, SequenceTheorems, TLAPS

\* What a field of the form can hold: SETUP_COMPLETE has no input, and only the
\* secret is hidden.
FormInv ==
  /\ form \in [Fields -> Typed \cup {Masked, None}]
  /\ form["url"] \in Typed \cup {None}
  /\ form["setup"] \in {0, 1, None}

\* The wizard is on the dashboard, and waits for the POST it sent from there.
WizardInv ==
  /\ wizard # None => page = "dashboard"
  /\ post # None /\ post.here /\ post.kind \in {"urls", "smtp"} => wizard # None

\* With every request answered so far, and no save under way, the last answer to
\* GET is the file as it is; without one under way, the form is.
CurrentInv ==
  page = "settings" /\ ~unsure /\ (post = None \/ post.kind # "save") =>
    IF gets = <<>> THEN \A f \in Fields \ edited : form[f] = View(env)[f]
                   ELSE gets[Len(gets)] = View(env)

IInv == TypeOK /\ FormInv /\ WizardInv /\ CurrentInv

\* What the constants are.
LEMMA Constants ==
  /\ MaxEdits \in Nat /\ MaxEdits > 0 /\ MaxGets \in Nat
  /\ 0 \in Typed /\ 1 \in Typed
  /\ Masked # None /\ Masked \notin Nat /\ None \notin Nat
  /\ Masked \notin Typed /\ None \notin Typed
BY ConstantsAssumption DEF ConstantsAssumption, Typed

\* A file, the view of it that the server sends, and the form that this fills.
LEMMA ViewShape ==
  ASSUME NEW file \in Files
  PROVE  /\ View(file) \in Views
         /\ \A f \in {"url", "setup"} : View(file)[f] = file[f]
         /\ View(file)["secret"] = IF file["secret"] = 0 THEN 0 ELSE Masked
BY Constants DEF Files, Views, View

LEMMA ViewFillsForm ==
  ASSUME NEW view \in Views
  PROVE  /\ view \in [Fields -> Typed \cup {Masked, None}]
         /\ view["url"] \in Typed /\ view["setup"] \in {0, 1}
BY Constants DEF Views, Fields

LEMMA AppendLast ==
  ASSUME NEW S, NEW s \in Seq(S), NEW e \in S
  PROVE  /\ Append(s, e) \in Seq(S) /\ Append(s, e) # <<>>
         /\ Len(Append(s, e)) = Len(s) + 1
         /\ Append(s, e)[Len(Append(s, e))] = e
OBVIOUS

LEMMA TailLast ==
  ASSUME NEW S, NEW s \in Seq(S), s # <<>>
  PROVE  /\ Tail(s) \in Seq(S) /\ Len(Tail(s)) = Len(s) - 1 /\ Head(s) \in S
         /\ Tail(s) = <<>> => Head(s) = s[Len(s)]
         /\ Tail(s) # <<>> => Tail(s)[Len(Tail(s))] = s[Len(s)]
<1>1. Len(s) \in Nat /\ Len(s) > 0 /\ Head(s) = s[1] /\ Head(s) \in S
  OBVIOUS
<1>2. /\ Tail(s) \in Seq(S) /\ Len(Tail(s)) = Len(s) - 1
      /\ \A i \in 1..Len(Tail(s)) : Tail(s)[i] = s[i + 1]
  BY HeadTailProperties
<1>3. Tail(s) = <<>> <=> Len(Tail(s)) = 0
  BY <1>2, EmptySeq
<1> QED
  BY <1>1, <1>2, <1>3

LEMMA InitInv == Init => IInv
<1> SUFFICES ASSUME Init PROVE IInv
  OBVIOUS
<1> USE Constants DEF Init
<1>1. TypeOK
  <2>1. env \in Files
    BY DEF Files
  <2>2. form \in [Fields -> Typed \cup {Masked, None}]
    BY DEF NoForm
  <2>3. gets \in Seq(Views) /\ Len(gets) <= MaxGets
    OBVIOUS
  <2> QED
    BY <2>1, <2>2, <2>3 DEF TypeOK
<1>2. FormInv
  BY DEF FormInv, NoForm, Fields
<1>3. WizardInv /\ CurrentInv
  BY DEF WizardInv, CurrentInv
<1> QED
  BY <1>1, <1>2, <1>3 DEF IInv

\* fetchConfig appends the file as it is.
LEMMA FetchGets ==
  ASSUME gets \in Seq(Views), env' \in Files, Fetch
  PROVE  /\ gets' \in Seq(Views) /\ Len(gets') <= MaxGets
         /\ gets' # <<>> /\ gets'[Len(gets')] = View(env')
<1>1. View(env') \in Views
  BY ViewShape
<1> QED
  BY <1>1, AppendLast, Constants DEF Fetch

\* The open page takes a copy: the form shows it, the wizard may open.
LEMMA LoadsView ==
  ASSUME NEW view \in Views, Loads(view), TypeOK, FormInv,
         page' \in {"settings", "dashboard", "other"}
  PROVE  /\ FormInv' /\ edited' \subseteq Fields
         /\ wizard' \in Wizards \cup {None}
         /\ page' = "settings" => form' = view /\ edited' = {}
         /\ wizard' = wizard \/ (wizard = None /\ page' = "dashboard" /\ wizard' \in Wizards)
<1>1. NewWizard \in Wizards
  BY Constants DEF NewWizard, Wizards
<1>2. edits \in Nat /\ FormInv
  BY DEF TypeOK, Typed
<1>3. CASE page' = "settings"
  BY <1>1, <1>3, ViewFillsForm DEF Loads, Filled, FormInv, TypeOK, Fields
<1>4. CASE page' # "settings"
  BY <1>1, <1>4 DEF Loads, FormInv, TypeOK
<1> QED
  BY <1>3, <1>4

\* What a POST can write keeps the file a file; an empty one changes nothing.
LEMMA WrittenFile ==
  ASSUME NEW file \in Files, NEW updates,
         "url" \in DOMAIN updates => updates["url"] \in Typed \cup {Masked},
         "secret" \in DOMAIN updates => updates["secret"] \in Typed \cup {Masked},
         "setup" \in DOMAIN updates => updates["setup"] \in {0, 1}
  PROVE  Written(file, updates) \in Files
<1>1. /\ file["url"] \in Typed /\ file["secret"] \in Typed /\ file["setup"] \in {0, 1}
  BY DEF Files
<1>2. ASSUME NEW w, w = Written(file, updates) PROVE w \in Files
  <2>1. /\ w = [f \in Fields |-> w[f]]
        /\ w["url"] \in Typed /\ w["secret"] \in Typed /\ w["setup"] \in {0, 1}
    BY <1>1, <1>2 DEF Written, Fields
  <2> QED
    BY <2>1 DEF Files, Fields
<1> QED
  BY <1>2

LEMMA NothingWritten == \A file \in Files : Written(file, NoUpdate) = file
BY DEF Written, NoUpdate, Files, Fields

LEMMA PostedFile ==
  ASSUME NEW kind \in Kinds, NEW updates, Posted(kind, updates),
         env \in Files, Written(env, updates) \in Files
  PROVE  /\ env' \in Files /\ (env' = env \/ env' = Written(env, updates))
         /\ post = None /\ post' \in Posts /\ post'.kind = kind /\ post'.here = TRUE
BY DEF Posted, Posts

\* The steps of the store and of the pages.
LEMMA ConfigStep ==
  ASSUME IInv, ConfigArrives \/ ConfigFails
  PROVE  IInv'
<1> USE DEF IInv
<1>1. /\ gets \in Seq(Views) /\ gets # <<>> /\ gets' = Tail(gets)
      /\ Len(gets) \in Nat /\ Len(gets) <= MaxGets
  BY DEF ConfigArrives, ConfigFails, TypeOK
<1>2. /\ gets' \in Seq(Views) /\ Len(gets') <= MaxGets /\ Head(gets) \in Views
      /\ gets' = <<>> => Head(gets) = gets[Len(gets)]
      /\ gets' # <<>> => gets'[Len(gets')] = gets[Len(gets)]
  BY <1>1, TailLast, Constants
<1>3. UNCHANGED <<env, edits, page, dialog, post>>
  BY DEF ConfigArrives, ConfigFails, fileVars, settingsVars
<1>4. CASE ConfigArrives
  <2>1. /\ Loads(Head(gets)) /\ UNCHANGED unsure /\ config' = Head(gets)
    BY <1>4 DEF ConfigArrives
  <2>2. /\ FormInv' /\ edited' \subseteq Fields /\ wizard' \in Wizards \cup {None}
        /\ page' = "settings" => form' = Head(gets) /\ edited' = {}
        /\ wizard' = wizard \/ (wizard = None /\ page' = "dashboard" /\ wizard' \in Wizards)
    BY <1>2, <1>3, <2>1, LoadsView DEF TypeOK
  <2>3. TypeOK'
    BY <1>2, <1>3, <2>1, <2>2 DEF TypeOK, FormInv
  <2>4. WizardInv'
    BY <1>3, <2>2, NoneAssumption DEF WizardInv
  <2>5. CurrentInv'
    BY <1>1, <1>2, <1>3, <2>1, <2>2 DEF CurrentInv
  <2> QED
    BY <2>2, <2>3, <2>4, <2>5
<1>5. CASE ConfigFails
  <2>1. unsure' = TRUE /\ UNCHANGED <<config, form, edited, wizard>>
    BY <1>5 DEF ConfigFails, settingsVars
  <2> QED
    BY <1>2, <1>3, <2>1 DEF TypeOK, FormInv, WizardInv, CurrentInv
<1> QED
  BY <1>4, <1>5

LEMMA PageStep ==
  ASSUME IInv, Leave \/ \E p \in {"settings", "dashboard"} : Open(p)
  PROVE  IInv'
<1> USE DEF IInv
<1>1. CASE Leave
  <2>1. form' = NoForm /\ FormInv'
    BY <1>1 DEF Leave, FormInv, NoForm, Fields
  <2>2. /\ UNCHANGED <<env, edits, config, gets, unsure>>
        /\ page' = "other" /\ edited' = {} /\ dialog' = FALSE /\ wizard' = None
        /\ post' = IF post = None THEN None ELSE [post EXCEPT !.here = FALSE]
    BY <1>1 DEF Leave, fileVars, storeVars
  <2>3. /\ post' \in Posts \cup {None}
        /\ post' # None => post'.here = FALSE
    BY <2>2 DEF TypeOK, Posts
  <2>4. TypeOK'
    BY <2>1, <2>2, <2>3 DEF TypeOK, FormInv
  <2>5. WizardInv' /\ CurrentInv'
    BY <2>2, <2>3 DEF WizardInv, CurrentInv
  <2> QED
    BY <2>1, <2>4, <2>5
<1>2. ASSUME NEW p \in {"settings", "dashboard"}, Open(p) PROVE IInv'
  <2>1. /\ page = "other" /\ page' = p /\ unsure' = FALSE /\ Fetch
        /\ UNCHANGED <<env, edits, config, dialog, post>>
        /\ IF config = None THEN UNCHANGED <<form, edited, wizard>> ELSE Loads(config)
    BY <1>2 DEF Open, fileVars, FetchOnOpen
  <2>2. /\ gets' \in Seq(Views) /\ Len(gets') <= MaxGets
        /\ gets' # <<>> /\ gets'[Len(gets')] = View(env')
    BY <2>1, FetchGets DEF TypeOK
  <2>3. wizard = None
    BY <2>1 DEF WizardInv
  <2>4. /\ FormInv' /\ edited' \subseteq Fields /\ wizard' \in Wizards \cup {None}
        /\ wizard' = wizard \/ (wizard = None /\ page' = "dashboard" /\ wizard' \in Wizards)
    <3>1. CASE config = None
      BY <2>1, <3>1 DEF TypeOK, FormInv
    <3>2. CASE config # None
      <4>1. config \in Views
        BY <3>2 DEF TypeOK
      <4>2. page' \in {"settings", "dashboard", "other"}
        BY <2>1
      <4> QED
        BY <2>1, <3>2, <4>1, <4>2, LoadsView
    <3> QED
      BY <3>1, <3>2
  <2>5. TypeOK'
    BY <2>1, <2>2, <2>4 DEF TypeOK, FormInv
  <2>6. WizardInv' /\ CurrentInv'
    BY <2>1, <2>2, <2>3, <2>4, NoneAssumption DEF WizardInv, CurrentInv
  <2> QED
    BY <2>4, <2>5, <2>6
<1> QED
  BY <1>1, <1>2

\* The steps of the settings page.
LEMMA FormStep ==
  ASSUME IInv, (\E f \in Inputs : Type(f)) \/ OpenRestart \/ (\E open \in BOOLEAN : SetDialog(open))
  PROVE  IInv'
<1> USE DEF IInv
<1>1. ASSUME NEW f \in Inputs, Type(f) PROVE IInv'
  <2>1. /\ page = "settings" /\ edits < MaxEdits /\ edits' = edits + 1
        /\ form' = [form EXCEPT ![f] = edits'] /\ edited' = edited \cup {f}
        /\ UNCHANGED <<env, config, gets, unsure, page, dialog, wizard, post>>
    BY <1>1 DEF Type, storeVars
  <2>2. edits' \in Typed /\ f \in {"url", "secret"}
    BY <2>1, Constants DEF TypeOK, Typed, Inputs
  <2>3. FormInv'
    BY <2>1, <2>2 DEF FormInv, Fields
  <2>4. TypeOK'
    BY <2>1, <2>2, <2>3 DEF TypeOK, FormInv, Fields
  <2>5. WizardInv' /\ CurrentInv'
    BY <2>1, <2>2 DEF WizardInv, CurrentInv, FormInv, Fields
  <2> QED
    BY <2>3, <2>4, <2>5
<1>2. ASSUME NEW open \in BOOLEAN, SetDialog(open) PROVE IInv'
  BY <1>2 DEF SetDialog, fileVars, storeVars, TypeOK, FormInv, WizardInv, CurrentInv
<1> QED
  BY <1>1, <1>2 DEF OpenRestart

LEMMA PagePostStep ==
  ASSUME IInv, Save \/ SmtpTest \/ OAuthTest \/ PagePosts("restart", NoUpdate)
  PROVE  /\ IInv'
         /\ page = "settings" /\ post = None
         /\ env' = env \/ env' = Written(env, [f \in Sent |-> form[f]])
<1> USE DEF IInv
<1>1. CASE Save
  <2> DEFINE updates == [f \in Sent |-> form[f]]
  <2>1. Written(env, updates) \in Files
    <3>1. /\ DOMAIN updates = Sent
          /\ \A f \in Sent : f \in Fields /\ form[f] # None /\ updates[f] = form[f]
      BY DEF Sent
    <3>2. /\ "url" \in Sent => updates["url"] \in Typed \cup {Masked}
          /\ "secret" \in Sent => updates["secret"] \in Typed \cup {Masked}
          /\ "setup" \in Sent => updates["setup"] \in {0, 1}
      BY <3>1 DEF FormInv
    <3> HIDE DEF updates
    <3> QED
      BY <3>1, <3>2, WrittenFile DEF TypeOK
  <2>2. /\ page = "settings" /\ Posted("save", updates)
        /\ UNCHANGED <<edits, config, gets, unsure, page, form, edited, dialog, wizard>>
    BY <1>1 DEF Save, PagePosts, storeVars, settingsVars
  <2> HIDE DEF updates
  <2>3. /\ env' \in Files /\ (env' = env \/ env' = Written(env, updates))
        /\ post = None /\ post' \in Posts /\ post'.kind = "save"
    BY <2>1, <2>2, PostedFile DEF TypeOK, Kinds
  <2>4. TypeOK' /\ FormInv' /\ WizardInv' /\ CurrentInv'
    BY <2>2, <2>3, NoneAssumption DEF TypeOK, FormInv, WizardInv, CurrentInv
  <2> QED
    BY <2>2, <2>3, <2>4 DEF updates
<1>2. ASSUME NEW kind \in {"test", "restart"}, PagePosts(kind, NoUpdate)
      PROVE  IInv' /\ page = "settings" /\ post = None /\ env' = env
  <2>1. /\ page = "settings" /\ Posted(kind, NoUpdate)
        /\ UNCHANGED <<edits, config, gets, unsure, page, form, edited, dialog, wizard>>
    BY <1>2 DEF PagePosts, storeVars, settingsVars
  <2>2. kind \in Kinds /\ env \in Files /\ Written(env, NoUpdate) = env
    BY NothingWritten DEF TypeOK, Kinds
  <2>3. Written(env, NoUpdate) \in Files
    BY <2>2
  <2>4. /\ env' = env
        /\ post = None /\ post' \in Posts /\ post'.kind = kind
    BY <2>1, <2>2, <2>3, PostedFile
  <2>5. TypeOK' /\ FormInv' /\ WizardInv' /\ CurrentInv'
    BY <2>1, <2>4, NoneAssumption DEF TypeOK, FormInv, WizardInv, CurrentInv
  <2> QED
    BY <2>1, <2>4, <2>5
<1> QED
  BY <1>1, <1>2 DEF SmtpTest, OAuthTest

\* The steps of the wizard.
LEMMA WizardGoes ==
  ASSUME IInv, wizard # None, NEW w \in Wizards, SetWizard(w)
  PROVE  IInv'
BY NoneAssumption DEF IInv, SetWizard, fileVars, storeVars, settingsVars,
     TypeOK, FormInv, WizardInv, CurrentInv

LEMMA WizardTypes ==
  ASSUME IInv, wizard # None, NEW f \in {"url", "secret"}, TypeInWizard(f)
  PROVE  IInv'
<1> USE DEF IInv
<1>1. /\ edits < MaxEdits /\ edits' = edits + 1
      /\ wizard' = [wizard EXCEPT ![f] = edits']
      /\ UNCHANGED <<env, config, gets, unsure, page, form, edited, dialog, post>>
  BY DEF TypeInWizard, storeVars, settingsVars
<1>2. edits' \in Typed
  BY <1>1, Constants DEF TypeOK, Typed
<1>3. wizard' \in Wizards
  BY <1>1, <1>2 DEF TypeOK, Wizards
<1> QED
  BY <1>1, <1>2, <1>3, NoneAssumption DEF TypeOK, FormInv, WizardInv, CurrentInv

LEMMA WizardPostStep ==
  ASSUME IInv, wizard # None, SaveUrls \/ SaveSmtp \/ TestSmtp \/ Finish
  PROVE  IInv'
<1> USE DEF IInv
<1>1. wizard \in Wizards /\ wizard.url \in Typed /\ wizard.secret \in Typed
  BY DEF TypeOK, Wizards
<1>2. ASSUME NEW kind \in Kinds, NEW updates, WizardPosts(kind, updates),
             Written(env, updates) \in Files
      PROVE  IInv'
  <2>1. /\ Posted(kind, updates)
        /\ UNCHANGED <<edits, config, gets, unsure, page, form, edited, dialog, wizard>>
    BY <1>2 DEF WizardPosts, storeVars, settingsVars
  <2>2. env' \in Files /\ post' \in Posts
    BY <1>2, <2>1, PostedFile DEF TypeOK
  <2>3. page = "dashboard"
    BY DEF WizardInv
  <2> QED
    BY <2>1, <2>2, <2>3 DEF TypeOK, FormInv, WizardInv, CurrentInv
<1>3. CASE SaveUrls
  <2>1. Written(env, [url |-> wizard.url]) \in Files
    BY <1>1, WrittenFile DEF TypeOK
  <2> QED
    BY <1>2, <1>3, <2>1 DEF SaveUrls, Kinds
<1>4. CASE SaveSmtp \/ TestSmtp
  <2>1. Written(env, SmtpConfig) \in Files
    BY <1>1, WrittenFile DEF TypeOK, SmtpConfig
  <2> QED
    BY <1>2, <1>4, <2>1 DEF SaveSmtp, TestSmtp, Kinds
<1>5. CASE Finish
  <2>1. Written(env, [setup |-> 1]) \in Files
    BY WrittenFile DEF TypeOK
  <2> QED
    BY <1>2, <1>5, <2>1 DEF Finish, Kinds
<1> QED
  BY <1>3, <1>4, <1>5

LEMMA WizardStep ==
  ASSUME IInv, Welcome \/ Urls \/ Smtp \/ Keys \/ Done
  PROVE  IInv' /\ page # "settings"
<1>1. wizard # None /\ wizard \in Wizards /\ page = "dashboard"
  BY DEF Welcome, Urls, Smtp, Keys, Done, AtStep, IInv, TypeOK, WizardInv
<1>2. \A n \in 0..4 : [wizard EXCEPT !.step = n] \in Wizards
  BY <1>1 DEF Wizards
<1>3. [wizard EXCEPT !.key = TRUE] \in Wizards
  BY <1>1 DEF Wizards
<1>4. ASSUME NEW n \in 0..4, Go(n) PROVE IInv'
  BY <1>1, <1>2, <1>4, WizardGoes DEF Go
<1>5. CASE Welcome
  BY <1>1, <1>4, <1>5 DEF Welcome
<1>6. CASE Urls
  BY <1>1, <1>4, <1>6, WizardTypes, WizardPostStep DEF Urls
<1>7. CASE Smtp
  BY <1>1, <1>4, <1>7, WizardTypes, WizardPostStep DEF Smtp
<1>8. CASE Keys
  BY <1>1, <1>3, <1>4, <1>8, WizardGoes DEF Keys, RevealServiceKey
<1>9. CASE Done
  BY <1>1, <1>9, WizardPostStep DEF Done
<1> QED
  BY <1>1, <1>5, <1>6, <1>7, <1>8, <1>9

\* The answers to POST: what asks for the copy again brings the form up to date,
\* what does not has changed nothing since the form was filled.
LEMMA AnswerStep ==
  ASSUME IInv,
         SaveAnswered \/ RestartAnswered \/ StepAnswered \/ CompleteAnswered \/ FinishAnswered
  PROVE  IInv' /\ UNCHANGED env
<1> USE DEF IInv
<1>1. /\ post # None /\ post \in Posts /\ unsure' = (unsure \/ ~post.ok) /\ unsure' \in BOOLEAN
      /\ UNCHANGED <<env, edits, config, page, form, edited>>
  BY DEF SaveAnswered, RestartAnswered, StepAnswered, CompleteAnswered, FinishAnswered,
         Answered, fileVars, settingsVars, TypeOK
<1>2. post.ok \in BOOLEAN /\ post.here \in BOOLEAN /\ post.kind \in Kinds
  BY <1>1 DEF Posts
<1>3. FormInv'
  BY <1>1 DEF FormInv
<1>4. CASE SaveAnswered
  <2>1. post.kind = "save" /\ post' = None /\ UNCHANGED <<dialog, wizard>>
    BY <1>4 DEF SaveAnswered, Answered, settingsVars
  <2>2. CASE post.ok
    <3>1. /\ gets' \in Seq(Views) /\ Len(gets') <= MaxGets
          /\ gets' # <<>> /\ gets'[Len(gets')] = View(env')
      BY <1>1, <1>4, <2>2, FetchGets DEF SaveAnswered, TypeOK
    <3> QED
      BY <1>1, <1>3, <2>1, <3>1 DEF TypeOK, WizardInv, CurrentInv
  <2>3. CASE ~post.ok
    <3>1. UNCHANGED gets /\ unsure' = TRUE
      BY <1>1, <1>2, <1>4, <2>3 DEF SaveAnswered
    <3> QED
      BY <1>1, <1>3, <2>1, <3>1 DEF TypeOK, WizardInv, CurrentInv
  <2> QED
    BY <2>2, <2>3
<1>5. CASE RestartAnswered
  <2>1. post.kind = "restart" /\ post' = None /\ UNCHANGED <<gets, wizard>> /\ dialog' \in BOOLEAN
    BY <1>2, <1>5 DEF RestartAnswered, Answered, TypeOK
  <2> QED
    BY <1>1, <1>2, <1>3, <2>1 DEF TypeOK, WizardInv, CurrentInv
<1>6. CASE StepAnswered
  <2>1. /\ post.kind \in {"urls", "smtp", "test"} /\ post' = None /\ UNCHANGED <<gets, dialog>>
        /\ wizard' = IF post.ok /\ post.here /\ post.kind # "test"
                       THEN [wizard EXCEPT !.step = IF post.kind = "urls" THEN 2 ELSE 3]
                       ELSE wizard
    BY <1>6 DEF StepAnswered, Answered, settingsVars
  <2>2. wizard' = wizard \/ (wizard \in Wizards /\ wizard' \in Wizards /\ wizard # None)
    <3>1. CASE post.here /\ post.kind # "test"
      <4>1. wizard # None /\ wizard \in Wizards
        BY <1>1, <2>1, <3>1 DEF WizardInv, TypeOK
      <4>2. \A n \in {2, 3} : [wizard EXCEPT !.step = n] \in Wizards
        BY <4>1 DEF Wizards
      <4> QED
        BY <2>1, <4>1, <4>2
    <3>2. CASE ~(post.here /\ post.kind # "test")
      BY <2>1, <3>2
    <3> QED
      BY <3>1, <3>2
  <2> QED
    BY <1>1, <1>2, <1>3, <2>1, <2>2 DEF TypeOK, WizardInv, CurrentInv
<1>7. CASE CompleteAnswered
  <2>1. /\ post.kind = "complete" /\ UNCHANGED <<gets, dialog, wizard>>
        /\ post' = None
             \/ \E ok \in BOOLEAN : post' = [post EXCEPT !.kind = "finish", !.ok = ok]
    BY <1>7 DEF CompleteAnswered, Answered, settingsVars
  <2>2. post' = None \/ (post' \in Posts /\ post'.kind = "finish")
    BY <1>1, <2>1 DEF Posts, Kinds
  <2> QED
    BY <1>1, <1>2, <1>3, <2>1, <2>2 DEF TypeOK, WizardInv, CurrentInv
<1>8. CASE FinishAnswered
  <2>1. /\ post' = None /\ UNCHANGED dialog /\ Fetch
        /\ wizard' = IF post.here THEN None ELSE wizard
    BY <1>8 DEF FinishAnswered, settingsVars
  <2>2. /\ gets' \in Seq(Views) /\ Len(gets') <= MaxGets
        /\ gets' # <<>> /\ gets'[Len(gets')] = View(env')
    BY <1>1, <2>1, FetchGets DEF TypeOK
  <2> QED
    BY <1>1, <1>3, <2>1, <2>2 DEF TypeOK, WizardInv, CurrentInv
<1> QED
  BY <1>1, <1>4, <1>5, <1>6, <1>7, <1>8

LEMMA RestartDialogStep ==
  ASSUME IInv, RestartDialog
  PROVE  IInv'
<1>1. CASE PagePosts("restart", NoUpdate)
  BY <1>1, PagePostStep
<1>2. CASE SetDialog(FALSE)
  BY <1>2, FormStep
<1> QED
  BY <1>1, <1>2 DEF RestartDialog

LEMMA StepInv == IInv /\ [Next]_vars => IInv'
<1> SUFFICES ASSUME IInv, [Next]_vars PROVE IInv'
  OBVIOUS
<1>1. CASE ConfigArrives \/ ConfigFails
  BY <1>1, ConfigStep
<1>2. CASE Open("settings") \/ Open("dashboard") \/ Leave
  BY <1>2, PageStep
<1>3. CASE (\E f \in Inputs : Type(f)) \/ OpenRestart
  BY <1>3, FormStep
<1>4. CASE Save \/ SmtpTest \/ OAuthTest
  BY <1>4, PagePostStep
<1>5. CASE RestartDialog
  BY <1>5, RestartDialogStep
<1>6. CASE Welcome \/ Urls \/ Smtp \/ Keys \/ Done
  BY <1>6, WizardStep
<1>7. CASE SaveAnswered \/ RestartAnswered \/ StepAnswered \/ CompleteAnswered \/ FinishAnswered
  BY <1>7, AnswerStep
<1>8. CASE UNCHANGED vars
  BY <1>8 DEF vars, fileVars, storeVars, settingsVars, IInv, TypeOK, FormInv, WizardInv, CurrentInv
<1> QED
  BY <1>1, <1>2, <1>3, <1>4, <1>5, <1>6, <1>7, <1>8 DEF Next

LEMMA Invariant == Spec => []IInv
BY InitInv, StepInv, PTL DEF Spec

\* The store, the form, the wizard and the file stay within their types.
THEOREM TypeCorrect == Spec => []TypeOK
<1>1. IInv => TypeOK
  BY DEF IInv
<1> QED
  BY Invariant, <1>1, PTL

\* A settings page at rest shows the file in every field that was not typed into,
\* for any number of values and of GETs under way together.
THEOREM FormShowsFile == Spec => []FormIsCurrent
<1>1. IInv => FormIsCurrent
  BY DEF IInv, CurrentInv, FormIsCurrent, Quiet
<1> QED
  BY Invariant, <1>1, PTL

\* What Save All posts from a form that shows the file leaves the file as it is
\* in every field that was not typed into.
LEMMA SavedFields ==
  ASSUME IInv, page = "settings", Quiet, post = None, NEW f \in Fields \ edited
  PROVE  Written(env, [g \in Sent |-> form[g]])[f] = env[f]
<1>1. form[f] = View(env)[f] /\ env \in Files
  BY DEF IInv, TypeOK, CurrentInv, Quiet
<1>2. f \in {"url", "secret", "setup"} /\ f \in Fields
  BY DEF Fields
<1>3. form[f] = Masked \/ form[f] = env[f]
  BY <1>1, <1>2, ViewShape
<1>4. Written(env, [g \in Sent |-> form[g]])[f] =
        IF f \in Sent /\ form[f] # Masked THEN form[f] ELSE env[f]
  BY <1>2 DEF Written
<1> QED
  BY <1>3, <1>4

\* Save All, and every other request from a settings page at rest, changes the
\* fields that were typed into and no other.
THEOREM OnlyEditsSaved == Spec => SavesOnlyEdits
<1>1. ASSUME IInv, [Next]_vars, page = "settings", Quiet, post = None, post' # None,
             NEW f \in Fields \ edited
      PROVE  env'[f] = env[f]
  <2>1. CASE Save \/ SmtpTest \/ OAuthTest \/ RestartDialog
    <3>1. CASE SetDialog(FALSE)
      BY <1>1, <3>1 DEF SetDialog
    <3>2. CASE Save \/ SmtpTest \/ OAuthTest \/ PagePosts("restart", NoUpdate)
      <4>1. env' = env \/ env' = Written(env, [g \in Sent |-> form[g]])
        BY <1>1, <3>2, PagePostStep
      <4> QED
        BY <1>1, <4>1, SavedFields
    <3> QED
      BY <2>1, <3>1, <3>2 DEF RestartDialog
  <2>2. CASE Welcome \/ Urls \/ Smtp \/ Keys \/ Done
    BY <1>1, <2>2, WizardStep
  <2>3. CASE SaveAnswered \/ RestartAnswered \/ StepAnswered \/ CompleteAnswered \/ FinishAnswered
    BY <1>1, <2>3, AnswerStep
  <2>4. CASE ConfigArrives \/ ConfigFails \/ Open("settings") \/ Open("dashboard") \/ Leave
    BY <2>4 DEF ConfigArrives, ConfigFails, Open, Leave, fileVars
  <2>5. CASE (\E g \in Inputs : Type(g)) \/ OpenRestart
    BY <2>5 DEF Type, OpenRestart, SetDialog, fileVars
  <2>6. CASE UNCHANGED vars
    BY <2>6 DEF vars, fileVars
  <2> QED
    BY <1>1, <2>1, <2>2, <2>3, <2>4, <2>5, <2>6 DEF Next
<1>2. IInv /\ [Next]_vars =>
        [page = "settings" /\ Quiet /\ post = None /\ post' # None =>
           \A f \in Fields \ edited : env'[f] = env[f]]_vars
  BY <1>1
<1> QED
  BY Invariant, <1>2, PTL DEF Spec, SavesOnlyEdits
=============================================================================

------------------------------ MODULE Settings ------------------------------
(***************************************************************************)
(* The settings form, the setup wizard and the dashboard of one browser,   *)
(* and the .env file that they change through GET and POST /api/config.    *)
(*                                                                         *)
(* The browser holds one copy of the configuration (useConfigStore), that  *)
(* each of the pages asks for when it opens and that survives a change of  *)
(* page.  The form is filled from the copy whenever that is replaced; Save *)
(* All posts every field, and then asks for the copy again.  The wizard    *)
(* posts its own fields, and opens when the copy says that the setup is    *)
(* not complete.                                                           *)
(*                                                                         *)
(* Three fields stand for all: a plain one, a secret, of which the server  *)
(* only tells that it is set, and SETUP_COMPLETE, which no field shows and *)
(* the form posts with the others (1: it is true).  What an administrator  *)
(* types is numbered; 0 is an empty secret and the URL of setup.sh, which  *)
(* the wizard proposes.                                                    *)
(*                                                                         *)
(* One browser: the server handles its requests in the order they are      *)
(* sent, each under the mutex of envfile and with one rename, and the      *)
(* answers to GET arrive in that order.  Any request or answer may be      *)
(* lost; the gateway that carries them is restarted at the end of the      *)
(* wizard.                                                                 *)
(***************************************************************************)
EXTENDS Naturals, Sequences

CONSTANTS
  MaxEdits,   \* bound: values that are typed
  MaxGets,    \* bound: GETs under way together
  Masked,     \* secretPlaceholder
  None        \* not loaded, nothing under way

ASSUME ConstantsAssumption ==
  /\ MaxEdits \in Nat \ {0} /\ MaxGets \in Nat
  /\ Masked # None /\ Masked \notin Nat /\ None \notin Nat

VARIABLES
  env,      \* the .env file
  edits,    \* values typed so far
  config,   \* the store's copy of the configuration
  gets,     \* the answers to GET that are under way
  unsure,   \* history: a request has failed since a page was opened
  page,     \* the page that is open
  form,     \* the form of the settings page; None: the field is not in it
  edited,   \* the fields typed into since the form was filled
  dialog,   \* the restart dialog is open
  wizard,   \* the wizard, None when it is closed
  post      \* the POST under way

fileVars == <<env, edits>>
storeVars == <<config, gets, unsure>>
settingsVars == <<form, edited, dialog>>
vars == <<fileVars, storeVars, page, settingsVars, wizard, post>>

Fields == {"url", "secret", "setup"}
Typed == 0..MaxEdits

Files == [url : Typed, secret : Typed, setup : {0, 1}]
Views == [url : Typed, secret : {0, Masked}, setup : {0, 1}]
NoForm == [f \in Fields |-> None]
Kinds == {"save", "test", "restart", "urls", "smtp", "complete", "finish"}
Wizards == [step : 0..4, url : Typed, secret : Typed, key : BOOLEAN]
Posts == [kind : Kinds, ok : BOOLEAN, here : BOOLEAN]

ASSUME NoneAssumption == None \notin Wizards \cup Posts

TypeOK ==
  /\ env \in Files /\ edits \in Typed
  /\ config \in Views \cup {None}
  /\ gets \in Seq(Views) /\ Len(gets) <= MaxGets
  /\ unsure \in BOOLEAN
  /\ page \in {"settings", "dashboard", "other"}
  /\ form \in [Fields -> Typed \cup {Masked, None}]
  /\ edited \subseteq Fields /\ dialog \in BOOLEAN
  /\ wizard \in Wizards \cup {None} /\ post \in Posts \cup {None}

\* As setup.sh leaves it; no page is open yet.
Init ==
  /\ env = [url |-> 0, secret |-> 0, setup |-> 0] /\ edits = 0
  /\ config = None /\ gets = <<>> /\ unsure = FALSE
  /\ page = "other"
  /\ form = NoForm /\ edited = {} /\ dialog = FALSE
  /\ wizard = None /\ post = None

----------------------------------------------------------------------------
(* The server *)

\* Faulty: whether the secret is set is hidden too.
Hidden(file) == [file EXCEPT !.secret = 0]
\* getConfig.
View(file) == [file EXCEPT !.secret = IF @ = 0 THEN 0 ELSE Masked]

\* Faulty: the placeholder is a value like another.
StoresPlaceholder(file, updates) ==
  [f \in Fields |-> IF f \in DOMAIN updates THEN updates[f] ELSE file[f]]
\* postConfig: the placeholder, or a field that is not sent, leaves the value.
Written(file, updates) ==
  [f \in Fields |->
     IF f \in DOMAIN updates /\ updates[f] # Masked THEN updates[f] ELSE file[f]]

\* A POST is handled, and its answer is lost or not; or it does not arrive, or
\* is refused (400 for a value or an empty body, 500 for the file).
Posted(kind, updates) ==
  /\ post = None
  /\ \E ok \in BOOLEAN :
       /\ post' = [kind |-> kind, ok |-> ok, here |-> TRUE]
       /\ \/ env' = Written(env, updates)
          \/ ~ok /\ UNCHANGED env

NoUpdate == [f \in {} |-> None]

----------------------------------------------------------------------------
(* The store *)

\* fetchConfig
Fetch == Len(gets) < MaxGets /\ gets' = Append(gets, View(env'))

NewWizard == [step |-> 0, url |-> 0, secret |-> 0, key |-> FALSE]

\* Faulty: the form keeps what it shows.
KeepsForm(view) == IF form = NoForm THEN view ELSE form
\* The effect of the settings page.
Filled(view) == view

\* What the open page does with a copy.  The dashboard opens the wizard and
\* never closes it for a copy.
Loads(view) ==
  /\ IF page' = "settings"
       THEN form' = Filled(view) /\ edited' = {}
       ELSE UNCHANGED <<form, edited>>
  /\ wizard' = IF page' = "dashboard" /\ wizard = None /\ view.setup = 0 THEN NewWizard ELSE wizard

ConfigArrives ==
  /\ gets # <<>>
  /\ gets' = Tail(gets) /\ config' = Head(gets)
  /\ UNCHANGED <<fileVars, unsure, page, dialog, post>>
  /\ Loads(config')

\* fetchConfig has no catch: nothing is shown.
ConfigFails ==
  /\ gets # <<>>
  /\ gets' = Tail(gets) /\ unsure' = TRUE
  /\ UNCHANGED <<fileVars, config, page, settingsVars, wizard, post>>

----------------------------------------------------------------------------
(* Pages *)

\* Faulty: only what was never loaded is asked for.
FetchOnce == IF config = None THEN Fetch ELSE UNCHANGED gets
\* The effect of both pages when they open.
FetchOnOpen == Fetch

Open(p) ==
  /\ page = "other" /\ page' = p /\ unsure' = FALSE
  /\ UNCHANGED <<fileVars, config, dialog, post>>
  /\ FetchOnOpen
  /\ IF config = None THEN UNCHANGED <<form, edited, wizard>> ELSE Loads(config)

\* Also from the wizard, by the browser's own buttons.  What is under way goes
\* on, without the page.
Leave ==
  /\ page # "other" /\ page' = "other"
  /\ form' = NoForm /\ edited' = {} /\ dialog' = FALSE /\ wizard' = None
  /\ post' = IF post = None THEN None ELSE [post EXCEPT !.here = FALSE]
  /\ UNCHANGED <<fileVars, storeVars>>

----------------------------------------------------------------------------
(* The settings page *)

\* The fields with an input in one of the tabs.
Inputs == {"url", "secret"}

\* setField, toggle.
Type(f) ==
  /\ page = "settings" /\ edits < MaxEdits
  /\ edits' = edits + 1
  /\ form' = [form EXCEPT ![f] = edits'] /\ edited' = edited \cup {f}
  /\ UNCHANGED <<env, storeVars, page, dialog, wizard, post>>

Sent == {f \in Fields : form[f] # None}

PagePosts(kind, updates) ==
  /\ page = "settings"
  /\ Posted(kind, updates)
  /\ UNCHANGED <<edits, storeVars, page, settingsVars, wizard>>

\* Save All; off while one is under way.  A form that was never filled is refused.
Save ==
  /\ PagePosts("save", [f \in Sent |-> form[f]])
  /\ Sent = {} => ~post'.ok

\* With a recipient typed, or from the form.
SmtpTest == PagePosts("test", NoUpdate)
OAuthTest == PagePosts("test", NoUpdate)

SetDialog(open) ==
  /\ page = "settings" /\ dialog # open /\ dialog' = open
  /\ UNCHANGED <<fileVars, storeVars, page, form, edited, wizard, post>>

OpenRestart == SetDialog(TRUE)

RestartDialog ==
  /\ dialog
  /\ \/ PagePosts("restart", NoUpdate)
     \/ SetDialog(FALSE)

----------------------------------------------------------------------------
(* The wizard *)

SetWizard(w) ==
  /\ wizard' = w
  /\ UNCHANGED <<fileVars, storeVars, page, settingsVars, post>>

Go(step) == SetWizard([wizard EXCEPT !.step = step])

TypeInWizard(f) ==
  /\ edits < MaxEdits /\ edits' = edits + 1
  /\ wizard' = [wizard EXCEPT ![f] = edits']
  /\ UNCHANGED <<env, storeVars, page, settingsVars, post>>

WizardPosts(kind, updates) ==
  /\ Posted(kind, updates)
  /\ UNCHANGED <<edits, storeVars, page, settingsVars, wizard>>

\* Every field of the step, typed into or not.
SmtpConfig == [secret |-> wizard.secret]

SaveUrls == WizardPosts("urls", [url |-> wizard.url])
SaveSmtp == WizardPosts("smtp", SmtpConfig)
\* Saves first; the probe itself changes nothing.
TestSmtp == WizardPosts("test", SmtpConfig)
Finish == WizardPosts("complete", [setup |-> 1])

\* An error is ignored.
RevealServiceKey == ~wizard.key /\ SetWizard([wizard EXCEPT !.key = TRUE])

AtStep(n) == wizard # None /\ wizard.step = n

Welcome == AtStep(0) /\ Go(1)
Urls == AtStep(1) /\ (TypeInWizard("url") \/ Go(0) \/ SaveUrls)
Smtp == AtStep(2) /\ (TypeInWizard("secret") \/ Go(1) \/ TestSmtp \/ Go(3) \/ SaveSmtp)
Keys == AtStep(3) /\ (RevealServiceKey \/ Go(2) \/ Go(4))
Done == AtStep(4) /\ Finish

----------------------------------------------------------------------------
(* Answers to POST *)

Answered(kinds) ==
  /\ post # None /\ post.kind \in kinds
  /\ unsure' = (unsure \/ ~post.ok)

SaveAnswered ==
  /\ Answered({"save"}) /\ post' = None
  /\ UNCHANGED <<fileVars, config, page, settingsVars, wizard>>
  /\ IF post.ok THEN Fetch ELSE UNCHANGED gets

\* An error leaves the dialog open.
RestartAnswered ==
  /\ Answered({"restart"}) /\ post' = None
  /\ dialog' = (dialog /\ ~(post.ok /\ post.here))
  /\ UNCHANGED <<fileVars, config, gets, page, form, edited, wizard>>

\* An error leaves the wizard where it is; the page may have gone meanwhile.
StepAnswered ==
  /\ Answered({"urls", "smtp", "test"}) /\ post' = None
  /\ wizard' = IF post.ok /\ post.here /\ post.kind # "test"
                 THEN [wizard EXCEPT !.step = IF post.kind = "urls" THEN 2 ELSE 3]
                 ELSE wizard
  /\ UNCHANGED <<fileVars, config, gets, page, settingsVars>>

\* finish: the restart is asked for only if the setup is marked complete.
CompleteAnswered ==
  /\ Answered({"complete"})
  /\ \/ ~post.ok /\ post' = None
     \/ post.ok /\ \E ok \in BOOLEAN : post' = [post EXCEPT !.kind = "finish", !.ok = ok]
  /\ UNCHANGED <<fileVars, config, gets, page, settingsVars, wizard>>

\* Whatever came of the restart: onComplete.
FinishAnswered ==
  /\ Answered({"finish"}) /\ post' = None
  /\ wizard' = IF post.here THEN None ELSE wizard
  /\ UNCHANGED <<fileVars, config, page, settingsVars>>
  /\ Fetch

----------------------------------------------------------------------------
Next ==
  \/ ConfigArrives \/ ConfigFails
  \/ Open("settings") \/ Open("dashboard") \/ Leave
  \/ \E f \in Inputs : Type(f)
  \/ Save \/ SmtpTest \/ OAuthTest \/ OpenRestart \/ RestartDialog
  \/ Welcome \/ Urls \/ Smtp \/ Keys \/ Done
  \/ SaveAnswered \/ RestartAnswered \/ StepAnswered \/ CompleteAnswered \/ FinishAnswered

Spec == Init /\ [][Next]_vars

----------------------------------------------------------------------------
(* Properties *)

Quiet == gets = <<>> /\ ~unsure

\* When nothing is under way and no request has failed since the page was opened,
\* the form shows the file in every field that was not typed into, whatever the
\* wizard, an earlier page or a save before the form was filled have done
\* (useConfigStore, the effects of settings/page.tsx).
FormIsCurrent ==
  page = "settings" /\ Quiet /\ post = None =>
    \A f \in Fields \ edited : form[f] = View(env)[f]

\* "Ignore submissions of the placeholder value -- user didn't actually edit the
\* secret field" (config.go): Save All posts every field, and from a page that is
\* at rest it changes those that were typed into and no other.
SavesOnlyEdits ==
  [][page = "settings" /\ Quiet /\ post = None /\ post' # None =>
       \A f \in Fields \ edited : env'[f] = env[f]]_vars

\* SETUP_COMPLETE is "marked true by the setup wizard on first run"
\* (environment-reference.md): the setup does not become incomplete again.
SetupStaysComplete == [][env.setup = 1 => env'.setup = 1]_vars

============================================================================

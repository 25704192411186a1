-------------------------------- MODULE Dialogs --------------------------------
(***************************************************************************)
(* Dialogs and preferences of the global client (dialog.ts, Dialog.vue,    *)
(* useFormState.ts, SettingsDialog.vue, settings.ts, GlobalBar.vue,        *)
(* HubBlock.vue, Onboarding.vue, AuthHeader.vue and App.vue).  There is    *)
(* one store with the properties of the dialog and the callbacks of its    *)
(* buttons, and two places where a dialog is rendered from it: App.vue,    *)
(* for questions and messages, and the settings of the bar.  Sessions of   *)
(* Yivi, requests to hubs and questions of the browser end at any time.    *)
(***************************************************************************)
EXTENDS Integers, Sequences, FiniteSets

CONSTANTS Fields, Language,  \* preferences, and the one AuthHeader changes
          Values,            \* values of a preference
          MaxSessions, MaxDeeds  \* bounds on sessions of Yivi and on what the user does

VARIABLES
  screen,     \* the route
  signedIn,   \* loggedIn
  prefs,      \* the settings store
  account,    \* the settings in the user's object globalsettings
  told,       \* the settings of the hub in the frame
  sheet,      \* the settings dialog is shown
  form,       \* the form of the latest settings dialog: data and originalData
  asked,      \* what the dialog of App.vue asks or says
  buttons,    \* properties.buttons
  onOk, onCancel,  \* callbacks
  yivi,       \* running sessions of the onboarding page, by whether they insist on unique attributes
  begun,      \* sessions ever started
  knocks,     \* requests to see whether a hub is there
  notify,     \* notificationsPermission
  permission, \* Notification.permission of the browser
  prompts,    \* questions of the browser that are open
  chosen,     \* history: the values the user chose and submitted
  deeds

prefVars == <<prefs, account, told, chosen>>
dialogVars == <<sheet, form, asked, buttons, onOk, onCancel>>
noticeVars == <<notify, permission, prompts>>
dialogsVars == <<screen, signedIn, prefVars, dialogVars, yivi, begun, knocks, noticeVars, deeds>>

Prefs == [Fields -> Values]
NoForm == [data |-> [f \in Fields |-> CHOOSE v \in Values : TRUE], original |-> [f \in Fields |-> CHOOSE v \in Values : TRUE]]

DialogsTypeOK ==
  /\ screen \in {"login", "onboarding", "home", "hub"} /\ (screen = "hub" => signedIn)
  /\ prefs \in Prefs /\ account \in Prefs /\ told \in Prefs
  /\ form.data \in Prefs /\ form.original \in Prefs
  /\ asked \in {"nothing", "taken", "logout", "construction"}
  /\ buttons \in {"none", "ok", "okcancel", "yesno", "submit"}
  /\ (asked # "nothing" => buttons = IF asked = "logout" THEN "yesno" ELSE IF asked = "taken" THEN "okcancel" ELSE "ok")
  /\ onOk \in {"none", "settings", "register"} /\ onCancel \in {"none", "register"}
  /\ \A i \in DOMAIN yivi : yivi[i] \in BOOLEAN
  /\ begun \in 0..MaxSessions /\ knocks \in 0..1 /\ prompts \in 0..1
  /\ (notify = "allow" => permission = "granted")

DialogsInit ==
  /\ account \in Prefs /\ prefs = [f \in Fields |-> CHOOSE v \in Values : TRUE] /\ told = prefs
  /\ \/ screen = "login" /\ signedIn = FALSE
     \/ screen = "home" /\ signedIn = TRUE /\ account = prefs
  /\ sheet = FALSE /\ form = NoForm /\ asked = "nothing" /\ buttons = "none" /\ onOk = "none" /\ onCancel = "none"
  /\ yivi = <<>> /\ begun = 0 /\ knocks = 0 /\ prompts = 0
  /\ permission \in {"default", "granted", "denied"} /\ notify = IF permission = "granted" THEN "allow" ELSE "deny"
  /\ chosen = {<<f, prefs[f]>> : f \in Fields} \cup {<<f, account[f]>> : f \in Fields} /\ deeds = 0

Deed == deeds < MaxDeeds /\ deeds' = deeds + 1

\* What is behind a dialog cannot be reached.
Free == asked = "nothing" /\ ~sheet

-----------------------------------------------------------------------------
(* Preferences.                                                            *)

\* checkLoginAndSettings, before every navigation
Load == prefs' = account /\ UNCHANGED <<account, chosen>>

\* setTheme, setLanguage, setTimeFormat; sendSettings, and the watcher of App.vue that saves.
Set(p) ==
  /\ prefs' = p
  /\ told' = IF screen = "hub" THEN p ELSE told
  /\ account' = IF signedIn THEN p ELSE account

\* changeLanguage of AuthHeader.vue
ChangeLanguage(v) ==
  /\ Deed /\ screen \in {"login", "onboarding"} /\ Free /\ v # prefs[Language]
  /\ Set([prefs EXCEPT ![Language] = v]) /\ chosen' = chosen \cup {<<Language, v>>}
  /\ UNCHANGED <<screen, signedIn, dialogVars, yivi, begun, knocks, noticeVars>>

-----------------------------------------------------------------------------
(* The store of the dialog.                                                *)

\* show
ShowWithOk(what, with) == asked' = what /\ buttons' = "ok"   \* slip: the buttons are not chosen
Show(what, with) == asked' = what /\ buttons' = with

\* startYiviSessionMSS
Start(s, unique) == IF begun < MaxSessions THEN Append(s, unique) ELSE s
Begun == IF begun < MaxSessions THEN begun + 1 ELSE begun

\* The callback of the settings: what differs from the values the dialog was
\* opened with.  It stays when the dialog is gone.
Applied == [f \in Fields |-> IF form.data[f] # form.original[f] THEN form.data[f] ELSE prefs[f]]

\* handleOk and handleCancel of the question whether to register although an
\* attribute is taken: both callbacks are removed, then a session is started.
CleanupLate(ok, cancel, twice) ==  \* slip: they are removed when the session has been started
  /\ onOk' = ok /\ onCancel' = cancel
  /\ yivi' = IF twice THEN Start(Start(yivi, ok = "none"), ok = "none") ELSE Start(yivi, ok = "none")
  /\ begun' = IF twice /\ begun + 1 < MaxSessions THEN begun + 2 ELSE Begun

Cleanup(ok, cancel, twice) ==
  /\ onOk' = "none" /\ onCancel' = "none"
  /\ yivi' = Start(yivi, cancel = "register") /\ begun' = Begun

\* close: the callback of the answer, the promise of the one who asked last, and
\* the properties.  App.vue closes the dialog when Dialog.vue says so, and
\* Dialog.vue closes it once more.
Close(answer, twice) ==
  /\ asked' = "nothing" /\ buttons' = "none" /\ UNCHANGED form
  /\ CASE answer = 1 /\ onOk = "settings" -> Set(Applied) /\ UNCHANGED <<onOk, onCancel, yivi, begun>>
       [] answer = 1 /\ onOk = "register" -> Cleanup(onOk, "none", twice) /\ UNCHANGED <<prefs, told, account>>
       [] answer = 0 /\ onCancel = "register" -> Cleanup("none", onCancel, twice) /\ UNCHANGED <<prefs, told, account>>
       [] OTHER -> UNCHANGED <<prefs, told, account, onOk, onCancel, yivi, begun>>
  /\ IF asked = "logout" /\ answer = 1 THEN screen' = "login" /\ signedIn' = FALSE ELSE UNCHANGED <<screen, signedIn>>

\* The button with the answer 1 is there and enabled.
Enabled == buttons \in {"ok", "okcancel", "yesno"} \/ (buttons = "submit" /\ form.data # form.original)

\* doAction of the dialog of App.vue
Answer(answer) ==
  /\ asked # "nothing" /\ (answer = 1 => Enabled)
  /\ Close(answer, TRUE) /\ UNCHANGED <<sheet, chosen, knocks, noticeVars, deeds>>

\* doAction of the settings dialog
Leave(answer) ==
  /\ sheet /\ asked = "nothing" /\ (answer = 1 => Enabled)
  /\ sheet' = FALSE
  /\ chosen' = IF answer = 1 /\ buttons = "submit" THEN chosen \cup {<<f, form.data[f]>> : f \in Fields} ELSE chosen
  /\ Close(answer, FALSE) /\ UNCHANGED <<knocks, noticeVars, deeds>>

\* handleGlobalKeydown: every dialog that is shown hears the key.
Escape ==
  /\ sheet /\ asked # "nothing" /\ sheet' = FALSE
  /\ Close(0, TRUE) /\ UNCHANGED <<chosen, knocks, noticeVars, deeds>>

-----------------------------------------------------------------------------
(* The settings dialog.                                                    *)

OpenSettings ==
  /\ Deed /\ screen \in {"home", "hub"} /\ signedIn /\ Free
  /\ sheet' = TRUE /\ form' = [data |-> prefs, original |-> prefs] /\ buttons' = "submit" /\ onOk' = "settings"
  /\ UNCHANGED <<screen, signedIn, prefVars, asked, onCancel, yivi, begun, knocks, noticeVars>>

UpdateData(f, v) ==
  /\ sheet /\ asked = "nothing" /\ v # form.data[f] /\ form' = [form EXCEPT !.data[f] = v]
  /\ UNCHANGED <<screen, signedIn, prefVars, sheet, asked, buttons, onOk, onCancel, yivi, begun, knocks, noticeVars, deeds>>

\* updateNotificationsPermission: to allow asks the browser, which asks the user
\* unless it knows the answer; to deny does nothing while the browser allows.
AllowNotifications ==
  /\ sheet /\ asked = "nothing" /\ prompts = 0 /\ notify = "deny" /\ prompts' = 1
  /\ UNCHANGED <<screen, signedIn, prefVars, dialogVars, yivi, begun, knocks, notify, permission, deeds>>

BrowserAnswers(p) ==
  /\ prompts = 1 /\ prompts' = 0 /\ p \in {"granted", "denied"} /\ (permission # "default" => p = permission)
  /\ permission' = p /\ notify' = IF p = "granted" THEN "allow" ELSE "deny"
  /\ UNCHANGED <<screen, signedIn, prefVars, dialogVars, yivi, begun, knocks, deeds>>

\* onchange: the user changes the permission in the browser.
PermissionChanges(p) ==
  /\ Deed /\ p \in {"default", "denied"} /\ p # permission /\ permission' = p
  /\ notify' = "deny"
  /\ UNCHANGED <<screen, signedIn, prefVars, dialogVars, yivi, begun, knocks, prompts>>

-----------------------------------------------------------------------------
(* The bar, the hubs and the onboarding.                                   *)

Logout ==
  /\ Deed /\ screen \in {"home", "hub"} /\ signedIn /\ Free /\ Show("logout", "yesno")
  /\ UNCHANGED <<screen, signedIn, prefVars, sheet, form, onOk, onCancel, yivi, begun, knocks, noticeVars>>

\* enterHub of HubBlock.vue, up to the answer of the hub.
EnterHub ==
  /\ Deed /\ screen = "home" /\ Free /\ knocks = 0 /\ knocks' = 1
  /\ UNCHANGED <<screen, signedIn, prefVars, dialogVars, yivi, begun, noticeVars>>

\* A hub is told the settings when its frame has been loaded (the handshake).
HubAnswers(there) ==
  /\ knocks = 1 /\ knocks' = 0 /\ UNCHANGED <<signedIn, sheet, form, onOk, onCancel, yivi, begun, noticeVars, deeds>>
  /\ IF there
     THEN /\ screen' = IF signedIn THEN "hub" ELSE "login"
          /\ IF signedIn THEN Load /\ told' = account ELSE UNCHANGED prefVars
          /\ UNCHANGED <<asked, buttons>>
     ELSE Show("construction", "ok") /\ UNCHANGED <<screen, prefVars>>

GoHome ==
  /\ Deed /\ screen = "hub" /\ Free /\ screen' = "home" /\ Load
  /\ UNCHANGED <<told, signedIn, dialogVars, yivi, begun, knocks, noticeVars>>

\* The onboarding page starts a session when it is shown, and another one when
\* the window is resized; and on pageshow, the listener for which stays.
Register ==
  /\ Deed /\ Free /\ begun < MaxSessions
  /\ screen = "login" \/ screen = "onboarding" \/ begun > 0
  /\ screen' = IF screen = "login" THEN "onboarding" ELSE screen
  /\ yivi' = Start(yivi, TRUE) /\ begun' = Begun
  /\ UNCHANGED <<signedIn, prefVars, dialogVars, knocks, noticeVars>>

Without(i) == [k \in 1..Len(yivi) - 1 |-> IF k < i THEN yivi[k] ELSE yivi[k + 1]]

\* handleDuplicateAttributeError
Taken(i) ==
  /\ yivi[i] /\ yivi' = Without(i)
  /\ Show("taken", "okcancel") /\ onOk' = "register" /\ onCancel' = "register"
  /\ UNCHANGED <<screen, signedIn, prefVars, sheet, form, begun, knocks, noticeVars, deeds>>

\* The user is in, and the page goes home, whatever is shown.
Entered(i) ==
  /\ yivi' = Without(i) /\ signedIn' = TRUE /\ screen' = "home" /\ Load
  /\ UNCHANGED <<told, dialogVars, begun, knocks, noticeVars, deeds>>

\* Another error is shown on the page, and an unexpected one on a page of its own.
SessionFails(i) ==
  /\ yivi' = Without(i)
  /\ UNCHANGED <<screen, signedIn, prefVars, dialogVars, begun, knocks, noticeVars, deeds>>

DialogsNext ==
  \/ Escape \/ OpenSettings \/ AllowNotifications \/ Logout \/ EnterHub \/ GoHome \/ Register
  \/ \E v \in Values : ChangeLanguage(v) \/ \E f \in Fields : UpdateData(f, v)
  \/ \E a \in {0, 1} : Answer(a) \/ Leave(a)
  \/ \E p \in {"default", "granted", "denied"} : BrowserAnswers(p) \/ PermissionChanges(p)
  \/ \E there \in BOOLEAN : HubAnswers(there)
  \/ \E i \in DOMAIN yivi : Taken(i) \/ Entered(i) \/ SessionFails(i)

DialogsSpec == DialogsInit /\ [][DialogsNext]_dialogsVars

-----------------------------------------------------------------------------
(* Properties.                                                             *)

\* However the two close a dialog, an answer starts one session at most: the
\* callbacks of the question about an attribute that is taken are called once.
OneSessionPerAnswer == [][begun' <= begun + 1]_dialogsVars

\* A hub in the frame shows the settings of the global client
\* (HUBCLIENT_DEVELOPMENT.md, "Syncing global settings for the UI").
HubFollows == screen = "hub" => told = prefs

\* Not so: a value of a preference is one the user chose, in the settings or by
\* AuthHeader, and not one that was cancelled: the callback of the settings
\* dialog is never removed and answers the next dialog that is confirmed.
OnlySubmitted == \A f \in Fields : <<f, prefs[f]>> \in chosen
=============================================================================

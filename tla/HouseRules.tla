------------------------------ MODULE HouseRules ------------------------------
(***************************************************************************)
(* The house rules of a hub: administrators write them on the page of the  *)
(* settings (HubSettings.vue, hub-settings.ts), users are to accept them   *)
(* before they enter (Onboarding.vue, user.ts, the guard of router.ts).    *)
(* The hub keeps a text and its version, and the version that a user       *)
(* accepted; the client raises the version when the text changes.  One     *)
(* user is modelled.  Requests are served at once, their answers arrive    *)
(* later and in any order.  Texts are without the quotes that              *)
(* HubSettingsJSONParser removes.                                          *)
(***************************************************************************)
EXTENDS Integers, Sequences, FiniteSets

CONSTANTS Desks,      \* sessions that look at the page of the settings
          Admins,     \* those of them that are administrators of the hub
          Rules,      \* texts of rules that are long enough
          MaxEdits,   \* bound on what is entered at the desks
          MaxSaves,   \* bound on saves
          MaxVisits,  \* bound on visits of the page and of the onboarding
          MaxSubmits, \* bound on submits of the onboarding
          MaxMisses   \* bound on failing requests

VARIABLES
  rules,      \* at the hub: the text and its version
  consented,  \* at the hub: the version the user accepted, 0 for none
  desk,       \* desk[d]: the page of the settings
  saves,      \* calls of saveChanges that wait
  page, kind, \* route of the user; type of the onboarding, in its query
  needs,      \* needsConsent, needsOnboarding
  version,    \* _version of hub-settings.ts
  forms,      \* the onboarding pages so far; the last one may be on the screen
  asks,       \* answers for the user that are under way
  agreedTo,   \* history: the text on the screen when the user agreed
  edits, saved, visits, submits, misses

deskVars  == <<desk, saves, edits, saved>>
userVars  == <<page, kind, needs, version, forms, asks, agreedTo, submits>>
rulesVars == <<rules, consented, deskVars, userVars, visits, misses>>

Texts == Rules \cup {"unset"}
Media == {"icon", "banner"}
Blank == [text |-> "unset", version |-> 1]

\* The refs of HubSettings.vue when it is set up.
Closed == [open |-> FALSE, known |-> FALSE, loading |-> FALSE, got |-> Blank, changed |-> FALSE,
           text |-> "unset", original |-> "unset", version |-> 0, media |-> {}]

\* The refs of Onboarding.vue when it is set up.
Form == [version |-> version, text |-> "unset", agreed |-> FALSE,
         step |-> IF kind' = "consent" THEN 2 ELSE 1]

RulesTypeOK ==
  /\ rules \in [text : Texts, version : Nat] /\ consented \in Nat
  /\ \A d \in Desks : /\ desk[d].text \in Texts /\ desk[d].original \in Texts
                      /\ desk[d].open => d \in Admins \/ ~desk[d].known
  /\ \A s \in saves : s.desk \in Desks /\ s.at \in Media \cup {"stored", "refused"} /\ s.ok \in BOOLEAN
  /\ page \in {"away", "home", "onboarding"} /\ kind \in {"full", "consent"}
  /\ page = "onboarding" => forms # <<>>
  /\ \A i \in DOMAIN forms : forms[i].text \in Texts /\ forms[i].step \in 1 .. 2 /\ forms[i].version # 0
  /\ \A a \in asks : a.op \in {"needs", "json", "post"} /\ a.form \in 0 .. Len(forms)

RulesInit ==
  /\ rules = Blank /\ consented = 0
  /\ desk = [d \in Desks |-> Closed] /\ saves = {}
  /\ page = "away" /\ kind = "full" /\ needs = [consent |-> FALSE, onboarding |-> FALSE]
  /\ version = 1 /\ forms = <<>> /\ asks = {} /\ agreedTo = "unset"
  /\ edits = 0 /\ saved = 0 /\ visits = 0 /\ submits = 0 /\ misses = 0

Fail == misses < MaxMisses /\ misses' = misses + 1

-----------------------------------------------------------------------------
(* The page of the settings.                                               *)

\* The route is for administrators, or for everybody as long as it is not known
\* who is one.
OpenSettings(d) ==
  /\ ~desk[d].open /\ (d \in Admins \/ ~desk[d].known) /\ \A s \in saves : s.desk # d
  /\ visits < MaxVisits /\ visits' = visits + 1
  /\ desk' = [desk EXCEPT ![d] = [Closed EXCEPT !.open = TRUE, !.known = desk[d].known, !.loading = TRUE, !.got = rules]]
  /\ UNCHANGED <<rules, consented, userVars, saves, edits, saved, misses>>

FetchIsAdministrator(d) ==
  /\ ~desk[d].known
  /\ desk' = [desk EXCEPT ![d].known = TRUE, ![d].open = @ /\ d \in Admins]
  /\ UNCHANGED <<rules, consented, userVars, saves, edits, saved, visits, misses>>

\* The settings arrive, over what was typed meanwhile.
DisplayHubJSON(d) ==
  /\ desk[d].open /\ desk[d].loading
  /\ LET got == desk[d].got IN
     desk' = [desk EXCEPT ![d].loading = FALSE, ![d].text = got.text, ![d].original = got.text,
                          ![d].version = got.version, ![d].changed = @ \/ got.text # desk[d].text]
  /\ UNCHANGED <<rules, consented, userVars, saves, edits, saved, visits, misses>>

Entered(d) == desk[d].open /\ edits < MaxEdits /\ edits' = edits + 1
EnterText(d, t) ==
  /\ Entered(d) /\ t # desk[d].text
  /\ desk' = [desk EXCEPT ![d].text = t, ![d].changed = TRUE]
  /\ UNCHANGED <<rules, consented, userVars, saves, saved, visits, misses>>
EnterMedia(d, m) ==
  /\ Entered(d) /\ m \notin desk[d].media
  /\ desk' = [desk EXCEPT ![d].media = @ \cup {m}, ![d].changed = TRUE]
  /\ UNCHANGED <<rules, consented, userVars, saves, saved, visits, misses>>

\* isValidated of ValidatedForm.vue: something changed, and the rules are
\* long enough.
IsValidated(d) == desk[d].changed /\ desk[d].text # "unset"

\* Everything was saved: the texts on the screen now are the saved ones.
Finished(d, ok) ==
  IF ok THEN [d EXCEPT !.changed = FALSE, !.media = {}, !.original = d.text] ELSE d

\* saveHubSettings: the version is raised when the text is another one, and
\* stays so when the request fails.
Bumped(d) == IF d.text # d.original THEN d.version + 1 ELSE d.version

SaveHubSettings(s, d) ==
  IF d.text = d.original
  THEN /\ desk' = [desk EXCEPT ![s.desk] = Finished(d, s.ok)]
       /\ saves' = saves \ {s} /\ UNCHANGED <<rules, misses>>
  ELSE /\ desk' = [desk EXCEPT ![s.desk].version = Bumped(d)]
       /\ \/ /\ s.desk \in Admins /\ rules' = [text |-> d.text, version |-> Bumped(d)]
             /\ saves' = (saves \ {s}) \cup {[s EXCEPT !.at = "stored"]} /\ UNCHANGED misses
          \/ /\ IF s.desk \in Admins THEN Fail ELSE UNCHANGED misses
             /\ saves' = (saves \ {s}) \cup {[s EXCEPT !.at = "refused"]} /\ UNCHANGED rules

\* saveChanges up to its next wait: the icon, the banner and the settings are
\* saved one after the other, each unless there is nothing to save.
Proceed(s, after) ==
  LET d == desk[s.desk]
      left == IF after = "icon" THEN d.media \ {"icon"} ELSE IF after = "banner" THEN {} ELSE d.media
      next == IF "icon" \in left THEN "icon" ELSE "banner"
  IN IF left = {} THEN SaveHubSettings(s, d)
     ELSE saves' = (saves \ {s}) \cup {[s EXCEPT !.at = next]} /\ UNCHANGED <<rules, desk, misses>>

\* The button stays enabled while a save is under way.
SaveChanges(d) ==
  /\ desk[d].open /\ IsValidated(d)
  /\ saved < MaxSaves /\ saved' = saved + 1
  /\ Proceed([desk |-> d, n |-> saved, at |-> "start", ok |-> TRUE], "start")
  /\ UNCHANGED <<consented, userVars, edits, visits>>

\* setIcon or deleteIcon, setBanner or deleteBanner end.
MediaSaved(s) ==
  /\ s \in saves /\ s.at \in Media
  /\ \/ Proceed(s, s.at)
     \/ /\ Fail /\ s.ok
        /\ saves' = (saves \ {s}) \cup {[s EXCEPT !.ok = FALSE]}
        /\ UNCHANGED <<rules, desk>>
  /\ UNCHANGED <<consented, userVars, edits, saved, visits>>

JsonSaved(s) ==
  /\ s \in saves /\ s.at \in {"stored", "refused"}
  /\ saves' = saves \ {s}
  /\ desk' = [desk EXCEPT ![s.desk] = Finished(@, s.ok /\ s.at = "stored")]
  /\ UNCHANGED <<rules, consented, userVars, edits, saved, visits, misses>>

-----------------------------------------------------------------------------
(* The user.                                                               *)

\* The answer to the question whether the user has to consent, or "failed".
NeedsAnswer(form, failed) ==
  [op |-> "needs", form |-> form, failed |-> failed, text |-> "unset", version |-> 0,
   consent |-> consented # rules.version, onboarding |-> consented = 0]
\* The settings, for the onboarding.
JsonAnswer(form) ==
  [op |-> "json", form |-> form, failed |-> FALSE, text |-> rules.text, version |-> rules.version,
   consent |-> FALSE, onboarding |-> FALSE]
PostAnswer(form, failed) ==
  [op |-> "post", form |-> form, failed |-> failed, text |-> "unset", version |-> 0,
   consent |-> FALSE, onboarding |-> FALSE]

Asked(failed) == IF failed THEN Fail ELSE UNCHANGED misses

Login ==
  /\ page = "away" /\ visits < MaxVisits /\ visits' = visits + 1
  /\ page' = "home"
  /\ \E failed \in BOOLEAN : Asked(failed) /\ asks' = asks \cup {NeedsAnswer(0, failed)}
  /\ UNCHANGED <<rules, consented, deskVars, kind, needs, version, forms, agreedTo, submits>>

\* The route of the onboarding: the page is set up, and asks for the settings,
\* unless it is there already.
ToRules(keep) ==
  /\ page' = "onboarding" /\ kind' = IF needs'.onboarding THEN "full" ELSE "consent"
  /\ IF page = "onboarding" THEN asks' = keep /\ UNCHANGED <<forms, visits>>
     ELSE /\ visits < MaxVisits /\ visits' = visits + 1
          /\ forms' = Append(forms, Form)
          /\ asks' = keep \cup {JsonAnswer(Len(forms) + 1)}

\* Any other route, past the guard.
Go(keep) ==
  IF needs'.consent \/ needs'.onboarding THEN ToRules(keep)
  ELSE page' = "home" /\ asks' = keep /\ UNCHANGED <<kind, forms, visits>>

\* setUserConsentVersion sends the version.
Post(form, keep) ==
  \E failed \in BOOLEAN :
    /\ Asked(failed)
    /\ asks' = keep \cup {PostAnswer(form, failed)}
    /\ IF failed THEN UNCHANGED <<consented, agreedTo>>
       ELSE consented' = forms[form].version /\ agreedTo' = forms[form].text

\* The answer to fetchIfUserNeedsConsent; within submit the version follows.
FetchIfUserNeedsConsent(a) ==
  LET rest == asks \ {a} IN
  /\ a \in asks /\ a.op = "needs"
  /\ needs' = IF a.failed THEN [needs EXCEPT !.consent = TRUE]
              ELSE [consent |-> a.consent, onboarding |-> a.onboarding]
  /\ IF a.form = 0
     THEN /\ IF needs'.consent \/ needs'.onboarding THEN ToRules(rest)
             ELSE asks' = rest /\ UNCHANGED <<page, kind, forms, visits>>
          /\ UNCHANGED <<consented, agreedTo, misses>>
     ELSE /\ IF needs'.consent \/ needs'.onboarding
             THEN page' = "onboarding" /\ kind' = IF needs'.onboarding THEN "full" ELSE "consent"
             ELSE UNCHANGED <<page, kind>>
          /\ Post(a.form, rest) /\ UNCHANGED <<forms, visits>>
  /\ UNCHANGED <<rules, deskVars, version, submits>>

GetHubJSON(a) ==
  /\ a \in asks /\ a.op = "json" /\ asks' = asks \ {a}
  /\ version' = a.version
  /\ forms' = [forms EXCEPT ![a.form].text = a.text,
                            ![a.form].version = IF a.version = 0 THEN version' ELSE a.version]
  /\ UNCHANGED <<rules, consented, deskVars, page, kind, needs, agreedTo, submits, visits, misses>>

\* nextStep, prevStep, and the checkbox, which is there whatever has arrived.
Onboarding == page = "onboarding"
Turn ==
  /\ Onboarding
  /\ \/ forms' = [forms EXCEPT ![Len(forms)].step = 3 - @] /\ (forms[Len(forms)].step = 1 \/ kind = "full")
     \/ forms' = [forms EXCEPT ![Len(forms)].agreed = ~@] /\ forms[Len(forms)].step = 2
  /\ UNCHANGED <<rules, consented, deskVars, page, kind, needs, version, asks, agreedTo, submits, visits, misses>>

\* The button of step 2; `submitted' is never set, so that it can be clicked
\* again.  A failing display name ends the submit.
Submit ==
  LET n == Len(forms) IN
  /\ Onboarding /\ forms[n].step = 2 /\ forms[n].agreed
  /\ submits < MaxSubmits /\ submits' = submits + 1
  /\ \/ kind = "consent" /\ Post(n, asks)
     \/ /\ kind = "full" /\ UNCHANGED <<consented, agreedTo>>
        /\ \E failed \in BOOLEAN : Asked(failed) /\ asks' = asks \cup {NeedsAnswer(n, failed)}
     \/ kind = "full" /\ Fail /\ UNCHANGED <<consented, agreedTo, asks>>
  /\ UNCHANGED <<rules, deskVars, page, kind, needs, version, forms, visits>>

\* slip: the user is let in although the version was not stored
ClearedAlways(a) == [consent |-> FALSE, onboarding |-> FALSE]
Cleared(a) == IF a.failed THEN needs ELSE [consent |-> FALSE, onboarding |-> FALSE]

\* setUserConsentVersion returns, whether it failed or not, and submit goes on
\* to the route the user came for.
SetUserConsentVersion(a) ==
  /\ a \in asks /\ a.op = "post"
  /\ needs' = Cleared(a) /\ Go(asks \ {a})
  /\ UNCHANGED <<rules, consented, deskVars, version, agreedTo, submits, misses>>

GoHome ==
  /\ page # "away" /\ UNCHANGED needs /\ Go(asks)
  /\ UNCHANGED <<rules, consented, deskVars, version, agreedTo, submits, misses>>

RulesNext ==
  \/ \E d \in Desks : OpenSettings(d) \/ FetchIsAdministrator(d) \/ DisplayHubJSON(d) \/ SaveChanges(d)
  \/ \E d \in Desks, t \in Texts : EnterText(d, t)
  \/ \E d \in Desks, m \in Media : EnterMedia(d, m)
  \/ \E s \in saves : MediaSaved(s) \/ JsonSaved(s)
  \/ \E a \in asks : FetchIfUserNeedsConsent(a) \/ GetHubJSON(a) \/ SetUserConsentVersion(a)
  \/ Login \/ Turn \/ Submit \/ GoHome

RulesSpec == RulesInit /\ [][RulesNext]_rulesVars

-----------------------------------------------------------------------------
\* Who is past the onboarding, and no longer being asked about, has a version on
\* record that he accepted: whatever fails, is clicked twice, or arrives late.
LetInOnRecord ==
  page = "home" /\ (\A a \in asks : a.op # "needs") => consented # 0

\* locales/en.ts:466 calls them "The houserules that every user has to accept to
\* enter the hub.", so that who is on record with the present version agreed to
\* the present text.
RulesAreAccepted == consented = rules.version => agreedTo = rules.text

=============================================================================

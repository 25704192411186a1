------------------------------- MODULE Experts -------------------------------
(***************************************************************************)
(* Assessments of messages by experts, as one hub client shows them:        *)
(* TimelineManager.ts keeps one of each expert for each message, from the   *)
(* events that sliding sync and pages of the timeline bring in;             *)
(* RoomMessageBubble.vue offers an expert to give, change or withdraw his    *)
(* own, through expert-verification.composable.ts and its two dialogs.      *)
(*                                                                         *)
(* What is sent to the room is a sequence; an event is its position, which  *)
(* is also its timestamp.  Which messages stay in the timeline when a page   *)
(* comes in is the subject of Timeline, and left open here.                  *)
(***************************************************************************)
EXTENDS Integers, FiniteSets, SequencesExt

CONSTANTS Users, Me, \* who may be an expert; the user of this client
          PageSize,  \* events in a page
          MaxEvents, \* bound on what is sent to the room
          MaxTexts,  \* bound on the messages among them
          MaxChanges, MaxOpens, MaxFails \* bounds on changes of role, menus, failing requests

Texts(sent) == {i \in DOMAIN sent : sent[i].kind = "text"}
Closed == [on |-> 0, edit |-> FALSE, error |-> FALSE]
Author == "author"   \* of the messages, which nobody assesses himself
NoMenu == [on |-> 0, items |-> {}]

VARIABLES
  log,      \* what was sent to the room
  told,     \* how much of it sliding sync has delivered
  isExpert, \* at the hub: this user has the power level of an expert, as the others have
  amExpert, \* isCurrentUserExpert
  loaded,   \* messages in the timeline
  record,   \* expertVerificationEvents: the event of a user on a message, 0 if none
  since,    \* history: events about a message since it was last forgotten
  revived,  \* history: verifications that came after a newer withdrawal
  menu,     \* the context menu, with the items of the moment it was opened
  verifyDialog, profileDialog, hasProfile,
  ops,      \* requests under way
  changes, opens, fails

roomVars == <<log, told, isExpert>>
shownVars == <<loaded, record, since, revived>>
userVars == <<menu, verifyDialog, profileDialog, hasProfile>>
expertsVars == <<roomVars, amExpert, shownVars, userVars, ops, changes, opens, fails>>

Places == 1 .. MaxEvents

ExpertsTypeOK ==
  /\ told \in 0 .. Len(log) /\ Len(log) <= MaxEvents
  /\ \A i \in DOMAIN log : log[i].kind # "text" => log[i].by \in Users /\ log[i].on \in Texts(log)
  /\ loaded \subseteq Texts(log)
  /\ record \in [Places -> [Users -> 0 .. Len(log)]]
  /\ \A m \in Places, u \in Users : record[m][u] # 0 =>
       log[record[m][u]] = [kind |-> "verify", by |-> u, on |-> m] /\ record[m][u] \in since[m]
  /\ menu.items \subseteq {"verify", "edit", "remove"}
  /\ (menu # NoMenu => menu.on \in Texts(log)) /\ verifyDialog.on \in {0} \cup Texts(log)
  /\ \A o \in ops : o.kind \in {"verify", "unverify", "profile"}

ExpertsInit ==
  /\ log = <<[kind |-> "text", by |-> Author, on |-> 0]>> /\ told = 0
  /\ isExpert = TRUE /\ amExpert = TRUE
  /\ loaded = {} /\ record = [m \in Places |-> [u \in Users |-> 0]]
  /\ since = [m \in Places |-> {}] /\ revived = {}
  /\ menu = NoMenu /\ verifyDialog = Closed /\ profileDialog = FALSE /\ hasProfile \in BOOLEAN
  /\ ops = {} /\ changes = 0 /\ opens = 0 /\ fails = 0

-----------------------------------------------------------------------------
(* The room.                                                               *)

Send(kind, u, m) == log' = Append(log, [kind |-> kind, by |-> u, on |-> m])

\* Somebody writes, or another expert assesses or withdraws.
Post ==
  /\ Len(log) < MaxEvents
  /\ \/ Cardinality(Texts(log)) < MaxTexts /\ Send("text", Author, 0)
     \/ \E u \in Users \ {Me}, m \in Texts(log), kind \in {"verify", "unverify"} : Send(kind, u, m)
  /\ UNCHANGED <<told, isExpert, amExpert, shownVars, userVars, ops, changes, opens, fails>>

ChangeRole ==
  /\ changes < MaxChanges /\ changes' = changes + 1 /\ isExpert' = ~isExpert
  /\ UNCHANGED <<log, told, amExpert, shownVars, userVars, ops, opens, fails>>

\* The power levels of the room come in.
LearnRole ==
  /\ amExpert # isExpert /\ amExpert' = isExpert
  /\ UNCHANGED <<roomVars, shownVars, userVars, ops, changes, opens, fails>>

-----------------------------------------------------------------------------
(* What the client keeps.                                                  *)

\* slip: what comes in last is taken to be the latest
AnyEvent(i, own) == TRUE
Supersedes(i, own) == own = 0 \/ i > own

\* A withdrawal takes away what is there, and leaves no trace of itself.
UpdateExpertVerificationEvent(rec, i) ==
  LET e == log[i] IN
  IF e.kind = "text" \/ ~Supersedes(i, rec[e.on][e.by]) THEN rec
  ELSE [rec EXCEPT ![e.on][e.by] = IF e.kind = "verify" THEN i ELSE 0]

\* The events a to b, from the oldest on or from the newest back.
Forth(a, b) == [k \in 1 .. b - a + 1 |-> a + k - 1]
Back(a, b) == Reverse(Forth(a, b))
Prepared(order) ==
  LET rec[k \in 0 .. Len(order)] ==
        IF k = 0 THEN record ELSE UpdateExpertVerificationEvent(rec[k - 1], order[k])
  IN rec
PrepareEvents(order) == Prepared(order)[Len(order)]

About(m, order) == {i \in ToSet(order) : log[i].kind # "text" /\ log[i].on = m}

\* Verifications in order that come after a newer withdrawal.
Late(order) ==
  {<<log[order[k]].on, log[order[k]].by>> : k \in {j \in DOMAIN order :
     /\ log[order[j]].kind = "verify"
     /\ \E i \in since[log[order[j]].on] \cup {order[n] : n \in 1 .. j} :
          log[i] = [log[order[j]] EXCEPT !.kind = "unverify"] /\ i > order[j]}}

\* The events come in, and the timeline becomes list; if clean, what is known
\* of other messages is dropped.
Receive(order, list, clean) ==
  LET kept(m) == ~clean \/ m \in list
      prepared == PrepareEvents(order)
  IN
  /\ loaded' = list
  /\ record' = [m \in Places |-> IF kept(m) THEN prepared[m] ELSE [u \in Users |-> 0]]
  /\ since' = [m \in Places |-> IF kept(m) THEN since[m] \cup About(m, order) ELSE {}]
  /\ revived' = {p \in revived \cup Late(order) : kept(p[1])}
  /\ UNCHANGED <<isExpert, amExpert, log, userVars, ops, changes, opens, fails>>

\* A page in either direction, at the edge of what is loaded or where the user
\* jumped to; without a new message nothing is cleaned up.
Paginate(a, b) ==
  LET found == Texts(log) \cap a .. b IN
  /\ a <= b /\ b < a + PageSize /\ b <= Len(log) /\ UNCHANGED told
  /\ \E order \in {Forth(a, b), Back(a, b)} :
       \/ found \subseteq loaded /\ Receive(order, loaded, FALSE)
       \/ \E stay \in SUBSET loaded : Receive(order, stay \cup found, TRUE)

\* Sliding sync; new messages are listed when the newest one was there.
LoadFromSlidingSync(n) ==
  /\ told < n /\ n <= Len(log) /\ told' = n
  /\ LET order == Forth(told + 1, n) IN
     \/ Receive(order, loaded, FALSE)
     \/ \E stay \in SUBSET loaded :
          Texts(log) \cap told + 1 .. n # {} /\ Receive(order, stay \cup (Texts(log) \cap told + 1 .. n), TRUE)

-----------------------------------------------------------------------------
(* The user.                                                               *)

\* getContextMenuItems, on a message that is shown.
Items(m) == IF ~amExpert THEN {} ELSE IF record[m][Me] = 0 THEN {"verify"} ELSE {"edit", "remove"}

OpenMenu(m) ==
  /\ m \in loaded /\ menu = NoMenu /\ verifyDialog = Closed /\ ~profileDialog /\ opens < MaxOpens
  /\ Items(m) # {} /\ menu' = [on |-> m, items |-> Items(m)] /\ opens' = opens + 1
  /\ UNCHANGED <<roomVars, amExpert, shownVars, verifyDialog, profileDialog, hasProfile, ops, changes, fails>>

\* The item does what it did when the menu was opened.
Select(item) ==
  /\ item \in menu.items /\ menu' = NoMenu
  /\ verifyDialog' = IF item = "remove" THEN verifyDialog
                     ELSE [on |-> menu.on, edit |-> item = "edit" /\ record[menu.on][Me] # 0, error |-> FALSE]
  /\ ops' = IF item = "remove" THEN ops \cup {[kind |-> "unverify", on |-> menu.on]} ELSE ops
  /\ UNCHANGED <<roomVars, amExpert, shownVars, profileDialog, hasProfile, changes, opens, fails>>

CloseDialogs ==
  /\ menu # NoMenu \/ verifyDialog # Closed \/ profileDialog
  /\ menu' = NoMenu /\ verifyDialog' = Closed /\ profileDialog' = FALSE
  /\ UNCHANGED <<roomVars, amExpert, shownVars, hasProfile, ops, changes, opens, fails>>

\* The dialog is there while the user is an expert; it has a form once there
\* are credentials, and can be submitted again while it waits.
Shown == verifyDialog # Closed /\ amExpert
OnVerifyDialogSubmit ==
  /\ Shown /\ hasProfile /\ verifyDialog' = [verifyDialog EXCEPT !.error = FALSE]
  /\ ops' = ops \cup {[kind |-> "verify", on |-> verifyDialog.on]}
  /\ UNCHANGED <<roomVars, amExpert, shownVars, menu, profileDialog, hasProfile, changes, opens, fails>>

OpenProfile ==
  /\ Shown /\ ~hasProfile /\ profileDialog' = TRUE /\ verifyDialog' = Closed
  /\ UNCHANGED <<roomVars, amExpert, shownVars, menu, hasProfile, ops, changes, opens, fails>>

OnExpertProfileDialogSubmit ==
  /\ profileDialog /\ ops' = ops \cup {[kind |-> "profile", on |-> 0]}
  /\ UNCHANGED <<roomVars, amExpert, shownVars, userVars, changes, opens, fails>>

\* The hub takes assessments of experts only.
MayVerify == isExpert

\* A request is answered; the dialog it came from closes, or says why not.
Answer(o, ok) ==
  /\ o \in ops /\ ops' = ops \ {o}
  /\ IF ok THEN UNCHANGED fails ELSE fails < MaxFails /\ fails' = fails + 1
  /\ IF o.kind = "profile"
     THEN /\ hasProfile' = (hasProfile \/ ok) /\ profileDialog' = (profileDialog /\ ~ok)
          /\ UNCHANGED <<log, verifyDialog>>
     ELSE LET taken == ok /\ MayVerify IN
          /\ Len(log) < MaxEvents /\ UNCHANGED <<hasProfile, profileDialog>>
          /\ IF taken THEN Send(o.kind, Me, o.on) ELSE UNCHANGED log
          /\ verifyDialog' = IF o.kind = "unverify" \/ verifyDialog.on # o.on THEN verifyDialog
                             ELSE IF taken THEN Closed ELSE [verifyDialog EXCEPT !.error = TRUE]
  /\ UNCHANGED <<told, isExpert, amExpert, shownVars, menu, changes, opens>>

ExpertsNext ==
  \/ Post \/ ChangeRole \/ LearnRole \/ CloseDialogs
  \/ \E a, b \in Places : Paginate(a, b)
  \/ \E n \in Places : LoadFromSlidingSync(n) \/ OpenMenu(n)
  \/ \E item \in {"verify", "edit", "remove"} : Select(item)
  \/ OnVerifyDialogSubmit \/ OpenProfile \/ OnExpertProfileDialogSubmit
  \/ \E o \in ops, ok \in BOOLEAN : Answer(o, ok)

ExpertsSpec == ExpertsInit /\ [][ExpertsNext]_expertsVars

-----------------------------------------------------------------------------
\* What this client knows of the assessments of m by u, and the last of them.
Known(m, u) == {i \in since[m] : log[i].by = u}
Latest(m, u) ==
  LET last == CHOOSE i \in Known(m, u) : \A j \in Known(m, u) : j <= i IN
  IF Known(m, u) = {} \/ log[last].kind = "unverify" THEN 0 ELSE last

\* A message has the assessment that an expert made last, of all that came in
\* since the message was last out of the timeline, in whatever order and however
\* often they came, unless an old one came in after its withdrawal.
LastWordShows ==
  \A m \in Places, u \in Users : <<m, u>> \notin revived => record[m][u] = Latest(m, u)

\* "For each expert, keeps only the latest verification/unverification event per
\* target message.  An unverify event removes the expert's verification."
WithdrawnIsGone == \A m \in Places, u \in Users : record[m][u] = Latest(m, u)
=============================================================================

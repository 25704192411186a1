-------------------------------- MODULE Menus --------------------------------
(***************************************************************************)
(* The context menu of a hub client in the frame of the global client       *)
(* (contextMenu.store.ts, ContextMenu.vue, hubs.ts).  In the wide layout     *)
(* the hub client shows its menu itself, and asks the global client to dim   *)
(* its bar; in the narrow layout the global client shows a copy of it, and   *)
(* sends back the index of the item that was chosen.  The mouse wheel is     *)
(* blocked while a menu is open.  Messages between the frames take time, and *)
(* come in the order they were sent.                                        *)
(***************************************************************************)
EXTENDS Integers, Sequences

CONSTANTS Targets,               \* what a menu may be of
          MaxOpens, MaxResizes   \* bounds on menus and on changes of the layout

NoTarget == "none"
Bar == "bar"   \* the menu of a pinned hub, of the global client itself

VARIABLES
  isOpen, target, \* store of the hub client
  press,          \* what a finger rests on in the hub client, while the timer for a long press runs
  wheel,          \* listeners that block the wheel in the hub client
  narrowHub,      \* isMobileState of the hub client
  globalMenu,     \* what the menu of the global client is of, NoTarget if closed
  subscriptions,  \* of the global client, to tell the hub that the menu closed
  dimmed,         \* contextMenuModalVisible
  narrow,         \* isMobileState of the global client
  up, down,       \* messages to the global client, and to the hub client
  muddled,        \* history: a menu was opened over another, or before the hub client had
                  \* heard what became of the last; or the layout changed under one
  mistaken,       \* history: an item was run of another menu than it was chosen from
  opened, resized

hubVars == <<isOpen, target, press, wheel, narrowHub>>
globalVars == <<globalMenu, subscriptions, dimmed, narrow>>
menusVars == <<hubVars, globalVars, up, down, muddled, mistaken, opened, resized>>

Message(kind, on) == [kind |-> kind, on |-> on]

MenusTypeOK ==
  /\ isOpen \in BOOLEAN /\ (target # NoTarget <=> isOpen) /\ target \in Targets \cup {NoTarget}
  /\ press \in Targets \cup {NoTarget} /\ wheel \in 0 .. MaxOpens /\ globalMenu \in Targets \cup {NoTarget, Bar}
  /\ {narrowHub, dimmed, narrow, muddled, mistaken} \subseteq BOOLEAN /\ subscriptions \in Nat
  /\ \A i \in DOMAIN up : up[i].kind \in {"open", "show", "hide"}
  /\ \A i \in DOMAIN down : down[i].kind \in {"select", "close", "narrow", "wide"}

MenusInit ==
  /\ isOpen = FALSE /\ target = NoTarget /\ press = NoTarget /\ wheel = 0 /\ narrow \in BOOLEAN /\ narrowHub = narrow
  /\ globalMenu = NoTarget /\ subscriptions = 0 /\ dimmed = FALSE /\ up = <<>> /\ down = <<>>
  /\ muddled = FALSE /\ mistaken = FALSE /\ opened = 0 /\ resized = 0

-----------------------------------------------------------------------------
(* The hub client.                                                         *)

\* A menu covers what is under it, in the frame that shows it.
Uncovered == (isOpen => narrowHub) /\ globalMenu = NoTarget

DisableWheelScroll == wheel' = wheel + 1

\* open of the store, whether or not a menu is open.
Open(t) ==
  /\ opened < MaxOpens /\ opened' = opened + 1
  /\ isOpen' = TRUE /\ target' = t /\ DisableWheelScroll
  /\ up' = Append(up, Message(IF narrowHub THEN "open" ELSE "show", t))
  /\ muddled' = (muddled \/ isOpen \/ globalMenu # NoTarget \/ down # <<>>)
  /\ UNCHANGED <<narrowHub, globalVars, down, mistaken, resized>>

\* A click, or what the browser makes of a long press.
OpenMenu(t) == Uncovered /\ Open(t) /\ UNCHANGED press

\* The directive v-context-menu has a timer of its own for long presses.
TouchStart(t) ==
  /\ Uncovered /\ press = NoTarget /\ press' = t
  /\ UNCHANGED <<isOpen, target, wheel, narrowHub, globalVars, up, down, muddled, mistaken, opened, resized>>
TouchEnd ==
  /\ press # NoTarget /\ press' = NoTarget
  /\ UNCHANGED <<isOpen, target, wheel, narrowHub, globalVars, up, down, muddled, mistaken, opened, resized>>
LongPress == press # NoTarget /\ press' = NoTarget /\ Open(press)

\* slip: the bar stays dimmed
StaysDimmed == <<>>
Undim == IF narrowHub THEN <<>> ELSE <<Message("hide", NoTarget)>>

\* Only the latest of the listeners is known.
EnableWheelScroll == wheel' = IF isOpen THEN wheel - 1 ELSE wheel

Close ==
  /\ isOpen' = FALSE /\ target' = NoTarget
  /\ EnableWheelScroll /\ up' = up \o Undim

\* The user picks an item of the menu that the hub client shows, or leaves it.
SelectOrDismiss ==
  /\ isOpen /\ ~narrowHub /\ Close
  /\ UNCHANGED <<press, narrowHub, globalVars, down, muddled, mistaken, opened, resized>>

\* A message comes in from the global client.
HubReceives ==
  /\ down # <<>> /\ down' = Tail(down) /\ UNCHANGED <<press, globalVars, opened, resized>>
  /\ LET m == Head(down) IN
     \/ /\ m.kind = "select" /\ mistaken' = (mistaken \/ (isOpen /\ target # m.on))
        /\ IF isOpen THEN Close ELSE UNCHANGED <<isOpen, target, wheel, up>>
        /\ UNCHANGED <<narrowHub, muddled>>
     \/ m.kind = "close" /\ Close /\ UNCHANGED <<narrowHub, muddled, mistaken>>
     \/ /\ m.kind \in {"narrow", "wide"} /\ narrowHub' = (m.kind = "narrow")
        /\ muddled' = (muddled \/ isOpen) /\ UNCHANGED <<isOpen, target, wheel, up, mistaken>>

-----------------------------------------------------------------------------
(* The global client.                                                      *)

GlobalReceives ==
  /\ up # <<>> /\ up' = Tail(up)
  /\ LET m == Head(up) IN
     \/ /\ m.kind = "open" /\ globalMenu' = m.on /\ subscriptions' = subscriptions + 1
        /\ muddled' = (muddled \/ globalMenu # NoTarget) /\ UNCHANGED dimmed
     \/ /\ m.kind \in {"show", "hide"} /\ dimmed' = (m.kind = "show")
        /\ UNCHANGED <<globalMenu, subscriptions, muddled>>
  /\ UNCHANGED <<hubVars, narrow, down, mistaken, opened, resized>>

\* The menu closes; before anything else happens the hub client is told so.
GlobalClose(chosen) ==
  /\ globalMenu # NoTarget /\ globalMenu' = NoTarget /\ subscriptions' = 0
  /\ down' = down \o chosen \o [i \in 1 .. subscriptions |-> Message("close", NoTarget)]
  /\ UNCHANGED <<hubVars, dimmed, narrow, up, muddled, mistaken, opened, resized>>

Select == GlobalClose(IF globalMenu = Bar THEN <<>> ELSE <<Message("select", globalMenu)>>)
Dismiss == GlobalClose(<<>>)

\* A pinned hub has a menu too; the bar cannot be reached while it is dimmed.
OpenHubContextMenu ==
  /\ globalMenu = NoTarget /\ ~dimmed /\ opened < MaxOpens /\ opened' = opened + 1
  /\ globalMenu' = Bar
  /\ UNCHANGED <<hubVars, subscriptions, dimmed, narrow, up, down, muddled, mistaken, resized>>

UpdateIsMobile ==
  /\ resized < MaxResizes /\ resized' = resized + 1 /\ narrow' = ~narrow
  /\ down' = Append(down, Message(IF narrow' THEN "narrow" ELSE "wide", NoTarget))
  /\ UNCHANGED <<hubVars, globalMenu, subscriptions, dimmed, up, muddled, mistaken, opened>>

MenusNext ==
  \/ \E t \in Targets : OpenMenu(t) \/ TouchStart(t)
  \/ TouchEnd \/ LongPress
  \/ SelectOrDismiss \/ HubReceives \/ GlobalReceives
  \/ Select \/ Dismiss \/ OpenHubContextMenu \/ UpdateIsMobile

MenusSpec == MenusInit /\ [][MenusNext]_menusVars

-----------------------------------------------------------------------------
\* The two clients agree: an item is run of the menu it was chosen from, and when
\* no message is under way a menu the hub client has open is on the screen; when
\* it has none the bar is not dimmed and the wheel works.  This is so as long as
\* menus are opened one after another and the layout changes under none (muddled).
MenusAgree ==
  ~muddled =>
    /\ ~mistaken
    /\ up = <<>> /\ down = <<>> =>
         /\ isOpen => IF narrowHub THEN globalMenu = target ELSE dimmed
         /\ ~isOpen => ~dimmed /\ wheel = 0 /\ globalMenu \in {NoTarget, Bar}
=============================================================================

-------------------------------- MODULE Enter --------------------------------
(***************************************************************************)
(* Registration and login at PubHubs Central: the requests served by       *)
(* handle_user_enter, and the user and attribute objects they keep in the  *)
(* object store.  A request awaits the store many times and holds no lock; *)
(* between two awaits, other requests may change what it has read.  What    *)
(* protects the objects is that a put creates an object that is not there, *)
(* or replaces one whose version is the version that was read, and fails   *)
(* otherwise.                                                              *)
(*                                                                         *)
(* Banning is absent: the code reads the `banned' flags but no operation   *)
(* of it sets one.                                                         *)
(***************************************************************************)
EXTENDS Integers, FiniteSets

CONSTANTS
  Attrs,         \* attributes users disclose
  Identifying,   \* those that can identify a user
  Bannable,      \* those that can be used to ban a user
  Users,         \* identifiers of user accounts
  Workers,       \* requests in progress at the same time
  None,          \* absence of a value (Option::None)
  MaxRequests,   \* bound: requests made, and faults
  MaxFaults      \* bound: puts that the object store answers with an error

ASSUME AttrsAssumption ==
  Identifying \subseteq Attrs /\ Bannable \subseteq Attrs
ASSUME NoneAssumption == None \notin Attrs /\ None \notin Users
ASSUME BoundsAssumption == MaxRequests \in Nat /\ MaxFaults \in Nat

VARIABLES
  attrs,     \* attrs[a]: state of attribute a in the object store, or None
  users,     \* users[u]: state of user u in the object store, or None
  tokens,    \* users that were issued an auth token
  pc,        \* pc[w]: where the request at w is
  req,       \* req[w]: that request
  uid,       \* uid[w]: the user it enters as, once known
  acct,      \* acct[w]: state of that user as last read or written by w
  todo,      \* todo[w]: attributes whose state w still has to retrieve
  got,       \* got[w][a]: state of a as last read or written by w, or None
  status,    \* status[w][a]: what w reports about a, or None
  reply,     \* reply[w]: how the last request at w ended
  requests, faults   \* uses made of the bounds

store == <<attrs, users>>
local == <<req, uid, acct, todo, got, status>>
vars  == <<store, tokens, pc, local, reply, requests, faults>>

-----------------------------------------------------------------------------
AttrState == [may_identify_user : Users \cup {None}, bans_users : SUBSET Users]
UserState == [allow_login_by : SUBSET Attrs, could_be_banned_by : SUBSET Attrs]

ASSUME StatesAssumption == None \notin AttrState /\ None \notin UserState

Modes == {"login", "register", "login_or_register"}
Statuses == {"already_there", "added", "please_try_again"}

ASSUME StatusesAssumption == None \notin Statuses

\* Requests that are not turned down for their form: an auth token is only used
\* to log in, and no attribute is given twice.  With a token, the identifying
\* attribute is but one of those to add; the demand that the attributes are
\* unique matters to registration only.
Request ==
  {r \in [token : Users \cup {None}, ident : Identifying \cup {None}, mode : Modes,
          add : SUBSET Attrs, unique : BOOLEAN] :
     /\ r.token # None \/ r.ident # None
     /\ r.token # None => r.mode = "login" /\ r.ident = None
     /\ r.unique => r.mode # "login"
     /\ r.ident \notin r.add}

\* (slip: no identifying attribute is one too)
GivenOptional(r) == r.add \cup {r.ident}

\* All attributes that come with a request.
Given(r) == r.add \cup ({r.ident} \ {None})

NoReq  == [token |-> None, ident |-> None, mode |-> "login", add |-> {}, unique |-> FALSE]
NoUser == [allow_login_by |-> {}, could_be_banned_by |-> {}]

Phases == {"idle", "identify", "load", "retrieve", "claim", "link"}
\* How a request ends: the user has entered, is told why not, gets no answer,
\* or the handler panics at one of its assertions.
Replies == {"none", "entered", "turned_down", "panic_not_mine", "panic_status"}
Reply == [kind : Replies, user : Users \cup {None}, ident : Attrs \cup {None},
          status : [Attrs -> Statuses \cup {None}]]

\* AttrState::new
NewAttrState(a, u) ==
  [may_identify_user |-> IF a \in Identifying THEN u ELSE None,
   bans_users |-> IF a \in Bannable THEN {u} ELSE {}]

TypeOK ==
  /\ attrs \in [Attrs -> AttrState \cup {None}]
  /\ users \in [Users -> UserState \cup {None}]
  /\ tokens \in SUBSET Users
  /\ pc \in [Workers -> Phases]
  /\ req \in [Workers -> Request \cup {NoReq}]
  /\ uid \in [Workers -> Users \cup {None}]
  /\ acct \in [Workers -> UserState]
  /\ todo \in [Workers -> SUBSET Attrs]
  /\ got \in [Workers -> [Attrs -> AttrState \cup {None}]]
  /\ status \in [Workers -> [Attrs -> Statuses \cup {None}]]
  /\ reply \in [Workers -> Reply]
  /\ requests \in Nat /\ faults \in Nat

Nothing == [a \in Attrs |-> None]

Init ==
  /\ attrs = Nothing
  /\ users = [u \in Users |-> None]
  /\ tokens = {}
  /\ pc = [w \in Workers |-> "idle"]
  /\ req = [w \in Workers |-> NoReq]
  /\ uid = [w \in Workers |-> None]
  /\ acct = [w \in Workers |-> NoUser]
  /\ todo = [w \in Workers |-> {}]
  /\ got = [w \in Workers |-> Nothing]
  /\ status = [w \in Workers |-> Nothing]
  /\ reply = [w \in Workers |-> [kind |-> "none", user |-> None, ident |-> None,
                                 status |-> Nothing]]
  /\ requests = 0 /\ faults = 0

-----------------------------------------------------------------------------
(* The object store.  A put that is answered with an error may or may not  *)
(* have taken effect.                                                      *)

Errors == {"failed", "unheard"}
Outcomes == {"stored", "refused"} \cup Errors

\* (slip: a put that replaces whatever is there)
MatchesAnything(present, expected) == TRUE

\* Objects only grow, so that two versions of one are the same when their
\* contents are.
Matches(present, expected) == present = expected

\* The possible outcomes of putting an object that is present in the store,
\* where expected is what the request believes to be there.
PutOutcome(present, expected, outcome) ==
  /\ outcome \in {"stored", "unheard"} => Matches(present, expected)
  /\ outcome = "refused" => ~Matches(present, expected)
  /\ outcome \in Errors => faults < MaxFaults /\ requests + faults < MaxRequests
  /\ faults' = IF outcome \in Errors THEN faults + 1 ELSE faults

Written(outcome) == outcome \in {"stored", "unheard"}

PutAttr(a, expected, state, outcome) ==
  /\ PutOutcome(attrs[a], expected, outcome)
  /\ attrs' = IF Written(outcome) THEN [attrs EXCEPT ![a] = state] ELSE attrs

PutUser(u, expected, state, outcome) ==
  /\ PutOutcome(users[u], expected, outcome)
  /\ users' = IF Written(outcome) THEN [users EXCEPT ![u] = state] ELSE users

-----------------------------------------------------------------------------
(* The request.                                                            *)

\* The request at w ends.
Finish(w, kind, user, final) ==
  /\ pc' = [pc EXCEPT ![w] = "idle"]
  /\ reply' = [reply EXCEPT ![w] = [kind |-> kind, user |-> user, status |-> final,
                 ident |-> req[w].ident]]
  /\ req' = [req EXCEPT ![w] = NoReq] /\ uid' = [uid EXCEPT ![w] = None]
  /\ acct' = [acct EXCEPT ![w] = NoUser] /\ todo' = [todo EXCEPT ![w] = {}]
  /\ got' = [got EXCEPT ![w] = Nothing] /\ status' = [status EXCEPT ![w] = Nothing]

End(w, kind) == Finish(w, kind, None, Nothing) /\ UNCHANGED tokens

\* The request moves on to a phase.
Go(w, phase) == pc' = [pc EXCEPT ![w] = phase] /\ UNCHANGED <<req, reply, requests>>

\* A request arrives.  With a token it first loads the user, to log in it first
\* looks up the identifying attribute, to register it retrieves all attributes.
Begin(w, r) ==
  /\ pc[w] = "idle" /\ requests + faults < MaxRequests
  /\ r.token # None => r.token \in tokens
  /\ requests' = requests + 1
  /\ req' = [req EXCEPT ![w] = r]
  /\ uid' = [uid EXCEPT ![w] = r.token]
  /\ todo' = [todo EXCEPT ![w] = Given(r)]
  /\ pc' = [pc EXCEPT ![w] = IF r.token # None THEN "load"
                             ELSE IF r.mode = "register" THEN "retrieve" ELSE "identify"]
  /\ UNCHANGED <<store, tokens, acct, got, status, reply, faults>>

\* What w read of attribute a.  An attribute that is there is reported so,
\* unless it has to be changed.
Retrieved(w, a) ==
  /\ got' = [got EXCEPT ![w][a] = attrs[a]]
  /\ status' = [status EXCEPT ![w][a] = IF attrs[a] = None THEN None ELSE "already_there"]

\* Whom does the identifying attribute identify?
Identify(w) ==
  LET a == req[w].ident IN
  /\ pc[w] = "identify"
  /\ UNCHANGED <<store, requests, faults>>
  /\ \/ /\ attrs[a] # None /\ attrs[a].may_identify_user # None
        /\ Retrieved(w, a)
        /\ uid' = [uid EXCEPT ![w] = attrs[a].may_identify_user]
        /\ todo' = [todo EXCEPT ![w] = @ \ {a}]
        /\ Go(w, "load")
        /\ UNCHANGED <<tokens, acct>>
     \/ /\ attrs[a] = None => req[w].mode = "login"
        /\ attrs[a] # None => attrs[a].may_identify_user = None
        /\ End(w, "turned_down")
     \/ /\ attrs[a] = None /\ req[w].mode # "login"
        /\ Go(w, "retrieve")
        /\ UNCHANGED <<tokens, uid, acct, todo, got, status>>

\* The user's account is retrieved.
Load(w) ==
  /\ pc[w] = "load"
  /\ UNCHANGED <<store, requests, faults>>
  /\ \/ /\ users[uid[w]] # None
        /\ acct' = [acct EXCEPT ![w] = users[uid[w]]]
        /\ Go(w, "retrieve")
        /\ UNCHANGED <<tokens, uid, todo, got, status>>
     \/ /\ users[uid[w]] = None
        /\ End(w, "turned_down")

Registers(w) == uid[w] = None

\* The states of the other attributes are retrieved, one by one.
Retrieve(w, a) ==
  /\ pc[w] = "retrieve" /\ a \in todo[w]
  /\ Registers(w) => Given(req[w]) \cap Bannable # {}
  /\ Retrieved(w, a)
  /\ todo' = [todo EXCEPT ![w] = @ \ {a}]
  /\ UNCHANGED <<store, tokens, pc, req, uid, acct, reply, requests, faults>>

\* precheck_attrs_for_registration
Taken(w, a) ==
  /\ got[w][a] # None
  /\ \/ got[w][a].may_identify_user # None
     \/ req[w].unique /\ got[w][a].bans_users # {}

PrecheckFails(w) ==
  /\ pc[w] = "retrieve" /\ Registers(w)
  /\ \/ /\ Given(req[w]) \cap Bannable = {}
        /\ End(w, "turned_down")
     \/ /\ Given(req[w]) \cap Bannable # {} /\ todo[w] = {}
        /\ \E a \in Attrs : Taken(w, a)
        /\ End(w, "turned_down")
  /\ UNCHANGED <<store, requests, faults>>

\* (slip: the answer to the put of the account is not awaited)
CreatesRegardless(outcome) == TRUE

Creates(outcome) == outcome = "stored"

\* The attributes are fine: a new account is put in the object store.
CreateUser(w, u) ==
  LET new == [NoUser EXCEPT !.allow_login_by = Given(req[w]) \cap Identifying] IN
  /\ pc[w] = "retrieve" /\ Registers(w) /\ todo[w] = {}
  /\ Given(req[w]) \cap Bannable # {}
  /\ \A a \in Attrs : ~Taken(w, a)
  /\ users[u] = None    \* a random identifier is a new one
  /\ UNCHANGED <<attrs, requests>>
  /\ \E outcome \in Outcomes :
       /\ PutUser(u, None, new, outcome)
       /\ IF Creates(outcome)
          THEN /\ uid' = [uid EXCEPT ![w] = u] /\ acct' = [acct EXCEPT ![w] = new]
               /\ Go(w, "claim")
               /\ UNCHANGED <<tokens, todo, got, status>>
          ELSE End(w, "turned_down")

\* (slip: an attribute that was just added by another is taken for one's own)
ClaimsRegardless(outcome) == outcome \in {"stored", "refused"}

Claims(outcome) == outcome = "stored"

\* The identifying attribute is made to point to the new account.
Claim(w) ==
  LET a == req[w].ident  new == NewAttrState(a, uid[w]) IN
  /\ pc[w] = "claim"
  /\ UNCHANGED <<users, requests>>
  /\ \E outcome \in Outcomes :
       /\ PutAttr(a, None, new, outcome)
       /\ IF Claims(outcome)
          THEN /\ got' = [got EXCEPT ![w][a] = new]
               /\ status' = [status EXCEPT ![w][a] = "added"]
               /\ Go(w, "link")
               /\ UNCHANGED <<tokens, uid, acct, todo>>
          ELSE End(w, "turned_down")

\* At login, all attribute states have been retrieved.
Proceed(w) ==
  /\ pc[w] = "retrieve" /\ ~Registers(w) /\ todo[w] = {}
  /\ Go(w, "link")
  /\ UNCHANGED <<store, tokens, uid, acct, todo, got, status, faults>>

ToAdd(w) == {a \in Given(req[w]) : got[w][a] = None /\ status[w][a] = None}

\* A missing attribute is added.
AddAttr(w, a) ==
  LET new == NewAttrState(a, uid[w]) IN
  /\ pc[w] = "link" /\ a \in ToAdd(w)
  /\ \E outcome \in Outcomes :
       /\ PutAttr(a, None, new, outcome)
       /\ IF outcome = "stored"
          THEN /\ got' = [got EXCEPT ![w][a] = new]
               /\ status' = [status EXCEPT ![w][a] = "added"]
          ELSE /\ status' = [status EXCEPT ![w][a] = "please_try_again"]
               /\ UNCHANGED got
  /\ UNCHANGED <<users, tokens, pc, req, uid, acct, todo, reply, requests>>

ToBan(w) == {a \in Bannable : got[w][a] # None /\ uid[w] \notin got[w][a].bans_users}

\* An attribute that was there already is made to ban this user too.  When that
\* fails the code asserts that no status was reported yet, while there was one.
BanAttr(w, a) ==
  LET new == [got[w][a] EXCEPT !.bans_users = @ \cup {uid[w]}] IN
  /\ pc[w] = "link" /\ ToAdd(w) = {} /\ a \in ToBan(w)
  /\ UNCHANGED <<users, requests>>
  /\ \E outcome \in Outcomes :
       /\ PutAttr(a, got[w][a], new, outcome)
       /\ IF outcome = "stored"
          THEN /\ got' = [got EXCEPT ![w][a] = new]
               /\ UNCHANGED <<tokens, pc, req, uid, acct, todo, status, reply>>
          ELSE End(w, "panic_status")

\* The attributes to be found in the account.
Linked(w) == {a \in Attrs : got[w][a] # None /\ status[w][a] # "please_try_again"}

NotMine(w) == \E a \in Linked(w) : got[w][a].may_identify_user \notin {None, uid[w]}

Identifies(w) == {a \in Linked(w) : got[w][a].may_identify_user = uid[w]}

\* (slip: whatever bannable attribute was provided counts)
BansProvided(w) == Given(req[w]) \cap Bannable

Bans(w) == {a \in Linked(w) : uid[w] \in got[w][a].bans_users}

NewAcct(w) ==
  [allow_login_by     |-> acct[w].allow_login_by \cup Identifies(w),
   could_be_banned_by |-> acct[w].could_be_banned_by \cup Bans(w)]

AddedAttrs(w) ==
  (Identifies(w) \ acct[w].allow_login_by) \cup (Bans(w) \ acct[w].could_be_banned_by)

\* (slip: the failure to update the account is not reported)
ReportsAdded(w, outcome) ==
  [a \in Attrs |-> IF a \in AddedAttrs(w) THEN "added" ELSE status[w][a]]

Report(w, outcome) ==
  [a \in Attrs |-> IF a \notin AddedAttrs(w) THEN status[w][a]
                   ELSE IF outcome = "stored" THEN "added" ELSE "please_try_again"]

\* (slip: a token is issued to a user that cannot be banned)
IssuesAlways(w) == tokens' = tokens \cup {uid[w]}

\* issue_auth_token, for the account as w would have it
IssueAuthToken(w) ==
  tokens' = IF NewAcct(w).could_be_banned_by # {} THEN tokens \cup {uid[w]} ELSE tokens

\* Finally the account is updated, if need be, and the user has entered.
Complete(w) ==
  /\ pc[w] = "link" /\ ToAdd(w) = {} /\ ToBan(w) = {}
  /\ ~NotMine(w)
  /\ IF AddedAttrs(w) = {}
     THEN Finish(w, "entered", uid[w], status[w]) /\ UNCHANGED <<users, faults>>
     ELSE \E outcome \in Outcomes :
            /\ PutUser(uid[w], acct[w], NewAcct(w), outcome)
            /\ Finish(w, "entered", uid[w], Report(w, outcome))
  /\ IssueAuthToken(w)
  /\ UNCHANGED <<attrs, requests>>

\* The code asserts that the attributes identify nobody else.
NotMinePanics(w) ==
  /\ pc[w] = "link" /\ ToAdd(w) = {} /\ ToBan(w) = {}
  /\ NotMine(w)
  /\ End(w, "panic_not_mine")
  /\ UNCHANGED <<store, requests, faults>>

\* The client leaves, an object cannot be retrieved, or the server restarts:
\* the request is dropped where it was waiting.
Abort(w) ==
  /\ pc[w] # "idle"
  /\ End(w, "none")
  /\ UNCHANGED <<store, requests, faults>>

Next ==
  \E w \in Workers :
    \/ \E r \in Request : Begin(w, r)
    \/ Identify(w) \/ Load(w)
    \/ \E a \in Attrs : Retrieve(w, a) \/ AddAttr(w, a) \/ BanAttr(w, a)
    \/ PrecheckFails(w) \/ \E u \in Users : CreateUser(w, u)
    \/ Claim(w) \/ Proceed(w)
    \/ Complete(w) \/ NotMinePanics(w) \/ Abort(w)

Spec == Init /\ [][Next]_vars
-----------------------------------------------------------------------------
(* Properties.                                                             *)

Present(a) == attrs[a] # None

\* The user an attribute identifies has an account: it was put first.
OwnersExist ==
  \A a \in Attrs : Present(a) /\ attrs[a].may_identify_user # None
                     => users[attrs[a].may_identify_user] # None

\* The attributes that an account lists as able to ban it would ban it.
BansKnown ==
  \A u \in Users : users[u] # None =>
    \A a \in users[u].could_be_banned_by : Present(a) /\ u \in attrs[a].bans_users

\* Whoever holds an auth token can be banned, even if the account could not be
\* updated to say so.
TokenHoldersBannable ==
  \A u \in tokens : \E a \in Bannable : Present(a) /\ u \in attrs[a].bans_users

\* The objects and the tokens agree, wherever requests have stopped: an owner has
\* an account, a ban that is listed is in force, and who is let in can be banned.
RecordsAgree == OwnersExist /\ BansKnown /\ TokenHoldersBannable

\* Who logged in or registered by an identifying attribute entered the account
\* that the attribute identifies.
EnteredByOwner ==
  \A w \in Workers :
    reply[w].kind = "entered" /\ reply[w].ident # None =>
      /\ Present(reply[w].ident)
      /\ attrs[reply[w].ident].may_identify_user = reply[w].user

\* The user can rely on what is reported: an attribute that was added, or was
\* there already, can be found in the account and refers to it.
ReportedIsStored ==
  \A w \in Workers : reply[w].kind = "entered" =>
    \A a \in Attrs : reply[w].status[a] \in {"added", "already_there"} =>
      /\ a \in Identifying => /\ a \in users[reply[w].user].allow_login_by
                              /\ attrs[a].may_identify_user = reply[w].user
      /\ a \in Bannable => /\ a \in users[reply[w].user].could_be_banned_by
                           /\ reply[w].user \in attrs[a].bans_users

\* Once an attribute identifies somebody it never identifies anybody else (which
\* `prevents impersonation'), and no request undoes what another has added.
NothingLost ==
  [][/\ \A a \in Attrs : Present(a) =>
          /\ attrs'[a] # None
          /\ attrs'[a].may_identify_user = attrs[a].may_identify_user
          /\ attrs[a].bans_users \subseteq attrs'[a].bans_users
     /\ \A u \in Users : users[u] # None =>
          /\ users'[u] # None
          /\ users[u].allow_login_by \subseteq users'[u].allow_login_by
          /\ users[u].could_be_banned_by \subseteq users'[u].could_be_banned_by]_vars

\* The object store seen as a register of accounts and attributes.
R == INSTANCE Registry WITH
  accounts <- {u \in Users : users[u] # None},
  owner    <- [a \in Attrs |-> IF Present(a) THEN attrs[a].may_identify_user ELSE None],
  bans     <- [a \in Attrs |-> IF Present(a) THEN attrs[a].bans_users ELSE {}],
  logins   <- [u \in Users |-> IF users[u] = None THEN {} ELSE users[u].allow_login_by],
  bannedBy <- [u \in Users |-> IF users[u] = None THEN {} ELSE users[u].could_be_banned_by],
  admitted <- tokens

\* Whatever requests are interleaved, and whichever of their puts fail, the store
\* changes as the register would: no step that writes an object undoes another's.
ImplementsRegistry == R!Spec

\* The assertion that the attributes a user provides identify nobody else.
IdentifiesNobodyElse == \A w \in Workers : reply[w].kind # "panic_not_mine"

\* The assertion that no status was set for an attribute that could not be put.
StatusSetOnce == \A w \in Workers : reply[w].kind # "panic_status"

\* An attribute identifies a user only if the user lists it.
LoginIsListed ==
  \A w \in Workers :
    pc[w] \in {"retrieve", "link"} /\ req[w].token = None /\ ~Registers(w)
      /\ status[w][req[w].ident] = "already_there"
      => req[w].ident \in acct[w].allow_login_by

=============================================================================

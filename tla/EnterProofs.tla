----------------------------- MODULE EnterProofs -----------------------------
(***************************************************************************)
(* Theorems about Enter, for any attributes, users and numbers of requests.*)
(***************************************************************************)
EXTENDS Enter, TLAPS

-----------------------------------------------------------------------------
(* Type correctness.                                                       *)

\* What comes with a request are attributes.
LEMMA GivenType == \A r \in Request \cup {NoReq} : Given(r) \in SUBSET Attrs
  BY AttrsAssumption DEF Request, NoReq, Given

\* AttrState::new yields the state of an attribute.
LEMMA NewAttrStateType ==
  \A a \in Attrs, u \in Users : NewAttrState(a, u) \in AttrState
  BY DEF NewAttrState, AttrState

\* The initial values are typed.
LEMMA NothingType ==
  /\ Nothing \in [Attrs -> AttrState \cup {None}]
  /\ Nothing \in [Attrs -> Statuses \cup {None}]
  /\ NoUser \in UserState
  BY DEF Nothing, NoUser, UserState

\* What a put does to the type of the objects.
LEMMA PutAttrType ==
  ASSUME TypeOK, NEW a \in Attrs, NEW expected, NEW state \in AttrState, NEW outcome,
         PutAttr(a, expected, state, outcome)
  PROVE  attrs' \in [Attrs -> AttrState \cup {None}] /\ faults' \in Nat
  BY DEF TypeOK, PutAttr, PutOutcome

\* The same for the put of an account.
LEMMA PutUserType ==
  ASSUME TypeOK, NEW u \in Users, NEW expected, NEW state \in UserState, NEW outcome,
         PutUser(u, expected, state, outcome)
  PROVE  users' \in [Users -> UserState \cup {None}] /\ faults' \in Nat
  BY DEF TypeOK, PutUser, PutOutcome

\* What a worker has after its request ended.
LEMMA FinishType ==
  ASSUME TypeOK, NEW w \in Workers, NEW kind \in Replies, NEW user \in Users \cup {None},
         NEW final \in [Attrs -> Statuses \cup {None}], Finish(w, kind, user, final),
         attrs' \in [Attrs -> AttrState \cup {None}],
         users' \in [Users -> UserState \cup {None}],
         tokens' \in SUBSET Users, requests' = requests, faults' \in Nat
  PROVE  TypeOK'
<1>1. req[w].ident \in Attrs \cup {None}
  BY AttrsAssumption DEF TypeOK, Request, NoReq
<1>2. reply' \in [Workers -> Reply]
  BY <1>1 DEF TypeOK, Finish, Reply
<1>3. /\ pc' \in [Workers -> Phases]
      /\ req' \in [Workers -> Request \cup {NoReq}]
      /\ uid' \in [Workers -> Users \cup {None}]
      /\ acct' \in [Workers -> UserState]
      /\ todo' \in [Workers -> SUBSET Attrs]
  BY NothingType DEF TypeOK, Finish, Phases
<1>4. got' \in [Workers -> [Attrs -> AttrState \cup {None}]]
  BY NothingType DEF TypeOK, Finish
<1>5. status' \in [Workers -> [Attrs -> Statuses \cup {None}]]
  BY NothingType DEF TypeOK, Finish
<1> QED
  BY <1>2, <1>3, <1>4, <1>5 DEF TypeOK

\* A request that ends without a user leaves the types intact.
LEMMA EndType ==
  ASSUME TypeOK, NEW w \in Workers, NEW kind \in Replies, End(w, kind),
         attrs' \in [Attrs -> AttrState \cup {None}],
         users' \in [Users -> UserState \cup {None}],
         requests' = requests, faults' \in Nat
  PROVE  TypeOK'
  BY FinishType, NothingType DEF End, TypeOK

\* So does a request that arrives.
LEMMA BeginType ==
  ASSUME TypeOK, NEW w \in Workers, NEW r \in Request, Begin(w, r)
  PROVE  TypeOK'
<1> Given(r) \in SUBSET Attrs /\ r.token \in Users \cup {None}
  BY GivenType DEF Request
<1> QED
  BY DEF TypeOK, Begin, Phases, store

\* The request of a worker fits the phase it is in.
RequestOK(w) ==
  /\ pc[w] # "idle" => req[w] \in Request
  /\ uid[w] = None => req[w].token = None
  /\ pc[w] \in {"load", "claim", "link"} => uid[w] # None
  /\ pc[w] \in {"identify", "claim"} => req[w].token = None

Typed == TypeOK /\ \A w \in Workers : RequestOK(w)

\* Requests that register or log in by an attribute have one.
LEMMA IdentType ==
  ASSUME Typed, NEW w \in Workers, pc[w] \in {"identify", "claim"}
  PROVE  req[w].ident \in Attrs /\ req[w].ident \in Identifying
  BY AttrsAssumption DEF Typed, RequestOK, Request

\* The user of a request that is past looking for one.
LEMMA UidType ==
  ASSUME Typed, NEW w \in Workers, pc[w] \in {"load", "claim", "link"}
  PROVE  uid[w] \in Users
  BY DEF Typed, RequestOK, TypeOK

\* What is retrieved is the state of an attribute, with its status.
LEMMA RetrievedType ==
  ASSUME TypeOK, NEW w \in Workers, NEW a \in Attrs, Retrieved(w, a)
  PROVE  /\ got' \in [Workers -> [Attrs -> AttrState \cup {None}]]
         /\ status' \in [Workers -> [Attrs -> Statuses \cup {None}]]
  BY DEF TypeOK, Retrieved, Statuses

\* Updates of what a worker knows about one attribute keep the types.
LEMMA GotUpdate ==
  ASSUME TypeOK, NEW w \in Workers, NEW a \in Attrs, NEW state \in AttrState
  PROVE  [got EXCEPT ![w][a] = state] \in [Workers -> [Attrs -> AttrState \cup {None}]]
  BY DEF TypeOK

\* The same for the status reported about one.
LEMMA StatusUpdate ==
  ASSUME TypeOK, NEW w \in Workers, NEW a \in Attrs, NEW value \in Statuses
  PROVE  [status EXCEPT ![w][a] = value] \in [Workers -> [Attrs -> Statuses \cup {None}]]
  BY DEF TypeOK

\* Looking up the identifying attribute keeps the types.
LEMMA IdentifyType ==
  ASSUME Typed, NEW w \in Workers, Identify(w)
  PROVE  TypeOK'
<1> DEFINE a == req[w].ident
<1>1. TypeOK /\ a \in Attrs
  BY IdentType DEF Identify, Typed
<1>2. CASE End(w, "turned_down")
  BY <1>1, <1>2, EndType DEF Identify, TypeOK, store, Replies
<1>3. CASE attrs[a] # None /\ attrs[a].may_identify_user # None /\ Retrieved(w, a)
  <2>1. attrs[a].may_identify_user \in Users
    BY <1>1, <1>3 DEF TypeOK, AttrState
  <2>2. /\ got' \in [Workers -> [Attrs -> AttrState \cup {None}]]
        /\ status' \in [Workers -> [Attrs -> Statuses \cup {None}]]
    BY <1>1, <1>3, RetrievedType
  <2>3. /\ UNCHANGED <<store, requests, faults, tokens, acct>> /\ Go(w, "load")
        /\ uid' = [uid EXCEPT ![w] = attrs[a].may_identify_user]
        /\ todo' = [todo EXCEPT ![w] = @ \ {a}]
    BY <1>3 DEF Identify, End, Finish, Go, TypeOK
  <2> HIDE DEF a
  <2> QED
    BY <1>1, <2>1, <2>2, <2>3 DEF TypeOK, Go, Phases, store
<1>4. CASE /\ Go(w, "retrieve")
           /\ UNCHANGED <<tokens, uid, acct, todo, got, status>>
  BY <1>1, <1>4 DEF Identify, TypeOK, Go, Phases, store
<1> QED
  BY <1>2, <1>3, <1>4 DEF Identify

\* Retrieving the account keeps the types.
LEMMA LoadType ==
  ASSUME Typed, NEW w \in Workers, Load(w)
  PROVE  TypeOK'
<1>1. uid[w] \in Users /\ TypeOK
  BY UidType DEF Load, Typed
<1>2. CASE End(w, "turned_down")
  BY <1>1, <1>2, EndType DEF Load, TypeOK, store, Replies
<1>3. CASE users[uid[w]] # None
  BY <1>1, <1>3 DEF Load, TypeOK, Go, Phases, store
<1> QED
  BY <1>2, <1>3 DEF Load

\* Retrieving an attribute keeps the types.
LEMMA RetrieveType ==
  ASSUME TypeOK, NEW w \in Workers, NEW a \in Attrs, Retrieve(w, a)
  PROVE  TypeOK'
<1>1. /\ got' \in [Workers -> [Attrs -> AttrState \cup {None}]]
      /\ status' \in [Workers -> [Attrs -> Statuses \cup {None}]]
  BY RetrievedType DEF Retrieve
<1> QED
  BY <1>1 DEF Retrieve, TypeOK, store

\* Creating an account keeps the types, whatever the store answers.
LEMMA CreateUserType ==
  ASSUME TypeOK, NEW w \in Workers, NEW u \in Users, CreateUser(w, u)
  PROVE  TypeOK'
<1> DEFINE new == [NoUser EXCEPT !.allow_login_by = Given(req[w]) \cap Identifying]
<1>1. new \in UserState
  BY AttrsAssumption DEF NoUser, UserState
<1>2. PICK outcome \in Outcomes :
        /\ PutUser(u, None, new, outcome)
        /\ IF Creates(outcome)
           THEN /\ uid' = [uid EXCEPT ![w] = u] /\ acct' = [acct EXCEPT ![w] = new]
                /\ Go(w, "claim")
                /\ UNCHANGED <<tokens, todo, got, status>>
           ELSE End(w, "turned_down")
  BY DEF CreateUser
<1>3. attrs' = attrs /\ requests' = requests
  BY DEF CreateUser
<1> HIDE DEF new
<1>4. users' \in [Users -> UserState \cup {None}] /\ faults' \in Nat
  BY <1>1, <1>2, PutUserType
<1>5. CASE Creates(outcome)
  BY ZenonT(60), <1>1, <1>2, <1>3, <1>4, <1>5 DEF TypeOK, Go, Phases
<1>6. CASE ~Creates(outcome)
  BY <1>2, <1>3, <1>4, <1>6, EndType DEF TypeOK, Replies
<1> QED
  BY <1>5, <1>6

\* Claiming the identifying attribute keeps the types.
LEMMA ClaimType ==
  ASSUME Typed, NEW w \in Workers, Claim(w)
  PROVE  TypeOK'
<1> DEFINE a == req[w].ident
           new == NewAttrState(a, uid[w])
<1>1. TypeOK /\ a \in Attrs /\ uid[w] \in Users
  BY IdentType, UidType DEF Claim, Typed
<1>2. new \in AttrState
  BY <1>1, NewAttrStateType
<1>3. PICK outcome \in Outcomes :
        /\ PutAttr(a, None, new, outcome)
        /\ IF Claims(outcome)
           THEN /\ got' = [got EXCEPT ![w][a] = new]
                /\ status' = [status EXCEPT ![w][a] = "added"]
                /\ Go(w, "link")
                /\ UNCHANGED <<tokens, uid, acct, todo>>
           ELSE End(w, "turned_down")
  BY DEF Claim
<1>4. users' = users /\ requests' = requests
  BY DEF Claim
<1> HIDE DEF a, new
<1>5. attrs' \in [Attrs -> AttrState \cup {None}] /\ faults' \in Nat
  BY <1>1, <1>2, <1>3, PutAttrType
<1>6. CASE Claims(outcome)
  <2>1. got' \in [Workers -> [Attrs -> AttrState \cup {None}]]
    BY <1>1, <1>2, <1>3, <1>6, GotUpdate
  <2>2. status' \in [Workers -> [Attrs -> Statuses \cup {None}]]
    BY <1>1, <1>3, <1>6, StatusUpdate DEF Statuses
  <2> QED
    BY <1>1, <1>3, <1>4, <1>5, <1>6, <2>1, <2>2 DEF TypeOK, Go, Phases
<1>7. CASE ~Claims(outcome)
  BY <1>1, <1>3, <1>4, <1>5, <1>7, EndType DEF TypeOK, Replies
<1> QED
  BY <1>6, <1>7

\* Adding an attribute keeps the types.
LEMMA AddAttrType ==
  ASSUME Typed, NEW w \in Workers, NEW a \in Attrs, AddAttr(w, a)
  PROVE  TypeOK'
<1> DEFINE new == NewAttrState(a, uid[w])
<1>1. TypeOK /\ uid[w] \in Users
  BY UidType DEF AddAttr, Typed
<1>2. new \in AttrState
  BY <1>1, NewAttrStateType
<1>3. PICK outcome \in Outcomes :
        /\ PutAttr(a, None, new, outcome)
        /\ IF outcome = "stored"
           THEN /\ got' = [got EXCEPT ![w][a] = new]
                /\ status' = [status EXCEPT ![w][a] = "added"]
           ELSE /\ status' = [status EXCEPT ![w][a] = "please_try_again"]
                /\ UNCHANGED got
  BY DEF AddAttr
<1> HIDE DEF new
<1>4. attrs' \in [Attrs -> AttrState \cup {None}] /\ faults' \in Nat
  BY <1>1, <1>2, <1>3, PutAttrType
<1>5. got' \in [Workers -> [Attrs -> AttrState \cup {None}]]
  <2>1. [got EXCEPT ![w][a] = new] \in [Workers -> [Attrs -> AttrState \cup {None}]]
    BY <1>1, <1>2, GotUpdate
  <2> QED
    BY <1>1, <1>3, <2>1 DEF TypeOK
<1>6. status' \in [Workers -> [Attrs -> Statuses \cup {None}]]
  <2>1. \A value \in {"added", "please_try_again"} :
          [status EXCEPT ![w][a] = value] \in [Workers -> [Attrs -> Statuses \cup {None}]]
    BY <1>1, StatusUpdate DEF Statuses
  <2> QED
    BY <1>3, <2>1
<1> QED
  BY <1>1, <1>4, <1>5, <1>6 DEF AddAttr, TypeOK

\* Making an attribute ban the user keeps the types.
LEMMA BanAttrType ==
  ASSUME Typed, NEW w \in Workers, NEW a \in Attrs, BanAttr(w, a)
  PROVE  TypeOK'
<1> DEFINE new == [got[w][a] EXCEPT !.bans_users = @ \cup {uid[w]}]
<1>1. TypeOK /\ uid[w] \in Users /\ got[w][a] \in AttrState
  BY UidType DEF BanAttr, ToBan, Typed, TypeOK
<1>2. new \in AttrState
  BY <1>1 DEF AttrState
<1>3. PICK outcome \in Outcomes :
        /\ PutAttr(a, got[w][a], new, outcome)
        /\ IF outcome = "stored"
           THEN /\ got' = [got EXCEPT ![w][a] = new]
                /\ UNCHANGED <<tokens, pc, req, uid, acct, todo, status, reply>>
           ELSE End(w, "panic_status")
  BY DEF BanAttr
<1>4. users' = users /\ requests' = requests
  BY DEF BanAttr
<1> HIDE DEF new
<1>5. attrs' \in [Attrs -> AttrState \cup {None}] /\ faults' \in Nat
  BY <1>1, <1>2, <1>3, PutAttrType
<1>6. CASE outcome = "stored"
  <2>1. got' \in [Workers -> [Attrs -> AttrState \cup {None}]]
    BY <1>1, <1>2, <1>3, <1>6, GotUpdate
  <2> QED
    BY <1>1, <1>3, <1>4, <1>5, <1>6, <2>1 DEF TypeOK
<1>7. CASE outcome # "stored"
  BY <1>1, <1>3, <1>4, <1>5, <1>7, EndType DEF TypeOK, Replies
<1> QED
  BY <1>6, <1>7

\* The account as the request would have it is an account.
LEMMA NewAcctType ==
  ASSUME TypeOK, NEW w \in Workers
  PROVE  NewAcct(w) \in UserState
  BY DEF TypeOK, NewAcct, UserState, Identifies, Bans, Linked

\* What is reported are statuses.
LEMMA ReportType ==
  ASSUME TypeOK, NEW w \in Workers, NEW outcome
  PROVE  Report(w, outcome) \in [Attrs -> Statuses \cup {None}]
  BY DEF TypeOK, Report, Statuses

\* Completing a request keeps the types.
LEMMA CompleteType ==
  ASSUME Typed, NEW w \in Workers, Complete(w)
  PROVE  TypeOK'
<1>1. TypeOK /\ uid[w] \in Users /\ NewAcct(w) \in UserState
  BY UidType, NewAcctType DEF Complete, Typed
<1>2. attrs' \in [Attrs -> AttrState \cup {None}] /\ tokens' \in SUBSET Users
      /\ requests' = requests
  BY <1>1 DEF Complete, IssueAuthToken, TypeOK
<1>3. CASE AddedAttrs(w) = {}
  <2>1. status[w] \in [Attrs -> Statuses \cup {None}] /\ "entered" \in Replies
    BY <1>1 DEF TypeOK, Replies
  <2>2. Finish(w, "entered", uid[w], status[w]) /\ UNCHANGED <<users, faults>>
    BY <1>3 DEF Complete
  <2> QED
    BY <1>1, <1>2, <2>1, <2>2, FinishType DEF TypeOK
<1>4. CASE AddedAttrs(w) # {}
  <2>1. PICK outcome \in Outcomes :
          /\ PutUser(uid[w], acct[w], NewAcct(w), outcome)
          /\ Finish(w, "entered", uid[w], Report(w, outcome))
    BY <1>4 DEF Complete
  <2>2. users' \in [Users -> UserState \cup {None}] /\ faults' \in Nat
    BY <1>1, <2>1, PutUserType
  <2>3. Report(w, outcome) \in [Attrs -> Statuses \cup {None}] /\ "entered" \in Replies
    BY <1>1, ReportType DEF Replies
  <2> QED
    BY <1>1, <1>2, <2>1, <2>2, <2>3, FinishType
<1> QED
  BY <1>3, <1>4

\* A request that moves from phase to phase stays fit.
LEMMA RequestStep ==
  ASSUME Typed, NEW w \in Workers,
         \/ \E r \in Request : Begin(w, r)
         \/ Identify(w) \/ Load(w)
         \/ \E a \in Attrs : Retrieve(w, a) \/ AddAttr(w, a) \/ BanAttr(w, a)
         \/ PrecheckFails(w) \/ \E u \in Users : CreateUser(w, u)
         \/ Claim(w) \/ Proceed(w)
         \/ Complete(w) \/ NotMinePanics(w) \/ Abort(w)
  PROVE  \A v \in Workers : RequestOK(v)'
<1>0. TypeOK /\ \A v \in Workers : RequestOK(v)
  BY DEF Typed
<1>1. ASSUME NEW kind, NEW user, NEW final, Finish(w, kind, user, final)
      PROVE  \A v \in Workers : RequestOK(v)'
  BY <1>0, <1>1 DEF Finish, TypeOK, RequestOK, NoReq
<1>2. ASSUME NEW r \in Request, Begin(w, r) PROVE \A v \in Workers : RequestOK(v)'
  BY <1>0, <1>2 DEF Begin, TypeOK, RequestOK
<1>3. ASSUME Identify(w) PROVE \A v \in Workers : RequestOK(v)'
  <2>1. CASE End(w, "turned_down")
    BY <1>1, <2>1 DEF End
  <2>2. CASE Go(w, "retrieve") /\ UNCHANGED uid
    BY <1>0, <1>3, <2>2 DEF Go, TypeOK, RequestOK, Identify
  <2>3. CASE /\ Go(w, "load") /\ attrs[req[w].ident].may_identify_user # None
             /\ uid' = [uid EXCEPT ![w] = attrs[req[w].ident].may_identify_user]
    BY <1>0, <1>3, <2>3 DEF Go, TypeOK, RequestOK, Identify
  <2> QED
    BY <1>3, <2>1, <2>2, <2>3 DEF Identify
<1>4. ASSUME Load(w) PROVE \A v \in Workers : RequestOK(v)'
  BY <1>0, <1>1, <1>4 DEF Load, End, Go, TypeOK, RequestOK
<1>5. ASSUME NEW a \in Attrs, Retrieve(w, a) \/ AddAttr(w, a)
      PROVE  \A v \in Workers : RequestOK(v)'
  BY <1>0, <1>5 DEF Retrieve, AddAttr, RequestOK
<1>6. ASSUME NEW a \in Attrs, BanAttr(w, a) PROVE \A v \in Workers : RequestOK(v)'
  <2>1. End(w, "panic_status") \/ UNCHANGED <<pc, req, uid>>
    BY <1>6 DEF BanAttr
  <2> QED
    BY <1>0, <1>1, <2>1 DEF End, RequestOK
<1>7. ASSUME NEW u \in Users, CreateUser(w, u) PROVE \A v \in Workers : RequestOK(v)'
  <2>1. \/ End(w, "turned_down")
        \/ uid' = [uid EXCEPT ![w] = u] /\ Go(w, "claim")
    BY <1>7 DEF CreateUser
  <2> QED
    BY <1>0, <1>1, <1>7, <2>1, NoneAssumption DEF End, Go, TypeOK, RequestOK, CreateUser, Registers
<1>8. ASSUME Claim(w) PROVE \A v \in Workers : RequestOK(v)'
  <2>1. PICK outcome \in Outcomes :
          IF Claims(outcome)
          THEN Go(w, "link") /\ UNCHANGED <<tokens, uid, acct, todo>>
          ELSE End(w, "turned_down")
    BY <1>8 DEF Claim
  <2> QED
    BY <1>0, <1>1, <1>8, <2>1 DEF End, Go, TypeOK, RequestOK, Claim
<1>9. ASSUME Proceed(w) PROVE \A v \in Workers : RequestOK(v)'
  BY <1>0, <1>9 DEF Proceed, Go, TypeOK, RequestOK, Registers
<1>10. ASSUME PrecheckFails(w) \/ NotMinePanics(w) \/ Abort(w)
       PROVE  \A v \in Workers : RequestOK(v)'
  BY <1>1, <1>10 DEF PrecheckFails, NotMinePanics, Abort, End
<1>11. ASSUME Complete(w) PROVE \A v \in Workers : RequestOK(v)'
  BY <1>1, <1>11 DEF Complete
<1> QED
  BY <1>2, <1>3, <1>4, <1>5, <1>6, <1>7, <1>8, <1>9, <1>10, <1>11

\* Every step keeps the types and the form of the requests ...
LEMMA TypedStep == Typed /\ [Next]_vars => Typed'
<1> SUFFICES ASSUME Typed, [Next]_vars PROVE Typed'
  OBVIOUS
<1>1. TypeOK
  BY DEF Typed
<1>2. ASSUME NEW w \in Workers, PrecheckFails(w) \/ NotMinePanics(w) \/ Abort(w)
      PROVE  TypeOK'
  <2> PICK kind \in Replies : End(w, kind) /\ UNCHANGED <<store, requests, faults>>
    BY <1>2 DEF PrecheckFails, NotMinePanics, Abort, Replies
  <2> QED
    BY <1>1, EndType DEF TypeOK, store
<1>3. ASSUME NEW w \in Workers, Proceed(w) PROVE TypeOK'
  BY <1>1, <1>3 DEF Proceed, Go, TypeOK, store, Phases
<1>4. CASE UNCHANGED vars
  BY <1>1, <1>4 DEF Typed, TypeOK, RequestOK, vars, store, local
<1>5. CASE Next
  <2>1. TypeOK'
    BY <1>1, <1>2, <1>3, <1>5, BeginType, IdentifyType, LoadType, RetrieveType,
       CreateUserType, ClaimType, AddAttrType, BanAttrType, CompleteType DEF Next
  <2>2. \A v \in Workers : RequestOK(v)'
    BY <1>5, RequestStep DEF Next
  <2> QED
    BY <2>1, <2>2 DEF Typed
<1> QED
  BY <1>4, <1>5

\* ... which hold initially ...
LEMMA TypedInit == Init => Typed
  BY NothingType DEF Init, Typed, TypeOK, RequestOK, NoReq, Phases, Reply, Replies

\* ... and therefore always.
LEMMA AlwaysTyped == Spec => []Typed
  BY TypedInit, TypedStep, PTL DEF Spec

\* Every variable keeps its type, whatever the requests and their order.
THEOREM TypeCorrect == Spec => []TypeOK
<1>1. Typed => TypeOK
  BY DEF Typed
<1> QED
  BY <1>1, AlwaysTyped, PTL

-----------------------------------------------------------------------------
(* The inductive invariant.  Objects only grow, so that what a request has *)
(* read of them, however long ago, it can still rely on.                   *)

AttrsGrow ==
  \A a \in Attrs : Present(a) =>
    /\ attrs'[a] # None
    /\ attrs'[a].may_identify_user = attrs[a].may_identify_user
    /\ attrs[a].bans_users \subseteq attrs'[a].bans_users

UsersGrow ==
  \A u \in Users : users[u] # None =>
    /\ users'[u] # None
    /\ users[u].allow_login_by \subseteq users'[u].allow_login_by
    /\ users[u].could_be_banned_by \subseteq users'[u].could_be_banned_by

\* An attribute identifies, or bans, somebody when it is of the right kind.
Shaped(a, state) ==
  /\ a \in Identifying <=> state.may_identify_user # None
  /\ a \notin Bannable => state.bans_users = {}

Shape == \A a \in Attrs : Present(a) => Shaped(a, attrs[a])

TokenHoldersExist == \A u \in tokens : users[u] # None

Objects == OwnersExist /\ BansKnown /\ Shape

\* What a request holds is no more than what the store has.
Knows(w) ==
  /\ pc[w] \in {"idle", "identify"} => uid[w] = None
  /\ uid[w] = None => acct[w] = NoUser
  /\ uid[w] # None =>
       /\ users[uid[w]] # None
       /\ acct[w].allow_login_by \subseteq users[uid[w]].allow_login_by
       /\ acct[w].could_be_banned_by \subseteq users[uid[w]].could_be_banned_by
  /\ \A a \in Attrs :
       /\ got[w][a] # None =>
            /\ Present(a)
            /\ got[w][a].may_identify_user = attrs[a].may_identify_user
            /\ got[w][a].bans_users \subseteq attrs[a].bans_users
       /\ status[w][a] \in {"added", "already_there"} => got[w][a] # None

\* The request entered, or is entering, the account its attribute identifies.
Owns(w) ==
  uid[w] # None /\ req[w].ident # None /\ pc[w] # "claim" =>
    /\ req[w].ident \in Attrs /\ Present(req[w].ident)
    /\ attrs[req[w].ident].may_identify_user = uid[w]

\* An attribute is linked with a user in the attribute and in the account.
LinkedInStore(u, a) ==
  /\ a \in Identifying => /\ a \in users[u].allow_login_by
                          /\ attrs[a].may_identify_user = u
  /\ a \in Bannable => /\ a \in users[u].could_be_banned_by
                       /\ u \in attrs[a].bans_users

Replied(w) ==
  reply[w].kind = "entered" =>
    /\ reply[w].user \in Users /\ users[reply[w].user] # None
    /\ reply[w].ident # None =>
         /\ reply[w].ident \in Attrs /\ Present(reply[w].ident)
         /\ attrs[reply[w].ident].may_identify_user = reply[w].user
    /\ \A a \in Attrs : reply[w].status[a] \in {"added", "already_there"} =>
         Present(a) /\ LinkedInStore(reply[w].user, a)

Safe ==
  /\ Objects /\ TokenHoldersBannable /\ TokenHoldersExist
  /\ \A w \in Workers : Knows(w) /\ Owns(w) /\ Replied(w)

-----------------------------------------------------------------------------
(* Steps by what they do to the invariant.                                 *)

\* Only the request at w is at work.
Others(w) ==
  \A v \in Workers \ {w} :
    /\ pc'[v] = pc[v] /\ req'[v] = req[v] /\ uid'[v] = uid[v] /\ acct'[v] = acct[v]
    /\ got'[v] = got[v] /\ status'[v] = status[v] /\ reply'[v] = reply[v]

\* What the other requests hold is not spoilt.
LEMMA GrowthKeeps ==
  ASSUME Typed, Safe, AttrsGrow, UsersGrow, NEW v \in Workers
  PROVE  /\ /\ pc'[v] = pc[v] /\ req'[v] = req[v] /\ uid'[v] = uid[v]
            /\ acct'[v] = acct[v] /\ got'[v] = got[v] /\ status'[v] = status[v]
            => Knows(v)' /\ Owns(v)'
         /\ reply'[v] = reply[v] => Replied(v)'
<1>1. Knows(v) /\ Owns(v) /\ Replied(v)
  BY DEF Safe
<1>2. uid[v] \in Users \cup {None}
  BY DEF Typed, TypeOK
<1>3. ASSUME /\ pc'[v] = pc[v] /\ req'[v] = req[v] /\ uid'[v] = uid[v]
             /\ acct'[v] = acct[v] /\ got'[v] = got[v] /\ status'[v] = status[v]
      PROVE  Knows(v)' /\ Owns(v)'
  <2>1. Knows(v)'
    BY <1>1, <1>2, <1>3 DEF Knows, AttrsGrow, UsersGrow, Present
  <2>2. Owns(v)'
    BY <1>1, <1>3 DEF Owns, AttrsGrow, Present
  <2> QED
    BY <2>1, <2>2
<1>4. ASSUME reply'[v] = reply[v] PROVE Replied(v)'
  <2> SUFFICES ASSUME reply[v].kind = "entered" PROVE Replied(v)'
    BY <1>4 DEF Replied
  <2>1. reply[v].user \in Users /\ users[reply[v].user] # None
    BY <1>1 DEF Replied
  <2>2. users'[reply[v].user] # None
    BY <2>1 DEF UsersGrow
  <2>3. reply[v].ident # None =>
          /\ reply[v].ident \in Attrs /\ Present(reply[v].ident)'
          /\ attrs'[reply[v].ident].may_identify_user = reply[v].user
    BY <1>1, <1>4 DEF Replied, AttrsGrow, Present
  <2>4. ASSUME NEW a \in Attrs, reply[v].status[a] \in {"added", "already_there"}
        PROVE  Present(a)' /\ LinkedInStore(reply[v].user, a)'
    BY <1>1, <1>4, <2>1, <2>4 DEF Replied, LinkedInStore, AttrsGrow, UsersGrow, Present
  <2> QED
    BY <1>4, <2>1, <2>2, <2>3, <2>4 DEF Replied
<1> QED
  BY <1>3, <1>4

\* It is enough to look at the objects and at the worker that steps.
LEMMA StepKeeps ==
  ASSUME Typed, Safe, NEW w \in Workers, AttrsGrow, UsersGrow, Others(w),
         Objects', TokenHoldersBannable', TokenHoldersExist',
         Knows(w)', Owns(w)', Replied(w)'
  PROVE  Safe' /\ AttrsGrow /\ UsersGrow
<1>1. ASSUME NEW v \in Workers \ {w} PROVE Knows(v)' /\ Owns(v)' /\ Replied(v)'
  BY GrowthKeeps DEF Others
<1> QED
  BY <1>1 DEF Safe

\* A step that leaves the store alone.
LEMMA UnchangedStore ==
  ASSUME Safe, UNCHANGED <<attrs, users>>
  PROVE  /\ AttrsGrow /\ UsersGrow /\ Objects'
         /\ tokens' = tokens => TokenHoldersBannable' /\ TokenHoldersExist'
  BY DEF Safe, AttrsGrow, UsersGrow, Objects, OwnersExist, BansKnown, Shape, Present,
         TokenHoldersBannable, TokenHoldersExist

\* Tokens stay good as the store grows.
LEMMA TokensKeep ==
  ASSUME Typed, Safe, AttrsGrow, UsersGrow, UNCHANGED tokens
  PROVE  TokenHoldersBannable' /\ TokenHoldersExist'
<1>1. TokenHoldersBannable'
  BY AttrsAssumption DEF Safe, TokenHoldersBannable, AttrsGrow, Present
<1>2. TokenHoldersExist'
  BY DEF Typed, TypeOK, Safe, TokenHoldersExist, UsersGrow
<1> QED
  BY <1>1, <1>2

\* The request is over without having entered.
LEMMA EndKeeps ==
  ASSUME Typed, NEW w \in Workers, NEW kind, kind # "entered", End(w, kind)
  PROVE  Others(w) /\ Knows(w)' /\ Owns(w)' /\ Replied(w)'
<1>1. TypeOK
  BY DEF Typed
<1>2. Others(w)
  BY <1>1 DEF End, Finish, TypeOK, Others
<1>3. /\ pc'[w] = "idle" /\ req'[w] = NoReq /\ uid'[w] = None /\ acct'[w] = NoUser
      /\ got'[w] = Nothing /\ status'[w] = Nothing /\ reply'[w].kind = kind
  BY <1>1 DEF End, Finish, TypeOK
<1>4. Replied(w)' /\ Owns(w)'
  BY <1>3 DEF Owns, Replied
<1>5. \A a \in Attrs : Nothing[a] \notin Statuses
  BY StatusesAssumption DEF Nothing
<1>6. \A a \in Attrs : Nothing[a] = None
  BY DEF Nothing
<1>7. Knows(w)'
  BY <1>3, <1>5, <1>6 DEF Knows, Statuses
<1> QED
  BY <1>2, <1>4, <1>7

\* A put of an attribute that is new, or that replaces what was expected by
\* more of the same, leaves the objects in order.
LEMMA PutAttrKeeps ==
  ASSUME Typed, Safe, NEW a \in Attrs, NEW expected, NEW state \in AttrState, NEW outcome,
         PutAttr(a, expected, state, outcome), UNCHANGED users,
         attrs[a] = expected =>
           /\ Shaped(a, state)
           /\ state.may_identify_user # None => users[state.may_identify_user] # None
           /\ expected # None =>
                /\ state.may_identify_user = expected.may_identify_user
                /\ expected.bans_users \subseteq state.bans_users
  PROVE  /\ AttrsGrow /\ UsersGrow /\ Objects'
         /\ outcome = "stored" => attrs'[a] = state
<1>1. attrs \in [Attrs -> AttrState \cup {None}] /\ None \notin AttrState
  BY StatesAssumption DEF Typed, TypeOK
<1>2. OwnersExist /\ BansKnown /\ Shape
  BY DEF Safe, Objects
<1>3. CASE ~Written(outcome)
  <2>1. attrs' = attrs /\ outcome # "stored"
    BY <1>3 DEF PutAttr, Written
  <2> QED
    BY <2>1, UnchangedStore
<1>4. CASE Written(outcome)
  <2>1. attrs' = [attrs EXCEPT ![a] = state] /\ attrs[a] = expected
    BY <1>4 DEF PutAttr, PutOutcome, Written, Matches
  <2>2. attrs'[a] = state /\ \A b \in Attrs \ {a} : attrs'[b] = attrs[b]
    BY <1>1, <2>1
  <2>3. AttrsGrow
    BY <1>1, <2>1, <2>2 DEF AttrsGrow, Present
  <2>4. OwnersExist'
    BY <1>2, <2>1, <2>2 DEF OwnersExist, Present
  <2>5. Shape'
    BY <1>2, <2>1, <2>2 DEF Shape, Shaped, Present
  <2>6. \A u \in Users : users[u] # None => users[u].could_be_banned_by \subseteq Attrs
    BY DEF Typed, TypeOK, UserState
  <2>7. BansKnown'
    BY <1>2, <2>3, <2>6 DEF BansKnown, AttrsGrow, Present
  <2> QED
    BY <2>2, <2>3, <2>4, <2>5, <2>7 DEF Objects, UsersGrow
<1> QED
  BY <1>3, <1>4

\* A put of an account that is new, or that replaces what was expected by more,
\* leaves the objects in order.
LEMMA PutUserKeeps ==
  ASSUME Typed, Safe, NEW u \in Users, NEW expected, NEW state \in UserState, NEW outcome,
         PutUser(u, expected, state, outcome), UNCHANGED attrs,
         \A a \in state.could_be_banned_by : Present(a) /\ u \in attrs[a].bans_users,
         expected # None =>
           /\ expected.allow_login_by \subseteq state.allow_login_by
           /\ expected.could_be_banned_by \subseteq state.could_be_banned_by
  PROVE  /\ AttrsGrow /\ UsersGrow /\ Objects'
         /\ outcome = "stored" => users'[u] = state
<1>1. users \in [Users -> UserState \cup {None}] /\ None \notin UserState
      /\ attrs \in [Attrs -> AttrState \cup {None}]
  BY StatesAssumption DEF Typed, TypeOK
<1>2. OwnersExist /\ BansKnown /\ Shape
  BY DEF Safe, Objects
<1>3. CASE ~Written(outcome)
  <2>1. users' = users /\ outcome # "stored"
    BY <1>3 DEF PutUser, Written
  <2> QED
    BY <2>1, UnchangedStore
<1>4. CASE Written(outcome)
  <2>1. users' = [users EXCEPT ![u] = state] /\ users[u] = expected
    BY <1>4 DEF PutUser, PutOutcome, Written, Matches
  <2>2. users'[u] = state /\ \A v \in Users \ {u} : users'[v] = users[v]
    BY <1>1, <2>1
  <2>3. UsersGrow
    BY <1>1, <2>1, <2>2 DEF UsersGrow
  <2>4. AttrsGrow /\ Shape'
    BY <1>2 DEF AttrsGrow, Shape, Present
  <2>5. OwnersExist'
    <3> SUFFICES ASSUME NEW a \in Attrs, Present(a), attrs[a].may_identify_user # None
                 PROVE  users'[attrs[a].may_identify_user] # None
      BY DEF OwnersExist, Present
    <3>1. attrs[a].may_identify_user \in Users
      BY <1>1 DEF Present, AttrState
    <3> QED
      BY <1>2, <2>3, <3>1 DEF OwnersExist, UsersGrow
  <2>6. BansKnown'
    BY <1>2, <2>2 DEF BansKnown, Present
  <2> QED
    BY <2>2, <2>3, <2>4, <2>5, <2>6 DEF Objects
<1> QED
  BY <1>3, <1>4

\* A request that is dropped, or turned down, with the store as it was or grown.
LEMMA EndStep ==
  ASSUME Typed, Safe, NEW w \in Workers, NEW kind, kind # "entered", End(w, kind),
         AttrsGrow, UsersGrow, Objects'
  PROVE  Safe' /\ AttrsGrow /\ UsersGrow
<1>1. Others(w) /\ Knows(w)' /\ Owns(w)' /\ Replied(w)'
  BY EndKeeps
<1>2. TokenHoldersBannable' /\ TokenHoldersExist'
  BY TokensKeep DEF End
<1> QED
  BY <1>1, <1>2, StepKeeps

\* A request that goes on, with no token issued and no reply given.
LEMMA GoStep ==
  ASSUME Typed, Safe, NEW w \in Workers, AttrsGrow, UsersGrow, Objects', Others(w),
         UNCHANGED <<tokens, reply>>, Knows(w)', Owns(w)'
  PROVE  Safe' /\ AttrsGrow /\ UsersGrow
<1>1. TokenHoldersBannable' /\ TokenHoldersExist'
  BY TokensKeep
<1>2. Replied(w)'
  BY GrowthKeeps
<1> QED
  BY <1>1, <1>2, StepKeeps

-----------------------------------------------------------------------------
(* The actions.                                                            *)

\* What the invariant says of one worker, and of the objects.
LEMMA SafeParts ==
  ASSUME Typed, Safe, NEW w \in Workers
  PROVE  /\ TypeOK /\ Knows(w) /\ Owns(w) /\ Objects
         /\ None \notin AttrState /\ None \notin UserState
         /\ \A a \in Attrs : Present(a) => attrs[a] \in AttrState
         /\ \A u \in Users : users[u] # None => users[u] \in UserState
  BY StatesAssumption DEF Typed, Safe, TypeOK, Present

\* A request that arrives knows nothing yet.
LEMMA BeginSafe ==
  ASSUME Typed, Safe, NEW w \in Workers, NEW r \in Request, Begin(w, r)
  PROVE  Safe' /\ AttrsGrow /\ UsersGrow
<1>1. AttrsGrow /\ UsersGrow /\ Objects'
  BY UnchangedStore DEF Begin, store
<1>2. Others(w) /\ UNCHANGED <<tokens, reply>>
  BY SafeParts DEF Begin, TypeOK, Others
<1>3. /\ pc'[w] \in {"load", "retrieve", "identify"} /\ uid'[w] = r.token /\ req'[w] = r
      /\ pc'[w] = "identify" => r.token = None
      /\ acct'[w] = acct[w] /\ got' = got /\ status' = status
      /\ attrs' = attrs /\ users' = users
  BY SafeParts DEF Begin, TypeOK, store
<1>4. acct[w] = NoUser
  BY SafeParts DEF Begin, Knows
<1>5. r.token # None => users[r.token] # None
  BY DEF Begin, Safe, TokenHoldersExist
<1>6. Knows(w)'
  BY <1>3, <1>4, <1>5, SafeParts DEF Knows, NoUser, Present
<1>7. Owns(w)'
  BY <1>3 DEF Owns, Request
<1> QED
  BY <1>1, <1>2, <1>6, <1>7, GoStep

\* A request that learns the state of an attribute.
LEMMA RetrievedKnows ==
  ASSUME Typed, Safe, NEW w \in Workers, NEW a \in Attrs, Retrieved(w, a)
  PROVE  /\ \A b \in Attrs :
              /\ got'[w][b] # None =>
                   /\ Present(b)
                   /\ got'[w][b].may_identify_user = attrs[b].may_identify_user
                   /\ got'[w][b].bans_users \subseteq attrs[b].bans_users
              /\ status'[w][b] \in {"added", "already_there"} => got'[w][b] # None
         /\ \A v \in Workers \ {w} : got'[v] = got[v] /\ status'[v] = status[v]
<1>1. /\ got'[w] = [got[w] EXCEPT ![a] = attrs[a]]
      /\ status'[w] = [status[w] EXCEPT ![a] = IF attrs[a] = None THEN None ELSE "already_there"]
      /\ \A v \in Workers \ {w} : got'[v] = got[v] /\ status'[v] = status[v]
  BY SafeParts DEF Retrieved, TypeOK
<1>2. got[w] \in [Attrs -> AttrState \cup {None}] /\ status[w] \in [Attrs -> Statuses \cup {None}]
  BY SafeParts DEF TypeOK
<1>3. None \notin {"added", "already_there"}
  BY StatusesAssumption DEF Statuses
<1>4. got'[w][a] = attrs[a] /\ \A b \in Attrs \ {a} : got'[w][b] = got[w][b]
  BY <1>1, <1>2
<1>5. /\ status'[w][a] = IF attrs[a] = None THEN None ELSE "already_there"
      /\ \A b \in Attrs \ {a} : status'[w][b] = status[w][b]
  BY <1>1, <1>2
<1> QED
  BY <1>1, <1>3, <1>4, <1>5, SafeParts DEF Knows, Present

\* Whom an attribute identifies has an account.
LEMMA IdentifySafe ==
  ASSUME Typed, Safe, NEW w \in Workers, Identify(w)
  PROVE  Safe' /\ AttrsGrow /\ UsersGrow
<1> DEFINE a == req[w].ident
<1>1. AttrsGrow /\ UsersGrow /\ Objects' /\ attrs' = attrs /\ users' = users
  BY UnchangedStore DEF Identify, store
<1>2. pc[w] = "identify" /\ a \in Attrs /\ TypeOK /\ uid[w] = None /\ acct[w] = NoUser
  BY IdentType, SafeParts DEF Identify, Knows
<1>3. CASE End(w, "turned_down")
  BY <1>1, <1>3, EndStep
<1>4. CASE /\ Go(w, "retrieve")
           /\ UNCHANGED <<tokens, uid, acct, todo, got, status>>
  <2>1. Others(w)
    BY <1>2, <1>4 DEF Go, TypeOK, Others
  <2>2. pc'[w] = "retrieve"
    BY <1>2, <1>4 DEF Go, TypeOK
  <2>3. Knows(w)' /\ Owns(w)'
    BY <1>1, <1>2, <1>4, <2>2, SafeParts DEF Knows, Owns, Present
  <2> QED
    BY <1>1, <1>4, <2>1, <2>3, GoStep DEF Go
<1>5. CASE /\ attrs[a] # None /\ attrs[a].may_identify_user # None
           /\ Retrieved(w, a)
           /\ uid' = [uid EXCEPT ![w] = attrs[a].may_identify_user]
           /\ Go(w, "load")
           /\ UNCHANGED <<tokens, acct>>
  <2>1. /\ pc'[w] = "load" /\ uid'[w] = attrs[a].may_identify_user /\ req' = req
        /\ acct'[w] = NoUser
    BY <1>2, <1>5 DEF Go, TypeOK
  <2>2. users[attrs[a].may_identify_user] # None
    BY <1>2, <1>5, SafeParts DEF Objects, OwnersExist, Present
  <2>3. Others(w)
    BY SMTT(30), <1>2, <1>5, RetrievedKnows DEF Go, TypeOK, Others
  <2>4. Knows(w)'
    BY <1>1, <1>2, <1>5, <2>1, <2>2, RetrievedKnows DEF Knows, Present, NoUser
  <2>5. Owns(w)'
    BY <1>1, <1>2, <1>5, <2>1 DEF Owns, Present
  <2> QED
    BY <1>1, <1>5, <2>3, <2>4, <2>5, GoStep DEF Go
<1> QED
  BY <1>3, <1>4, <1>5 DEF Identify

\* The account that is retrieved is there.
LEMMA LoadSafe ==
  ASSUME Typed, Safe, NEW w \in Workers, Load(w)
  PROVE  Safe' /\ AttrsGrow /\ UsersGrow
<1>1. AttrsGrow /\ UsersGrow /\ Objects' /\ attrs' = attrs /\ users' = users
  BY UnchangedStore DEF Load, store
<1>2. pc[w] = "load" /\ uid[w] \in Users /\ TypeOK /\ uid[w] # None
  BY UidType, SafeParts, NoneAssumption DEF Load
<1>3. CASE End(w, "turned_down")
  BY <1>1, <1>3, EndStep
<1>4. CASE /\ users[uid[w]] # None
           /\ acct' = [acct EXCEPT ![w] = users[uid[w]]]
           /\ Go(w, "retrieve")
           /\ UNCHANGED <<tokens, uid, todo, got, status>>
  <2>1. Others(w)
    BY <1>2, <1>4 DEF Go, TypeOK, Others
  <2>2. pc'[w] = "retrieve" /\ acct'[w] = users[uid[w]] /\ req' = req
    BY <1>2, <1>4 DEF Go, TypeOK
  <2>3. Knows(w)'
    BY <1>1, <1>2, <1>4, <2>2, SafeParts DEF Knows, Present
  <2>4. Owns(w)'
    BY <1>1, <1>2, <1>4, <2>2, SafeParts DEF Owns, Present
  <2> QED
    BY <1>1, <1>4, <2>1, <2>3, <2>4, GoStep DEF Go
<1> QED
  BY <1>3, <1>4 DEF Load

\* The attribute that is retrieved is what the store has.
LEMMA RetrieveSafe ==
  ASSUME Typed, Safe, NEW w \in Workers, NEW a \in Attrs, Retrieve(w, a)
  PROVE  Safe' /\ AttrsGrow /\ UsersGrow
<1>1. AttrsGrow /\ UsersGrow /\ Objects' /\ attrs' = attrs /\ users' = users
  BY UnchangedStore DEF Retrieve, store
<1>2. /\ pc[w] = "retrieve" /\ Retrieved(w, a)
      /\ UNCHANGED <<tokens, pc, req, uid, acct, reply>>
  BY DEF Retrieve
<1>3. Others(w)
  BY <1>2, RetrievedKnows DEF Others
<1>4. Knows(w)'
  BY <1>1, <1>2, RetrievedKnows, SafeParts DEF Knows, Present
<1>5. Owns(w)'
  BY <1>1, <1>2, SafeParts DEF Owns, Present
<1> QED
  BY <1>1, <1>2, <1>3, <1>4, <1>5, GoStep

\* The user who logs in has an account.
LEMMA ProceedSafe ==
  ASSUME Typed, Safe, NEW w \in Workers, Proceed(w)
  PROVE  Safe' /\ AttrsGrow /\ UsersGrow
<1>1. AttrsGrow /\ UsersGrow /\ Objects' /\ attrs' = attrs /\ users' = users
  BY UnchangedStore DEF Proceed, store
<1>2. /\ pc[w] = "retrieve" /\ pc' = [pc EXCEPT ![w] = "link"]
      /\ UNCHANGED <<tokens, req, uid, acct, got, status, reply>>
  BY DEF Proceed, Go
<1>3. Others(w) /\ pc'[w] = "link"
  BY <1>2, SafeParts DEF TypeOK, Others
<1>4. Knows(w)' /\ Owns(w)'
  BY <1>1, <1>2, <1>3, SafeParts DEF Knows, Owns, Present
<1> QED
  BY <1>1, <1>2, <1>3, <1>4, GoStep

\* A new account is nobody else's, and lists what may identify it.
LEMMA CreateUserSafe ==
  ASSUME Typed, Safe, NEW w \in Workers, NEW u \in Users, CreateUser(w, u)
  PROVE  Safe' /\ AttrsGrow /\ UsersGrow
<1> DEFINE new == [NoUser EXCEPT !.allow_login_by = Given(req[w]) \cap Identifying]
<1>1. new \in UserState /\ new.could_be_banned_by = {}
  BY AttrsAssumption DEF NoUser, UserState
<1>2. /\ pc[w] = "retrieve" /\ uid[w] = None /\ UNCHANGED attrs
  BY DEF CreateUser, Registers
<1>3. PICK outcome \in Outcomes :
        /\ PutUser(u, None, new, outcome)
        /\ IF Creates(outcome)
           THEN /\ uid' = [uid EXCEPT ![w] = u] /\ acct' = [acct EXCEPT ![w] = new]
                /\ Go(w, "claim")
                /\ UNCHANGED <<tokens, todo, got, status>>
           ELSE End(w, "turned_down")
  BY DEF CreateUser
<1> HIDE DEF new
<1>4. /\ AttrsGrow /\ UsersGrow /\ Objects'
      /\ outcome = "stored" => users'[u] = new
  BY <1>1, <1>2, <1>3, PutUserKeeps
<1>5. CASE ~Creates(outcome)
  BY <1>3, <1>4, <1>5, EndStep
<1>6. CASE Creates(outcome)
  <2>1. Others(w) /\ UNCHANGED <<tokens, reply, req, got, status>>
    BY <1>3, <1>6, SafeParts DEF Go, TypeOK, Others
  <2>2. pc'[w] = "claim" /\ uid'[w] = u /\ acct'[w] = new /\ users'[u] = new
    BY <1>3, <1>4, <1>6, SafeParts DEF Go, TypeOK, Creates
  <2>3. Owns(w)'
    BY <2>2 DEF Owns
  <2>4. new # None /\ u # None
    BY <1>1, StatesAssumption, NoneAssumption
  <2>5. Knows(w)'
    BY <1>2, <2>1, <2>2, <2>4, SafeParts DEF Knows, Present
  <2> QED
    BY <1>4, <2>1, <2>3, <2>5, GoStep
<1> QED
  BY <1>5, <1>6

\* What a new attribute's state is like.
LEMMA NewAttrStateShaped ==
  ASSUME NEW a \in Attrs, NEW u \in Users
  PROVE  /\ NewAttrState(a, u) \in AttrState /\ Shaped(a, NewAttrState(a, u))
         /\ NewAttrState(a, u).may_identify_user \in {None, u}
         /\ a \in Identifying => NewAttrState(a, u).may_identify_user = u
  BY NoneAssumption DEF NewAttrState, AttrState, Shaped

\* A request that has put the state of an attribute knows it.
LEMMA PutKnows ==
  ASSUME Typed, Safe, NEW w \in Workers, NEW a \in Attrs, NEW state \in AttrState,
         NEW final, AttrsGrow, UsersGrow, uid[w] \in Users, pc[w] \notin {"idle", "identify"},
         attrs'[a] = state, got' = [got EXCEPT ![w][a] = state],
         status' = [status EXCEPT ![w][a] = final],
         pc'[w] \notin {"idle", "identify"},
         UNCHANGED <<uid, acct>>
  PROVE  Knows(w)'
<1>1. got[w] \in [Attrs -> AttrState \cup {None}] /\ status[w] \in [Attrs -> Statuses \cup {None}]
  BY SafeParts DEF TypeOK
<1>2. /\ got'[w] = [got[w] EXCEPT ![a] = state]
      /\ status'[w] = [status[w] EXCEPT ![a] = final]
  BY SafeParts DEF TypeOK
<1>3. got'[w][a] = state /\ \A b \in Attrs \ {a} : got'[w][b] = got[w][b]
  BY <1>1, <1>2
<1>4. \A b \in Attrs \ {a} : status'[w][b] = status[w][b]
  BY <1>1, <1>2
<1>5. state # None /\ uid[w] # None
  BY StatesAssumption, NoneAssumption
<1>6. /\ users'[uid[w]] # None
      /\ acct[w].allow_login_by \subseteq users'[uid[w]].allow_login_by
      /\ acct[w].could_be_banned_by \subseteq users'[uid[w]].could_be_banned_by
  BY <1>5, SafeParts DEF Knows, UsersGrow
<1>7. ASSUME NEW b \in Attrs
      PROVE  /\ got'[w][b] # None =>
                  /\ Present(b)'
                  /\ got'[w][b].may_identify_user = attrs'[b].may_identify_user
                  /\ got'[w][b].bans_users \subseteq attrs'[b].bans_users
             /\ status'[w][b] \in {"added", "already_there"} => got'[w][b] # None
  <2>1. CASE b = a
    BY <1>3, <1>5, <2>1 DEF Present
  <2>2. CASE b # a
    <3>1. got'[w][b] = got[w][b] /\ status'[w][b] = status[w][b]
      BY <1>3, <1>4, <2>2
    <3> QED
      BY <3>1, SafeParts DEF Knows, AttrsGrow, Present
  <2> QED
    BY <2>1, <2>2
<1> QED
  BY <1>5, <1>6, <1>7 DEF Knows

\* A request that reports no success about an attribute knows no less.
LEMMA FailKnows ==
  ASSUME Typed, Safe, NEW w \in Workers, NEW a \in Attrs, AttrsGrow, UsersGrow,
         uid[w] \in Users, UNCHANGED <<uid, acct, got, pc>>,
         status' = [status EXCEPT ![w][a] = "please_try_again"]
  PROVE  Knows(w)'
<1>1. status[w] \in [Attrs -> Statuses \cup {None}]
  BY SafeParts DEF TypeOK
<1>2. status'[w] = [status[w] EXCEPT ![a] = "please_try_again"]
  BY SafeParts DEF TypeOK
<1>3. /\ status'[w][a] = "please_try_again"
      /\ \A b \in Attrs \ {a} : status'[w][b] = status[w][b]
  BY <1>1, <1>2
<1> QED
  BY <1>3, SafeParts, NoneAssumption DEF Knows, AttrsGrow, UsersGrow, Present

\* A request that knows its user still owns what it owned.
LEMMA OwnsStill ==
  ASSUME Typed, Safe, NEW w \in Workers, AttrsGrow, pc[w] # "claim",
         uid'[w] = uid[w], req'[w] = req[w]
  PROVE  Owns(w)'
  BY SafeParts DEF Owns, AttrsGrow, Present

\* The identifying attribute points to an account that is there.
LEMMA ClaimSafe ==
  ASSUME Typed, Safe, NEW w \in Workers, Claim(w)
  PROVE  Safe' /\ AttrsGrow /\ UsersGrow
<1> DEFINE a == req[w].ident
           new == NewAttrState(a, uid[w])
<1>1. /\ pc[w] = "claim" /\ a \in Attrs /\ a \in Identifying /\ uid[w] \in Users
      /\ UNCHANGED users /\ users[uid[w]] # None
  BY IdentType, UidType, SafeParts, NoneAssumption DEF Claim, Knows
<1>2. /\ new \in AttrState /\ Shaped(a, new) /\ new.may_identify_user = uid[w]
  BY <1>1, NewAttrStateShaped
<1>3. PICK outcome \in Outcomes :
        /\ PutAttr(a, None, new, outcome)
        /\ IF Claims(outcome)
           THEN /\ got' = [got EXCEPT ![w][a] = new]
                /\ status' = [status EXCEPT ![w][a] = "added"]
                /\ Go(w, "link")
                /\ UNCHANGED <<tokens, uid, acct, todo>>
           ELSE End(w, "turned_down")
  BY DEF Claim
<1>4. /\ AttrsGrow /\ UsersGrow /\ Objects'
      /\ outcome = "stored" => attrs'[a] = new
  <2> HIDE DEF a, new
  <2> QED BY <1>1, <1>2, <1>3, PutAttrKeeps
<1>5. CASE ~Claims(outcome)
  BY <1>3, <1>4, <1>5, EndStep
<1>6. CASE Claims(outcome)
  <2>1. Others(w) /\ UNCHANGED <<tokens, reply, req>> /\ pc'[w] = "link"
    <3> HIDE DEF a, new
    <3> QED BY <1>3, <1>6, SafeParts DEF Go, TypeOK, Others
  <2>2. attrs'[a] = new
    BY <1>4, <1>6 DEF Claims
  <2>3. Knows(w)'
    <3> HIDE DEF a, new
    <3> QED BY <1>1, <1>2, <1>3, <1>4, <1>6, <2>1, <2>2, PutKnows
  <2>4. Owns(w)'
    <3>1. new # None
      BY <1>2, StatesAssumption
    <3> HIDE DEF new
    <3> QED BY <1>1, <1>2, <1>3, <1>6, <2>1, <2>2, <3>1 DEF Owns, Present
  <2> QED
    BY <1>4, <2>1, <2>3, <2>4, GoStep
<1> QED
  BY <1>5, <1>6

\* So does any other attribute that is added.
LEMMA AddAttrSafe ==
  ASSUME Typed, Safe, NEW w \in Workers, NEW a \in Attrs, AddAttr(w, a)
  PROVE  Safe' /\ AttrsGrow /\ UsersGrow
<1> DEFINE new == NewAttrState(a, uid[w])
<1>1. /\ pc[w] = "link" /\ uid[w] \in Users /\ users[uid[w]] # None
      /\ UNCHANGED <<users, tokens, pc, req, uid, acct, reply>>
  BY UidType, SafeParts, NoneAssumption DEF AddAttr, Knows
<1>2. new \in AttrState /\ Shaped(a, new) /\ new.may_identify_user \in {None, uid[w]}
  BY <1>1, NewAttrStateShaped
<1>3. PICK outcome \in Outcomes :
        /\ PutAttr(a, None, new, outcome)
        /\ IF outcome = "stored"
           THEN /\ got' = [got EXCEPT ![w][a] = new]
                /\ status' = [status EXCEPT ![w][a] = "added"]
           ELSE /\ status' = [status EXCEPT ![w][a] = "please_try_again"]
                /\ UNCHANGED got
  BY DEF AddAttr
<1> HIDE DEF new
<1>4. /\ AttrsGrow /\ UsersGrow /\ Objects'
      /\ outcome = "stored" => attrs'[a] = new
  BY ZenonT(60), <1>1, <1>2, <1>3, PutAttrKeeps
<1>5. Others(w)
  BY <1>1, <1>3, SafeParts DEF TypeOK, Others
<1>6. Owns(w)'
  BY <1>1, <1>4, OwnsStill
<1>7. Knows(w)'
  <2>1. CASE outcome = "stored"
    BY <1>1, <1>2, <1>3, <1>4, <2>1, PutKnows
  <2>2. CASE outcome # "stored"
    BY <1>1, <1>3, <1>4, <2>2, FailKnows
  <2> QED
    BY <2>1, <2>2
<1> QED
  BY <1>1, <1>4, <1>5, <1>6, <1>7, GoStep

\* Whoever an attribute bans, it still bans.
LEMMA BanAttrSafe ==
  ASSUME Typed, Safe, NEW w \in Workers, NEW a \in Attrs, BanAttr(w, a)
  PROVE  Safe' /\ AttrsGrow /\ UsersGrow
<1> DEFINE old == got[w][a]
           new == [old EXCEPT !.bans_users = @ \cup {uid[w]}]
<1>1. /\ pc[w] = "link" /\ uid[w] \in Users /\ users[uid[w]] # None
      /\ UNCHANGED users /\ a \in Bannable /\ old # None /\ old \in AttrState
  BY UidType, SafeParts, NoneAssumption DEF BanAttr, ToBan, Knows, TypeOK
<1>2. /\ new \in AttrState /\ new.may_identify_user = old.may_identify_user
      /\ old.bans_users \subseteq new.bans_users
  BY <1>1 DEF AttrState
<1>3. attrs[a] = old => Shaped(a, new)
                        /\ (new.may_identify_user # None => users[new.may_identify_user] # None)
  <2> HIDE DEF old, new
  <2> QED BY <1>1, <1>2, SafeParts DEF Objects, Shape, Shaped, Present, OwnersExist
<1>4. PICK outcome \in Outcomes :
        /\ PutAttr(a, old, new, outcome)
        /\ IF outcome = "stored"
           THEN /\ got' = [got EXCEPT ![w][a] = new]
                /\ UNCHANGED <<tokens, pc, req, uid, acct, todo, status, reply>>
           ELSE End(w, "panic_status")
  BY DEF BanAttr
<1>5. /\ AttrsGrow /\ UsersGrow /\ Objects'
      /\ outcome = "stored" => attrs'[a] = new
  <2> HIDE DEF old, new
  <2> QED BY <1>1, <1>2, <1>3, <1>4, PutAttrKeeps
<1>6. CASE outcome # "stored"
  BY <1>4, <1>5, <1>6, EndStep
<1>7. CASE outcome = "stored"
  <2> HIDE DEF old, new
  <2>1. Others(w) /\ UNCHANGED <<tokens, reply>>
    BY <1>4, <1>7, SafeParts DEF TypeOK, Others
  <2>2. Owns(w)'
    BY <1>1, <1>4, <1>5, <1>7, OwnsStill
  <2>3. status' = [status EXCEPT ![w][a] = status[w][a]]
    BY <1>4, <1>7, SafeParts DEF TypeOK
  <2>4. Knows(w)'
    BY <1>1, <1>2, <1>4, <1>5, <1>7, <2>3, PutKnows
  <2> QED
    BY <1>5, <2>1, <2>2, <2>4, GoStep
<1> QED
  BY <1>6, <1>7

\* Whatever the account is about to list as able to ban it, would ban it.
LEMMA NewAcctBans ==
  ASSUME Typed, Safe, NEW w \in Workers, uid[w] \in Users
  PROVE  \A a \in NewAcct(w).could_be_banned_by :
           a \in Attrs /\ Present(a) /\ uid[w] \in attrs[a].bans_users
<1>1. uid[w] # None
  BY NoneAssumption
<1>2. \A a \in acct[w].could_be_banned_by : a \in Attrs /\ Present(a) /\ uid[w] \in attrs[a].bans_users
  <2>1. acct[w].could_be_banned_by \subseteq Attrs
    BY SafeParts DEF TypeOK, UserState
  <2>2. acct[w].could_be_banned_by \subseteq users[uid[w]].could_be_banned_by /\ users[uid[w]] # None
    BY <1>1, SafeParts DEF Knows
  <2> QED
    BY <2>1, <2>2, SafeParts DEF Objects, BansKnown
<1>3. \A a \in Bans(w) : a \in Attrs /\ Present(a) /\ uid[w] \in attrs[a].bans_users
  BY SafeParts DEF Bans, Linked, Knows
<1> QED
  BY <1>2, <1>3 DEF NewAcct

\* An attribute that is reported added or already there is in the new account,
\* and refers to it.
LEMMA LinkedIsListed ==
  ASSUME Typed, Safe, NEW w \in Workers, uid[w] \in Users, ToBan(w) = {}, ~NotMine(w),
         NEW a \in Attrs, status[w][a] \in {"added", "already_there"} \/ a \in AddedAttrs(w)
  PROVE  /\ Present(a)
         /\ a \in Identifying => a \in Identifies(w) /\ attrs[a].may_identify_user = uid[w]
         /\ a \in Bannable => a \in Bans(w) /\ uid[w] \in attrs[a].bans_users
<1>1. a \in Linked(w) /\ got[w][a] # None
  BY SafeParts DEF Knows, Linked, AddedAttrs, Identifies, Bans
<1>2. /\ Present(a) /\ got[w][a].may_identify_user = attrs[a].may_identify_user
      /\ got[w][a].bans_users \subseteq attrs[a].bans_users
  BY <1>1, SafeParts DEF Knows
<1>3. a \in Identifying => attrs[a].may_identify_user # None
  BY <1>2, SafeParts DEF Objects, Shape, Shaped
<1>4. a \in Identifying => got[w][a].may_identify_user = uid[w]
  BY <1>1, <1>2, <1>3 DEF NotMine
<1>5. a \in Bannable => uid[w] \in got[w][a].bans_users
  BY <1>1 DEF ToBan
<1> QED
  BY <1>1, <1>2, <1>4, <1>5 DEF Identifies, Bans

\* What is reported, and who is given a token, is right at the end.
LEMMA CompleteSafe ==
  ASSUME Typed, Safe, NEW w \in Workers, Complete(w)
  PROVE  Safe' /\ AttrsGrow /\ UsersGrow
<1>1. /\ pc[w] = "link" /\ uid[w] \in Users /\ uid[w] # None /\ users[uid[w]] # None
      /\ ToBan(w) = {} /\ ~NotMine(w) /\ UNCHANGED attrs /\ NewAcct(w) \in UserState
      /\ acct[w] \in UserState
  BY UidType, SafeParts, NoneAssumption, NewAcctType DEF Complete, Knows, TypeOK
<1>2. /\ \A a \in NewAcct(w).could_be_banned_by :
           a \in Attrs /\ Present(a) /\ uid[w] \in attrs[a].bans_users
      /\ acct[w].allow_login_by \subseteq NewAcct(w).allow_login_by
      /\ acct[w].could_be_banned_by \subseteq NewAcct(w).could_be_banned_by
  BY <1>1, NewAcctBans DEF NewAcct
<1>3. PICK final, outcome :
        /\ Finish(w, "entered", uid[w], final)
        /\ \/ UNCHANGED users /\ AddedAttrs(w) = {} /\ final = status[w]
           \/ /\ PutUser(uid[w], acct[w], NewAcct(w), outcome)
              /\ final = Report(w, outcome)
  BY DEF Complete
<1>4. /\ AttrsGrow /\ UsersGrow /\ Objects'
      /\ \/ AddedAttrs(w) = {} /\ final = status[w]
         \/ /\ final = Report(w, outcome)
            /\ outcome = "stored" => users'[uid[w]] = NewAcct(w)
  <2>1. CASE UNCHANGED users /\ AddedAttrs(w) = {} /\ final = status[w]
    BY <1>1, <2>1, UnchangedStore
  <2>2. CASE PutUser(uid[w], acct[w], NewAcct(w), outcome) /\ final = Report(w, outcome)
    BY <1>1, <1>2, <2>2, PutUserKeeps
  <2> QED
    BY <1>3, <2>1, <2>2
<1>5. /\ pc'[w] = "idle" /\ req'[w] = NoReq /\ uid'[w] = None /\ acct'[w] = NoUser
      /\ got'[w] = Nothing /\ status'[w] = Nothing
      /\ reply'[w] = [kind |-> "entered", user |-> uid[w], status |-> final,
                      ident |-> req[w].ident]
      /\ Others(w)
  BY <1>3, SafeParts DEF Finish, TypeOK, Others
<1>6. Knows(w)' /\ Owns(w)'
  <2>1. \A a \in Attrs : Nothing[a] = None /\ Nothing[a] \notin Statuses
    BY StatusesAssumption DEF Nothing
  <2> QED
    BY <1>5, <2>1 DEF Knows, Owns, Statuses
<1>7. TokenHoldersBannable' /\ TokenHoldersExist'
  <2>1. NewAcct(w).could_be_banned_by # {} =>
          \E a \in Bannable : Present(a) /\ uid[w] \in attrs[a].bans_users
    BY <1>2, SafeParts DEF Objects, Shape, Shaped
  <2>2. tokens' = IF NewAcct(w).could_be_banned_by # {} THEN tokens \cup {uid[w]} ELSE tokens
    BY DEF Complete, IssueAuthToken
  <2>3. TokenHoldersBannable'
    BY <1>1, <2>1, <2>2 DEF Safe, TokenHoldersBannable, Present
  <2>4. TokenHoldersExist'
    BY <1>1, <1>4, <2>2, SafeParts DEF Safe, TokenHoldersExist, UsersGrow, TypeOK
  <2> QED
    BY <2>3, <2>4
<1>8. UsersGrow /\ users'[uid[w]] # None
      /\ users[uid[w]].allow_login_by \subseteq users'[uid[w]].allow_login_by
      /\ users[uid[w]].could_be_banned_by \subseteq users'[uid[w]].could_be_banned_by
      /\ acct[w].allow_login_by \subseteq users[uid[w]].allow_login_by
      /\ acct[w].could_be_banned_by \subseteq users[uid[w]].could_be_banned_by
  BY <1>1, <1>4, SafeParts DEF UsersGrow, Knows
<1> PICK u, i : u = uid[w] /\ i = req[w].ident
  OBVIOUS
<1>9. ASSUME NEW a \in Attrs, final[a] \in {"added", "already_there"}
      PROVE  Present(a)' /\ LinkedInStore(u, a)'
  <2>1. status[w][a] \in {"added", "already_there"} \/ a \in AddedAttrs(w)
    BY <1>4, <1>9 DEF Report
  <2>2. /\ Present(a)
        /\ a \in Identifying => a \in Identifies(w) /\ attrs[a].may_identify_user = uid[w]
        /\ a \in Bannable => a \in Bans(w) /\ uid[w] \in attrs[a].bans_users
    BY <1>1, <2>1, LinkedIsListed
  <2>3. a \in AddedAttrs(w) => users'[uid[w]] = NewAcct(w)
    BY <1>4, <1>9 DEF Report
  <2>4. a \in Identifying => a \in users'[uid[w]].allow_login_by
    BY <1>8, <2>2, <2>3 DEF AddedAttrs, NewAcct
  <2>5. a \in Bannable => a \in users'[uid[w]].could_be_banned_by
    BY <1>8, <2>2, <2>3 DEF AddedAttrs, NewAcct
  <2> QED
    BY <1>1, <2>2, <2>4, <2>5 DEF LinkedInStore, Present
<1>10. i # None =>
         i \in Attrs /\ Present(i)' /\ attrs'[i].may_identify_user = u
  BY <1>1, SafeParts DEF Owns, Present
<1>11. Replied(w)'
  <2> SUFFICES /\ u \in Users /\ users'[u] # None
               /\ i # None => i \in Attrs /\ Present(i)' /\ attrs'[i].may_identify_user = u
               /\ \A a \in Attrs : final[a] \in {"added", "already_there"} =>
                    Present(a)' /\ LinkedInStore(u, a)'
    BY <1>5 DEF Replied, LinkedInStore, Present
  <2> QED
    BY <1>1, <1>8, <1>9, <1>10
<1> QED
  BY <1>4, <1>5, <1>6, <1>7, <1>11, StepKeeps

\* Every step keeps the invariant, and lets the objects only grow ...
LEMMA SafeStep == Typed /\ Safe /\ [Next]_vars => Safe' /\ AttrsGrow /\ UsersGrow
<1> SUFFICES ASSUME Typed, Safe, [Next]_vars PROVE Safe' /\ AttrsGrow /\ UsersGrow
  OBVIOUS
<1>1. ASSUME NEW w \in Workers, PrecheckFails(w) \/ NotMinePanics(w) \/ Abort(w)
      PROVE  Safe' /\ AttrsGrow /\ UsersGrow
  <2>1. PICK kind \in {"turned_down", "panic_not_mine", "none"} :
          End(w, kind) /\ UNCHANGED <<attrs, users>>
    BY <1>1 DEF PrecheckFails, NotMinePanics, Abort, store
  <2> QED
    BY <2>1, UnchangedStore, EndStep
<1>2. CASE UNCHANGED vars
  <2>1. AttrsGrow /\ UsersGrow /\ Objects' /\ TokenHoldersBannable' /\ TokenHoldersExist'
    BY <1>2, UnchangedStore DEF vars, store
  <2>2. \A v \in Workers : Knows(v)' /\ Owns(v)' /\ Replied(v)'
    BY <1>2, <2>1, GrowthKeeps DEF vars, local
  <2> QED
    BY <2>1, <2>2 DEF Safe
<1>3. CASE Next
  BY <1>1, <1>3, BeginSafe, IdentifySafe, LoadSafe, RetrieveSafe, AddAttrSafe, BanAttrSafe,
     CreateUserSafe, ClaimSafe, ProceedSafe, CompleteSafe DEF Next
<1> QED
  BY <1>2, <1>3

\* ... it holds initially ...
LEMMA SafeInit == Init => Safe
<1> SUFFICES ASSUME Init PROVE Safe
  OBVIOUS
<1>1. \A a \in Attrs : Nothing[a] = None /\ Nothing[a] \notin Statuses
  BY StatusesAssumption DEF Nothing
<1>2. Objects /\ TokenHoldersBannable /\ TokenHoldersExist
  BY <1>1 DEF Init, Objects, OwnersExist, BansKnown, Shape, Present, TokenHoldersBannable,
     TokenHoldersExist
<1>3. ASSUME NEW w \in Workers PROVE Knows(w) /\ Owns(w) /\ Replied(w)
  BY <1>1 DEF Init, Knows, Owns, Replied, Statuses
<1> QED
  BY <1>2, <1>3 DEF Safe

\* ... and therefore always.
LEMMA AlwaysSafe == Spec => [](Typed /\ Safe)
<1>1. Init => Typed /\ Safe
  BY TypedInit, SafeInit
<1>2. Typed /\ Safe /\ [Next]_vars => Typed' /\ Safe'
  BY TypedStep, SafeStep
<1> QED
  BY <1>1, <1>2, PTL DEF Spec

-----------------------------------------------------------------------------
(* What follows from it.                                                   *)

\* An attribute never points to an account that was not stored, whatever puts
\* fail and wherever a registration stops.
THEOREM OwnersAlwaysExist == Spec => []OwnersExist
<1>1. Safe => OwnersExist
  BY DEF Safe, Objects
<1> QED
  BY <1>1, AlwaysSafe, PTL

\* An account lists no attribute as able to ban it that would not.
THEOREM BansAlwaysKnown == Spec => []BansKnown
<1>1. Safe => BansKnown
  BY DEF Safe, Objects
<1> QED
  BY <1>1, AlwaysSafe, PTL

\* Nobody gets hold of an auth token who cannot be banned.
THEOREM TokenHoldersAlwaysBannable == Spec => []TokenHoldersBannable
<1>1. Safe => TokenHoldersBannable
  BY DEF Safe
<1> QED
  BY <1>1, AlwaysSafe, PTL

\* Registration and login by an attribute lead to the account it identifies,
\* also when several requests register with the same attribute.
THEOREM AlwaysEnteredByOwner == Spec => []EnteredByOwner
<1>1. Safe => EnteredByOwner
  BY DEF Safe, Replied, EnteredByOwner
<1> QED
  BY <1>1, AlwaysSafe, PTL

\* What a request reports of its attributes is so, and stays so.
THEOREM ReportedIsAlwaysStored == Spec => []ReportedIsStored
<1>1. Safe => ReportedIsStored
  BY DEF Safe, Replied, LinkedInStore, ReportedIsStored
<1> QED
  BY <1>1, AlwaysSafe, PTL

\* No request, however it is interleaved with others, lets an attribute identify
\* somebody else or undoes what an earlier one has put in the store.
THEOREM NothingIsEverLost == Spec => NothingLost
<1>1. AttrsGrow /\ UsersGrow =>
        /\ \A a \in Attrs : Present(a) =>
             /\ attrs'[a] # None
             /\ attrs'[a].may_identify_user = attrs[a].may_identify_user
             /\ attrs[a].bans_users \subseteq attrs'[a].bans_users
        /\ \A u \in Users : users[u] # None =>
             /\ users'[u] # None
             /\ users[u].allow_login_by \subseteq users'[u].allow_login_by
             /\ users[u].could_be_banned_by \subseteq users'[u].could_be_banned_by
  BY DEF AttrsGrow, UsersGrow
<1> QED
  BY <1>1, AlwaysSafe, SafeStep, PTL DEF Spec, NothingLost

\* Attributes, accounts and tokens never come to disagree.
THEOREM RecordsAlwaysAgree == Spec => []RecordsAgree
<1>1. Safe => RecordsAgree
  BY DEF Safe, Objects, RecordsAgree
<1> QED
  BY <1>1, AlwaysSafe, PTL

-----------------------------------------------------------------------------
(* Enter implements Registry.                                              *)

\* A step that leaves the store and the tokens alone is none of the register.
LEMMA QuietStep ==
  ASSUME UNCHANGED <<attrs, users, tokens>>
  PROVE  UNCHANGED R!registry
  BY DEF R!registry, Present

\* A put of an attribute that is new attaches it, one of an attribute that was
\* there makes it ban the user.
LEMMA PutAttrRegisters ==
  ASSUME Typed, Safe, NEW a \in Attrs, NEW u \in Users, users[u] # None,
         NEW expected, NEW state \in AttrState, NEW outcome,
         PutAttr(a, expected, state, outcome), UNCHANGED <<users, tokens>>,
         \/ expected = None /\ state = NewAttrState(a, u)
         \/ /\ expected # None /\ a \in Bannable
            /\ state.may_identify_user = expected.may_identify_user
            /\ state.bans_users = expected.bans_users \cup {u}
  PROVE  R!Next \/ UNCHANGED R!registry
<1> DEFINE Owner(as) == [b \in Attrs |-> IF as[b] # None THEN as[b].may_identify_user ELSE None]
           Ban(as) == [b \in Attrs |-> IF as[b] # None THEN as[b].bans_users ELSE {}]
<1>1. CASE ~Written(outcome)
  <2>1. UNCHANGED <<attrs, users, tokens>>
    BY <1>1 DEF PutAttr
  <2> QED
    BY <2>1, QuietStep
<1>2. CASE Written(outcome)
  <2>1. /\ attrs' = [attrs EXCEPT ![a] = state] /\ attrs[a] = expected
        /\ attrs \in [Attrs -> AttrState \cup {None}] /\ state # None
    BY <1>2, StatesAssumption DEF PutAttr, PutOutcome, Written, Matches, Typed, TypeOK
  <2>2. /\ Owner(attrs') = [Owner(attrs) EXCEPT ![a] = state.may_identify_user]
        /\ Ban(attrs') = [Ban(attrs) EXCEPT ![a] = state.bans_users]
    BY <2>1
  <2>3. u \in {v \in Users : users[v] # None}
    OBVIOUS
  <2>4. CASE expected = None /\ state = NewAttrState(a, u)
    <3>1. /\ state.may_identify_user = IF a \in Identifying THEN u ELSE None
          /\ state.bans_users = IF a \in Bannable THEN {u} ELSE {}
      BY <2>4 DEF NewAttrState
    <3>2. Owner(attrs)[a] = None /\ Ban(attrs)[a] = {}
      BY <2>1, <2>4
    <3>3. R!Attach(a, u)
      BY <2>2, <2>3, <3>1, <3>2 DEF R!Attach, Present
    <3> QED
      BY <3>3 DEF R!Next
  <2>5. CASE /\ expected # None /\ a \in Bannable
             /\ state.may_identify_user = expected.may_identify_user
             /\ state.bans_users = expected.bans_users \cup {u}
    <3>1. Owner(attrs)[a] = state.may_identify_user /\ Ban(attrs)[a] = expected.bans_users
      BY <2>1, <2>5
    <3>2. Owner(attrs') = Owner(attrs)
      BY <2>2, <3>1
    <3>3. R!Ban(a, u)
      BY <2>2, <2>3, <2>5, <3>1, <3>2 DEF R!Ban, Present
    <3> QED
      BY <3>3 DEF R!Next
  <2> QED
    BY <2>4, <2>5
<1> QED
  BY <1>1, <1>2

\* Claiming the identifying attribute, or adding another, attaches it.
LEMMA ClaimRegisters ==
  ASSUME Typed, Safe, NEW w \in Workers, Claim(w)
  PROVE  R!Next \/ UNCHANGED R!registry
<1> DEFINE a == req[w].ident
           new == NewAttrState(a, uid[w])
<1>1. /\ a \in Attrs /\ uid[w] \in Users /\ users[uid[w]] # None /\ UNCHANGED users
  BY IdentType, UidType, SafeParts, NoneAssumption DEF Claim, Knows
<1>2. new \in AttrState
  BY <1>1, NewAttrStateShaped
<1>3. PICK outcome \in Outcomes : PutAttr(a, None, new, outcome) /\ UNCHANGED tokens
  BY DEF Claim, End
<1> HIDE DEF a
<1> QED
  BY <1>1, <1>2, <1>3, PutAttrRegisters

\* The same at login.
LEMMA AddAttrRegisters ==
  ASSUME Typed, Safe, NEW w \in Workers, NEW a \in Attrs, AddAttr(w, a)
  PROVE  R!Next \/ UNCHANGED R!registry
<1> DEFINE new == NewAttrState(a, uid[w])
<1>1. /\ uid[w] \in Users /\ users[uid[w]] # None /\ UNCHANGED <<users, tokens>>
  BY UidType, SafeParts, NoneAssumption DEF AddAttr, Knows
<1>2. new \in AttrState
  BY <1>1, NewAttrStateShaped
<1>3. PICK outcome \in Outcomes : PutAttr(a, None, new, outcome)
  BY DEF AddAttr
<1> QED
  BY <1>1, <1>2, <1>3, PutAttrRegisters

\* An attribute that was there comes to ban the user: whoever else it had come to
\* ban since it was read makes the put fail.
LEMMA BanAttrRegisters ==
  ASSUME Typed, Safe, NEW w \in Workers, NEW a \in Attrs, BanAttr(w, a)
  PROVE  R!Next \/ UNCHANGED R!registry
<1> DEFINE old == got[w][a]
           new == [old EXCEPT !.bans_users = @ \cup {uid[w]}]
<1>1. /\ uid[w] \in Users /\ users[uid[w]] # None
      /\ UNCHANGED users /\ a \in Bannable /\ old # None /\ old \in AttrState
  BY UidType, SafeParts, NoneAssumption DEF BanAttr, ToBan, Knows, TypeOK
<1>2. /\ new \in AttrState /\ new.may_identify_user = old.may_identify_user
      /\ new.bans_users = old.bans_users \cup {uid[w]}
  BY <1>1 DEF AttrState
<1>3. PICK outcome \in Outcomes : PutAttr(a, old, new, outcome) /\ UNCHANGED tokens
  BY DEF BanAttr, End
<1> HIDE DEF old, new
<1> QED
  BY <1>1, <1>2, <1>3, PutAttrRegisters

\* Whatever the store answers, an account is registered or it is not.
LEMMA CreateUserRegisters ==
  ASSUME Typed, Safe, NEW w \in Workers, NEW u \in Users, CreateUser(w, u)
  PROVE  R!Next \/ UNCHANGED R!registry
<1> PICK as : as = Given(req[w]) \cap Identifying
  OBVIOUS
<1> DEFINE new == [NoUser EXCEPT !.allow_login_by = as]
<1>1. /\ new \in UserState /\ new.could_be_banned_by = {} /\ new.allow_login_by = as
      /\ new # None
  BY AttrsAssumption, StatesAssumption DEF NoUser, UserState
<1>2. PICK outcome \in Outcomes : PutUser(u, None, new, outcome) /\ UNCHANGED <<attrs, tokens>>
  BY DEF CreateUser, End
<1>3. CASE ~Written(outcome)
  <2>1. UNCHANGED <<attrs, users, tokens>>
    BY <1>2, <1>3 DEF PutUser
  <2> QED
    BY <2>1, QuietStep
<1>4. CASE Written(outcome)
  <2> HIDE DEF new
  <2>1. /\ users[u] = None /\ users' = [users EXCEPT ![u] = new]
        /\ users \in [Users -> UserState \cup {None}]
    BY <1>2, <1>4 DEF PutUser, PutOutcome, Written, Matches, Typed, TypeOK
  <2>2. \A v \in Users : users'[v] = IF v = u THEN new ELSE users[v]
    BY <2>1
  <2>3. /\ u \notin {v \in Users : users[v] # None}
        /\ {v \in Users : users'[v] # None} = {v \in Users : users[v] # None} \cup {u}
    BY <1>1, <2>1, <2>2
  <2>4. /\ [v \in Users |-> IF users'[v] = None THEN {} ELSE users'[v].allow_login_by]
             = [[v \in Users |-> IF users[v] = None THEN {} ELSE users[v].allow_login_by]
                  EXCEPT ![u] = as]
        /\ [v \in Users |-> IF users'[v] = None THEN {} ELSE users'[v].could_be_banned_by]
             = [v \in Users |-> IF users[v] = None THEN {} ELSE users[v].could_be_banned_by]
    BY <1>1, <2>1, <2>2
  <2>5. R!Register(u, as)
    BY <1>2, <2>3, <2>4 DEF R!Register, Present
  <2>6. as \in SUBSET Identifying
    OBVIOUS
  <2>7. \E bs \in SUBSET Identifying : R!Register(u, bs)
    BY <2>5, <2>6
  <2> QED
    BY <2>7 DEF R!Next
<1> QED
  BY <1>3, <1>4

\* The account is updated with what is its own, and a token issued to a user who
\* can be banned.
LEMMA CompleteRegisters ==
  ASSUME Typed, Safe, NEW w \in Workers, Complete(w)
  PROVE  R!Next \/ UNCHANGED R!registry
<1> PICK u : u = uid[w]
  OBVIOUS
<1> DEFINE accounts == {v \in Users : users[v] # None}
           logins == [v \in Users |-> IF users[v] = None THEN {} ELSE users[v].allow_login_by]
           bannedBy == [v \in Users |-> IF users[v] = None THEN {} ELSE users[v].could_be_banned_by]
           Grown(as, bs) == /\ accounts' = accounts
                            /\ logins' = [logins EXCEPT ![u] = @ \cup as]
                            /\ bannedBy' = [bannedBy EXCEPT ![u] = @ \cup bs]
<1>1. /\ u \in Users /\ u # None /\ users[u] # None /\ UNCHANGED attrs
      /\ NewAcct(w) \in UserState /\ acct[w] \in UserState
  BY UidType, SafeParts, NoneAssumption, NewAcctType DEF Complete, Knows, TypeOK
<1>2. /\ Identifies(w) \subseteq R!Owned(u) /\ Bans(w) \subseteq R!Banning(u)
  BY <1>1, SafeParts DEF Identifies, Bans, Linked, Knows, R!Owned, R!Banning, Present
<1>3. NewAcct(w).could_be_banned_by \subseteq R!Banning(u)
  BY <1>1, NewAcctBans DEF R!Banning, Present
<1>4. \/ UNCHANGED tokens
      \/ R!Banning(u) # {} /\ tokens' = tokens \cup {u}
  BY <1>3 DEF Complete, IssueAuthToken
<1>5. u \in accounts
  BY <1>1
<1>6. \E as \in SUBSET R!Owned(u), bs \in SUBSET R!Banning(u) : Grown(as, bs)
  <2>1. CASE users' = users
    <3>1. /\ logins' = [logins EXCEPT ![u] = @ \cup {}]
          /\ bannedBy' = [bannedBy EXCEPT ![u] = @ \cup {}]
      BY <1>1, <2>1
    <3>2. accounts' = accounts
      BY <2>1
    <3>3. Grown({}, {})
      BY <3>1, <3>2
    <3> HIDE DEF Grown
    <3> QED
      BY <3>3
  <2>2. CASE users' # users
    <3>1. PICK outcome \in Outcomes : PutUser(u, acct[w], NewAcct(w), outcome) /\ Written(outcome)
      BY <2>2 DEF Complete, PutUser
    <3>2. /\ users[u] = acct[w] /\ users' = [users EXCEPT ![u] = NewAcct(w)]
          /\ users \in [Users -> UserState \cup {None}] /\ NewAcct(w) # None
      BY <1>1, <3>1, StatesAssumption DEF PutUser, PutOutcome, Written, Matches, Typed, TypeOK
    <3>3. \A v \in Users : users'[v] = IF v = u THEN NewAcct(w) ELSE users[v]
      BY <3>2
    <3>4. accounts' = accounts
      BY <1>1, <3>2, <3>3
    <3>5. /\ NewAcct(w).allow_login_by = users[u].allow_login_by \cup Identifies(w)
          /\ NewAcct(w).could_be_banned_by = users[u].could_be_banned_by \cup Bans(w)
      BY <3>2 DEF NewAcct
    <3>6. /\ logins' = [logins EXCEPT ![u] = @ \cup Identifies(w)]
          /\ bannedBy' = [bannedBy EXCEPT ![u] = @ \cup Bans(w)]
      BY <1>1, <3>2, <3>3, <3>5
    <3> PICK as, bs : as = Identifies(w) /\ bs = Bans(w)
      OBVIOUS
    <3>7. Grown(as, bs) /\ as \in SUBSET R!Owned(u) /\ bs \in SUBSET R!Banning(u)
      BY <1>2, <3>4, <3>6
    <3> HIDE DEF Grown
    <3> QED
      BY <3>7
  <2> QED
    BY <2>1, <2>2
<1>7. PICK as \in SUBSET R!Owned(u), bs \in SUBSET R!Banning(u) : Grown(as, bs)
  BY <1>6
<1>8. R!Update(u, as, bs)
  BY <1>1, <1>4, <1>5, <1>7 DEF R!Update, Present
<1> QED
  BY <1>1, <1>8 DEF R!Next

\* Every step of Enter is one of the register, or none.
LEMMA EveryStepRegisters ==
  ASSUME Typed, Safe, [Next]_vars
  PROVE  R!Next \/ UNCHANGED R!registry
<1>1. ASSUME NEW w \in Workers,
             \/ \E r \in Request : Begin(w, r)
             \/ Identify(w) \/ Load(w) \/ (\E a \in Attrs : Retrieve(w, a))
             \/ PrecheckFails(w) \/ Proceed(w) \/ NotMinePanics(w) \/ Abort(w)
      PROVE  UNCHANGED <<attrs, users, tokens>>
  BY <1>1 DEF Begin, Identify, Load, Retrieve, PrecheckFails, Proceed, NotMinePanics, Abort,
     End, store
<1>2. CASE UNCHANGED vars
  BY <1>2, QuietStep DEF vars, store
<1>3. CASE Next
  BY <1>1, <1>3, QuietStep, ClaimRegisters, AddAttrRegisters, BanAttrRegisters,
     CreateUserRegisters, CompleteRegisters DEF Next
<1> QED
  BY <1>2, <1>3

\* Registration and login, with all their requests in progress and puts that fail,
\* are the register: every change that a request makes to the store is one that the
\* register makes at once, and none is ever undone.
THEOREM EnterImplementsRegistry == Spec => ImplementsRegistry
<1>1. Init => R!Init
  BY DEF Init, R!Init, Nothing, Present
<1>2. Typed /\ Safe /\ [Next]_vars => [R!Next]_(R!registry)
  BY EveryStepRegisters
<1> QED
  BY <1>1, <1>2, AlwaysSafe, PTL DEF Spec, R!Spec, ImplementsRegistry

=============================================================================

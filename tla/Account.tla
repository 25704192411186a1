------------------------------ MODULE Account -------------------------------
(***************************************************************************)
(* How a user registers, logs in and out on one or more devices, and what  *)
(* becomes of the user secret, the key of everything the user stores at    *)
(* PubHubs Central (mss.ts, PHC.ts, Auths.ts, Login.vue, Onboarding.vue).  *)
(* The secret is made by the client at the first login; Central stores it  *)
(* in two objects, encrypted under a key of each identifying attribute     *)
(* that was ever disclosed.  An encryption is modelled by the secret that  *)
(* is under it, an object's hash by the number of its contents.            *)
(***************************************************************************)
EXTENDS Integers, FiniteSets

CONSTANTS Devices,     \* browsers of the user
          Flows,       \* runs of enterPubHubs that can be under way
          Nobody,      \* neither a device nor a flow
          MaxLogins,   \* bound on the calls of enterPubHubs
          MaxFailures  \* bound on the failing requests, reloads and refusals

VARIABLES
  account,  \* the attributes by which the account can be entered; {} = no account
  wallet,   \* the attributes in the user's Yivi app
  object,   \* object[h]: what Central stores under h
  disk,     \* disk[d]: localStorage, the token and the user secret (0 = none)
  mem,      \* mem[d]: PHCServer, its token, secret and known hashes
  page,     \* page[d]: the route of the global client
  session,  \* session[d]: Auths._state, the flow whose state it is
  flow,     \* flow[f]: what a run of enterPubHubs knows and does next
  existed,  \* the account was there from the start (it never changes)
  contents, secrets, logins, failures \* numbers used, and uses of the bounds

serverVars == <<account, wallet, object>>
deviceVars == <<disk, mem, page, session>>
vars == <<serverVars, deviceVars, flow, existed, contents, secrets, logins, failures>>

-----------------------------------------------------------------------------
Attrs   == {"email", "card"}
Handles == {"usersecret", "usersecretbackup"}
Empty   == [id |-> 0, data |-> [a \in Attrs |-> 0]]
NoFlow  == [at |-> "none", on |-> Nobody, mode |-> "Login",
            attrs |-> {}, base |-> Empty, hash |-> [h \in Handles |-> 0],
            new |-> Empty, warned |-> FALSE]

\* The order of the steps of enterPubHubs.
Steps == {"start", "disclose", "enter", "card", "state", "backup", "keys",
          "store", "verify", "storebackup", "verifybackup", "reissue", "route"}

TypeOK ==
  /\ account \subseteq Attrs /\ wallet \subseteq Attrs
  /\ \A h \in Handles : object[h].id \in 0 .. contents /\ object[h].data \in [Attrs -> 0 .. secrets]
  /\ disk \in [Devices -> [token : BOOLEAN, secret : 0 .. secrets]]
  /\ \A d \in Devices :
       /\ mem[d].token \in BOOLEAN /\ mem[d].secret \in 0 .. secrets
       /\ mem[d].hash \in [Handles -> 0 .. contents]
       /\ disk[d].token => mem[d].token
  /\ page \in [Devices -> {"login", "onboarding", "home", "error"}]
  /\ \A f \in Flows :
       /\ flow[f].at \in Steps \cup {"none"}
       /\ flow[f].at \in {"card", "state", "backup"} => flow[f].attrs # {}
       /\ flow[f].at \in {"store", "verify", "storebackup", "verifybackup"} =>
            flow[f].new.id > flow[f].base.id

SecretsIn(o) == {o.data[a] : a \in Attrs} \ {0}

\* An account of an earlier time, whose secret may not be stored for the card,
\* or none.
Init ==
  /\ existed \in BOOLEAN
  /\ contents = (IF existed THEN 1 ELSE 0) /\ secrets = contents
  /\ account = IF existed THEN Attrs ELSE {}
  /\ wallet = IF existed THEN Attrs ELSE {"email"}
  /\ \E known \in {{"email"}, Attrs} :
       object = [h \in Handles |-> IF existed
         THEN [id |-> 1, data |-> [a \in Attrs |-> IF a \in known THEN 1 ELSE 0]] ELSE Empty]
  /\ disk = [d \in Devices |-> [token |-> FALSE, secret |-> 0]]
  /\ mem = [d \in Devices |-> [token |-> FALSE, secret |-> 0, hash |-> [h \in Handles |-> 0]]]
  /\ page = [d \in Devices |-> "login"]
  /\ session = [d \in Devices |-> Nobody]
  /\ flow = [f \in Flows |-> NoFlow]
  /\ logins = 0 /\ failures = 0

-----------------------------------------------------------------------------
At(f, step) == flow[f].at = step
Go(f, step) == flow' = [flow EXCEPT ![f].at = step]
End(f)      == flow' = [flow EXCEPT ![f] = NoFlow]
Fail        == failures < MaxFailures /\ failures' = failures + 1

\* global.logout and mss.logout. PHCServer.reset comes first and finds the
\* token on the disk still, and leaves the secret in memory.
Logout(d) ==
  /\ mem' = [mem EXCEPT ![d].token = disk[d].token, ![d].hash = [h \in Handles |-> 0]]
  /\ disk' = [disk EXCEPT ![d] = [token |-> FALSE, secret |-> 0]]

\* _setAuthToken
SetAuthToken(d) ==
  /\ mem' = [mem EXCEPT ![d].token = TRUE]
  /\ disk' = [disk EXCEPT ![d].token = TRUE]

\* A request of f that fails, or is refused for good: the page's catch shows
\* the error page. Where the code logs the user out, it does so first.
Throw(f) ==
  /\ flow[f].at \notin {"none", "route"} /\ Fail
  /\ End(f)
  /\ page' = [page EXCEPT ![flow[f].on] = "error"]
  /\ \/ UNCHANGED <<disk, mem>>
     \/ flow[f].at \in {"store", "verify", "storebackup", "verifybackup", "keys"} /\ Logout(flow[f].on)
  /\ UNCHANGED <<serverVars, session, existed, contents, secrets, logins>>

-----------------------------------------------------------------------------
\* The routes; before each of them checkLoginAndSettings looks for a token.
Visit(d, to) ==
  /\ page[d] # to
  /\ page' = [page EXCEPT ![d] = IF to = "home" /\ ~disk[d].token THEN "login" ELSE to]
  /\ UNCHANGED <<serverVars, disk, mem, session, flow, existed, contents, secrets, logins, failures>>

LogOut(d) ==
  /\ page[d] = "home" /\ Logout(d)
  /\ page' = [page EXCEPT ![d] = "login"]
  /\ UNCHANGED <<serverVars, session, flow, existed, contents, secrets, logins, failures>>

\* The page is loaded anew: what was under way there is gone.
Reload(d) ==
  /\ Fail
  /\ flow' = [f \in Flows |-> IF flow[f].on = d THEN NoFlow ELSE flow[f]]
  /\ mem' = [mem EXCEPT ![d] = [token |-> disk[d].token, secret |-> 0, hash |-> [h \in Handles |-> 0]]]
  /\ UNCHANGED <<serverVars, disk, page, session, existed, contents, secrets, logins>>

-----------------------------------------------------------------------------
\* loginMSS, which the button calls to close the popup as well, and
\* startYiviSessionMSS, which each resize of the window calls again.
EnterPubHubs(f, d) ==
  /\ At(f, "none") /\ page[d] \in {"login", "onboarding"} /\ logins < MaxLogins
  /\ logins' = logins + 1
  /\ flow' = [flow EXCEPT ![f] = [NoFlow EXCEPT !.at = "start", !.on = d,
                !.mode = IF page[d] = "login" THEN "Login" ELSE "LoginOrRegister"]]
  /\ UNCHANGED <<serverVars, deviceVars, existed, contents, secrets, failures>>

\* welcomeEPAuths, checkAttributes, authStartEP, setState.
AuthStart(f) ==
  /\ At(f, "start") /\ Go(f, "disclose")
  /\ session' = [session EXCEPT ![flow[f].on] = f]
  /\ UNCHANGED <<serverVars, disk, mem, page, existed, contents, secrets, logins, failures>>

\* The user discloses in the Yivi app what is asked: the card to log in, the
\* other attributes to register. completeAuthEP is given the state of the
\* flow that was started last.
Disclose(f) ==
  LET asked == IF flow[f].mode = "Login" THEN {"card"} ELSE {"email"} IN
  /\ At(f, "disclose") /\ asked \subseteq wallet
  /\ IF session[flow[f].on] = f
     THEN flow' = [flow EXCEPT ![f].at = "enter", ![f].attrs = asked] /\ UNCHANGED page
     ELSE End(f) /\ page' = [page EXCEPT ![flow[f].on] = "error"]
  /\ UNCHANGED <<serverVars, disk, mem, session, existed, contents, secrets, logins, failures>>

\* PHCServer.enter: without an account, a message on the page.
Enter(f) ==
  /\ At(f, "enter")
  /\ \/ /\ flow[f].attrs \subseteq account \/ (flow[f].mode = "LoginOrRegister" /\ account = {})
        /\ account' = account \cup flow[f].attrs
        /\ SetAuthToken(flow[f].on)
        /\ Go(f, IF flow[f].mode = "Login" THEN "state" ELSE "card")
     \/ /\ flow[f].mode = "Login" /\ ~(flow[f].attrs \subseteq account)
        /\ End(f) /\ UNCHANGED <<account, disk, mem>>
  /\ UNCHANGED <<wallet, object, page, session, existed, contents, secrets, logins, failures>>

\* issueCard: the card is added to the account, and then to the wallet, which
\* may be gone by then.
IssueCard(f) ==
  /\ At(f, "card")
  /\ account' = account \cup {"card"}
  /\ \/ /\ wallet' = wallet \cup {"card"}
        /\ flow' = [flow EXCEPT ![f].at = "state", ![f].attrs = @ \cup {"card"}]
        /\ UNCHANGED failures
     \/ /\ flow' = [flow EXCEPT ![f].at = "state", ![f].warned = TRUE]
        /\ Fail /\ UNCHANGED wallet
  /\ UNCHANGED <<object, deviceVars, existed, contents, secrets, logins>>

\* Onboarding.vue: after YiviServerGone the card is issued once more, apart.
ReissueCard(f) ==
  /\ At(f, "reissue") /\ Go(f, "route")
  /\ account' = account \cup {"card"} /\ wallet' = wallet \cup {"card"}
  /\ UNCHANGED <<object, deviceVars, existed, contents, secrets, logins, failures>>

-----------------------------------------------------------------------------
Hashes == [h \in Handles |-> object[h].id]

\* stateEP, and the first half of getUserSecretObject.
GetUserSecretObject(f) ==
  /\ At(f, "state")
  /\ mem' = [mem EXCEPT ![flow[f].on].hash = Hashes]
  /\ flow' = [flow EXCEPT ![f].base = object["usersecret"],
                ![f].hash["usersecret"] = object["usersecret"].id,
                ![f].at = IF object["usersecret"].id = 0 THEN "keys" ELSE "backup"]
  /\ UNCHANGED <<serverVars, disk, page, session, existed, contents, secrets, logins, failures>>

\* The backup by the hash that is known; when that is gone, by the present
\* one. It must be known, and be equal to the object.
GetBackup(f) ==
  LET d == flow[f].on
      known == mem[d].hash["usersecretbackup"] IN
  /\ At(f, "backup")
  /\ IF known # 0 /\ object["usersecretbackup"].id = flow[f].base.id
     THEN /\ flow' = [flow EXCEPT ![f].at = "keys", ![f].hash["usersecretbackup"] = flow[f].base.id]
          /\ mem' = [mem EXCEPT ![d].hash = Hashes]
          /\ UNCHANGED <<disk, page>>
     ELSE /\ End(f) /\ page' = [page EXCEPT ![d] = "error"]
          /\ IF known = 0 THEN Logout(d)
             ELSE mem' = [mem EXCEPT ![d].hash = Hashes] /\ UNCHANGED disk
  /\ UNCHANGED <<serverVars, session, existed, contents, secrets, logins, failures>>

\* The secrets that the disclosed attributes give access to.
Opened(f) == {flow[f].base.data[a] : a \in flow[f].attrs} \ {0}

\* (slip: a secret that cannot be recovered is made anew)
RecoversOrRenews(f) == Opened(f) = {}
\* A new secret is made for the first time only.
MakesSecret(f) == flow[f].base.id = 0

\* attrKeysEP and _computeNewUserSecretObject.
ComputeNewUserSecretObject(f) ==
  LET secret == IF MakesSecret(f) THEN secrets + 1 ELSE CHOOSE s \in Opened(f) : TRUE IN
  /\ At(f, "keys")
  /\ IF MakesSecret(f) \/ Cardinality(Opened(f)) = 1
     THEN /\ contents' = contents + 1
          /\ secrets' = IF MakesSecret(f) THEN secrets + 1 ELSE secrets
          /\ flow' = [flow EXCEPT ![f].at = "store",
               ![f].new = [id |-> contents + 1,
                 data |-> [a \in Attrs |-> IF a \in flow[f].attrs THEN secret ELSE flow[f].base.data[a]]]]
          /\ UNCHANGED <<disk, mem, page>>
     ELSE /\ Logout(flow[f].on) /\ End(f)
          /\ page' = [page EXCEPT ![flow[f].on] = "error"]
          /\ UNCHANGED <<contents, secrets>>
  /\ UNCHANGED <<serverVars, session, existed, logins, failures>>

\* _storeObject: newObjectEP without a hash, overwriteObjectEP with one. The
\* answers MissingHash and HashDidNotMatch lead to the present hash being
\* used, and NotFound to newObjectEP: whatever is there is overwritten, with
\* another step between only if it was not as known.
StoreObject(f, h, next) ==
  /\ IF flow[f].hash[h] = object[h].id
     THEN /\ object' = [object EXCEPT ![h] = flow[f].new]
          /\ mem' = [mem EXCEPT ![flow[f].on].hash = [Hashes EXCEPT ![h] = flow[f].new.id]]
          /\ Go(f, next)
     ELSE /\ flow' = [flow EXCEPT ![f].hash[h] = object[h].id]
          /\ mem' = [mem EXCEPT ![flow[f].on].hash = Hashes]
          /\ UNCHANGED object
  /\ UNCHANGED <<account, wallet, disk, page, session, existed, contents, secrets, logins, failures>>

StoreUserSecret(f) == At(f, "store") /\ StoreObject(f, "usersecret", "verify")
StoreBackup(f) == At(f, "storebackup") /\ StoreObject(f, "usersecretbackup", "verifybackup")

\* What is stored is read again, and must be what was written. With both
\* written the secret is put in memory and on the disk.
Verify(f) ==
  LET d == flow[f].on
      h == IF At(f, "verify") THEN "usersecret" ELSE "usersecretbackup"
      secret == CHOOSE s \in SecretsIn(flow[f].new) : TRUE IN
  /\ flow[f].at \in {"verify", "verifybackup"}
  /\ IF object[h].id = flow[f].new.id
     THEN IF At(f, "verify") THEN Go(f, "storebackup") /\ UNCHANGED <<disk, mem, page>>
          ELSE /\ mem' = [mem EXCEPT ![d].secret = secret]
               /\ disk' = [disk EXCEPT ![d].secret = secret]
               /\ Go(f, IF flow[f].warned THEN "reissue" ELSE "route")
               /\ UNCHANGED page
     ELSE Logout(d) /\ End(f) /\ page' = [page EXCEPT ![d] = "error"]
  /\ UNCHANGED <<serverVars, session, existed, contents, secrets, logins, failures>>

\* The page moves on: checkLoginAndSettings.
Route(f) ==
  /\ At(f, "route") /\ End(f)
  /\ page' = [page EXCEPT ![flow[f].on] = IF disk[flow[f].on].token THEN "home" ELSE "login"]
  /\ UNCHANGED <<serverVars, disk, mem, session, existed, contents, secrets, logins, failures>>

Next ==
  \/ \E d \in Devices : \/ \E to \in {"login", "onboarding", "home"} : Visit(d, to)
                        \/ LogOut(d) \/ Reload(d)
                        \/ \E f \in Flows : EnterPubHubs(f, d)
  \/ \E f \in Flows :
       \/ AuthStart(f) \/ Disclose(f) \/ Enter(f) \/ IssueCard(f) \/ ReissueCard(f)
       \/ GetUserSecretObject(f) \/ GetBackup(f) \/ ComputeNewUserSecretObject(f)
       \/ StoreUserSecret(f) \/ StoreBackup(f) \/ Verify(f) \/ Route(f) \/ Throw(f)

Spec == Init /\ [][Next]_vars

-----------------------------------------------------------------------------
\* While others log in, fail, or lose their place between the two writes, the
\* secret of an account that has one stays the same: every device that is given
\* a secret has the one that what is stored was, and will be, encrypted under
\* (_computeNewUserSecretObject, _storeObject).
SecretStays ==
  existed => /\ \A h \in Handles : SecretsIn(object[h]) = {1}
             /\ \A d \in Devices : {disk[d].secret, mem[d].secret} \subseteq {0, 1}

\* PHC.ts:352: "If this is the first time the user secret object is set, a
\* random ... user secret needs to be generated": only then, so that a device
\* that was given a secret still has it.
SecretIsSetOnce ==
  \A d, e \in Devices : disk[d].secret # 0 /\ disk[e].secret # 0 => disk[d].secret = disk[e].secret

\* mss.ts:143: "so the user can retry card issuance separately": a user who has
\* the card in the wallet, and a stored secret, can log in with that card.
CardOpensSecret ==
  (\A f \in Flows : At(f, "none")) /\ "card" \in wallet /\ object["usersecret"].id # 0 =>
     object["usersecret"].data["card"] # 0
=============================================================================

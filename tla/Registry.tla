------------------------------- MODULE Registry -------------------------------
(***************************************************************************)
(* What registration and login at PubHubs Central promise to those who do  *)
(* not know of requests, workers and puts that fail: a register of accounts *)
(* and attributes that changes one object at a time, only ever grows, and  *)
(* in which an attribute identifies one account for good.  Enter is shown  *)
(* to implement it.                                                        *)
(***************************************************************************)
CONSTANTS Attrs, Identifying, Bannable, Users, None

VARIABLES
  accounts,  \* users that have an account
  owner,     \* owner[a]: the account attribute a identifies, or None
  bans,      \* bans[a]: accounts that would be banned with attribute a
  logins,    \* logins[u]: attributes that account u lists for its logins
  bannedBy,  \* bannedBy[u]: attributes that account u lists as able to ban it
  admitted   \* users that were let in with a token

registry == <<accounts, owner, bans, logins, bannedBy, admitted>>

Init ==
  /\ accounts = {} /\ admitted = {}
  /\ owner = [a \in Attrs |-> None]
  /\ bans = [a \in Attrs |-> {}]
  /\ logins = [u \in Users |-> {}]
  /\ bannedBy = [u \in Users |-> {}]

\* An account is made, to be found by some attributes.  These need not come to
\* identify it: another account may be quicker.
Register(u, as) ==
  /\ u \notin accounts
  /\ accounts' = accounts \cup {u}
  /\ logins' = [logins EXCEPT ![u] = as]
  /\ UNCHANGED <<owner, bans, bannedBy, admitted>>

\* An attribute nobody has used before becomes that of an account.
Attach(a, u) ==
  /\ u \in accounts
  /\ owner[a] = None /\ bans[a] = {}
  /\ owner' = [owner EXCEPT ![a] = IF a \in Identifying THEN u ELSE None]
  /\ bans' = [bans EXCEPT ![a] = IF a \in Bannable THEN {u} ELSE {}]
  /\ UNCHANGED <<accounts, logins, bannedBy, admitted>>

\* An attribute comes to ban one more account.
Ban(a, u) ==
  /\ u \in accounts /\ a \in Bannable
  /\ bans' = [bans EXCEPT ![a] = @ \cup {u}]
  /\ UNCHANGED <<accounts, owner, logins, bannedBy, admitted>>

Owned(u)   == {a \in Attrs : owner[a] = u}
Banning(u) == {a \in Attrs : u \in bans[a]}

\* An account lists attributes that are its own, or would ban it.  Its user may
\* be let in, but only one who can be banned.
Update(u, as, bs) ==
  /\ u \in accounts /\ as \subseteq Owned(u) /\ bs \subseteq Banning(u)
  /\ logins' = [logins EXCEPT ![u] = @ \cup as]
  /\ bannedBy' = [bannedBy EXCEPT ![u] = @ \cup bs]
  /\ \/ UNCHANGED admitted
     \/ /\ Banning(u) # {}
        /\ admitted' = admitted \cup {u}
  /\ UNCHANGED <<accounts, owner, bans>>

Next ==
  \E u \in Users :
    \/ \E as \in SUBSET Identifying : Register(u, as)
    \/ \E a \in Attrs : Attach(a, u) \/ Ban(a, u)
    \/ \E as \in SUBSET Owned(u), bs \in SUBSET Banning(u) : Update(u, as, bs)

Spec == Init /\ [][Next]_registry
=============================================================================

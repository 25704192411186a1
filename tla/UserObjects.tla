----------------------------- MODULE UserObjects -----------------------------
(***************************************************************************)
(* The objects a user stores at PubHubs Central (handle_user_store_object):*)
(* the user's state lists, by handle, the identifiers of objects that are  *)
(* stored separately.  To store one, a request reads the list, puts the    *)
(* object, replaces the list if it is still the one that was read, and     *)
(* deletes the object that is no longer listed there.                      *)
(*                                                                         *)
(* An object's identifier is a hash of its owner and payload, so that the  *)
(* objects of different users never meet: one user will do, and a payload  *)
(* is its own identifier.                                                  *)
(***************************************************************************)
EXTENDS Integers, FiniteSets, FiniteSetsExt

CONSTANTS
  Handles,      \* names under which objects are stored
  Payloads,     \* contents of objects
  Size,         \* Size[p]: length of payload p
  QuotaCount,   \* quota: number of objects ...
  QuotaBytes,   \* ... and their total size
  Workers,      \* requests in progress at the same time
  None,         \* absence of a value (Option::None)
  MaxRequests,  \* bound: requests made
  MaxFaults     \* bound: calls that the object store answers with an error

ASSUME DataAssumption ==
  /\ None \notin Payloads
  /\ Size \in [Payloads -> Nat] /\ QuotaCount \in Nat /\ QuotaBytes \in Nat
ASSUME BoundsAssumption == MaxRequests \in Nat /\ MaxFaults \in Nat

VARIABLES
  stored_objects,  \* stored_objects[h]: the object listed under h, or None
  objects,         \* the objects in the object store
  pc,              \* pc[w]: what the request at w does next
  req,             \* req[w]: that request
  base,            \* base[w]: the list that w has read
  replaced,        \* history: the objects that were ever replaced in the list
  requests, faults \* uses made of the bounds

vars == <<stored_objects, objects, pc, req, base, replaced, requests, faults>>

-----------------------------------------------------------------------------
List == [Handles -> Payloads \cup {None}]
Empty == [h \in Handles |-> None]

\* To store payload under handle, in place of overwrite, or of nothing.
Request ==
  [handle : Handles, payload : Payloads, overwrite : Payloads \cup {None}]

ASSUME RequestAssumption == None \notin Request

Phases == {"idle", "read", "put_object", "put_state", "delete"}

TypeOK ==
  /\ stored_objects \in List
  /\ objects \in SUBSET Payloads
  /\ pc \in [Workers -> Phases]
  /\ req \in [Workers -> Request \cup {None}]
  /\ \A w \in Workers : pc[w] # "idle" => req[w] \in Request
  /\ base \in [Workers -> List]
  /\ replaced \in SUBSET Payloads
  /\ requests \in Nat /\ faults \in Nat

Init ==
  /\ stored_objects = Empty /\ objects = {}
  /\ pc = [w \in Workers |-> "idle"]
  /\ req = [w \in Workers |-> None]
  /\ base = [w \in Workers |-> Empty]
  /\ replaced = {}
  /\ requests = 0 /\ faults = 0

-----------------------------------------------------------------------------
\* The object that the request at w is to replace, and the list that results.
Existing(w) == base[w][req[w].handle]
NewList(w) == [base[w] EXCEPT ![req[w].handle] = req[w].payload]

ListedHandles(list) == {h \in Handles : list[h] # None}

\* update_quota
WithinQuota(list) ==
  /\ Cardinality(ListedHandles(list)) <= QuotaCount
  /\ MapThenSumSet(LAMBDA h : Size[list[h]], ListedHandles(list)) <= QuotaBytes

\* (slip: the object to be stored is not counted)
AcceptsFull(r, list, new) ==
  /\ list[r.handle] = r.overwrite
  /\ list[r.handle] # r.payload
  /\ WithinQuota(list)

\* Otherwise the client is told what it missed, that nothing would change, or
\* which quotum was reached.
Accepts(r, list, new) ==
  /\ list[r.handle] = r.overwrite
  /\ list[r.handle] # r.payload
  /\ WithinQuota(new)

Go(w, phase) == pc' = [pc EXCEPT ![w] = phase] /\ UNCHANGED <<req, base>>

End(w) ==
  /\ pc' = [pc EXCEPT ![w] = "idle"]
  /\ req' = [req EXCEPT ![w] = None] /\ base' = [base EXCEPT ![w] = Empty]

\* The object store answers with an error, whether it did what was asked or not.
Error == faults < MaxFaults /\ faults' = faults + 1

Begin(w, r) ==
  /\ pc[w] = "idle" /\ requests < MaxRequests
  /\ requests' = requests + 1
  /\ pc' = [pc EXCEPT ![w] = "read"] /\ req' = [req EXCEPT ![w] = r]
  /\ UNCHANGED <<stored_objects, objects, base, replaced, faults>>

\* The user's state is read, and the request held against it.
ReadState(w) ==
  /\ pc[w] = "read"
  /\ LET new == [stored_objects EXCEPT ![req[w].handle] = req[w].payload] IN
     IF Accepts(req[w], stored_objects, new)
     THEN /\ pc' = [pc EXCEPT ![w] = "put_object"]
          /\ base' = [base EXCEPT ![w] = stored_objects]
          /\ UNCHANGED req
     ELSE End(w)
  /\ UNCHANGED <<stored_objects, objects, replaced, requests, faults>>

\* The object is put in the store; it is fine if it is there already.
PutObject(w) ==
  /\ pc[w] = "put_object"
  /\ \/ /\ objects' = objects \cup {req[w].payload}
        /\ Go(w, "put_state")
        /\ UNCHANGED faults
     \/ /\ objects' \in {objects, objects \cup {req[w].payload}}
        /\ Error /\ End(w)
  /\ UNCHANGED <<stored_objects, replaced, requests>>

\* (slip: the new list replaces whatever is there)
MatchesAnything(w) == TRUE

\* Two versions of the state with the same list may be the same.
Matches(w) == stored_objects = base[w]

Replace(w) ==
  /\ Matches(w)
  /\ stored_objects' = NewList(w)
  /\ replaced' = replaced \cup ({Existing(w)} \ {None})

\* (slip: the old object is deleted although the list was not replaced)
RetryDeletes(w) == IF Existing(w) = None THEN End(w) ELSE Go(w, "delete")

\* (slip: the server retries, with the payload it has used up)
RetriesItself(w) ==
  /\ pc' = [pc EXCEPT ![w] = "read"]
  /\ req' = [req EXCEPT ![w] = None] /\ base' = [base EXCEPT ![w] = Empty]

\* Something changed the user's state, which holds more than the list: the
\* client is asked to retry.
PleaseRetry(w) == End(w)

PutState(w) ==
  /\ pc[w] = "put_state"
  /\ \/ /\ Replace(w)
        /\ IF Existing(w) = None THEN End(w) ELSE Go(w, "delete")
        /\ UNCHANGED faults
     \/ PleaseRetry(w) /\ UNCHANGED <<stored_objects, replaced, faults>>
     \/ Error /\ End(w) /\ (Replace(w) \/ UNCHANGED <<stored_objects, replaced>>)
  /\ UNCHANGED <<objects, requests>>

\* The old object is deleted; a failure to do so is only logged.
DeleteOld(w) ==
  /\ pc[w] = "delete"
  /\ \/ objects' = objects \ {Existing(w)} /\ UNCHANGED faults
     \/ objects' = objects /\ Error
  /\ End(w)
  /\ UNCHANGED <<stored_objects, replaced, requests>>

\* The client leaves or the server restarts; the request is dropped.
Abort(w) ==
  /\ pc[w] # "idle"
  /\ End(w)
  /\ UNCHANGED <<stored_objects, objects, replaced, requests, faults>>

Next ==
  \E w \in Workers :
    \/ \E r \in Request : Begin(w, r)
    \/ ReadState(w) \/ PutObject(w) \/ PutState(w) \/ DeleteOld(w) \/ Abort(w)

Spec == Init /\ [][Next]_vars
-----------------------------------------------------------------------------
(* Properties.                                                             *)

Listed == {stored_objects[h] : h \in ListedHandles(stored_objects)}

\* A user does not exceed the quota, however many clients store objects.
QuotaRespected == WithinQuota(stored_objects)

\* No client overrides `recent changes made by another global client': what is
\* listed under a handle is replaced only by a request that named it.
OverwritesNamed ==
  [][\A h \in Handles : stored_objects'[h] # stored_objects[h] =>
       \E w \in Workers : /\ req[w] # None /\ req[w].handle = h
                          /\ req[w].overwrite = stored_objects[h]
                          /\ req[w].payload = stored_objects'[h]]_vars

\* At worst an object that is not listed stays behind: what is listed can be
\* retrieved, if it was never replaced, whichever puts failed and wherever the
\* requests stopped.
KeptUnlessReplaced == Listed \ replaced \subseteq objects

\* What is listed can be retrieved.
ListedExist == Listed \subseteq objects

=============================================================================

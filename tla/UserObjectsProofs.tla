-------------------------- MODULE UserObjectsProofs --------------------------
(***************************************************************************)
(* Theorems about UserObjects, for any handles, payloads, quota and        *)
(* numbers of requests.                                                    *)
(***************************************************************************)
EXTENDS UserObjects, FiniteSetTheorems, TLAPS

-----------------------------------------------------------------------------
(* The inductive invariant.  A request that was accepted stays acceptable  *)
(* with respect to the list it has read; and an object is deleted only     *)
(* after it was replaced, so that it takes another put to bring it back.   *)

Holds(w) ==
  /\ pc[w] \in {"put_object", "put_state", "delete"} =>
       Accepts(req[w], base[w], NewList(w))
  /\ pc[w] = "put_state" => req[w].payload \in objects \cup replaced
  /\ pc[w] = "delete" => Existing(w) \in replaced

Safe ==
  /\ TypeOK
  /\ WithinQuota(stored_objects)
  /\ KeptUnlessReplaced
  /\ \A w \in Workers : Holds(w)

\* The quota of an empty list is not exceeded.
LEMMA EmptyFits == WithinQuota(Empty)
<1>1. ListedHandles(Empty) = {}
  BY DEF ListedHandles, Empty
<1>2. MapThenSumSet(LAMBDA h : Size[Empty[h]], {}) = 0
  <2> DEFINE F(g) == [s \in SUBSET {} |->
                       IF s = {} THEN 0
                       ELSE LET x == CHOOSE y \in s : TRUE
                            IN  Size[Empty[x]] + g[s \ {x}]]
             iter == CHOOSE g : g = F(g)
  <2>1. [s \in SUBSET {} |-> 0] = F([s \in SUBSET {} |-> 0])
    OBVIOUS
  <2>2. iter = F(iter)
    <3> HIDE DEF F
    <3>1. \E g : g = F(g)
      BY <2>1
    <3> QED
      BY <3>1
  <2>3. iter[{}] = 0
    <3> HIDE DEF iter
    <3> QED
      BY <2>2
  <2>4. MapThenSumSet(LAMBDA h : Size[Empty[h]], {}) = iter[{}]
    BY DEF MapThenSumSet, MapThenFoldSet
  <2> QED
    BY <2>3, <2>4
<1> QED
  BY <1>1, <1>2, FS_EmptySet, DataAssumption DEF WithinQuota

\* The invariant holds initially.
LEMMA SafeInit == Init => Safe
<1> SUFFICES ASSUME Init PROVE Safe
  OBVIOUS
<1>1. TypeOK
  BY DEF Init, TypeOK, Empty, List, Phases
<1>2. Listed = {}
  BY DEF Init, Listed, ListedHandles, Empty
<1>3. \A w \in Workers : Holds(w)
  BY DEF Init, Holds
<1> QED
  BY <1>1, <1>2, <1>3, EmptyFits DEF Init, Safe, KeptUnlessReplaced

\* A request that was accepted makes a list.
LEMMA NewListType ==
  ASSUME TypeOK, NEW w \in Workers, pc[w] # "idle"
  PROVE  /\ NewList(w) \in List /\ req[w] \in Request
         /\ Existing(w) \in Payloads \cup {None}
         /\ NewList(w)[req[w].handle] = req[w].payload
         /\ \A h \in Handles : h # req[w].handle => NewList(w)[h] = base[w][h]
  BY DEF TypeOK, NewList, List, Request, Existing

\* What the other requests hold is not spoilt by a step of w that removes no
\* object but those that were replaced.
LEMMA OthersHold ==
  ASSUME Safe, NEW w \in Workers, NEW v \in Workers, v # w,
         pc'[v] = pc[v], req'[v] = req[v], base'[v] = base[v],
         objects \cup replaced \subseteq objects' \cup replaced',
         replaced \subseteq replaced'
  PROVE  Holds(v)'
  BY DEF Safe, Holds, NewList, Existing

\* A request that has ended holds nothing.
LEMMA EndHolds ==
  ASSUME TypeOK, NEW w \in Workers, End(w)
  PROVE  /\ Holds(w)' /\ pc' \in [Workers -> Phases]
         /\ req' \in [Workers -> Request \cup {None}] /\ base' \in [Workers -> List]
         /\ \A v \in Workers : pc'[v] # "idle" => req'[v] \in Request
         /\ \A v \in Workers \ {w} : pc'[v] = pc[v] /\ req'[v] = req[v] /\ base'[v] = base[v]
  BY DEF TypeOK, End, Holds, Phases, List, Empty

\* Likewise for a request that moves on.
LEMMA GoTypes ==
  ASSUME TypeOK, NEW w \in Workers, NEW phase \in Phases, pc[w] # "idle", Go(w, phase)
  PROVE  /\ pc' \in [Workers -> Phases] /\ pc'[w] = phase
         /\ req' \in [Workers -> Request \cup {None}] /\ base' \in [Workers -> List]
         /\ \A v \in Workers : pc'[v] # "idle" => req'[v] \in Request
         /\ \A v \in Workers \ {w} : pc'[v] = pc[v]
         /\ req' = req /\ base' = base
  BY DEF TypeOK, Go

\* Steps after which the list is what it was.
LEMMA SameList ==
  ASSUME Safe, NEW w \in Workers, UNCHANGED <<stored_objects, replaced>>,
         objects' \in SUBSET Payloads,
         objects \subseteq objects' \cup replaced, requests' \in Nat, faults' \in Nat,
         pc' \in [Workers -> Phases], req' \in [Workers -> Request \cup {None}],
         base' \in [Workers -> List],
         \A v \in Workers : pc'[v] # "idle" => req'[v] \in Request,
         \A v \in Workers \ {w} : pc'[v] = pc[v] /\ req'[v] = req[v] /\ base'[v] = base[v],
         Holds(w)'
  PROVE  Safe'
<1>1. TypeOK'
  BY DEF Safe, TypeOK
<1>2. \A v \in Workers : Holds(v)'
  BY OthersHold
<1>3. KeptUnlessReplaced'
  BY DEF Safe, KeptUnlessReplaced, Listed, ListedHandles
<1>4. WithinQuota(stored_objects)'
  BY DEF Safe
<1> QED
  BY <1>1, <1>2, <1>3, <1>4 DEF Safe

\* A request that arrives has nothing to keep.
LEMMA BeginSafe ==
  ASSUME Safe, NEW w \in Workers, NEW r \in Request, Begin(w, r)
  PROVE  Safe'
<1>1. Holds(w)'
  BY DEF Safe, TypeOK, Begin, Holds
<1>2. /\ pc' \in [Workers -> Phases] /\ req' \in [Workers -> Request \cup {None}]
      /\ base' \in [Workers -> List]
      /\ \A v \in Workers : pc'[v] # "idle" => req'[v] \in Request
      /\ \A v \in Workers \ {w} : pc'[v] = pc[v] /\ req'[v] = req[v] /\ base'[v] = base[v]
  BY DEF Safe, TypeOK, Begin, Phases
<1> QED
  BY <1>1, <1>2, SameList DEF Begin, Safe, TypeOK

\* What is accepted is within the quota.
LEMMA ReadStateSafe ==
  ASSUME Safe, NEW w \in Workers, ReadState(w)
  PROVE  Safe'
<1> DEFINE new == [stored_objects EXCEPT ![req[w].handle] = req[w].payload]
<1>1. TypeOK /\ pc[w] = "read" /\ UNCHANGED <<stored_objects, objects, replaced, requests, faults>>
  BY DEF Safe, ReadState
<1>2. CASE Accepts(req[w], stored_objects, new)
  <2>1. /\ pc' = [pc EXCEPT ![w] = "put_object"] /\ req' = req
        /\ base' = [base EXCEPT ![w] = stored_objects]
    BY <1>2 DEF ReadState
  <2>2. /\ pc' \in [Workers -> Phases] /\ base' \in [Workers -> List]
        /\ pc'[w] = "put_object" /\ base'[w] = stored_objects
        /\ \A v \in Workers : pc'[v] # "idle" => req'[v] \in Request
        /\ \A v \in Workers \ {w} : pc'[v] = pc[v] /\ req'[v] = req[v] /\ base'[v] = base[v]
    BY <1>1, <2>1 DEF TypeOK, Phases
  <2>3. Holds(w)'
    BY <1>2, <2>1, <2>2 DEF Holds, NewList
  <2> QED
    BY <1>1, <2>1, <2>2, <2>3, SameList DEF TypeOK
<1>3. CASE End(w)
  BY <1>1, <1>3, EndHolds, SameList DEF TypeOK
<1> QED
  BY <1>2, <1>3 DEF ReadState

\* Once it is put, the object stays unless it is replaced.
LEMMA PutObjectSafe ==
  ASSUME Safe, NEW w \in Workers, PutObject(w)
  PROVE  Safe'
<1>1. /\ TypeOK /\ pc[w] = "put_object" /\ UNCHANGED <<stored_objects, replaced, requests>>
      /\ req[w] \in Request
  BY DEF Safe, PutObject, TypeOK
<1>2. req[w].payload \in Payloads
  BY <1>1 DEF Request
<1>3. CASE /\ objects' = objects \cup {req[w].payload}
           /\ Go(w, "put_state")
           /\ UNCHANGED faults
  <2>1. Holds(w)'
    BY <1>1, <1>3, GoTypes DEF Safe, Holds, NewList, Phases
  <2> QED
    BY <1>1, <1>2, <1>3, <2>1, GoTypes, SameList DEF TypeOK, Phases
<1>4. CASE objects' \in {objects, objects \cup {req[w].payload}} /\ Error /\ End(w)
  <2>1. objects' \in SUBSET Payloads /\ objects \subseteq objects' /\ faults' \in Nat
    BY <1>1, <1>2, <1>4 DEF TypeOK, Error
  <2> QED
    BY <1>1, <1>4, <2>1, EndHolds, SameList DEF TypeOK
<1> QED
  BY <1>3, <1>4 DEF PutObject

\* The list that replaces another respects the quota, and what it adds is in
\* the store unless it was replaced meanwhile.
LEMMA ReplaceKeeps ==
  ASSUME Safe, NEW w \in Workers, pc[w] = "put_state", Replace(w), objects' = objects,
         pc' \in [Workers -> Phases], req' \in [Workers -> Request \cup {None}],
         base' \in [Workers -> List], requests' \in Nat, faults' \in Nat,
         \A v \in Workers : pc'[v] # "idle" => req'[v] \in Request,
         \A v \in Workers \ {w} : pc'[v] = pc[v] /\ req'[v] = req[v] /\ base'[v] = base[v],
         Holds(w)'
  PROVE  Safe'
<1>1. /\ TypeOK /\ req[w] \in Request /\ NewList(w) \in List
      /\ Existing(w) \in Payloads \cup {None}
      /\ stored_objects' = NewList(w) /\ replaced' = replaced \cup ({Existing(w)} \ {None})
      /\ Accepts(req[w], base[w], NewList(w)) /\ req[w].payload \in objects \cup replaced
      /\ stored_objects = base[w]
  BY NewListType DEF Safe, Replace, Holds, Matches
<1>2. TypeOK'
  BY <1>1 DEF TypeOK
<1>3. WithinQuota(stored_objects)'
  BY <1>1 DEF Accepts
<1>4. KeptUnlessReplaced'
  <2> SUFFICES ASSUME NEW h \in Handles, NewList(w)[h] # None, NewList(w)[h] \notin replaced
               PROVE  NewList(w)[h] \in objects
    BY <1>1 DEF KeptUnlessReplaced, Listed, ListedHandles
  <2>1. CASE h = req[w].handle
    BY <1>1, <2>1, NewListType
  <2>2. CASE h # req[w].handle
    <3>1. NewList(w)[h] = stored_objects[h]
      BY <1>1, <2>2, NewListType
    <3> QED
      BY <3>1 DEF Safe, KeptUnlessReplaced, Listed, ListedHandles
  <2> QED
    BY <2>1, <2>2
<1>5. \A v \in Workers : Holds(v)'
  BY <1>1, OthersHold
<1> QED
  BY <1>2, <1>3, <1>4, <1>5 DEF Safe

\* The list that replaces another was checked against that very list.
LEMMA PutStateSafe ==
  ASSUME Safe, NEW w \in Workers, PutState(w)
  PROVE  Safe'
<1>1. /\ TypeOK /\ pc[w] = "put_state" /\ UNCHANGED <<objects, requests>>
      /\ Existing(w) \in Payloads \cup {None}
  BY NewListType DEF Safe, PutState
<1>2. CASE Replace(w) /\ Existing(w) # None /\ Go(w, "delete") /\ UNCHANGED faults
  <2>1. Holds(w)'
    BY <1>1, <1>2, GoTypes DEF Safe, Holds, NewList, Existing, Replace, Phases
  <2> QED
    BY <1>1, <1>2, <2>1, GoTypes, ReplaceKeeps DEF TypeOK, Phases
<1>3. CASE Replace(w) /\ End(w) /\ (UNCHANGED faults \/ Error)
  <2>1. faults' \in Nat
    BY <1>1, <1>3 DEF TypeOK, Error
  <2> QED
    BY <1>1, <1>3, <2>1, EndHolds, ReplaceKeeps DEF TypeOK
<1>4. CASE End(w) /\ UNCHANGED <<stored_objects, replaced>> /\ (UNCHANGED faults \/ Error)
  <2>1. faults' \in Nat
    BY <1>1, <1>4 DEF TypeOK, Error
  <2> QED
    BY <1>1, <1>4, <2>1, EndHolds, SameList DEF TypeOK
<1> QED
  BY <1>2, <1>3, <1>4 DEF PutState, PleaseRetry

\* What is deleted has been replaced.
LEMMA DeleteOldSafe ==
  ASSUME Safe, NEW w \in Workers, DeleteOld(w)
  PROVE  Safe'
<1>1. /\ TypeOK /\ Existing(w) \in replaced /\ End(w)
      /\ UNCHANGED <<stored_objects, replaced, requests>>
  BY DEF Safe, DeleteOld, Holds
<1>2. /\ objects' \in SUBSET Payloads /\ objects \subseteq objects' \cup replaced
      /\ faults' \in Nat
  BY <1>1 DEF DeleteOld, TypeOK, Error
<1> QED
  BY <1>1, <1>2, EndHolds, SameList DEF TypeOK

\* Every step keeps the invariant ...
LEMMA SafeStep == Safe /\ [Next]_vars => Safe'
<1> SUFFICES ASSUME Safe, [Next]_vars PROVE Safe'
  OBVIOUS
<1>1. ASSUME NEW w \in Workers, Abort(w) PROVE Safe'
  BY <1>1, EndHolds, SameList DEF Abort, Safe, TypeOK
<1>2. CASE UNCHANGED vars
  BY <1>2 DEF vars, Safe, TypeOK, KeptUnlessReplaced, Listed, ListedHandles,
     Holds, NewList, Existing
<1>3. CASE Next
  BY <1>1, <1>3, BeginSafe, ReadStateSafe, PutObjectSafe, PutStateSafe, DeleteOldSafe DEF Next
<1> QED
  BY <1>2, <1>3

\* ... which therefore always holds.
LEMMA AlwaysSafe == Spec => []Safe
  BY SafeInit, SafeStep, PTL DEF Spec

-----------------------------------------------------------------------------
(* What follows from it.                                                   *)

\* Every variable keeps its type.
THEOREM TypeCorrect == Spec => []TypeOK
<1>1. Safe => TypeOK
  BY DEF Safe
<1> QED
  BY <1>1, AlwaysSafe, PTL

\* The quota holds for the list, whichever requests race to extend it.
THEOREM QuotaAlwaysRespected == Spec => []QuotaRespected
<1>1. Safe => QuotaRespected
  BY DEF Safe, QuotaRespected
<1> QED
  BY <1>1, AlwaysSafe, PTL

\* No object disappears that was never replaced, whatever fails.
THEOREM AlwaysKeptUnlessReplaced == Spec => []KeptUnlessReplaced
<1>1. Safe => KeptUnlessReplaced
  BY DEF Safe
<1> QED
  BY <1>1, AlwaysSafe, PTL

\* What changes in the list was named by the request that changes it, even if
\* others changed the list since it was read.
THEOREM AlwaysOverwritesNamed == Spec => OverwritesNamed
<1> DEFINE Named ==
      \A h \in Handles : stored_objects'[h] # stored_objects[h] =>
        \E w \in Workers : /\ req[w] # None /\ req[w].handle = h
                           /\ req[w].overwrite = stored_objects[h]
                           /\ req[w].payload = stored_objects'[h]
<1>1. ASSUME Safe, NEW w \in Workers, pc[w] = "put_state", Replace(w) PROVE Named
  <2> SUFFICES ASSUME NEW h \in Handles, stored_objects'[h] # stored_objects[h]
               PROVE  /\ req[w] # None /\ req[w].handle = h
                      /\ req[w].overwrite = stored_objects[h]
                      /\ req[w].payload = stored_objects'[h]
    OBVIOUS
  <2>1. /\ stored_objects' = NewList(w) /\ stored_objects = base[w]
        /\ Accepts(req[w], base[w], NewList(w))
    BY <1>1 DEF Safe, Replace, Matches, Holds
  <2>2. /\ NewList(w)[req[w].handle] = req[w].payload
        /\ \A g \in Handles : g # req[w].handle => NewList(w)[g] = base[w][g]
    BY <1>1, NewListType DEF Safe
  <2>3. req[w].handle = h /\ req[w].overwrite = stored_objects[h]
        /\ req[w].payload = stored_objects'[h]
    BY <2>1, <2>2 DEF Accepts
  <2>4. req[w] # None
    BY <1>1, NewListType, RequestAssumption DEF Safe
  <2> QED
    BY <2>3, <2>4
<1>2. Safe /\ [Next]_vars => Named
  <2> SUFFICES ASSUME Safe, [Next]_vars, stored_objects' # stored_objects PROVE Named
    OBVIOUS
  <2>1. PICK w \in Workers : PutState(w) /\ Replace(w)
    BY DEF Next, vars, Begin, ReadState, PutObject, PutState, DeleteOld, Abort
  <2> QED
    BY <1>1, <2>1 DEF PutState
<1>3. Named => (stored_objects' # stored_objects => Named)
  OBVIOUS
<1> QED
  BY <1>2, AlwaysSafe, PTL DEF Spec, OverwritesNamed

=============================================================================

--------------------------- MODULE TimelineProofs ---------------------------
(***************************************************************************)
(* Theorems about Timeline, for every history, window and limit: the types *)
(* of its state, that edits are shown once nothing is under way, and that  *)
(* the moderation of what is in view is never forgotten.                   *)
(***************************************************************************)
EXTENDS Timeline, SequenceTheorems, WellFoundedInduction, TLAPS

-----------------------------------------------------------------------------
(* Events.  Least and greatest ones.                                         *)

\* The history has a length.
LEMMA Length == Len(History) \in Nat /\ Events = 1 .. Len(History)
BY HistoryAssumption, LenProperties DEF Events

\* A set of naturals has a least element.
LEMMA LeastNat ==
  ASSUME NEW U \in SUBSET Nat, U # {}
  PROVE  \E b \in U : \A y \in U : b <= y
<1> DEFINE R == OpToRel(<, Nat)
<1>1. IsWellFoundedOn(R, Nat)
  BY NatLessThanWellFounded
<1>2. \A x, y \in Nat : y < x => <<y, x>> \in R
  BY DEF OpToRel
<1> HIDE DEF R
<1>3. PICK b \in U : \A y \in U : <<y, b>> \notin R
  BY <1>1, WFMin
<1>4. ASSUME NEW y \in U PROVE b <= y
  <2>1. ~(y < b)
    BY <1>2, <1>3
  <2> QED
    BY <2>1
<1> QED
  BY <1>4

\* Max and Min of what is bounded (FiniteSetsExt).
LEMMA MinFacts ==
  ASSUME NEW S \in SUBSET Nat, S # {}
  PROVE  Min(S) \in S /\ \A e \in S : Min(S) <= e
BY LeastNat DEF Min

LEMMA MaxFacts ==
  ASSUME NEW n \in Nat, NEW S \in SUBSET (0 .. n), S # {}
  PROVE  Max(S) \in S /\ \A e \in S : e <= Max(S)
<1> DEFINE T == {k \in 0 .. n : n - k \in S}
<1>1. PICK e \in S : TRUE
  OBVIOUS
<1>2. n - e \in T
  OBVIOUS
<1>3. T \in SUBSET Nat /\ T # {}
  BY <1>2
<1>4. \A k \in T : n - k \in S
  OBVIOUS
<1>5. \A f \in S : n - f \in T
  OBVIOUS
<1> HIDE DEF T
<1>6. PICK k \in T : \A y \in T : k <= y
  BY <1>3, LeastNat
<1>7. n - k \in S /\ \A f \in S : n - k >= f
  <2>1. k \in Nat
    BY <1>3
  <2>2. ASSUME NEW f \in S PROVE n - k >= f
    <3>1. k <= n - f
      BY <1>5, <1>6
    <3> QED
      BY <2>1, <3>1
  <2> QED
    BY <1>4, <2>2
<1> DEFINE m == Max(S)
<1>8. m \in S /\ \A f \in S : m >= f
  BY <1>7 DEF Max
<1> HIDE DEF m
<1>9. m \in S /\ \A f \in S : f <= m
  BY <1>8
<1> QED
  BY <1>9 DEF m

\* Newest is 0 or of the set, and the only such bound.
LEMMA NewestFacts ==
  ASSUME NEW n \in Nat, NEW S \in SUBSET (0 .. n)
  PROVE  /\ Newest(S) \in S \cup {0} /\ Newest(S) \in 0 .. n
         /\ \A e \in S : e <= Newest(S)
         /\ \A m \in S \cup {0} : (\A e \in S : e <= m) => m = Newest(S)
<1>1. CASE S = {}
  BY <1>1 DEF Newest
<1>2. CASE S # {}
  <2> DEFINE m == Max(S)
  <2>1. m \in S /\ \A e \in S : e <= m
    BY <1>2, MaxFacts
  <2>2. Newest(S) = m
    BY <1>2 DEF Newest
  <2> HIDE DEF m
  <2> QED
    BY <2>1, <2>2
<1> QED
  BY <1>1, <1>2

LEMMA OldestFacts ==
  ASSUME NEW S \in SUBSET Nat
  PROVE  Oldest(S) \in S \cup {0}
BY MinFacts DEF Oldest

\* What is put on record of an event is the latest of what was there and what came.
LEMMA RecordedSoFar ==
  ASSUME NEW n \in Nat, NEW R \in SUBSET (1 .. n), NEW S \in SUBSET (1 .. n), NEW kinds, NEW t
  PROVE  Newest({Newest(Of(kinds, t, R))} \cup Of(kinds, t, S)) = Newest(Of(kinds, t, R \cup S))
<1> DEFINE A == Of(kinds, t, R)
           B == Of(kinds, t, S)
           C == Of(kinds, t, R \cup S)
           a == Newest(A)
           m == Newest({a} \cup B)
<1>1. A \in SUBSET (1 .. n) /\ B \in SUBSET (1 .. n) /\ C = A \cup B
  BY DEF Of
<1> HIDE DEF A, B, C
<1>2. A \in SUBSET (0 .. n) /\ a \in A \cup {0} /\ a \in 0 .. n /\ \A e \in A : e <= a
  BY <1>1, NewestFacts
<1> HIDE DEF a
<1>3. {a} \cup B \in SUBSET (0 .. n)
  BY <1>1, <1>2
<1>4. m \in {a} \cup B \cup {0} /\ \A e \in {a} \cup B : e <= m
  BY <1>3, NewestFacts
<1> HIDE DEF m
<1>5. C \in SUBSET (0 .. n)
  BY <1>1
<1>6. \A e \in A : e <= m
  <2> SUFFICES ASSUME NEW e \in A PROVE e <= m
    OBVIOUS
  <2>1. e <= a /\ a <= m /\ e \in Nat /\ a \in Nat
    BY <1>1, <1>2, <1>4
  <2>2. m \in Nat
    BY <1>3, <1>4
  <2> QED
    BY <2>1, <2>2
<1>7. m \in C \cup {0} /\ \A e \in C : e <= m
  BY <1>1, <1>2, <1>4, <1>6
<1>8. m = Newest(C)
  BY <1>5, <1>7, NewestFacts
<1> QED
  BY <1>8 DEF m, a, C, A, B

-----------------------------------------------------------------------------
(* The invariant.                                                            *)

PageState == [open : BOOLEAN, cursor : 0 .. Len(History) + 1, rounds : 0 .. MaxIterations,
              got : SUBSET Events]
LoadState == [pc : {"idle", "context", "pages", "stuck"}, at : 0 .. Len(History),
              skip : SUBSET Events, page : [Dirs -> PageState]]
Records == [Events -> 0 .. Len(History)]

\* What a request collected was sent and can be shown; a loop that is open has
\* rounds left; and the event that is jumped to was sent.
Fits(l, v) ==
  /\ v \in LoadState /\ v.at \in 0 .. sent
  /\ l \in {"jump", "arrival"} /\ v.pc \in {"context", "pages"} => v.at # 0
  /\ \A d \in Dirs : /\ v.page[d].got \subseteq Visible(1 .. sent)
                     /\ v.page[d].open => v.page[d].rounds < MaxIterations

LoadsInv == load \in [Loads -> LoadState] /\ \A l \in Loads : Fits(l, load[l])

StateInv ==
  /\ sent \in 0 .. Len(History) /\ synced \in 0 .. sent /\ opened \in BOOLEAN
  /\ loaded \subseteq Visible(1 .. sent)
  /\ first \in 0 .. sent /\ last \in 0 .. sent
  /\ edit \in Records /\ shown \in Records /\ hide \in Records
  /\ received \subseteq 1 .. sent
  /\ jumps \in 0 .. MaxJumps /\ faults \in 0 .. MaxFaults

\* The edit on record is the latest of those received, and what is loaded shows
\* it unless something is under way, or a request failed.
EditInv == \A t \in Events : edit[t] = Newest(Of({"edit"}, t, received))
ShownInv ==
  faults = 0 => /\ \A l \in Loads : load[l].pc # "stuck"
                /\ Quiet => \A t \in loaded : shown[t] = edit[t]

TimelineInv == StateInv /\ LoadsInv /\ EditInv /\ ShownInv

Moderated == \A t \in loaded \cap loaded' : hide'[t] >= hide[t]

LEMMA InvTypes == TimelineInv => TypeOK
<1> SUFFICES ASSUME TimelineInv PROVE TypeOK
  OBVIOUS
<1>1. \A e \in loaded : e \in 1 .. sent /\ History[e].kind = "text"
  BY DEF TimelineInv, StateInv, Visible
<1> QED
  BY <1>1 DEF TimelineInv, StateInv, LoadsInv, TypeOK, LoadState, PageState, Records

LEMMA InvShown == TimelineInv => EditsShown
<1> SUFFICES ASSUME TimelineInv, Quiet, faults = 0, NEW t \in loaded
             PROVE  shown[t] = Newest(Of({"edit"}, t, received))
  BY DEF EditsShown
<1>1. t \in Events
  BY Length DEF TimelineInv, StateInv, Visible
<1> QED
  BY <1>1 DEF TimelineInv, ShownInv, EditInv

-----------------------------------------------------------------------------
(* What the operators keep to.                                               *)

\* What was sent and can be shown are events, and grow with what is sent.
LEMMA VisibleFacts ==
  ASSUME NEW n \in 0 .. Len(History), NEW S \in SUBSET (1 .. n)
  PROVE  /\ Visible(1 .. n) \in SUBSET (1 .. n) /\ Visible(S) \in SUBSET Visible(1 .. n)
         /\ 1 .. n \subseteq Events
         /\ \A m \in n .. Len(History) : Visible(1 .. n) \subseteq Visible(1 .. m)
<1>1. \A m \in n .. Len(History) : 1 .. n \subseteq 1 .. m /\ 1 .. n \subseteq Events
  BY Length
<1>2. 1 .. n \subseteq Events
  BY Length
<1> QED
  BY <1>1, <1>2 DEF Visible

LEMMA NotedFacts ==
  ASSUME NEW record \in Records, NEW kinds, NEW S \in SUBSET Events
  PROVE  /\ Noted(record, kinds, S) \in Records
         /\ \A t \in Events : Noted(record, kinds, S)[t] >= record[t]
<1> SUFFICES ASSUME NEW t \in Events
             PROVE  /\ Newest({record[t]} \cup Of(kinds, t, S)) \in 0 .. Len(History)
                    /\ Newest({record[t]} \cup Of(kinds, t, S)) >= record[t]
  BY DEF Noted, Records
<1> DEFINE T == {record[t]} \cup Of(kinds, t, S)
<1>1. record[t] \in 0 .. Len(History) /\ Of(kinds, t, S) \in SUBSET Events
  BY DEF Records, Of
<1>2. T \in SUBSET (0 .. Len(History)) /\ record[t] \in T
  BY <1>1, Length
<1> HIDE DEF T
<1>3. Newest(T) \in 0 .. Len(History) /\ record[t] <= Newest(T)
  BY <1>2, Length, NewestFacts
<1>4. record[t] \in Int /\ Newest(T) \in Int
  BY <1>1, <1>3, Length
<1> QED
  BY <1>3, <1>4 DEF T

LEMMA KeptFacts ==
  ASSUME NEW record \in Records, NEW S
  PROVE  /\ Kept(record, S) \in Records /\ Applied(record, S) \in Records
         /\ \A t \in Events \cap S : Kept(record, S)[t] = record[t] /\ Applied(record, S)[t] = record[t]
BY Length DEF Kept, Applied, Records

LEMMA ListFacts ==
  ASSUME NEW old, NEW new
  PROVE  EnsureListLength(old, new) \subseteq old \cup new /\ new \subseteq EnsureListLength(old, new)
<1>1. \A n, S : SliceEnd(n, S) \subseteq S /\ SliceStart(n, S) \subseteq S /\ Behind(n, S) \subseteq S
  BY DEF SliceEnd, SliceStart, Behind, Latest
<1> DEFINE room == Max({0, Window - Cardinality(new)})
           common == old \cap new
           rest == old \ new
           kept == IF common = {} THEN SliceEnd(room, old)
                   ELSE IF IndexIn(old, Min(common)) > 0
                        THEN SliceEnd(room, SliceStart(IndexIn(old, Min(common)), rest))
                        ELSE SliceStart(room, Behind(IndexIn(old, Max(common)) + 1, rest))
<1>2. EnsureListLength(old, new) = new \cup kept
  BY DEF EnsureListLength
<1>3. kept \subseteq old
  <2>1. SliceEnd(room, old) \subseteq old
    BY <1>1
  <2>2. SliceEnd(room, SliceStart(IndexIn(old, Min(common)), rest)) \subseteq old
    BY <1>1
  <2>3. SliceStart(room, Behind(IndexIn(old, Max(common)) + 1, rest)) \subseteq old
    BY <1>1
  <2> HIDE DEF room, common, rest
  <2> QED
    BY <2>1, <2>2, <2>3
<1> HIDE DEF kept
<1> QED
  BY <1>2, <1>3

\* Requests as they are begun.
LEMMA FreshLoads ==
  ASSUME NEW n \in 0 .. Len(History) + 1, NEW m \in 0 .. Len(History) + 1
  PROVE  /\ NoLoad \in LoadState /\ NoLoad.at = 0 /\ NoLoad.pc = "idle"
         /\ \A d \in Dirs : NoLoad.page[d] = Closed
         /\ \A a \in {Closed, Paging(n)}, b \in {Closed, Paging(m)} :
              /\ Loading(a, b) \in LoadState /\ Loading(a, b).at = 0 /\ Loading(a, b).pc = "pages"
              /\ \A d \in Dirs : Loading(a, b).page[d] \in {a, b}
         /\ \A p \in {Closed, Paging(n), Paging(m)} : p.got = {} /\ (p.open => p.rounds < MaxIterations)
<1>1. 0 < MaxIterations /\ MaxIterations \in Nat
  BY LimitsAssumption
<1>2. \A p \in {Closed, Paging(n), Paging(m)} :
        p \in PageState /\ p.got = {} /\ (p.open => p.rounds < MaxIterations)
  <2>1. Closed \in PageState /\ Closed.got = {} /\ Closed.open = FALSE
    BY <1>1, Length DEF Closed, PageState
  <2>2. \A k \in 0 .. Len(History) + 1 :
          Paging(k) \in PageState /\ Paging(k).got = {} /\ Paging(k).rounds = 0
    BY <1>1, Length DEF Paging, PageState
  <2> QED
    BY <1>1, <2>1, <2>2
<1>3. \A a, b \in PageState :
        /\ Loading(a, b) \in LoadState /\ Loading(a, b).at = 0 /\ Loading(a, b).pc = "pages"
        /\ \A d \in Dirs : Loading(a, b).page[d] \in {a, b}
  BY Length DEF Loading, LoadState, Dirs
<1>4. /\ NoLoad \in LoadState /\ NoLoad.at = 0 /\ NoLoad.pc = "idle"
      /\ \A d \in Dirs : NoLoad.page[d] = Closed
  BY <1>2, Length DEF NoLoad, Loading, LoadState, Dirs
<1> QED
  BY <1>2, <1>3, <1>4

-----------------------------------------------------------------------------
(* What the steps have in common.                                            *)

LEMMA SetLoad ==
  ASSUME LoadsInv, UNCHANGED sent, NEW l \in Loads, NEW v, Fits(l, v),
         load' = [load EXCEPT ![l] = v]
  PROVE  /\ LoadsInv'
         /\ load'[l] = v /\ \A k \in Loads \ {l} : load'[k] = load[k]
<1>1. v \in LoadState
  BY DEF Fits
<1>2. /\ load' \in [Loads -> LoadState]
      /\ load'[l] = v /\ \A k \in Loads \ {l} : load'[k] = load[k]
  BY <1>1 DEF LoadsInv
<1>3. \A k \in Loads : Fits(k, load'[k])
  BY <1>2 DEF LoadsInv
<1> QED
  BY <1>2, <1>3 DEF LoadsInv, Fits, Visible

LEMMA SameLoads ==
  ASSUME LoadsInv, UNCHANGED <<sent, load>>
  PROVE  LoadsInv'
BY DEF LoadsInv, Fits

\* The events of S are received and put on record.
LEMMA Recorded ==
  ASSUME TimelineInv, NEW S \in SUBSET (1 .. sent), UNCHANGED sent,
         edit' = NotedEdits(S), received' = received \cup S
  PROVE  edit' \in Records /\ received' \subseteq 1 .. sent /\ EditInv'
<1>1. sent \in Nat /\ S \in SUBSET Events /\ received \in SUBSET (1 .. sent)
  BY Length, VisibleFacts DEF TimelineInv, StateInv
<1>2. edit' \in Records
  BY <1>1, NotedFacts DEF NotedEdits, TimelineInv, StateInv
<1>3. \A t \in Events : edit'[t] = Newest(Of({"edit"}, t, received'))
  <2> SUFFICES ASSUME NEW t \in Events
               PROVE  edit'[t] = Newest(Of({"edit"}, t, received \cup S))
    OBVIOUS
  <2>1. edit'[t] = Newest({edit[t]} \cup Of({"edit"}, t, S))
    BY DEF NotedEdits, Noted
  <2>2. edit[t] = Newest(Of({"edit"}, t, received))
    BY DEF TimelineInv, EditInv
  <2> QED
    BY <1>1, <2>1, <2>2, RecordedSoFar
<1>4. EditInv'
  BY <1>3 DEF EditInv, Newest, Of, Events
<1> QED
  BY <1>1, <1>2, <1>4

\* What (un)hides an event is only replaced by what came later.
LEMMA NotedModeration ==
  ASSUME TimelineInv, NEW S \in SUBSET (1 .. sent)
  PROVE  NotedHides(S) \in Records /\ \A t \in loaded : t \in Events /\ NotedHides(S)[t] >= hide[t]
<1>1. S \in SUBSET Events /\ loaded \subseteq Events
  BY VisibleFacts DEF TimelineInv, StateInv
<1> QED
  BY <1>1, NotedFacts DEF NotedHides, TimelineInv, StateInv

LEMMA Committed ==
  ASSUME TimelineInv, UNCHANGED sent, NEW new \in SUBSET Visible(1 .. sent),
         NEW S \in SUBSET (1 .. sent), Commit(new, S)
  PROVE  /\ loaded' \subseteq Visible(1 .. sent) /\ new \subseteq loaded'
         /\ edit' \in Records /\ hide' \in Records /\ shown' \in Records
         /\ received' \subseteq 1 .. sent /\ EditInv' /\ Moderated
         /\ \A t \in loaded' : shown'[t] = edit'[t]
<1>1. /\ loaded' = EnsureListLength(loaded, new)
      /\ edit' = NotedEdits(S) /\ received' = received \cup S
      /\ hide' = Kept(NotedHides(S), loaded') /\ shown' = Applied(NotedEdits(S), loaded')
  BY DEF Commit
<1>2. loaded' \subseteq Visible(1 .. sent) /\ new \subseteq loaded'
  BY <1>1, ListFacts DEF TimelineInv, StateInv
<1>3. edit' \in Records /\ received' \subseteq 1 .. sent /\ EditInv'
  BY <1>1, Recorded
<1>4. NotedHides(S) \in Records /\ \A t \in loaded : t \in Events /\ NotedHides(S)[t] >= hide[t]
  BY NotedModeration
<1>5. loaded' \subseteq Events
  BY <1>2, VisibleFacts DEF TimelineInv, StateInv
<1>6. hide' \in Records /\ \A t \in loaded' : hide'[t] = NotedHides(S)[t]
  BY <1>1, <1>4, <1>5, KeptFacts
<1>7. shown' \in Records /\ \A t \in loaded' : shown'[t] = edit'[t]
  BY <1>1, <1>3, <1>5, KeptFacts
<1>8. Moderated
  BY <1>4, <1>6 DEF Moderated
<1> QED
  BY <1>2, <1>3, <1>6, <1>7, <1>8

\* Nothing that is in view, on record or received changes.
LEMMA NothingSeen ==
  ASSUME TimelineInv, UNCHANGED <<loaded, first, last, edit, shown, hide, received>>,
         sent' \in sent .. Len(History), synced' = synced, opened' \in BOOLEAN,
         jumps' \in 0 .. MaxJumps, faults' \in 0 .. MaxFaults, LoadsInv', ShownInv'
  PROVE  TimelineInv' /\ Moderated
<1>1. Visible(1 .. sent) \subseteq Visible(1 .. sent')
  BY VisibleFacts DEF TimelineInv, StateInv
<1>2. StateInv'
  <2>1. sent \in Nat /\ sent' \in Nat /\ sent' <= Len(History) /\ sent <= sent'
    BY Length DEF TimelineInv, StateInv
  <2>2. synced' \in 0 .. sent' /\ first' \in 0 .. sent' /\ last' \in 0 .. sent' /\ received' \subseteq 1 .. sent'
    BY <2>1 DEF TimelineInv, StateInv
  <2>3. loaded' \subseteq Visible(1 .. sent)'
    BY <1>1 DEF TimelineInv, StateInv, Visible
  <2> QED
    BY <2>1, <2>2, <2>3 DEF TimelineInv, StateInv, Records, Events
<1>3. EditInv'
  BY DEF TimelineInv, EditInv, Of, Newest, Events
<1>4. \A t \in loaded : hide[t] \in Int
  BY VisibleFacts, Length DEF TimelineInv, StateInv, Records
<1>5. Moderated
  BY <1>4 DEF Moderated
<1> QED
  BY <1>2, <1>3, <1>5 DEF TimelineInv

-----------------------------------------------------------------------------
(* The steps.                                                                *)

LEMMA TimelineStart == Init => TimelineInv
<1> SUFFICES ASSUME Init PROVE TimelineInv
  OBVIOUS
<1>1. Early \in 1 .. Len(History) /\ MaxJumps \in Nat /\ MaxFaults \in Nat
  BY LimitsAssumption
<1>2. StateInv
  <2>1. Len(History) \in Nat /\ Early \in Nat
    BY <1>1, Length
  <2>2. sent \in 0 .. Len(History) /\ synced \in 0 .. sent /\ first \in 0 .. sent /\ last \in 0 .. sent
    BY <1>1, <2>1 DEF Init
  <2>3. edit \in Records /\ shown \in Records /\ hide \in Records
    BY <2>1 DEF Init, Records
  <2>4. /\ jumps \in 0 .. MaxJumps /\ faults \in 0 .. MaxFaults
        /\ opened \in BOOLEAN
    <3>1. jumps = 0 /\ faults = 0 /\ opened = FALSE
      BY Zenon DEF Init
    <3>2. 0 \in 0 .. MaxJumps /\ 0 \in 0 .. MaxFaults
      BY <1>1
    <3> QED
      BY <3>1, <3>2, Zenon
  <2>5. loaded \subseteq Visible(1 .. sent) /\ received \subseteq 1 .. sent
    BY DEF Init
  <2> QED
    BY <2>2, <2>3, <2>4, <2>5 DEF StateInv
<1>3. LoadsInv
  <2>1. 0 \in 0 .. Len(History) + 1 /\ 0 \in 0 .. sent
    BY <1>1, Length DEF Init
  <2>2. \A l \in Loads : Fits(l, NoLoad)
    BY <2>1, FreshLoads DEF Fits
  <2> QED
    BY <2>1, <2>2, FreshLoads DEF Init, LoadsInv
<1>4. EditInv
  <2>1. \A t \in Events : Of({"edit"}, t, received) = {}
    BY DEF Init, Of
  <2> QED
    BY <2>1 DEF Init, EditInv, Newest
<1>5. ShownInv
  <2>1. \A l \in Loads : load[l].pc = "idle"
    BY FreshLoads, <1>1, Length DEF Init
  <2> QED
    BY <2>1 DEF Init, ShownInv
<1> QED
  BY <1>2, <1>3, <1>4, <1>5 DEF TimelineInv

\* A request is begun: it is the first of a load, which is under way from then on.
LEMMA AskFacts ==
  ASSUME TimelineInv, UNCHANGED <<sent, faults>>, NEW l \in Loads, NEW e \in 0 .. sent,
         l \in {"jump", "arrival"} => e # 0, Ask(l, e)
  PROVE  LoadsInv' /\ ShownInv'
<1> DEFINE v == [NoLoad EXCEPT !.pc = "context", !.at = e]
<1>1. load' = [load EXCEPT ![l] = v]
  BY DEF Ask
<1>2. sent \in 0 .. Len(History) /\ sent \in Nat /\ 0 \in 0 .. Len(History) + 1
  BY Length DEF TimelineInv, StateInv
<1>3. e \in 0 .. Len(History)
  BY <1>2, Length
<1>4. NoLoad \in LoadState /\ \A d \in Dirs : NoLoad.page[d].got = {} /\ ~NoLoad.page[d].open
  BY <1>2, FreshLoads DEF Closed
<1>5. v \in LoadState /\ v.at = e /\ v.pc = "context" /\ v.page = NoLoad.page
  BY <1>3, <1>4 DEF LoadState
<1> HIDE DEF v
<1>6. Fits(l, v)
  BY <1>4, <1>5 DEF Fits
<1>7. LoadsInv' /\ load'[l] = v /\ \A k \in Loads \ {l} : load'[k] = load[k]
  BY <1>1, <1>6, SetLoad DEF TimelineInv
<1>8. ShownInv'
  BY <1>5, <1>7 DEF TimelineInv, ShownInv, Quiet
<1> QED
  BY <1>7, <1>8

LEMMA ScrollStep ==
  ASSUME TimelineInv, LoadPrevious \/ LoadNext \/ \E e \in Events : ScrollToEvent(e)
  PROVE  TimelineInv' /\ Moderated
<1>1. loaded \in SUBSET (1 .. sent) /\ sent \in Nat /\ sent \in sent .. Len(History)
  BY Length, VisibleFacts DEF TimelineInv, StateInv
<1>2. ASSUME LoadPrevious PROVE LoadsInv' /\ ShownInv'
  <2>1. Min(loaded) \in 0 .. sent
    BY <1>1, <1>2, MinFacts DEF LoadPrevious
  <2> QED
    BY <1>2, <2>1, AskFacts DEF LoadPrevious, Loads
<1>3. ASSUME LoadNext PROVE LoadsInv' /\ ShownInv'
  <2>1. Max(loaded) \in 0 .. sent
    <3>1. loaded \in SUBSET (0 .. sent) /\ loaded # {}
      BY <1>1, <1>3 DEF LoadNext
    <3>2. Max(loaded) \in loaded
      BY <1>1, <3>1, MaxFacts
    <3> QED
      BY <3>1, <3>2
  <2> QED
    BY <1>3, <2>1, AskFacts DEF LoadNext, Loads
<1>4. ASSUME NEW e \in Events, ScrollToEvent(e) PROVE LoadsInv' /\ ShownInv'
  <2>1. e \in 0 .. sent /\ e # 0
    BY <1>1, <1>4, Length DEF ScrollToEvent
  <2> QED
    BY <1>4, <2>1, AskFacts DEF ScrollToEvent, Loads
<1>5. /\ UNCHANGED <<sent, synced, opened, loaded, first, last, edit, shown, hide, received, faults>>
      /\ jumps' = jumps \/ (jumps < MaxJumps /\ jumps' = jumps + 1)
  BY DEF LoadPrevious, LoadNext, ScrollToEvent
<1>6. jumps' \in 0 .. MaxJumps
  BY SMTT(30), <1>5, LimitsAssumption DEF TimelineInv, StateInv
<1>7. LoadsInv' /\ ShownInv'
  BY <1>2, <1>3, <1>4
<1> QED
  BY <1>1, <1>5, <1>6, <1>7, NothingSeen DEF TimelineInv, StateInv

\* Somebody sends an event; the room is left and opened again.
LEMMA RoomStep ==
  ASSUME TimelineInv, Send \/ Return \/ Leave
  PROVE  TimelineInv' /\ Moderated
<1>1. sent \in Nat /\ sent \in 0 .. Len(History)
  BY Length DEF TimelineInv, StateInv
<1>2. UNCHANGED <<synced, loaded, first, last, edit, shown, hide, received, jumps, faults>>
  BY DEF Send, Return, Leave
<1>3. sent' \in sent .. Len(History) /\ opened' \in BOOLEAN
  <2>1. Len(History) \in Nat /\ sent \in sent .. Len(History)
    BY <1>1, Length
  <2>2. CASE Send
    BY <1>1, <2>1, <2>2 DEF Send, TimelineInv, StateInv
  <2>3. CASE Return \/ Leave
    BY <2>1, <2>3 DEF Return, Leave
  <2> QED
    BY <2>2, <2>3
<1>4. CASE Send
  <2>1. load' = load /\ sent' \in Nat /\ sent <= sent'
    BY <1>1, <1>4 DEF Send
  <2>2. Visible(1 .. sent) \subseteq Visible(1 .. sent')
    BY <1>1, <1>3, VisibleFacts
  <2>3. LoadsInv'
    <3>1. \A l \in Loads : load[l].at \in 0 .. sent'
      BY <1>1, <2>1 DEF TimelineInv, LoadsInv, Fits
    <3>2. \A l \in Loads : \A d \in Dirs : load[l].page[d].got \subseteq Visible(1 .. sent')
      BY <2>2 DEF TimelineInv, LoadsInv, Fits
    <3> QED
      BY <2>1, <3>1, <3>2 DEF TimelineInv, LoadsInv, Fits, Visible
  <2>4. ShownInv'
    BY <1>2, <2>1 DEF TimelineInv, ShownInv, Quiet
  <2> QED
    BY <1>2, <1>3, <2>3, <2>4, NothingSeen DEF TimelineInv, StateInv
<1>5. CASE Return
  <2>1. LoadsInv' /\ ShownInv'
    BY <1>2, <1>5, SameLoads DEF Return, TimelineInv, ShownInv, Quiet
  <2> QED
    BY <1>2, <1>3, <2>1, NothingSeen DEF TimelineInv, StateInv
<1>6. CASE Leave
  <2>1. /\ sent' = sent
        /\ load' = [l \in Loads |-> IF load[l].pc = "stuck" THEN NoLoad ELSE load[l]]
    BY <1>6 DEF Leave
  <2>2. \A l \in Loads : Fits(l, NoLoad)
    <3>1. 0 \in 0 .. Len(History) + 1 /\ 0 \in 0 .. sent
      BY <1>1, Length
    <3> QED
      BY <3>1, FreshLoads DEF Fits, Closed
  <2>3. LoadsInv'
    <3>1. \A l \in Loads : Fits(l, load'[l]) /\ load'[l] \in LoadState
      BY <2>1, <2>2 DEF TimelineInv, LoadsInv, Fits
    <3> QED
      BY <2>1, <3>1 DEF LoadsInv, Fits, Visible
  <2>4. ShownInv'
    <3> SUFFICES ASSUME faults' = 0
                 PROVE  /\ \A l \in Loads : load'[l].pc # "stuck"
                        /\ Quiet' => \A t \in loaded' : shown'[t] = edit'[t]
      BY DEF ShownInv
    <3>1. \A l \in Loads : load'[l] = load[l]
      BY <1>2, <2>1 DEF TimelineInv, ShownInv
    <3> QED
      BY <1>2, <3>1 DEF TimelineInv, ShownInv, Quiet
  <2> QED
    BY <1>2, <1>3, <2>3, <2>4, NothingSeen DEF TimelineInv, StateInv
<1> QED
  BY <1>4, <1>5, <1>6

LEMMA FailStep ==
  ASSUME TimelineInv, NEW l \in Loads, RequestFails(l)
  PROVE  TimelineInv' /\ Moderated
<1> DEFINE v == IF l \in {"previous", "next"} THEN [NoLoad EXCEPT !.pc = "stuck"] ELSE NoLoad
<1>1. /\ UNCHANGED <<sent, synced, opened, loaded, first, last, edit, shown, hide, received, jumps>>
      /\ faults < MaxFaults /\ faults' = faults + 1 /\ load' = [load EXCEPT ![l] = v]
  BY DEF RequestFails
<1>2. sent \in Nat /\ sent \in sent .. Len(History) /\ 0 \in 0 .. Len(History) + 1
  BY Length DEF TimelineInv, StateInv
<1>3. faults' \in 0 .. MaxFaults /\ faults' # 0
  BY SMTT(30), <1>1, LimitsAssumption DEF TimelineInv, StateInv
<1>4. /\ NoLoad \in LoadState /\ NoLoad.at = 0 /\ NoLoad.pc = "idle"
      /\ \A d \in Dirs : NoLoad.page[d].got = {} /\ ~NoLoad.page[d].open
  BY <1>2, FreshLoads DEF Closed
<1>5. v \in LoadState /\ v.at = 0 /\ v.page = NoLoad.page /\ v.pc \in {"idle", "stuck"}
  BY <1>4 DEF LoadState
<1> HIDE DEF v
<1>6. Fits(l, v)
  BY <1>2, <1>4, <1>5 DEF Fits
<1>7. LoadsInv'
  BY <1>1, <1>6, SetLoad DEF TimelineInv
<1>8. ShownInv'
  BY <1>3 DEF ShownInv
<1> QED
  BY <1>1, <1>2, <1>3, <1>7, <1>8, NothingSeen DEF TimelineInv, StateInv

-----------------------------------------------------------------------------
(* Steps that bring events.                                                  *)

\* What sliding sync has of a room, and what a request returns, was sent.
LEMMA WereSent ==
  ASSUME TimelineInv
  PROVE  /\ InSdk \in SUBSET (1 .. sent) /\ Arriving \in SUBSET (1 .. sent)
         /\ \A d, c, n : Chunk(d, c, n) \in SUBSET (1 .. sent)
         /\ \A l \in Loads : Collected(l) \in SUBSET Visible(1 .. sent)
<1>1. sent \in Nat /\ synced \in Nat
  BY Length DEF TimelineInv, StateInv
<1>2. synced + 1 .. sent \subseteq 1 .. sent
  BY <1>1
<1>3. \A n, S : Latest(n, S) \subseteq S
  BY DEF Latest
<1>4. InSdk \in SUBSET (1 .. sent)
  BY <1>3 DEF InSdk
<1>5. Arriving \in SUBSET (1 .. sent)
  BY <1>2, <1>3 DEF Arriving
<1>6. \A d, c, n : Chunk(d, c, n) \in SUBSET (1 .. sent)
  BY DEF Chunk
<1>7. \A l \in Loads : Collected(l) \in SUBSET Visible(1 .. sent)
  BY DEF Collected, TimelineInv, LoadsInv, Fits, Dirs
<1> QED
  BY <1>4, <1>5, <1>6, <1>7

LEMMA NewestSent ==
  ASSUME TimelineInv, NEW S \in SUBSET (1 .. sent)
  PROVE  /\ Newest(S) \in 0 .. sent /\ Oldest(S) \in 0 .. sent
         /\ S # {} => Max(S) \in S /\ Min(S) \in S
<1>1. sent \in Nat /\ S \in SUBSET (0 .. sent) /\ S \in SUBSET Nat
  BY Length DEF TimelineInv, StateInv
<1>2. S # {} => Max(S) \in S
  BY <1>1, MaxFacts
<1>3. S # {} => Min(S) \in S
  BY <1>1, MinFacts
<1>4. Newest(S) \in 0 .. sent
  BY <1>1, NewestFacts
<1>5. Oldest(S) \in 0 .. sent
  <2>1. Oldest(S) \in S \cup {0} /\ 0 \in 0 .. sent
    BY <1>1, OldestFacts
  <2> QED
    BY <1>1, <2>1
<1> QED
  BY <1>2, <1>3, <1>4, <1>5

\* What a step that brings events leaves to be shown of it.
LEMMA Brought ==
  ASSUME TimelineInv, UNCHANGED <<sent, jumps, faults>>,
         synced' \in 0 .. sent, opened' \in BOOLEAN, loaded' \subseteq Visible(1 .. sent),
         first' \in 0 .. sent, last' \in 0 .. sent,
         edit' \in Records, shown' \in Records, hide' \in Records,
         received' \subseteq 1 .. sent
  PROVE  StateInv'
<1>1. loaded' \subseteq Visible(1 .. sent)'
  BY DEF Visible
<1> QED
  BY <1>1 DEF TimelineInv, StateInv, Records, Events

\* Of requests that go on or end: what is loaded shows the edits on record.
LEMMA ShownOn ==
  ASSUME TimelineInv, UNCHANGED faults,
         \A k \in Loads : load'[k].pc = load[k].pc \/ load'[k].pc # "stuck",
         \/ \A t \in loaded' : shown'[t] = edit'[t]
         \/ \E k \in Loads : load'[k].pc # "idle"
  PROVE  ShownInv'
BY DEF TimelineInv, ShownInv, Quiet

LEMMA SeedStep ==
  ASSUME TimelineInv, SeedFromLiveTimeline
  PROVE  TimelineInv' /\ Moderated
<1> DEFINE new == Visible(InSdk)
<1>1. UNCHANGED <<sent, synced, first, load, jumps, faults>> /\ opened' = TRUE
      /\ last' = Max(loaded') /\ Commit(new, InSdk) /\ new # {}
  BY DEF SeedFromLiveTimeline
<1>2. InSdk \in SUBSET (1 .. sent) /\ new \in SUBSET Visible(1 .. sent)
  BY WereSent, VisibleFacts DEF TimelineInv, StateInv
<1> HIDE DEF new
<1>3. /\ loaded' \subseteq Visible(1 .. sent) /\ new \subseteq loaded'
      /\ edit' \in Records /\ hide' \in Records /\ shown' \in Records
      /\ received' \subseteq 1 .. sent /\ EditInv' /\ Moderated
      /\ \A t \in loaded' : shown'[t] = edit'[t]
  BY <1>1, <1>2, Committed
<1>4. loaded' \in SUBSET (1 .. sent) /\ loaded' # {}
  BY <1>1, <1>3 DEF Visible
<1>5. last' \in 0 .. sent
  <2>1. Max(loaded') \in loaded'
    BY <1>4, NewestSent
  <2>2. last' \in 1 .. sent
    BY <1>1, <1>4, <2>1
  <2> QED
    BY <2>2
<1>6. LoadsInv'
  BY <1>1, SameLoads DEF TimelineInv
<1>7. StateInv'
  BY <1>1, <1>3, <1>5, Brought DEF TimelineInv, StateInv
<1>8. ShownInv'
  BY <1>1, <1>3, ShownOn
<1> QED
  BY <1>3, <1>6, <1>7, <1>8 DEF TimelineInv

LEMMA LatestStep ==
  ASSUME TimelineInv, LoadLatestTimeline
  PROVE  TimelineInv' /\ Moderated
<1> DEFINE v == Loading(Paging(sent + 1), Closed)
<1>1. /\ UNCHANGED <<sent, synced, loaded, first, last, shown, jumps, faults>> /\ opened' = TRUE
      /\ loaded = {} /\ load' = [load EXCEPT !["initial"] = v]
      /\ edit' = NotedEdits(InSdk) /\ hide' = NotedHides(InSdk) /\ received' = received \cup InSdk
  BY DEF LoadLatestTimeline
<1>2. InSdk \in SUBSET (1 .. sent) /\ "initial" \in Loads
  BY WereSent DEF Loads
<1>3. edit' \in Records /\ received' \subseteq 1 .. sent /\ EditInv' /\ hide' \in Records
  BY <1>1, <1>2, Recorded, NotedModeration
<1>4. sent + 1 \in 0 .. Len(History) + 1 /\ 0 \in 0 .. sent
  BY Length DEF TimelineInv, StateInv
<1>5. v \in LoadState /\ v.at = 0 /\ v.pc = "pages" /\ \A d \in Dirs : v.page[d] \in {Paging(sent + 1), Closed}
  BY <1>4, FreshLoads
<1>6. \A p \in {Paging(sent + 1), Closed} : p.got = {} /\ (p.open => p.rounds < MaxIterations)
  BY <1>4, FreshLoads
<1> HIDE DEF v
<1>7. Fits("initial", v)
  BY <1>4, <1>5, <1>6 DEF Fits
<1>8. LoadsInv' /\ load'["initial"] = v /\ \A k \in Loads \ {"initial"} : load'[k] = load[k]
  BY <1>1, <1>2, <1>7, SetLoad DEF TimelineInv
<1>9. ShownInv'
  BY <1>1, <1>2, <1>5, <1>8, ShownOn
<1>10. StateInv'
  BY <1>1, <1>3, Brought DEF TimelineInv, StateInv
<1>11. Moderated
  BY <1>1 DEF Moderated
<1> QED
  BY <1>3, <1>8, <1>9, <1>10, <1>11 DEF TimelineInv

LEMMA ContextStep ==
  ASSUME TimelineInv, NEW l \in Loads, GotContext(l)
  PROVE  TimelineInv' /\ Moderated
<1> DEFINE e == load[l].at
           v == CASE l = "previous" -> [Loading(Paging(e), Closed) EXCEPT !.at = e, !.skip = loaded]
                  [] l = "next"     -> [Loading(Closed, Paging(e)) EXCEPT !.at = e, !.skip = loaded]
                  [] OTHER          -> [Loading(Paging(e), Paging(e)) EXCEPT !.at = e]
<1>1. /\ UNCHANGED <<sent, synced, opened, loaded, first, last, shown, jumps, faults>>
      /\ load[l].pc = "context" /\ load' = [load EXCEPT ![l] = v]
  BY DEF GotContext
<1>2. load[l] \in LoadState /\ e \in 0 .. sent /\ (l \in {"jump", "arrival"} => e # 0)
  BY <1>1 DEF TimelineInv, LoadsInv, Fits
<1>3. sent \in Nat /\ sent \in 0 .. Len(History) /\ loaded \in SUBSET Events
  BY Length, VisibleFacts DEF TimelineInv, StateInv
<1>4. e \in 0 .. Len(History) + 1 /\ e \in 0 .. Len(History)
  BY <1>2, <1>3, Length
<1> HIDE DEF e
<1> DEFINE a == IF l = "next" THEN Closed ELSE Paging(e)
           b == IF l = "previous" THEN Closed ELSE Paging(e)
           f == Loading(a, b)
<1>5. f \in LoadState /\ f.pc = "pages" /\ \A d \in Dirs : f.page[d] \in {Closed, Paging(e)}
  <2>1. a \in {Closed, Paging(e)} /\ b \in {Closed, Paging(e)}
    OBVIOUS
  <2> HIDE DEF a, b
  <2>2. f \in LoadState /\ f.pc = "pages" /\ \A d \in Dirs : f.page[d] \in {a, b}
    BY <1>4, <2>1, FreshLoads
  <2> QED
    BY <2>1, <2>2
<1>6. \/ v = [f EXCEPT !.at = e, !.skip = loaded]
      \/ v = [f EXCEPT !.at = e]
  OBVIOUS
<1> HIDE DEF f, v
<1>7. v \in LoadState /\ v.at = e /\ v.pc = "pages" /\ v.page = f.page
  BY <1>3, <1>4, <1>5, <1>6 DEF LoadState
<1>8. \A p \in {Closed, Paging(e)} : p.got = {} /\ (p.open => p.rounds < MaxIterations)
  BY <1>4, FreshLoads
<1>9. Fits(l, v)
  BY <1>2, <1>5, <1>7, <1>8 DEF Fits
<1>10. LoadsInv' /\ load'[l] = v /\ \A k \in Loads \ {l} : load'[k] = load[k]
  BY <1>1, <1>9, SetLoad DEF TimelineInv
<1>11. ShownInv'
  BY <1>1, <1>7, <1>10, ShownOn
<1>12. edit' \in Records /\ received' \subseteq 1 .. sent /\ EditInv' /\ hide' \in Records /\ Moderated
  <2>1. CASE l \in {"jump", "arrival"}
    <3>1. edit' = NotedEdits({e}) /\ hide' = NotedHides({e}) /\ received' = received \cup {e}
      BY <2>1 DEF GotContext, e
    <3>2. {e} \in SUBSET (1 .. sent)
      BY <1>2, <1>3, <2>1
    <3>3. edit' \in Records /\ received' \subseteq 1 .. sent /\ EditInv'
      BY <1>1, <3>1, <3>2, Recorded
    <3>4. hide' \in Records /\ Moderated
      BY <3>1, <3>2, NotedModeration DEF Moderated
    <3> QED
      BY <3>3, <3>4
  <2>2. CASE l \notin {"jump", "arrival"}
    <3>1. UNCHANGED <<edit, hide, received>>
      BY <2>2 DEF GotContext
    <3>2. EditInv'
      BY <3>1 DEF TimelineInv, EditInv, Of, Newest, Events
    <3>3. \A t \in loaded : hide[t] \in Int
      BY <1>3, Length DEF TimelineInv, StateInv, Records
    <3>4. Moderated
      BY <3>1, <3>3 DEF Moderated
    <3> QED
      BY <3>1, <3>2, <3>4 DEF TimelineInv, StateInv
  <2> QED
    BY <2>1, <2>2
<1>13. StateInv'
  BY <1>1, <1>12, Brought DEF TimelineInv, StateInv
<1> QED
  BY <1>10, <1>11, <1>12, <1>13 DEF TimelineInv

LEMMA PageStep ==
  ASSUME TimelineInv, NEW l \in Loads, NEW d \in Dirs, Page(l, d)
  PROVE  TimelineInv' /\ Moderated
<1> DEFINE p     == load[l].page[d]
           chunk == Chunk(d, p.cursor, Limit(l))
           short == Cardinality(chunk) < Limit(l)
           got   == p.got \cup Visible(chunk)
           more  == /\ ~short
                    /\ Cardinality(got) < Limit(l)
                    /\ p.rounds + 1 < MaxIterations
           at    == IF chunk = {} THEN p.cursor ELSE IF d = "back" THEN Min(chunk) ELSE Max(chunk)
           q     == [open |-> more, rounds |-> p.rounds + 1, got |-> got, cursor |-> at]
           v     == [load[l] EXCEPT !.page[d] = q]
<1>1. /\ UNCHANGED <<sent, synced, opened, loaded, shown, jumps, faults>>
      /\ load[l].pc = "pages" /\ p.open /\ load' = [load EXCEPT ![l].page[d] = q]
      /\ edit' = NotedEdits(chunk) /\ hide' = NotedHides(chunk) /\ received' = received \cup chunk
  BY DEF Page
<1>2. /\ first' = IF short /\ d = "back"
                  THEN IF l = "initial" THEN Oldest(got)
                       ELSE IF chunk = {} THEN Oldest(loaded) ELSE Max(chunk)
                  ELSE first
      /\ last'  = IF short /\ d = "forth"
                  THEN IF chunk = {} THEN Newest(loaded) ELSE Max(chunk)
                  ELSE last
  BY DEF Page
<1>3. /\ sent \in Nat /\ sent \in 0 .. Len(History) /\ loaded \in SUBSET (1 .. sent)
      /\ first \in 0 .. sent /\ last \in 0 .. sent
  BY Length, VisibleFacts DEF TimelineInv, StateInv
<1>4. /\ load[l] \in LoadState /\ Fits(l, load[l]) /\ p \in PageState
      /\ p.got \subseteq Visible(1 .. sent) /\ p.rounds < MaxIterations
  BY <1>1 DEF TimelineInv, LoadsInv, Fits, LoadState
<1>5. chunk \in SUBSET (1 .. sent)
  BY WereSent
<1> HIDE DEF chunk
<1>6. got \in SUBSET Visible(1 .. sent) /\ got \in SUBSET (1 .. sent) /\ got \in SUBSET Events
  BY <1>3, <1>4, <1>5, VisibleFacts
<1>7. chunk # {} => Max(chunk) \in 1 .. sent /\ Min(chunk) \in 1 .. sent
  BY <1>5, NewestSent
<1>8. Oldest(got) \in 0 .. sent /\ Oldest(loaded) \in 0 .. sent /\ Newest(loaded) \in 0 .. sent
  BY <1>3, <1>6, NewestSent
<1>9. first' \in 0 .. sent /\ last' \in 0 .. sent
  <2>1. chunk # {} => Max(chunk) \in 0 .. sent
    BY <1>7
  <2> HIDE DEF short, got
  <2> QED
    BY <1>2, <1>3, <1>8, <2>1
<1>10. more \in BOOLEAN /\ (more => p.rounds + 1 < MaxIterations)
  OBVIOUS
<1>11. at \in 0 .. Len(History) + 1 /\ p.rounds + 1 \in 0 .. MaxIterations
  <2>1. p.cursor \in 0 .. Len(History) + 1 /\ p.rounds \in 0 .. MaxIterations
    BY <1>4 DEF PageState
  <2>2. MaxIterations \in Nat /\ Len(History) \in Nat
    BY LimitsAssumption, Length
  <2>3. chunk # {} => /\ Max(chunk) \in 0 .. Len(History) + 1
                      /\ Min(chunk) \in 0 .. Len(History) + 1
    BY <1>3, <1>7, <2>2
  <2>4. p.rounds + 1 \in 0 .. MaxIterations
    BY SMTT(30), <1>4, <2>1, <2>2
  <2> HIDE DEF p
  <2> QED
    BY <2>1, <2>3, <2>4
<1> HIDE DEF p, got, more, at
<1>12. q \in PageState /\ q.got = got /\ q.open = more /\ q.rounds = p.rounds + 1
  BY <1>6, <1>10, <1>11 DEF PageState
<1> HIDE DEF q
<1>13. /\ v \in LoadState /\ v.pc = load[l].pc /\ v.at = load[l].at
       /\ v.page[d] = q /\ \A c \in Dirs \ {d} : v.page[c] = load[l].page[c]
  BY <1>4, <1>12 DEF LoadState
<1>14. load' = [load EXCEPT ![l] = v]
  BY <1>1
<1> HIDE DEF v
<1>15. Fits(l, v)
  <2>1. v.page[d].got \subseteq Visible(1 .. sent) /\ (v.page[d].open => v.page[d].rounds < MaxIterations)
    BY <1>6, <1>10, <1>12, <1>13
  <2> QED
    BY <1>4, <1>13, <2>1 DEF Fits
<1>16. LoadsInv' /\ load'[l] = v /\ \A k \in Loads \ {l} : load'[k] = load[k]
  BY <1>1, <1>14, <1>15, SetLoad DEF TimelineInv
<1>17. ShownInv'
  BY <1>1, <1>13, <1>16, ShownOn
<1>18. edit' \in Records /\ received' \subseteq 1 .. sent /\ EditInv'
  BY <1>1, <1>5, Recorded
<1>19. hide' \in Records /\ Moderated
  BY <1>1, <1>5, NotedModeration DEF Moderated
<1>20. StateInv'
  BY <1>1, <1>9, <1>18, <1>19, Brought DEF TimelineInv, StateInv
<1> QED
  BY <1>16, <1>17, <1>18, <1>19, <1>20 DEF TimelineInv

\* A load that is over.
LEMMA IdleFits ==
  ASSUME TimelineInv, NEW l \in Loads
  PROVE  Fits(l, NoLoad) /\ NoLoad.pc = "idle"
<1>1. 0 \in 0 .. Len(History) + 1 /\ 0 \in 0 .. sent
  BY Length DEF TimelineInv, StateInv
<1> QED
  BY <1>1, FreshLoads DEF Fits, Closed

LEMMA PaginatedStep ==
  ASSUME TimelineInv, NEW l \in Loads, Paginated(l)
  PROVE  TimelineInv' /\ Moderated
<1> DEFINE new  == (Collected(l) \ load[l].skip) \ loaded
           all  == loaded \cup new
           list == Sliding(l, all)
<1>1. /\ UNCHANGED <<sent, synced, opened, first, last, edit, received, jumps, faults>>
      /\ load' = [load EXCEPT ![l] = NoLoad]
      /\ \/ loaded' = list /\ hide' = Kept(hide, list) /\ shown' = Applied(edit, list)
         \/ shown' = Applied(edit, loaded) /\ UNCHANGED <<loaded, hide>>
  BY DEF Paginated
<1>2. /\ edit \in Records /\ hide \in Records /\ loaded \in SUBSET Visible(1 .. sent)
      /\ Visible(1 .. sent) \in SUBSET Events
  BY VisibleFacts DEF TimelineInv, StateInv
<1>3. new \in SUBSET Visible(1 .. sent)
  BY WereSent
<1> HIDE DEF new
<1>4. list \in SUBSET Visible(1 .. sent)
  BY <1>2, <1>3 DEF Sliding, Latest
<1> HIDE DEF list
<1>5. /\ loaded' \in SUBSET Visible(1 .. sent) /\ hide' \in Records /\ shown' \in Records
      /\ \A t \in loaded' : hide'[t] = hide[t] /\ shown'[t] = edit[t]
  <2>1. CASE loaded' = list /\ hide' = Kept(hide, list) /\ shown' = Applied(edit, list)
    BY <1>2, <1>4, <2>1, KeptFacts
  <2>2. CASE shown' = Applied(edit, loaded) /\ UNCHANGED <<loaded, hide>>
    BY <1>2, <2>2, KeptFacts
  <2> QED
    BY <1>1, <2>1, <2>2
<1>6. LoadsInv' /\ load'[l] = NoLoad /\ \A k \in Loads \ {l} : load'[k] = load[k]
  BY <1>1, IdleFits, SetLoad DEF TimelineInv
<1>7. ShownInv'
  BY <1>1, <1>5, <1>6, IdleFits, ShownOn
<1>8. EditInv'
  BY <1>1 DEF TimelineInv, EditInv, Of, Newest, Events
<1>9. \A t \in loaded : hide[t] \in Int
  BY <1>2, Length DEF Records
<1>10. Moderated
  BY <1>5, <1>9 DEF Moderated
<1>11. StateInv'
  BY <1>1, <1>5, Brought DEF TimelineInv, StateInv
<1> QED
  BY <1>6, <1>7, <1>8, <1>10, <1>11 DEF TimelineInv

\* The end of loadLatestTimeline and of loadToEvent: what was collected is committed.
LEMMA CommittedStep ==
  ASSUME TimelineInv, NEW l \in Loads, NEW new \in SUBSET Visible(1 .. sent), Commit(new, {}),
         load' = [load EXCEPT ![l] = NoLoad], last' \in 0 .. sent,
         UNCHANGED <<sent, synced, opened, first, jumps, faults>>
  PROVE  TimelineInv' /\ Moderated
<1>1. /\ loaded' \subseteq Visible(1 .. sent)
      /\ edit' \in Records /\ hide' \in Records /\ shown' \in Records
      /\ received' \subseteq 1 .. sent /\ EditInv' /\ Moderated
      /\ \A t \in loaded' : shown'[t] = edit'[t]
  BY Committed
<1>2. LoadsInv' /\ load'[l] = NoLoad /\ \A k \in Loads \ {l} : load'[k] = load[k]
  BY IdleFits, SetLoad DEF TimelineInv
<1>3. ShownInv'
  BY <1>1, <1>2, IdleFits, ShownOn
<1>4. StateInv'
  BY <1>1, Brought DEF TimelineInv, StateInv
<1> QED
  BY <1>1, <1>2, <1>3, <1>4 DEF TimelineInv

LEMMA LoadedStep ==
  ASSUME TimelineInv, InitialLoaded \/ \E l \in Loads : LoadedToEvent(l)
  PROVE  TimelineInv' /\ Moderated
<1>1. CASE InitialLoaded
  <2>1. "initial" \in Loads
    BY DEF Loads
  <2>2. Collected("initial") \in SUBSET Visible(1 .. sent)
    BY <2>1, WereSent
  <2>3. Collected("initial") \in SUBSET (1 .. sent)
    BY <2>2 DEF Visible
  <2>4. Newest(Collected("initial")) \in 0 .. sent
    BY <2>3, NewestSent
  <2> QED
    BY <1>1, <2>1, <2>2, <2>4, CommittedStep DEF InitialLoaded
<1>2. ASSUME NEW l \in Loads, LoadedToEvent(l) PROVE TimelineInv' /\ Moderated
  <2> DEFINE at == load[l].at
             new == Collected(l) \cup Visible({at})
  <2>1. /\ Commit(new, {}) /\ load' = [load EXCEPT ![l] = NoLoad]
        /\ UNCHANGED <<sent, synced, opened, first, last, jumps, faults>>
    BY <1>2 DEF LoadedToEvent
  <2>2. at \in 0 .. sent /\ at # 0
    BY <1>2 DEF LoadedToEvent, AllPaged, TimelineInv, LoadsInv, Fits
  <2> HIDE DEF at
  <2>3. sent \in Nat /\ sent \in 0 .. Len(History)
    BY Length DEF TimelineInv, StateInv
  <2>4. {at} \in SUBSET (1 .. sent)
    BY <2>2, <2>3
  <2>5. Collected(l) \in SUBSET Visible(1 .. sent) /\ Visible({at}) \in SUBSET Visible(1 .. sent)
    BY <2>3, <2>4, VisibleFacts, WereSent
  <2>6. new \in SUBSET Visible(1 .. sent)
    BY <2>5
  <2> HIDE DEF new
  <2>7. last' \in 0 .. sent
    BY <2>1 DEF TimelineInv, StateInv
  <2> QED
    BY <2>1, <2>6, <2>7, CommittedStep
<1> QED
  BY <1>1, <1>2

\* Sliding sync: what arrives is put on record.
LEMMA SyncStep ==
  ASSUME TimelineInv, SyncAdds \/ SyncLoads \/ SyncLeavesOut
  PROVE  TimelineInv' /\ Moderated
<1>1. /\ UNCHANGED <<sent, opened, first, jumps, faults>> /\ synced' = sent
      /\ edit' = NotedEdits(Arriving) /\ hide' = NotedHides(Arriving)
      /\ received' = received \cup Arriving
  BY DEF SyncAdds, SyncLoads, SyncLeavesOut, Receive
<1>2. Arriving \in SUBSET (1 .. sent) /\ sent \in Nat /\ sent \in 0 .. Len(History)
  BY WereSent, Length DEF TimelineInv, StateInv
<1>3. Visible(Arriving) \in SUBSET Visible(1 .. sent) /\ Visible(Arriving) \in SUBSET (1 .. sent)
      /\ Visible(1 .. sent) \in SUBSET Events /\ loaded \in SUBSET Visible(1 .. sent)
  BY <1>2, VisibleFacts DEF TimelineInv, StateInv
<1>4. edit' \in Records /\ received' \subseteq 1 .. sent /\ EditInv'
  BY <1>1, <1>2, Recorded
<1>5. hide' \in Records /\ Moderated
  BY <1>1, <1>2, NotedModeration DEF Moderated
<1>6. synced' \in 0 .. sent
  BY <1>1, <1>2
<1>7. Visible(Arriving) # {} => /\ Max(Visible(Arriving)) \in 0 .. sent
                                /\ Max(Visible(Arriving)) # 0
  <2>1. Visible(Arriving) # {} => Max(Visible(Arriving)) \in 1 .. sent
    BY <1>3, NewestSent
  <2> QED
    BY <1>2, <2>1
<1>8. CASE SyncAdds
  <2>1. /\ UNCHANGED load /\ last' \in 0 .. sent
        /\ loaded' = loaded \cup Visible(Arriving) /\ shown' = Applied(edit', loaded')
    BY <1>7, <1>8 DEF SyncAdds
  <2>2. loaded' \in SUBSET Visible(1 .. sent)
    BY <1>3, <2>1
  <2>3. shown' \in Records /\ \A t \in loaded' : shown'[t] = edit'[t]
    BY <1>3, <1>4, <2>1, <2>2, KeptFacts
  <2>4. LoadsInv'
    BY <1>1, <2>1, SameLoads DEF TimelineInv
  <2>5. ShownInv'
    BY <1>1, <2>1, <2>3, ShownOn
  <2>6. StateInv'
    BY <1>1, <1>4, <1>5, <1>6, <2>1, <2>2, <2>3, Brought DEF TimelineInv, StateInv
  <2> QED
    BY <1>4, <1>5, <2>4, <2>5, <2>6 DEF TimelineInv
<1>9. CASE SyncLoads
  <2>1. /\ UNCHANGED <<loaded, shown>> /\ last' \in 0 .. sent
        /\ Ask("arrival", Max(Visible(Arriving))) /\ Visible(Arriving) # {}
    BY <1>7, <1>9 DEF SyncLoads
  <2>2. LoadsInv' /\ ShownInv'
    BY <1>1, <1>7, <2>1, AskFacts DEF Loads
  <2>3. StateInv'
    BY <1>1, <1>4, <1>5, <1>6, <2>1, Brought DEF TimelineInv, StateInv
  <2> QED
    BY <1>4, <1>5, <2>2, <2>3 DEF TimelineInv
<1>10. CASE SyncLeavesOut
  <2>1. UNCHANGED <<load, loaded, last>> /\ shown' = Applied(edit', loaded)
    BY <1>10 DEF SyncLeavesOut
  <2>2. shown' \in Records /\ \A t \in loaded' : shown'[t] = edit'[t]
    BY <1>3, <1>4, <2>1, KeptFacts
  <2>3. LoadsInv'
    BY <1>1, <2>1, SameLoads DEF TimelineInv
  <2>4. ShownInv'
    BY <1>1, <2>1, <2>2, ShownOn
  <2>5. StateInv'
    BY <1>1, <1>4, <1>5, <1>6, <2>1, <2>2, Brought DEF TimelineInv, StateInv
  <2> QED
    BY <1>4, <1>5, <2>3, <2>4, <2>5 DEF TimelineInv
<1> QED
  BY <1>8, <1>9, <1>10

-----------------------------------------------------------------------------
(* The theorems.                                                             *)

LEMMA TimelineStep ==
  ASSUME TimelineInv, [Next]_vars
  PROVE  TimelineInv' /\ (Next => Moderated)
<1>1. CASE Next
  <2>1. CASE Send \/ Leave \/ Return
    BY <2>1, RoomStep
  <2>2. CASE SeedFromLiveTimeline
    BY <2>2, SeedStep
  <2>3. CASE LoadLatestTimeline
    BY <2>3, LatestStep
  <2>4. CASE LoadPrevious \/ LoadNext \/ \E e \in Events : ScrollToEvent(e)
    BY <2>4, ScrollStep
  <2>5. ASSUME NEW l \in Loads,
               \/ GotContext(l) \/ \E d \in Dirs : Page(l, d)
               \/ Paginated(l) \/ LoadedToEvent(l) \/ RequestFails(l)
        PROVE  TimelineInv' /\ Moderated
    <3>1. CASE GotContext(l)
      BY <3>1, ContextStep
    <3>2. ASSUME NEW d \in Dirs, Page(l, d) PROVE TimelineInv' /\ Moderated
      BY <3>2, PageStep
    <3>3. CASE Paginated(l)
      BY <3>3, PaginatedStep
    <3>4. CASE LoadedToEvent(l)
      BY <3>4, LoadedStep
    <3>5. CASE RequestFails(l)
      BY <3>5, FailStep
    <3> QED
      BY <2>5, <3>1, <3>2, <3>3, <3>4, <3>5
  <2>6. CASE InitialLoaded
    BY <2>6, LoadedStep
  <2>7. CASE SyncAdds \/ SyncLoads \/ SyncLeavesOut
    BY <2>7, SyncStep
  <2> QED
    BY <1>1, <2>1, <2>2, <2>3, <2>4, <2>5, <2>6, <2>7 DEF Next
<1>2. CASE UNCHANGED vars
  <2>1. UNCHANGED <<sent, synced, opened, loaded, first, last, edit, shown, hide, load,
                    received, jumps, faults>>
    BY <1>2 DEF vars
  <2>2. LoadsInv'
    BY <2>1, SameLoads DEF TimelineInv
  <2>3. ShownInv'
    BY <2>1, ShownOn DEF TimelineInv, ShownInv, Quiet
  <2>4. EditInv'
    BY <2>1 DEF TimelineInv, EditInv, Of, Newest, Events
  <2>5. StateInv'
    BY <2>1, Brought DEF TimelineInv, StateInv
  <2>7. Next => Moderated
    BY <1>1
  <2> QED
    BY <2>2, <2>3, <2>4, <2>5, <2>7 DEF TimelineInv
<1> QED
  BY <1>1, <1>2

\* Every value the client keeps of the room has its type: nothing is loaded,
\* received or put on record that was not sent, and no loop of performPaginate
\* runs longer than maxPaginationIterations.
THEOREM TimelineTypes == Spec => []TypeOK
<1>1. Init => TimelineInv
  BY TimelineStart
<1>2. TimelineInv /\ [Next]_vars => TimelineInv'
  BY TimelineStep
<1>3. TimelineInv => TypeOK
  BY InvTypes
<1> QED
  BY <1>1, <1>2, <1>3, PTL DEF Spec

\* Once no request is under way and none failed, a message that is loaded shows the
\* latest edit of it that the client was given, in whatever order pages, jumps and
\* sliding sync brought the edit and the message (prepareEvents, applyEdits).
THEOREM EditsGetThrough == Spec => []EditsShown
<1>1. Init => TimelineInv
  BY TimelineStart
<1>2. TimelineInv /\ [Next]_vars => TimelineInv'
  BY TimelineStep
<1>3. TimelineInv => EditsShown
  BY InvShown
<1> QED
  BY <1>1, <1>2, <1>3, PTL DEF Spec

\* While a message stays in view, what hides or shows it is only replaced by what a
\* moderator did later, whatever cleanupHideMessageEvents throws away.
THEOREM ModerationStays == Spec => ModerationKept
<1>1. Init => TimelineInv
  BY TimelineStart
<1>2. TimelineInv /\ [Next]_vars => TimelineInv'
  BY TimelineStep
<1>3. TimelineInv /\ [Next]_vars => [\A t \in loaded \cap loaded' : hide'[t] >= hide[t]]_vars
  BY TimelineStep DEF Moderated
<1> QED
  BY <1>1, <1>2, <1>3, PTL DEF Spec, ModerationKept
=============================================================================

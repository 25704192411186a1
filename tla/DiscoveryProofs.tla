--------------------------- MODULE DiscoveryProofs ---------------------------
(***************************************************************************)
(* Theorems about Discovery, for any keys, versions and bounds.            *)
(***************************************************************************)
EXTENDS Discovery, TLAPS

-----------------------------------------------------------------------------
(* Type correctness.                                                       *)

BudgetsOK == configs \in Nat /\ crashes \in Nat /\ faults \in Nat

\* The peers are the servers other than PHC.
LEMMA PeersAreServers == Peers \subseteq Servers /\ PHC \in Servers /\ PHC \notin Peers
  BY ServersAssumption DEF Servers

\* The three servers are different ones.
LEMMA ServerDistinct ==
  /\ Transcryptor \in Peers /\ AuthServer \in Peers
  /\ Transcryptor # PHC /\ AuthServer # PHC
  BY ServersAssumption DEF Peers

\* What a server publishes is discovery info.
LEMMA DiscoveryInfoType ==
  ASSUME TypeOK, NEW d \in Servers
  PROVE  DiscoveryInfo(d) \in Info
  BY ServerDistinct, PeersAreServers DEF TypeOK, DiscoveryInfo, Info

\* What is left of the queues once a server has closed its connections ...
LEMMA HangUpType ==
  ASSUME TypeOK, NEW s \in Servers, NEW waiting \in SUBSET Callers
  PROVE  HangUp(s, waiting) \in [Servers -> SUBSET Callers]
  BY DEF TypeOK, HangUp

\* ... or no longer awaits the answers.
LEMMA DetachType ==
  ASSUME TypeOK, NEW s \in Servers
  PROVE  Detach(s) \in [Servers -> SUBSET Callers]
  BY DEF TypeOK, Detach, Callers

\* What is left of the runs once one of them has stopped.
LEMMA VacateType ==
  ASSUME TypeOK, NEW s \in Servers, NEW pcs \in [Servers -> Phases],
         NEW queues \in [Servers -> SUBSET Callers], Vacate(s, pcs, queues)
  PROVE  /\ pc' \in [Servers -> Phases]
         /\ holder' \in [Servers -> Callers \cup {None}]
         /\ queue' \in [Servers -> SUBSET Callers]
         /\ asked' \in [Servers -> SUBSET Servers]
         /\ seen' \in [Servers -> [Servers -> Info \cup {None}]]
  BY DEF TypeOK, Vacate, Nothing, Callers

\* A process that exits leaves the types intact.
LEMMA ExitType ==
  ASSUME TypeOK, NEW s \in Servers, Exit(s), BudgetsOK'
  PROVE  TypeOK'
<1>1. [pc EXCEPT ![s] = "down"] \in [Servers -> Phases] /\ {} \in SUBSET Callers
  BY DEF TypeOK, Phases
<1>a. Vacate(s, [pc EXCEPT ![s] = "down"], HangUp(s, {}))
  BY DEF Exit
<1>2. /\ pc' \in [Servers -> Phases]
      /\ holder' \in [Servers -> Callers \cup {None}]
      /\ queue' \in [Servers -> SUBSET Callers]
      /\ asked' \in [Servers -> SUBSET Servers]
      /\ seen' \in [Servers -> [Servers -> Info \cup {None}]]
  BY <1>1, <1>a, HangUpType, VacateType
<1>3. /\ con' \in [Servers -> Constellation \cup {None}]
      /\ ss' \in [Servers -> [Peers -> Nat]]
      /\ mek' \in Mek \cup {None}
      /\ boot' \in [Servers -> BOOLEAN]
      /\ chan' \in [Servers -> Plan \cup {None}]
  BY DEF TypeOK, Exit, NoSecrets
<1> QED
  BY <1>2, <1>3 DEF TypeOK, Exit, identity, BudgetsOK

\* So does a run that ends with a result, or to be retried.
LEMMA FinishWithType ==
  ASSUME TypeOK, NEW s \in Servers, NEW result,
         NEW queues \in [Servers -> SUBSET Callers], FinishWith(s, result, queues), BudgetsOK'
  PROVE  TypeOK'
<1>1. [pc EXCEPT ![s] = "free"] \in [Servers -> Phases]
  BY DEF TypeOK, Phases
<1>2. /\ pc' \in [Servers -> Phases]
      /\ holder' \in [Servers -> Callers \cup {None}]
      /\ queue' \in [Servers -> SUBSET Callers]
      /\ asked' \in [Servers -> SUBSET Servers]
      /\ seen' \in [Servers -> [Servers -> Info \cup {None}]]
  BY <1>1, VacateType DEF FinishWith
<1>3. boot' \in [Servers -> BOOLEAN]
  BY DEF TypeOK, FinishWith
<1> QED
  BY <1>2, <1>3 DEF TypeOK, FinishWith, identity, state, BudgetsOK

\* Usually it has no request of its own left.
LEMMA FinishType ==
  ASSUME TypeOK, NEW s \in Servers, NEW result, Finish(s, result), BudgetsOK'
  PROVE  TypeOK'
<1>1. queue[s] \in SUBSET Callers
  BY DEF TypeOK
<1> QED
  BY <1>1, HangUpType, FinishWithType DEF Finish

\* And so does a run that ends with an error.
LEMMA FailType ==
  ASSUME TypeOK, NEW s \in Servers, Fail(s), BudgetsOK'
  PROVE  TypeOK'
<1>1. CASE holder[s] = s
  BY <1>1, ExitType DEF Fail
<1>2. CASE holder[s] # s
  <2> DEFINE pcs == [d \in Servers |-> IF d = s THEN "free"
                                       ELSE IF d = holder[s] THEN "error" ELSE pc[d]]
  <2>1. pcs \in [Servers -> Phases]
    BY DEF TypeOK, Phases
  <2>2. Vacate(s, pcs, Detach(s)) /\ UNCHANGED <<boot, identity, state, chan, clock>>
    BY <1>2 DEF Fail
  <2> HIDE DEF pcs
  <2>3. /\ pc' \in [Servers -> Phases]
        /\ holder' \in [Servers -> Callers \cup {None}]
        /\ queue' \in [Servers -> SUBSET Callers]
        /\ asked' \in [Servers -> SUBSET Servers]
        /\ seen' \in [Servers -> [Servers -> Info \cup {None}]]
    BY <2>1, <2>2, DetachType, VacateType
  <2> QED
    BY <2>2, <2>3 DEF TypeOK, identity, state, BudgetsOK
<1> QED
  BY <1>1, <1>2

\* Handing a modification to the server leaves the types intact.
LEMMA SendType ==
  ASSUME TypeOK, NEW s \in Servers, NEW plan \in Plan, Send(s, plan), clock' \in Nat
  PROVE  TypeOK'
  BY DEF TypeOK, Send, identity, state, budgets, Phases

\* Asking other servers to run discovery leaves the types intact.
LEMMA AskType ==
  ASSUME TypeOK, NEW s \in Servers, NEW D \in SUBSET Servers, Ask(s, D)
  PROVE  TypeOK'
  BY DEF TypeOK, Ask, identity, state, budgets, Phases, Callers

\* Obtaining the discovery lock leaves the types intact.
LEMMA StartRunType ==
  ASSUME TypeOK, NEW s \in Servers, NEW c \in Callers, StartRun(s, c),
         queue' \in [Servers -> SUBSET Callers]
  PROVE  TypeOK'
  BY DEF TypeOK, StartRun, identity, state, budgets, Phases

\* To exit is a modification.
LEMMA NoPlanType == NoPlan \in Plan
  BY DEF NoPlan, Plan, NoSecrets

\* Reading discovery info leaves the types intact.
LEMMA ReadType ==
  ASSUME TypeOK, NEW s \in Servers, NEW d \in Servers, Read(s, d)
  PROVE  TypeOK'
<1>1. seen' \in [Servers -> [Servers -> Info \cup {None}]]
  BY DiscoveryInfoType DEF TypeOK, Read
<1> QED
  BY <1>1 DEF TypeOK, Read, identity, state, budgets

\* What a run has read of the servers it needs.
LEMMA SeenType ==
  ASSUME TypeOK, NEW s \in Servers, NEW d \in Sources(s), HasRead(s)
  PROVE  /\ d \in Servers /\ d # s
         /\ seen[s][d] \in Info /\ seen[s][d] # None
         /\ seen[s][d].con \in Constellation \cup {None}
         /\ seen[s][d].cfg \in Cfg /\ seen[s][d].ver \in Versions /\ seen[s][d].seal \in Nat
<1>1. d \in Servers /\ d # s
  BY PeersAreServers DEF Sources, Servers
<1>2. seen[s][d] \in Info
  BY <1>1 DEF TypeOK, HasRead
<1> QED
  BY <1>1, <1>2 DEF Info, HasRead

\* PHC asks its peers, and they ask PHC.
LEMMA SourcesOf == Sources(PHC) = Peers /\ \A p \in Peers : Sources(p) = {PHC}
  BY PeersAreServers DEF Sources

\* What PHC composes is a constellation, and the rest of its seed is typed.
LEMMA ComposedType ==
  ASSUME TypeOK, HasRead(PHC)
  PROVE  /\ NewConstellation \in Constellation
         /\ \A p \in Peers : NewSecret(p) \in Nat
         /\ NewMek \in Mek \cup {None}
         /\ [p \in Peers |-> NewSecret(p)] \in [Peers -> Nat]
<1>1. \A p \in Peers : FromPeer(p).cfg \in Cfg
  BY SeenType, SourcesOf, PeersAreServers DEF FromPeer
<1>2. cfg[PHC] \in Cfg /\ ver[PHC] \in Versions /\ clock + 1 \in Nat
  BY PeersAreServers DEF TypeOK
<1>3. ASSUME NEW p \in Peers PROVE NewCt(p) \in Ct
  <2>1. CASE Reuses(p)
    <3>1. con[PHC] \in Constellation
      BY <2>1, PeersAreServers DEF Reuses, TypeOK
    <3> QED
      BY <2>1, <3>1 DEF NewCt, Constellation
  <2>2. CASE ~Reuses(p)
    <3>1. FromPeer(p).cfg.enc \in Keys
      BY <1>1 DEF Cfg
    <3> QED
      BY <1>2, <2>2, <3>1 DEF NewCt, Ct
  <2> QED
    BY <2>1, <2>2
<1>4. NewConstellation \in Constellation
  <2>1. [s \in Servers |-> IF s = PHC THEN cfg[PHC] ELSE FromPeer(s).cfg] \in [Servers -> Cfg]
    BY <1>1, <1>2 DEF Servers
  <2>2. [p \in Peers |-> NewCt(p)] \in [Peers -> Ct]
    BY <1>3
  <2> QED
    BY <1>2, <2>1, <2>2 DEF NewConstellation, Constellation
<1>5. ASSUME NEW p \in Peers PROVE NewSecret(p) \in Nat
  BY <1>2, PeersAreServers DEF NewSecret, TypeOK
<1>6. NewMek \in Mek \cup {None}
  <2>1. Parts(NewConstellation) \in Mek
    BY <1>4, ServerDistinct, PeersAreServers DEF Parts, Constellation, Cfg, Mek
  <2> QED
    BY <2>1 DEF NewMek, TypeOK
<1> QED
  BY <1>4, <1>5, <1>6

\* What PHC hands to its server is a modification.
LEMMA SeededType ==
  ASSUME TypeOK, HasRead(PHC), NEW c \in Constellation \cup {None},
         NEW kind \in {"republish", "rebuild"}, kind = "republish" => c # None
  PROVE  Seeded(kind, c) \in Plan
<1>1. NewMek \in Mek \cup {None} /\ [p \in Peers |-> NewSecret(p)] \in [Peers -> Nat]
  BY ComposedType
<1> QED
  BY <1>1 DEF Seeded, NoPlan, Plan, NoSecrets

\* What the run of a peer decides.
LEMMA DiscoverAsNonPhcType ==
  ASSUME TypeOK, NEW p \in Peers, DiscoverAsNonPhc(p)
  PROVE  TypeOK'
<1> p \in Servers
  BY PeersAreServers
<1>1. CASE PhcNotReady(p) \/ UpToDate(p)
  <2> PICK result : Finish(p, result) /\ UNCHANGED budgets
    BY <1>1 DEF PhcNotReady, UpToDate
  <2> BudgetsOK'
    BY DEF TypeOK, budgets, BudgetsOK
  <2> QED
    BY FinishType
<1>2. CASE BinaryOutdated(p)
  BY <1>2, NoPlanType, SendType DEF BinaryOutdated, TypeOK
<1>3. CASE PhcOutdated(p)
  <2> {PHC} \in SUBSET Servers /\ Ask(p, {PHC})
    BY <1>3, PeersAreServers DEF PhcOutdated
  <2> QED
    BY AskType
<1>4. CASE Adopt(p)
  <2> DEFINE plan == [NoPlan EXCEPT !.kind = "republish", !.con = FromPhc(p).con]
  <2>1. FromPhc(p).con \in Constellation
    BY <1>4, SeenType, SourcesOf DEF Adopt, Current, FromPhc
  <2>2. plan \in Plan /\ plan.kind = "republish" /\ plan.con # None
    BY <1>4, <2>1 DEF NoPlan, Plan, NoSecrets, Adopt, Current
  <2>3. Send(p, plan) /\ clock' \in Nat
    BY <1>4 DEF Adopt, TypeOK
  <2> HIDE DEF plan
  <2> QED
    BY <2>2, <2>3, SendType
<1> QED
  BY <1>1, <1>2, <1>3, <1>4 DEF DiscoverAsNonPhc

\* What the run of PHC decides.
LEMMA DiscoverAsPhcType ==
  ASSUME TypeOK, DiscoverAsPhc
  PROVE  TypeOK'
<1> PHC \in Servers
  BY PeersAreServers
<1>1. CASE PhcBinaryOutdated
  BY <1>1, NoPlanType, SendType DEF PhcBinaryOutdated, TypeOK
<1>2. CASE Republish
  <2>1. NewConstellation \in Constellation /\ NewConstellation # None
    BY <1>2, ComposedType, NoneAssumption DEF Republish, Composes
  <2>2. Seeded("republish", NewConstellation) \in Plan
    BY <1>2, <2>1, SeededType DEF Republish, Composes
  <2> QED
    BY <1>2, <2>2, SendType DEF Republish, TypeOK
<1>3. CASE Rebuild
  <2>1. Seeded("rebuild", None) \in Plan
    BY <1>3, SeededType DEF Rebuild, Composes
  <2> QED
    BY <1>3, <2>1, SendType DEF Rebuild, TypeOK
<1>4. CASE RunPeers
  <2> Outdated \in SUBSET Servers /\ Ask(PHC, Outdated)
    BY <1>4, PeersAreServers DEF RunPeers, Outdated
  <2> QED
    BY AskType
<1>5. CASE Conclude
  <2> BudgetsOK'
    BY <1>5 DEF Conclude, TypeOK, budgets, BudgetsOK
  <2> QED
    BY <1>5, FailType, FinishType DEF Conclude
<1> QED
  BY <1>1, <1>2, <1>3, <1>4, <1>5 DEF DiscoverAsPhc

\* No step of a run in progress breaks the types.
LEMMA DiscoverType ==
  ASSUME TypeOK, NEW s \in Servers, Discover(s)
  PROVE  TypeOK'
<1>1. CASE \E d \in Servers : Read(s, d)
  BY <1>1, ReadType
<1>2. CASE (\E d \in Servers : ReadFails(s, d)) \/ TimedOut(s)
  <2> Finish(s, "retry") /\ BudgetsOK'
    BY <1>2 DEF ReadFails, TimedOut, TypeOK, budgets, BudgetsOK
  <2> QED
    BY FinishType
<1>6. CASE Answered(s)
  <2> FinishWith(s, "retry", Detach(s)) /\ BudgetsOK'
    BY <1>6 DEF Answered, TypeOK, budgets, BudgetsOK
  <2> QED
    BY DetachType, FinishWithType
<1>3. CASE Errored(s)
  <2> Fail(s) /\ BudgetsOK'
    BY <1>3 DEF Errored, TypeOK, budgets, BudgetsOK
  <2> QED
    BY FailType
<1>4. CASE s = PHC /\ DiscoverAsPhc
  BY <1>4, DiscoverAsPhcType
<1>5. CASE s # PHC /\ DiscoverAsNonPhc(s)
  BY <1>5, DiscoverAsNonPhcType DEF Servers
<1> QED
  BY <1>1, <1>2, <1>3, <1>4, <1>5, <1>6 DEF Discover

\* A restart with a typed running state leaves the types intact.
LEMMA RestartType ==
  ASSUME TypeOK, NEW s \in Servers, Restart(s),
         cfg' \in [Servers -> Cfg],
         con' \in [Servers -> Constellation \cup {None}],
         ss' \in [Servers -> [Peers -> Nat]],
         mek' \in Mek \cup {None}
  PROVE  TypeOK'
<1>1. [pc EXCEPT ![s] = "free"] \in [Servers -> Phases] /\ {} \in SUBSET Callers
  BY DEF TypeOK, Phases
<1>2. Vacate(s, [pc EXCEPT ![s] = "free"], HangUp(s, {}))
  BY DEF Restart
<1>3. /\ pc' \in [Servers -> Phases]
      /\ holder' \in [Servers -> Callers \cup {None}]
      /\ queue' \in [Servers -> SUBSET Callers]
      /\ asked' \in [Servers -> SUBSET Servers]
      /\ seen' \in [Servers -> [Servers -> Info \cup {None}]]
  BY <1>1, <1>2, HangUpType, VacateType
<1>4. /\ boot' \in [Servers -> BOOLEAN]
      /\ chan' \in [Servers -> Plan \cup {None}]
  BY DEF TypeOK, Restart
<1> QED
  BY <1>3, <1>4 DEF TypeOK, Restart, budgets

\* A command is a modification, and its fields are typed.
LEMMA ChanType ==
  ASSUME TypeOK, NEW s \in Servers, chan[s] # None
  PROVE  /\ chan[s].con \in Constellation \cup {None}
         /\ chan[s].ss \in [Peers -> Nat] /\ chan[s].mek \in Mek \cup {None}
         /\ chan[s].kind = "republish" => chan[s].con \in Constellation
         /\ chan[s].kind = "config" => chan[s].cfg \in Cfg
<1>1. chan[s] \in Plan
  BY DEF TypeOK
<1> QED
  BY <1>1 DEF Plan

\* No command that a server executes breaks the types.
LEMMA ExecuteType ==
  ASSUME TypeOK, NEW s \in Servers, Execute(s)
  PROVE  TypeOK'
<1>1. CASE ExecuteRepublish(s)
  <2>1. chan[s].con \in Constellation /\ chan[s].mek \in Mek \cup {None}
    BY <1>1, ChanType DEF ExecuteRepublish
  <2>2. Secrets(s, chan[s]) \in [Peers -> Nat]
    <3>1. CASE s = PHC
      BY <1>1, <3>1, ChanType DEF ExecuteRepublish, Secrets
    <3>2. CASE s # PHC
      <4>1. s \in Peers /\ chan[s].con.ct[s] \in Ct
        BY <2>1, <3>2 DEF Servers, Constellation
      <4>2. Decap(cfg[s].enc, chan[s].con.ct[s]) \in Nat
        BY <4>1 DEF Decap, Ct
      <4> QED
        BY <3>2, <4>1, <4>2 DEF Secrets, NoSecrets
    <3> QED
      BY <3>1, <3>2
  <2>3. /\ con' \in [Servers -> Constellation \cup {None}]
        /\ ss' \in [Servers -> [Peers -> Nat]]
        /\ mek' \in Mek \cup {None}
        /\ cfg' \in [Servers -> Cfg]
    BY <1>1, <2>1, <2>2 DEF ExecuteRepublish, TypeOK
  <2> QED
    BY <1>1, <2>3, RestartType DEF ExecuteRepublish
<1>2. CASE ExecuteRebuild(s)
  <2>1. CASE con[s] = None
    <3> Exit(s) /\ BudgetsOK'
      BY <1>2, <2>1 DEF ExecuteRebuild, TypeOK, budgets, BudgetsOK
    <3> QED
      BY ExitType
  <2>2. CASE con[s] # None
    <3>1. chan[s].ss \in [Peers -> Nat] /\ chan[s].mek \in Mek \cup {None}
      BY <1>2, ChanType DEF ExecuteRebuild
    <3>2. /\ con' \in [Servers -> Constellation \cup {None}]
          /\ ss' \in [Servers -> [Peers -> Nat]]
          /\ mek' \in Mek \cup {None}
          /\ cfg' \in [Servers -> Cfg]
      BY <1>2, <2>2, <3>1 DEF ExecuteRebuild, TypeOK
    <3> QED
      BY <1>2, <2>2, <3>2, RestartType DEF ExecuteRebuild
  <2> QED
    BY <2>1, <2>2
<1>3. CASE ExecuteExit(s)
  <2> Exit(s) /\ BudgetsOK'
    BY <1>3 DEF ExecuteExit, TypeOK, budgets, BudgetsOK
  <2> QED
    BY ExitType
<1>4. CASE ExecuteConfig(s)
  <2>1. chan[s].cfg \in Cfg
    BY <1>4, ChanType DEF ExecuteConfig
  <2>2. /\ con' \in [Servers -> Constellation \cup {None}]
        /\ ss' \in [Servers -> [Peers -> Nat]]
        /\ mek' \in Mek \cup {None}
        /\ cfg' \in [Servers -> Cfg]
    BY <1>4, <2>1 DEF ExecuteConfig, TypeOK, NoSecrets
  <2> QED
    BY <1>4, <2>2, RestartType DEF ExecuteConfig
<1> QED
  BY <1>1, <1>2, <1>3, <1>4 DEF Execute

\* Neither does anything that befalls the servers.
LEMMA EnvironmentType ==
  ASSUME TypeOK, NEW s \in Servers, Environment(s)
  PROVE  TypeOK'
<1>1. CASE QueryFails(s)
  <2> BudgetsOK' /\ (Finish(s, "retry") \/ Fail(s))
    BY <1>1 DEF QueryFails, TypeOK, BudgetsOK
  <2> QED
    BY FinishType, FailType
<1>2. CASE PostConfig(s)
  <2>1. PICK c \in Cfg : chan' = [chan EXCEPT ![s] = [NoPlan EXCEPT !.kind = "config", !.cfg = c]]
    BY <1>2 DEF PostConfig
  <2>2. [NoPlan EXCEPT !.kind = "config", !.cfg = c] \in Plan
    BY NoneAssumption DEF NoPlan, NoSecrets, Plan
  <2>3. chan' \in [Servers -> Plan \cup {None}]
    BY <2>1, <2>2 DEF TypeOK
  <2> QED
    BY <1>2, <2>3 DEF PostConfig, TypeOK, identity, state, runs
<1>3. CASE Crash(s)
  <2> Exit(s) /\ BudgetsOK'
    BY <1>3 DEF Crash, TypeOK, BudgetsOK
  <2> QED
    BY ExitType
<1>4. CASE Deploy(s)
  BY <1>4 DEF Deploy, TypeOK, state, runs, budgets
<1>5. CASE StrangerRun(s)
  BY <1>5, StartRunType DEF StrangerRun, TypeOK, Callers
<1> QED
  BY <1>1, <1>2, <1>3, <1>4, <1>5 DEF Environment

\* Every step keeps the types ...
LEMMA TypeStep == TypeOK /\ [Next]_vars => TypeOK'
<1> SUFFICES ASSUME TypeOK, [Next]_vars PROVE TypeOK'
  OBVIOUS
<1>1. ASSUME NEW s \in Servers, BootRun(s) PROVE TypeOK'
  BY <1>1, StartRunType DEF BootRun, TypeOK, Callers
<1>2. ASSUME NEW s \in Servers, NEW c \in Callers, ServeCall(s, c) PROVE TypeOK'
  <2> queue' \in [Servers -> SUBSET Callers] /\ StartRun(s, c)
    BY <1>2 DEF ServeCall, TypeOK
  <2> QED
    BY StartRunType
<1>3. ASSUME NEW s \in Servers, DropRun(s) PROVE TypeOK'
  <2> Finish(s, "retry") /\ BudgetsOK'
    BY <1>3 DEF DropRun, TypeOK, budgets, BudgetsOK
  <2> QED
    BY FinishType
<1>4. ASSUME NEW s \in Servers, Start(s) PROVE TypeOK'
  BY <1>4, ConfigFileAssumption DEF Start, TypeOK, state, budgets, Phases
<1>5. CASE UNCHANGED vars
  BY <1>5 DEF TypeOK, vars, identity, state, runs, budgets
<1>6. ASSUME NEW s \in Servers, DropCall(s) PROVE TypeOK'
  BY <1>6 DEF DropCall, TypeOK, identity, state, budgets
<1> QED
  BY <1>1, <1>2, <1>3, <1>4, <1>5, <1>6, DiscoverType, ExecuteType, EnvironmentType DEF Next

\* ... and they hold initially.
LEMMA TypeInit == Init => TypeOK
  BY ConfigFileAssumption DEF Init, TypeOK, NoSecrets, Nothing, Phases

\* Every variable keeps its type, whatever the servers and the environment do.
THEOREM TypeCorrect == Spec => []TypeOK
  BY TypeInit, TypeStep, PTL DEF Spec

-----------------------------------------------------------------------------
(* The inductive invariant.  The properties relate the running states; what *)
(* keeps them is that the same holds, ahead of time, of what runs have read *)
(* and of the modifications that are under way to a server.                *)

\* The ciphertexts of a constellation are made for the keys it records.
Sound(c) == \A p \in Peers : c.ct[p].for = c.cfg[p].enc /\ c.ct[p].n # 0

\* The secrets that PHC keeps with a constellation.
MatchesSecrets(c, secrets) == \A p \in Peers : secrets[p] = c.ct[p].n

MatchesMek(c, m) == m # None => m = Parts(c)

RunningState(s) ==
  con[s] # None =>
    /\ Sound(con[s]) /\ con[s].cfg[s] = cfg[s]
    /\ s = PHC => MatchesSecrets(con[s], ss[s]) /\ MatchesMek(con[s], mek)
    /\ s # PHC => ss[s][s] = con[s].ct[s].n

MekNeedsState == mek # None => con[PHC] # None

\* What was read may be stale, but was consistent when it was read.
SeenInfo(s, d) ==
  seen[s][d] # None /\ seen[s][d].con # None =>
    /\ Sound(seen[s][d].con) /\ seen[s][d].con.cfg[d] = seen[s][d].cfg
    /\ d = Transcryptor => seen[s][d].seal = seen[s][d].con.ct[d].n

SentRepublish(s) ==
  chan[s] # None /\ chan[s].kind = "republish" =>
    /\ Sound(chan[s].con) /\ chan[s].con.cfg[s] = cfg[s]
    /\ s = PHC => /\ MatchesSecrets(chan[s].con, chan[s].ss)
                  /\ MatchesMek(chan[s].con, chan[s].mek)

\* The constellation PHC is about to take differs in what was configured.
SentNotNeedless ==
  chan[PHC] # None /\ chan[PHC].kind = "republish" /\ con[PHC] # None =>
    \/ chan[PHC].con.cfg # con[PHC].cfg
    \/ chan[PHC].con.ver # con[PHC].ver

SentRebuild(s) ==
  chan[s] # None /\ chan[s].kind = "rebuild" =>
    /\ s = PHC /\ con[PHC] # None
    /\ MatchesSecrets(con[PHC], chan[PHC].ss)
    /\ MatchesMek(con[PHC], chan[PHC].mek)

Agreement ==
  /\ \A s \in Servers : RunningState(s) /\ SentRepublish(s) /\ SentRebuild(s)
  /\ \A s, d \in Servers : SeenInfo(s, d)
  /\ MekNeedsState /\ SentNotNeedless

-----------------------------------------------------------------------------
(* Steps by what they do to the invariant.  A quiet one changes no running  *)
(* state, and of what was read it at most forgets.                         *)

Forgets == \A s, d \in Servers : seen'[s][d] \in {seen[s][d], None}
Quiet == Forgets /\ UNCHANGED <<cfg, con, ss, mek, chan>>

\* What was read stays sound as long as nothing new is read.
LEMMA ForgetsKeeps ==
  ASSUME Agreement, Forgets
  PROVE  \A s, d \in Servers : SeenInfo(s, d)'
  BY DEF Agreement, Forgets, SeenInfo

\* A step that only ends runs keeps the invariant.
LEMMA QuietKeeps ==
  ASSUME Agreement, Quiet
  PROVE  Agreement'
<1>1. \A s, d \in Servers : SeenInfo(s, d)'
  BY ForgetsKeeps DEF Quiet
<1> QED
  BY <1>1 DEF Agreement, Quiet, RunningState, SentRepublish, SentRebuild,
              MekNeedsState, SentNotNeedless

\* A run that stops reads nothing new.
LEMMA VacateForgets ==
  ASSUME TypeOK, NEW s \in Servers, NEW pcs, NEW queues, Vacate(s, pcs, queues)
  PROVE  Forgets
  BY DEF TypeOK, Vacate, Forgets, Nothing

\* A run that ends, with a result or to be retried, keeps the invariant.
LEMMA FinishKeeps ==
  ASSUME TypeOK, Agreement, NEW s \in Servers, NEW result, NEW queues,
         FinishWith(s, result, queues)
  PROVE  Agreement'
<1> Forgets
  BY VacateForgets DEF FinishWith
<1> QED
  BY QuietKeeps DEF FinishWith, Quiet, identity, state

\* A process that exits has no running state to be wrong about.
LEMMA ExitKeeps ==
  ASSUME TypeOK, Agreement, NEW s \in Servers, Exit(s)
  PROVE  Agreement'
<1>1. \A t, d \in Servers : SeenInfo(t, d)'
  BY VacateForgets, ForgetsKeeps DEF Exit
<1>2. /\ cfg' = cfg
      /\ con'[s] = None /\ chan'[s] = None /\ (s = PHC => mek' = None)
      /\ s # PHC => mek' = mek
      /\ \A t \in Servers \ {s} : con'[t] = con[t] /\ ss'[t] = ss[t] /\ chan'[t] = chan[t]
  BY DEF Exit, TypeOK, identity
<1>3. \A t \in Servers : (RunningState(t) /\ SentRepublish(t) /\ SentRebuild(t))'
  BY <1>2, PeersAreServers DEF Agreement, RunningState, SentRepublish, SentRebuild
<1>4. MekNeedsState' /\ SentNotNeedless'
  BY <1>2, PeersAreServers DEF Agreement, MekNeedsState, SentNotNeedless
<1> QED
  BY <1>1, <1>3, <1>4 DEF Agreement

\* A run that ends with an error keeps the invariant.
LEMMA FailKeeps ==
  ASSUME TypeOK, Agreement, NEW s \in Servers, Fail(s)
  PROVE  Agreement'
<1>1. CASE holder[s] = s
  BY <1>1, ExitKeeps DEF Fail
<1>2. CASE holder[s] # s
  <2> Forgets
    BY <1>2, VacateForgets DEF Fail
  <2> QED
    BY <1>2, QuietKeeps DEF Fail, Quiet, identity, state
<1> QED
  BY <1>1, <1>2

\* What a server publishes is consistent with its running state.
LEMMA ReadKeeps ==
  ASSUME TypeOK, Agreement, NEW s \in Servers, NEW d \in Servers, Read(s, d)
  PROVE  Agreement'
<1>1. ASSUME NEW t \in Servers, NEW e \in Servers PROVE SeenInfo(t, e)'
  <2>1. CASE t = s /\ e = d
    <3>1. seen'[t][e] = DiscoveryInfo(d)
      BY <2>1 DEF Read, TypeOK
    <3>2. RunningState(d)
      BY DEF Agreement
    <3> QED
      BY <2>1, <3>1, <3>2, ServerDistinct DEF DiscoveryInfo, SeenInfo, RunningState
  <2>2. CASE ~(t = s /\ e = d)
    <3>1. seen'[t][e] = seen[t][e]
      BY <2>2 DEF Read, TypeOK
    <3> QED
      BY <3>1 DEF Agreement, SeenInfo
  <2> QED
    BY <2>1, <2>2
<1> QED
  BY <1>1 DEF Agreement, Read, identity, state, RunningState, SentRepublish, SentRebuild,
              MekNeedsState, SentNotNeedless

\* A modification that is put in the channel of s has to fit the present.
Fitting(s, plan) ==
  /\ plan.kind = "republish" =>
       /\ Sound(plan.con) /\ plan.con.cfg[s] = cfg[s]
       /\ s = PHC =>
            /\ MatchesSecrets(plan.con, plan.ss) /\ MatchesMek(plan.con, plan.mek)
            /\ con[PHC] # None => \/ plan.con.cfg # con[PHC].cfg
                                  \/ plan.con.ver # con[PHC].ver
  /\ plan.kind = "rebuild" =>
       /\ s = PHC /\ con[PHC] # None
       /\ MatchesSecrets(con[PHC], plan.ss) /\ MatchesMek(con[PHC], plan.mek)

\* A modification that fits can be put in the channel.
LEMMA FittingKeeps ==
  ASSUME TypeOK, Agreement, NEW s \in Servers, NEW plan,
         chan' = [chan EXCEPT ![s] = plan], Fitting(s, plan),
         UNCHANGED <<cfg, con, ss, mek, seen>>
  PROVE  Agreement'
<1>1. chan'[s] = plan /\ \A t \in Servers \ {s} : chan'[t] = chan[t]
  BY DEF TypeOK
<1>2. \A t, d \in Servers : SeenInfo(t, d)'
  BY DEF Agreement, SeenInfo
<1>3. \A t \in Servers : RunningState(t)' /\ MekNeedsState'
  BY DEF Agreement, RunningState, MekNeedsState
<1>4. \A t \in Servers : SentRepublish(t)' /\ SentRebuild(t)'
  BY <1>1 DEF Agreement, Fitting, SentRepublish, SentRebuild
<1>5. SentNotNeedless'
  BY <1>1, PeersAreServers DEF Agreement, Fitting, SentNotNeedless
<1> QED
  BY <1>2, <1>3, <1>4, <1>5 DEF Agreement

\* A run may send a modification that fits.
LEMMA SendKeeps ==
  ASSUME TypeOK, Agreement, NEW s \in Servers, NEW plan, Send(s, plan), Fitting(s, plan)
  PROVE  Agreement'
  BY FittingKeeps DEF Send, identity, state

\* A modification that brings no constellation always fits.
LEMMA NoPlanFits ==
  ASSUME NEW s, NEW plan, plan.kind \notin {"republish", "rebuild"} PROVE Fitting(s, plan)
  BY DEF Fitting

\* PHC encapsulates a secret for every peer, and keeps that secret.
LEMMA NewCtFits ==
  ASSUME TypeOK, Agreement, HasRead(PHC), NEW p \in Peers
  PROVE  /\ NewConstellation.cfg[p] = FromPeer(p).cfg
         /\ NewConstellation.ct[p] = NewCt(p)
         /\ NewCt(p).for = FromPeer(p).cfg.enc
         /\ NewCt(p).n # 0 /\ NewSecret(p) = NewCt(p).n
<1>1. NewConstellation.cfg[p] = FromPeer(p).cfg /\ NewConstellation.ct[p] = NewCt(p)
  BY PeersAreServers DEF NewConstellation
<1>2. CASE Reuses(p)
  <2>1. RunningState(PHC) /\ con[PHC] # None
    BY <1>2, PeersAreServers DEF Agreement, Reuses
  <2>2. con[PHC].ct[p].for = con[PHC].cfg[p].enc /\ con[PHC].ct[p].n # 0
    BY <2>1 DEF RunningState, Sound
  <2>3. ss[PHC][p] = con[PHC].ct[p].n
    BY <2>1 DEF RunningState, MatchesSecrets
  <2> QED
    BY <1>1, <1>2, <2>2, <2>3 DEF Reuses, NewCt, NewSecret
<1>3. CASE ~Reuses(p)
  <2>1. NewCt(p) = [for |-> FromPeer(p).cfg.enc, n |-> clock + 1] /\ NewSecret(p) = clock + 1
    BY <1>3 DEF NewCt, NewSecret
  <2>2. clock + 1 # 0
    BY DEF TypeOK
  <2> QED
    BY <1>1, <2>1, <2>2
<1> QED
  BY <1>2, <1>3

\* PHC's new constellation goes with the secrets and the key in its seed.
LEMMA ComposedFits ==
  ASSUME TypeOK, Agreement, HasRead(PHC)
  PROVE  /\ Sound(NewConstellation) /\ NewConstellation.cfg[PHC] = cfg[PHC]
         /\ MatchesSecrets(NewConstellation, [p \in Peers |-> NewSecret(p)])
         /\ MatchesMek(NewConstellation, NewMek)
<1>1. Sound(NewConstellation)
  BY NewCtFits DEF Sound
<1>2. NewConstellation.cfg[PHC] = cfg[PHC]
  BY PeersAreServers DEF NewConstellation
<1>3. MatchesSecrets(NewConstellation, [p \in Peers |-> NewSecret(p)])
  BY NewCtFits DEF MatchesSecrets
<1>4. MatchesMek(NewConstellation, NewMek)
  <2>1. CASE KeepsMek
    <3>1. RunningState(PHC) /\ con[PHC] # None /\ mek # None
      BY <2>1, PeersAreServers DEF Agreement, KeepsMek
    <3> QED
      BY <2>1, <3>1 DEF RunningState, MatchesMek, KeepsMek, NewMek
  <2>2. CASE ~KeepsMek
    BY <2>2 DEF NewMek, MatchesMek
  <2> QED
    BY <2>1, <2>2
<1> QED
  BY <1>1, <1>2, <1>3, <1>4

\* The constellation PHC publishes fits.
LEMMA RepublishKeeps ==
  ASSUME TypeOK, Agreement, Republish
  PROVE  Agreement'
<1> DEFINE plan == Seeded("republish", NewConstellation)
<1>1. /\ plan.kind = "republish" /\ plan.con = NewConstellation /\ plan.mek = NewMek
      /\ plan.ss = [p \in Peers |-> NewSecret(p)]
  BY DEF Seeded, NoPlan
<1>2. HasRead(PHC) /\ Changed /\ Send(PHC, plan)
  BY DEF Republish, Composes
<1>3. ASSUME con[PHC] # None,
             NewConstellation.cfg = con[PHC].cfg, NewConstellation.ver = con[PHC].ver
      PROVE  FALSE
  <2>1. \A p \in Peers : Reuses(p)
    BY <1>2, <1>3, NewCtFits DEF Reuses
  <2>2. \A p \in Peers : NewCt(p) = con[PHC].ct[p]
    BY <2>1 DEF NewCt
  <2>3. con[PHC] \in Constellation
    BY <1>3, PeersAreServers DEF TypeOK
  <2>4. NewConstellation.ct = con[PHC].ct
    BY <2>2, <2>3 DEF NewConstellation, Constellation
  <2>5. NewConstellation # None
    BY <1>2, ComposedType, NoneAssumption
  <2> QED
    BY <1>2, <1>3, <2>4, <2>5 DEF Changed, SameId
<1>4. Fitting(PHC, plan)
  BY <1>1, <1>2, <1>3, ComposedFits DEF Fitting
<1> HIDE DEF plan
<1> QED
  BY <1>2, <1>4, SendKeeps, PeersAreServers

\* So does the state it rebuilds with the master key.
LEMMA RebuildKeeps ==
  ASSUME TypeOK, Agreement, Rebuild
  PROVE  Agreement'
<1> DEFINE plan == Seeded("rebuild", None)
<1>1. /\ plan.kind = "rebuild" /\ plan.mek = NewMek
      /\ plan.ss = [p \in Peers |-> NewSecret(p)]
  BY DEF Seeded, NoPlan
<1>2. HasRead(PHC) /\ SameId(con[PHC], NewConstellation) /\ Send(PHC, plan)
  BY DEF Rebuild, Composes, Changed
<1>3. con[PHC] # None /\ con[PHC].cfg = NewConstellation.cfg /\ con[PHC].ct = NewConstellation.ct
  BY <1>2 DEF SameId
<1>4. /\ MatchesSecrets(con[PHC], [p \in Peers |-> NewSecret(p)])
      /\ MatchesMek(con[PHC], NewMek)
  BY <1>2, <1>3, ComposedFits DEF MatchesSecrets, MatchesMek, Parts
<1>5. Fitting(PHC, plan)
  BY <1>1, <1>3, <1>4 DEF Fitting
<1> HIDE DEF plan
<1> QED
  BY <1>2, <1>5, SendKeeps, PeersAreServers

\* So does the constellation a peer adopts.
LEMMA AdoptKeeps ==
  ASSUME TypeOK, Agreement, NEW p \in Peers, Adopt(p)
  PROVE  Agreement'
<1> DEFINE plan == [NoPlan EXCEPT !.kind = "republish", !.con = FromPhc(p).con]
<1>1. plan.kind = "republish" /\ plan.con = FromPhc(p).con
  BY DEF NoPlan
<1>2. p \in Servers /\ p # PHC /\ SeenInfo(p, PHC) /\ seen[p][PHC] # None
  BY PeersAreServers, SourcesOf DEF Agreement, Adopt, Current, HasRead
<1>3. Sound(FromPhc(p).con) /\ FromPhc(p).con.cfg[p] = cfg[p]
  BY <1>2 DEF Adopt, Current, FromPhc, SeenInfo, Fits
<1>4. Fitting(p, plan) /\ Send(p, plan)
  BY <1>1, <1>2, <1>3 DEF Fitting, Adopt
<1> HIDE DEF plan
<1> QED
  BY <1>2, <1>4, SendKeeps

\* No step of a run in progress breaks the invariant.
LEMMA DiscoverKeeps ==
  ASSUME TypeOK, Agreement, NEW s \in Servers, Discover(s)
  PROVE  Agreement'
<1>1. CASE \E d \in Servers : Read(s, d)
  BY <1>1, ReadKeeps
<1>2. CASE \E d \in Servers : ReadFails(s, d)
  BY <1>2, FinishKeeps DEF ReadFails, Finish
<1>3. CASE Answered(s) \/ TimedOut(s)
  BY <1>3, FinishKeeps DEF Answered, TimedOut, Finish
<1>4. CASE Errored(s)
  BY <1>4, FailKeeps DEF Errored
<1>5. ASSUME s = PHC, DiscoverAsPhc PROVE Agreement'
  <2>1. CASE PhcBinaryOutdated
    BY <1>5, <2>1, NoPlanFits, SendKeeps DEF PhcBinaryOutdated, NoPlan
  <2>2. CASE RunPeers
    BY <2>2, QuietKeeps DEF RunPeers, Ask, Quiet, Forgets, identity, state
  <2>3. CASE Conclude
    BY <1>5, <2>3, FailKeeps, FinishKeeps DEF Conclude, Finish
  <2> QED
    BY <1>5, <2>1, <2>2, <2>3, RepublishKeeps, RebuildKeeps DEF DiscoverAsPhc
<1>6. ASSUME s # PHC, DiscoverAsNonPhc(s) PROVE Agreement'
  <2>0. s \in Peers
    BY <1>6 DEF Servers
  <2>1. CASE PhcNotReady(s) \/ UpToDate(s)
    BY <2>1, FinishKeeps DEF PhcNotReady, UpToDate, Finish
  <2>2. CASE BinaryOutdated(s)
    BY <2>2, NoPlanFits, SendKeeps DEF BinaryOutdated, NoPlan
  <2>3. CASE PhcOutdated(s)
    BY <2>3, QuietKeeps DEF PhcOutdated, Ask, Quiet, Forgets, identity, state
  <2> QED
    BY <1>6, <2>0, <2>1, <2>2, <2>3, AdoptKeeps DEF DiscoverAsNonPhc
<1> QED
  BY <1>1, <1>2, <1>3, <1>4, <1>5, <1>6 DEF Discover

\* s starts anew with the running state c, from which the invariant follows if
\* it holds of c itself.
LEMMA RestartKeeps ==
  ASSUME TypeOK, Agreement, NEW s \in Servers, Restart(s), RunningState(s)',
         s # PHC => mek' = mek, s = PHC => MekNeedsState',
         \A t \in Servers \ {s} : cfg'[t] = cfg[t] /\ con'[t] = con[t] /\ ss'[t] = ss[t]
  PROVE  Agreement'
<1>1. \A t, d \in Servers : SeenInfo(t, d)'
  BY VacateForgets, ForgetsKeeps DEF Restart
<1>2. chan'[s] = None /\ \A t \in Servers \ {s} : chan'[t] = chan[t]
  BY DEF Restart, TypeOK
<1>3. ASSUME NEW t \in Servers \ {s} PROVE RunningState(t)'
  BY <1>3 DEF Agreement, RunningState
<1>4. ASSUME NEW t \in Servers PROVE SentRepublish(t)' /\ SentRebuild(t)'
  BY <1>2, PeersAreServers DEF Agreement, SentRepublish, SentRebuild
<1>5. MekNeedsState' /\ SentNotNeedless'
  BY <1>2, PeersAreServers DEF Agreement, MekNeedsState, SentNotNeedless
<1> QED
  BY <1>1, <1>3, <1>4, <1>5 DEF Agreement

\* The new constellation was sound when sent, and still is.
LEMMA ExecuteRepublishKeeps ==
  ASSUME TypeOK, Agreement, NEW s \in Servers, ExecuteRepublish(s)
  PROVE  Agreement'
<1>1. SentRepublish(s)
  BY DEF Agreement
<1>2. /\ con'[s] = chan[s].con /\ ss'[s] = Secrets(s, chan[s]) /\ cfg' = cfg
      /\ mek' = IF s = PHC THEN chan[s].mek ELSE mek
  BY DEF ExecuteRepublish, TypeOK
<1>3. chan[s].con \in Constellation /\ chan[s].con # None
  BY ChanType, NoneAssumption DEF ExecuteRepublish
<1>4. RunningState(s)'
  <2>1. CASE s = PHC
    BY <1>1, <1>2, <2>1 DEF ExecuteRepublish, RunningState, SentRepublish, Secrets
  <2>2. CASE s # PHC
    <3>1. s \in Peers
      BY <2>2 DEF Servers
    <3>2. ss'[s][s] = Decap(cfg[s].enc, chan[s].con.ct[s])
      BY <1>2, <2>2, <3>1 DEF Secrets, NoSecrets
    <3>3. Sound(chan[s].con) /\ chan[s].con.cfg[s] = cfg[s]
      BY <1>1 DEF ExecuteRepublish, SentRepublish
    <3>4. ss'[s][s] = chan[s].con.ct[s].n
      BY <3>1, <3>2, <3>3 DEF Sound, Decap
    <3> QED
      BY <1>2, <2>2, <3>3, <3>4 DEF RunningState
  <2> QED
    BY <2>1, <2>2
<1>5. \A t \in Servers \ {s} : cfg'[t] = cfg[t] /\ con'[t] = con[t] /\ ss'[t] = ss[t]
  BY DEF ExecuteRepublish, TypeOK
<1>6. s = PHC => MekNeedsState'
  BY <1>2, <1>3 DEF MekNeedsState
<1> QED
  BY <1>2, <1>4, <1>5, <1>6, RestartKeeps DEF ExecuteRepublish

\* The seed PHC rebuilds from belongs to its constellation.
LEMMA ExecuteRebuildKeeps ==
  ASSUME TypeOK, Agreement, NEW s \in Servers, ExecuteRebuild(s)
  PROVE  Agreement'
<1>1. SentRebuild(s) /\ RunningState(s)
  BY DEF Agreement
<1>2. s = PHC /\ con[PHC] # None
  BY <1>1 DEF ExecuteRebuild, SentRebuild
<1>3. con' = con /\ cfg' = cfg /\ ss'[s] = chan[s].ss /\ mek' = chan[s].mek /\ Restart(s)
  BY <1>2 DEF ExecuteRebuild, TypeOK
<1>4. RunningState(s)' /\ MekNeedsState'
  BY <1>1, <1>2, <1>3 DEF ExecuteRebuild, RunningState, SentRebuild, MekNeedsState
<1>5. \A t \in Servers \ {s} : cfg'[t] = cfg[t] /\ con'[t] = con[t] /\ ss'[t] = ss[t]
  BY <1>2, <1>3 DEF ExecuteRebuild, TypeOK
<1> QED
  BY <1>2, <1>3, <1>4, <1>5, RestartKeeps

\* No command that a server executes breaks the invariant.
LEMMA ExecuteKeeps ==
  ASSUME TypeOK, Agreement, NEW s \in Servers, Execute(s)
  PROVE  Agreement'
<1>1. CASE ExecuteExit(s)
  BY <1>1, ExitKeeps DEF ExecuteExit
<1>2. CASE ExecuteConfig(s)
  <2>1. con'[s] = None /\ (s = PHC => mek' = None) /\ (s # PHC => mek' = mek) /\ Restart(s)
    BY <1>2 DEF ExecuteConfig, TypeOK
  <2>2. \A t \in Servers \ {s} : cfg'[t] = cfg[t] /\ con'[t] = con[t] /\ ss'[t] = ss[t]
    BY <1>2 DEF ExecuteConfig, TypeOK
  <2>3. RunningState(s)' /\ (s = PHC => MekNeedsState')
    BY <2>1 DEF RunningState, MekNeedsState
  <2> QED
    BY <2>1, <2>2, <2>3, RestartKeeps
<1> QED
  BY <1>1, <1>2, ExecuteRepublishKeeps, ExecuteRebuildKeeps DEF Execute

\* Neither does anything that befalls the servers.
LEMMA EnvironmentKeeps ==
  ASSUME TypeOK, Agreement, NEW s \in Servers, Environment(s)
  PROVE  Agreement'
<1>1. CASE QueryFails(s)
  BY <1>1, FinishKeeps, FailKeeps DEF QueryFails, Finish
<1>2. CASE PostConfig(s)
  <2>1. PICK c \in Cfg : chan' = [chan EXCEPT ![s] = [NoPlan EXCEPT !.kind = "config", !.cfg = c]]
    BY <1>2 DEF PostConfig
  <2> DEFINE plan == [NoPlan EXCEPT !.kind = "config", !.cfg = c]
  <2>2. plan.kind = "config"
    BY DEF NoPlan
  <2>3. UNCHANGED <<cfg, con, ss, mek, seen>>
    BY <1>2 DEF PostConfig, identity, state, runs
  <2>4. chan' = [chan EXCEPT ![s] = plan]
    BY <2>1
  <2> HIDE DEF plan
  <2> QED
    BY <2>2, <2>3, <2>4, FittingKeeps, NoPlanFits
<1>3. CASE Crash(s)
  BY <1>3, ExitKeeps DEF Crash
<1>4. CASE Deploy(s)
  BY <1>4, QuietKeeps DEF Deploy, Quiet, Forgets, state, runs
<1>5. CASE StrangerRun(s)
  BY <1>5, QuietKeeps DEF StrangerRun, StartRun, Quiet, Forgets, identity, state
<1> QED
  BY <1>1, <1>2, <1>3, <1>4, <1>5 DEF Environment

-----------------------------------------------------------------------------
(* A process that is down has no running state and no commands: it takes    *)
(* the configuration in its file when it starts, whatever it had in memory. *)

DownIsBlank == \A s \in Servers : pc[s] = "down" => con[s] = None /\ chan[s] = None

\* What a step does to a server it leaves down, or takes down.
KeepsBlank ==
  \A t \in Servers : pc'[t] = "down" =>
    \/ pc[t] = "down" /\ con'[t] = con[t] /\ chan'[t] = chan[t]
    \/ con'[t] = None /\ chan'[t] = None

\* A run that ends takes no server down ...
LEMMA FinishBlank ==
  ASSUME TypeOK, NEW s \in Servers, NEW result, NEW queues, FinishWith(s, result, queues)
  PROVE  KeepsBlank
  BY DEF TypeOK, FinishWith, Vacate, KeepsBlank, state

\* ... a process that exits gives up all it had ...
LEMMA ExitBlank ==
  ASSUME TypeOK, NEW s \in Servers, Exit(s)
  PROVE  KeepsBlank
  BY DEF TypeOK, Exit, Vacate, KeepsBlank

\* ... and an error does the one or the other.
LEMMA FailBlank ==
  ASSUME TypeOK, NEW s \in Servers, Fail(s)
  PROVE  KeepsBlank
<1>1. CASE holder[s] = s
  BY <1>1, ExitBlank DEF Fail
<1>2. CASE holder[s] # s
  <2>1. con' = con /\ chan' = chan
    BY <1>2 DEF Fail, state
  <2>2. pc' = [d \in Servers |-> IF d = s THEN "free"
                                 ELSE IF d = holder[s] THEN "error" ELSE pc[d]]
    BY <1>2 DEF Fail, Vacate
  <2>3. \A t \in Servers : pc'[t] = "down" => pc[t] = "down"
    BY <2>2
  <2> QED
    BY <2>1, <2>3 DEF KeepsBlank
<1> QED
  BY <1>1, <1>2

\* Who sends a modification, or asks others to run discovery, is up.
LEMMA SendBlank ==
  ASSUME TypeOK, NEW s \in Servers, NEW plan, Send(s, plan)
  PROVE  KeepsBlank
  BY DEF TypeOK, Send, KeepsBlank, state

LEMMA AskBlank ==
  ASSUME TypeOK, NEW s \in Servers, NEW D, Ask(s, D)
  PROVE  KeepsBlank
  BY DEF TypeOK, Ask, KeepsBlank, state

\* Who restarts is up, and the others are left alone.
LEMMA RestartBlank ==
  ASSUME TypeOK, NEW s \in Servers, Restart(s),
         \A t \in Servers \ {s} : con'[t] = con[t]
  PROVE  KeepsBlank
  BY DEF TypeOK, Restart, Vacate, KeepsBlank

\* No step leaves anything with a server that is down.
LEMMA BlankStep == TypeOK /\ DownIsBlank /\ [Next]_vars => DownIsBlank'
<1> SUFFICES ASSUME TypeOK, DownIsBlank, [Next]_vars PROVE KeepsBlank
  BY DEF DownIsBlank, KeepsBlank
<1>1. ASSUME NEW s \in Servers, NEW c \in Callers, BootRun(s) \/ ServeCall(s, c)
      PROVE  KeepsBlank
  BY <1>1 DEF TypeOK, BootRun, ServeCall, StartRun, KeepsBlank, state
<1>2. ASSUME NEW s \in Servers, Discover(s) PROVE KeepsBlank
  <2>1. CASE \E d \in Servers : Read(s, d)
    BY <2>1 DEF Read, KeepsBlank, state
  <2>2. CASE (\E d \in Servers : ReadFails(s, d)) \/ Answered(s) \/ TimedOut(s)
    BY <2>2, FinishBlank DEF ReadFails, Answered, TimedOut, Finish
  <2>3. CASE Errored(s)
    BY <2>3, FailBlank DEF Errored
  <2>4. ASSUME s = PHC, DiscoverAsPhc PROVE KeepsBlank
    BY <2>4, PeersAreServers, SendBlank, AskBlank, FailBlank, FinishBlank
       DEF DiscoverAsPhc, PhcBinaryOutdated, Republish, Rebuild, RunPeers, Conclude, Finish
  <2>5. ASSUME DiscoverAsNonPhc(s) PROVE KeepsBlank
    BY <2>5, SendBlank, AskBlank, FinishBlank
       DEF DiscoverAsNonPhc, PhcNotReady, BinaryOutdated, PhcOutdated, UpToDate, Adopt, Finish
  <2> QED
    BY <1>2, <2>1, <2>2, <2>3, <2>4, <2>5 DEF Discover
<1>3. ASSUME NEW s \in Servers, Execute(s) PROVE KeepsBlank
  <2>1. CASE ExecuteRepublish(s)
    BY <2>1, RestartBlank DEF TypeOK, ExecuteRepublish
  <2>2. CASE ExecuteRebuild(s)
    BY <2>2, RestartBlank, ExitBlank DEF TypeOK, ExecuteRebuild
  <2>3. CASE ExecuteExit(s)
    BY <2>3, ExitBlank DEF ExecuteExit
  <2>4. CASE ExecuteConfig(s)
    BY <2>4, RestartBlank DEF TypeOK, ExecuteConfig
  <2> QED
    BY <1>3, <2>1, <2>2, <2>3, <2>4 DEF Execute
<1>4. ASSUME NEW s \in Servers, Environment(s) PROVE KeepsBlank
  <2>1. CASE QueryFails(s)
    BY <2>1, FinishBlank, FailBlank DEF QueryFails, Finish
  <2>2. CASE PostConfig(s)
    BY <2>2 DEF TypeOK, PostConfig, KeepsBlank, state, runs
  <2>3. CASE Crash(s)
    BY <2>3, ExitBlank DEF Crash
  <2>4. CASE Deploy(s)
    BY <2>4 DEF Deploy, KeepsBlank, state, runs
  <2>5. CASE StrangerRun(s)
    BY <2>5 DEF TypeOK, StrangerRun, StartRun, KeepsBlank, state
  <2> QED
    BY <1>4, <2>1, <2>2, <2>3, <2>4, <2>5 DEF Environment
<1>5. ASSUME NEW s \in Servers, DropRun(s) \/ DropCall(s) \/ Start(s) PROVE KeepsBlank
  <2>1. CASE DropRun(s)
    BY <2>1, FinishBlank DEF DropRun, Finish
  <2>2. CASE Start(s)
    BY <2>2 DEF TypeOK, Start, KeepsBlank, state
  <2>3. CASE DropCall(s)
    BY <2>3 DEF DropCall, KeepsBlank, state
  <2> QED
    BY <1>5, <2>1, <2>2, <2>3
<1>6. CASE UNCHANGED vars
  BY <1>6 DEF vars, KeepsBlank, state, runs
<1> QED
  BY <1>1, <1>2, <1>3, <1>4, <1>5, <1>6 DEF Next, Callers

\* A server that starts from its file has no running state that could not fit.
LEMMA StartKeeps ==
  ASSUME TypeOK, DownIsBlank, Agreement, NEW s \in Servers, Start(s)
  PROVE  Agreement'
<1>1. \A t, d \in Servers : SeenInfo(t, d)'
  BY ForgetsKeeps DEF Start, Forgets
<1>2. con[s] = None /\ chan[s] = None
  BY DEF DownIsBlank, Start
<1>3. UNCHANGED <<con, ss, mek, chan>> /\ \A t \in Servers \ {s} : cfg'[t] = cfg[t]
  BY DEF Start, TypeOK, state
<1>4. ASSUME NEW t \in Servers PROVE (RunningState(t) /\ SentRepublish(t) /\ SentRebuild(t))'
  BY <1>2, <1>3 DEF Agreement, RunningState, SentRepublish, SentRebuild
<1>5. MekNeedsState' /\ SentNotNeedless'
  BY <1>3 DEF Agreement, MekNeedsState, SentNotNeedless
<1> QED
  BY <1>1, <1>4, <1>5 DEF Agreement

-----------------------------------------------------------------------------
\* Every step keeps the invariant ...
LEMMA AgreementStep == TypeOK /\ DownIsBlank /\ Agreement /\ [Next]_vars => Agreement'
<1> SUFFICES ASSUME TypeOK, DownIsBlank, Agreement, [Next]_vars PROVE Agreement'
  OBVIOUS
<1>1. ASSUME NEW s \in Servers, NEW c \in Callers, BootRun(s) \/ ServeCall(s, c)
      PROVE  Agreement'
  BY <1>1, QuietKeeps DEF BootRun, ServeCall, StartRun, Quiet, Forgets, identity, state
<1>2. ASSUME NEW s \in Servers, DropRun(s) PROVE Agreement'
  BY <1>2, FinishKeeps DEF DropRun, Finish
<1>3. ASSUME NEW s \in Servers, Start(s) PROVE Agreement'
  BY <1>3, StartKeeps
<1>4. CASE UNCHANGED vars
  BY <1>4, QuietKeeps DEF vars, Quiet, Forgets, identity, state, runs
<1>5. ASSUME NEW s \in Servers, DropCall(s) PROVE Agreement'
  BY <1>5, QuietKeeps DEF DropCall, Quiet, Forgets, identity, state
<1> QED
  BY <1>1, <1>2, <1>3, <1>4, <1>5, DiscoverKeeps, ExecuteKeeps, EnvironmentKeeps DEF Next, Callers

\* ... which holds initially ...
LEMMA AgreementInit == Init => DownIsBlank /\ Agreement
  BY PeersAreServers DEF Init, DownIsBlank, Agreement, RunningState, SentRepublish, SentRebuild,
                         SeenInfo, Nothing, MekNeedsState, SentNotNeedless

\* ... and therefore always.
LEMMA Agreed == Spec => [](TypeOK /\ Agreement)
  BY TypeInit, TypeStep, AgreementInit, BlankStep, AgreementStep, PTL DEF Spec

-----------------------------------------------------------------------------
(* What follows.                                                           *)

\* PHC and a peer that are on the same constellation, of whatever origin, hold
\* the same secret: what one of them seals the other can open.
THEOREM SecretsAlwaysAgree == Spec => []SecretsAgree
<1>1. TypeOK /\ Agreement => SecretsAgree
  <2> SUFFICES ASSUME TypeOK, Agreement, NEW p \in Peers, SameId(con[PHC], con[p])
               PROVE  ss[p][p] # 0 /\ ss[PHC][p] = ss[p][p]
    BY DEF SecretsAgree
  <2>1. RunningState(PHC) /\ RunningState(p) /\ p # PHC
    BY PeersAreServers DEF Agreement
  <2>2. con[PHC] # None /\ con[p] # None /\ con[PHC].ct = con[p].ct
    BY DEF SameId
  <2> QED
    BY <2>1, <2>2 DEF RunningState, Sound, MatchesSecrets
<1> QED
  BY <1>1, Agreed, PTL

\* A server never works with a constellation made for another configuration
\* than its own, although it may be replaced while a constellation travels.
THEOREM AdoptedAlwaysFits == Spec => []AdoptedFits
<1>1. Agreement => AdoptedFits
  BY DEF Agreement, AdoptedFits, RunningState
<1> QED
  BY <1>1, Agreed, PTL

\* The comment at master_enc_key_from_sealed_part: unsealing is guaranteed to
\* succeed, even though what PHC has read may be stale by the time it is used.
THEOREM UnsealAlwaysSucceeds == Spec => []UnsealSucceeds
<1>1. TypeOK /\ Agreement => UnsealSucceeds
  <2> SUFFICES ASSUME TypeOK, Agreement, Composes, PartReady PROVE Unseals
    BY DEF UnsealSucceeds, CannotUnseal
  <2>1. SeenInfo(PHC, Transcryptor) /\ HasRead(PHC) /\ FromPeer(Transcryptor) # None
    BY SourcesOf, PeersAreServers, ServerDistinct DEF Agreement, Composes, HasRead, FromPeer
  <2>2. /\ FromPeer(Transcryptor).con # None
        /\ FromPeer(Transcryptor).con.ct = NewConstellation.ct
    BY DEF PartReady, SameId
  <2>3. FromPeer(Transcryptor).seal = NewCt(Transcryptor).n
    BY <2>1, <2>2, NewCtFits, ServerDistinct DEF SeenInfo, FromPeer
  <2> QED
    BY <2>1, <2>3, NewCtFits, ServerDistinct DEF Unseals
<1> QED
  BY <1>1, Agreed, PTL

\* PHC never encrypts identities with a master key that its constellation does
\* not commit to.
THEOREM MasterKeyAlwaysCommitted == Spec => []MasterKeyCommitted
<1>1. Agreement => MasterKeyCommitted
  BY PeersAreServers DEF Agreement, MasterKeyCommitted, MekNeedsState, RunningState, MatchesMek
<1> QED
  BY <1>1, Agreed, PTL

\* PHC replaces its constellation by another only when a configuration, or its
\* own version, is not the one it recorded.
THEOREM NeverRepublishesNeedlessly == Spec => NoNeedlessRepublish
<1> DEFINE Needed == con[PHC] # None /\ con'[PHC] # None /\ con'[PHC] # con[PHC]
                       => con'[PHC].cfg # con[PHC].cfg \/ con'[PHC].ver # con[PHC].ver
<1>1. ASSUME TypeOK, NEW s \in Servers, Exit(s) PROVE Needed
  BY <1>1, PeersAreServers DEF Exit, TypeOK
<1>2. ASSUME TypeOK, NEW s \in Servers, Fail(s) PROVE Needed
  BY <1>1, <1>2 DEF Fail, state
<1>3. ASSUME TypeOK, NEW s \in Servers, Discover(s) PROVE Needed
  <2>1. (\E c \in Servers : Fail(c)) \/ con' = con
    BY <1>3, PeersAreServers
       DEF Discover, Read, ReadFails, Answered, Errored, TimedOut, Finish, FinishWith,
           DiscoverAsPhc, PhcBinaryOutdated, Republish, Rebuild, RunPeers, Conclude,
           DiscoverAsNonPhc, PhcNotReady, BinaryOutdated, PhcOutdated, UpToDate, Adopt,
           Ask, Send, state
  <2> QED
    BY <1>2, <1>3, <2>1
<1>4. ASSUME TypeOK, Agreement, NEW s \in Servers, Execute(s) PROVE Needed
  <2>1. CASE ExecuteRepublish(s) /\ s = PHC
    BY <1>4, <2>1 DEF ExecuteRepublish, Agreement, SentNotNeedless, TypeOK
  <2>2. CASE ExecuteRepublish(s) /\ s # PHC
    BY <1>4, <2>2, PeersAreServers DEF ExecuteRepublish, TypeOK
  <2>3. CASE ExecuteRebuild(s)
    BY <1>1, <1>4, <2>3 DEF ExecuteRebuild
  <2>4. CASE ExecuteExit(s)
    BY <1>1, <1>4, <2>4 DEF ExecuteExit
  <2>5. CASE ExecuteConfig(s)
    BY <1>4, <2>5, PeersAreServers DEF ExecuteConfig, TypeOK
  <2> QED
    BY <1>4, <2>1, <2>2, <2>3, <2>4, <2>5 DEF Execute
<1>5. ASSUME TypeOK, NEW s \in Servers, Environment(s) PROVE Needed
  BY <1>1, <1>2, <1>5 DEF Environment, QueryFails, Finish, FinishWith, PostConfig, Crash, Deploy,
                          StrangerRun, StartRun, state
<1>6. ASSUME TypeOK, NEW s \in Servers, NEW c \in Callers,
             BootRun(s) \/ ServeCall(s, c) \/ DropRun(s) \/ DropCall(s) \/ Start(s)
      PROVE  Needed
  BY <1>6 DEF BootRun, ServeCall, StartRun, DropRun, DropCall, Finish, FinishWith, Start, state
<1>7. ASSUME UNCHANGED vars PROVE Needed
  BY <1>7 DEF vars, identity, state, runs, budgets
<1> HIDE DEF Needed
<1>8. TypeOK /\ Agreement /\ [Next]_vars => Needed
  BY <1>3, <1>4, <1>5, <1>6, <1>7 DEF Next, Callers
<1>9. TypeOK /\ Agreement /\ [Next]_vars => [Needed]_vars
  BY <1>8
<1>10. Spec => [][Needed]_vars
  BY <1>9, Agreed, PTL DEF Spec
<1> QED
  BY <1>10 DEF NoNeedlessRepublish, Needed

=============================================================================

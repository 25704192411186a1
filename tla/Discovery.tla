------------------------------ MODULE Discovery ------------------------------
(***************************************************************************)
(* The discovery protocol by which PubHubs Central (PHC), the transcryptor *)
(* and the authentication server agree on a constellation: the record of   *)
(* one another's keys, urls and key-encapsulation ciphertexts each of them *)
(* needs before it can serve users.  PHC composes the constellation from   *)
(* the discovery info of its peers, and the peers adopt what PHC           *)
(* publishes.  Everybody learns by asking; what was read may be stale by   *)
(* the time it is used; and a server drops all its requests in progress    *)
(* whenever it restarts to take a new constellation or configuration.      *)
(*                                                                         *)
(* One run of request_discovery at a time holds a server's discovery lock. *)
(* Its phases are the values of pc: "reading" discovery info of others,    *)
(* "asking" others to run discovery themselves, and "sent" when the        *)
(* modification it decided on is in the server's command channel.  The     *)
(* restart that executes a modification ends every request at that server. *)
(***************************************************************************)
EXTENDS Integers, FiniteSets

CONSTANTS
  PHC,            \* PubHubs Central
  Transcryptor,   \* holds the other part of the master encryption key
  AuthServer,     \* the authentication server
  Keys,           \* values a configured key can take
  Versions,       \* versions of the binary, as numbers
  None,           \* absence of a value (Option::None)
  Gone,           \* a caller nobody waits for: a stranger, or one that left
  ConfigFile,     \* ConfigFile[s]: the configuration in the file s reads
  Configurable,   \* the servers whose configuration is changed ...
  MaxConfigs,     \* ... bound: at most so many times
  Crashable,      \* the servers whose process crashes ...
  MaxCrashes,     \* ... bound: at most so many times
  MaxFaults,      \* bound: failed queries between servers that are up
  StrangersCall   \* whether strangers invoke the unprotected endpoint

Peers   == {Transcryptor, AuthServer}
Servers == {PHC} \cup Peers
Callers == Servers \cup {Gone}

ASSUME ServersAssumption ==
  /\ PHC \notin Peers /\ Transcryptor # AuthServer
  /\ None \notin Servers /\ Gone \notin Servers /\ None # Gone
ASSUME DataAssumption ==
  /\ Keys # {} /\ Versions # {} /\ Versions \subseteq Nat
ASSUME BoundsAssumption ==
  /\ MaxConfigs \in Nat /\ MaxCrashes \in Nat /\ MaxFaults \in Nat
  /\ Configurable \subseteq Servers /\ Crashable \subseteq Servers
  /\ StrangersCall \in BOOLEAN

VARIABLES
  cfg,      \* cfg[s]: the keys in the configuration s has in memory
  ver,      \* ver[s]: version of the binary that s is running
  disk,     \* disk[s]: version of the binary that s starts next time
  con,      \* con[s]: constellation in the running state of s, or None
  ss,       \* ss[s][p]: secret between PHC and p that s holds, 0 if none
  mek,      \* master encryption key in PHC's running state, or None
  boot,     \* boot[s]: the discovery s runs at startup is not done yet
  pc,       \* pc[s]: phase of the run holding the discovery lock of s
  holder,   \* holder[s]: who invoked that run: s at startup, a server, Gone
  queue,    \* queue[s]: callers whose request waits for the lock of s
  asked,    \* asked[s]: servers the run at s asked to run discovery
  seen,     \* seen[s][d]: discovery info of d that the run at s has read
  chan,     \* chan[s]: modification in the command channel of s, or None
  clock,    \* counts the constellations PHC composed (created_at)
  configs, crashes, faults   \* uses made of the bounds

identity == <<cfg, ver, disk>>
state    == <<con, ss, mek>>
runs     == <<boot, pc, holder, queue, asked, seen>>
budgets  == <<configs, crashes, faults>>
vars     == <<identity, state, runs, chan, clock, budgets>>

-----------------------------------------------------------------------------
(* Data.  A configuration holds the decapsulation key (enc) and, in part,  *)
(* whatever else the constellation commits the server to: its verifying    *)
(* key and, for PHC and the transcryptor, its part of the master key.      *)

Cfg == [enc : Keys, part : Keys]
Ct  == [for : Keys, n : Nat]      \* ciphertext: the n-th, for key `for'
Mek == [t : Keys, phc : Keys]     \* the master key combines two parts

Constellation ==
  [cfg : [Servers -> Cfg], ct : [Peers -> Ct], ver : Versions, at : Nat]

ASSUME ConfigFileAssumption == ConfigFile \in [Servers -> Cfg]

\* None is the absence of a value.
ASSUME NoneAssumption == None \notin Cfg /\ None \notin Constellation

\* (slip: an id that does not cover the ciphertexts)
SameIdSansCiphertexts(c, d) == c # None /\ d # None /\ c.cfg = d.cfg /\ c.ver = d.ver

\* Constellations, if there, have the same id when they are equal but for
\* created_at.
SameId(c, d) ==
  c # None /\ d # None /\ c.cfg = d.cfg /\ c.ct = d.ct /\ c.ver = d.ver

\* What decapsulation yields: another key gives a secret nobody else has.
Decap(key, ct) == IF ct.for = key THEN ct.n ELSE 0

NoSecrets == [p \in Peers |-> 0]

\* Discovery info a server publishes; the transcryptor seals its part of the
\* master key under the secret (seal) it shares with PHC.
Info == [con : Constellation \cup {None}, cfg : Cfg, ver : Versions, seal : Nat]

DiscoveryInfo(d) ==
  [con  |-> con[d],
   cfg  |-> cfg[d],
   ver  |-> ver[d],
   seal |-> IF d = Transcryptor THEN ss[d][d] ELSE 0]

Nothing == [d \in Servers |-> None]

\* Modifications that travel through the command channel of a server.
Plan ==
  {plan \in [kind : {"republish", "rebuild", "exit", "config"},
             con  : Constellation \cup {None},
             ss   : [Peers -> Nat],
             mek  : Mek \cup {None},
             cfg  : Cfg \cup {None}] :
     /\ plan.kind = "republish" => plan.con # None
     /\ plan.kind = "config" => plan.cfg # None}

NoPlan == [kind |-> "exit", con |-> None, ss |-> NoSecrets, mek |-> None, cfg |-> None]

Phases == {"down", "free", "reading", "asking", "error", "sent"}

TypeOK ==
  /\ cfg \in [Servers -> Cfg]
  /\ ver \in [Servers -> Versions] /\ disk \in [Servers -> Versions]
  /\ con \in [Servers -> Constellation \cup {None}]
  /\ ss \in [Servers -> [Peers -> Nat]]
  /\ mek \in Mek \cup {None}
  /\ boot \in [Servers -> BOOLEAN]
  /\ pc \in [Servers -> Phases]
  /\ holder \in [Servers -> Callers \cup {None}]
  /\ queue \in [Servers -> SUBSET Callers] /\ asked \in [Servers -> SUBSET Servers]
  /\ seen \in [Servers -> [Servers -> Info \cup {None}]]
  /\ chan \in [Servers -> Plan \cup {None}]
  /\ clock \in Nat /\ configs \in Nat /\ crashes \in Nat /\ faults \in Nat

\* Keys of different servers, or for different uses, are never compared.
Init ==
  /\ cfg = ConfigFile
  /\ ver \in [Servers -> Versions] /\ disk = ver
  /\ con = [s \in Servers |-> None]
  /\ ss = [s \in Servers |-> NoSecrets]
  /\ mek = None
  /\ boot = [s \in Servers |-> TRUE]
  /\ pc = [s \in Servers |-> "free"]
  /\ holder = [s \in Servers |-> None]
  /\ queue = [s \in Servers |-> {}] /\ asked = [s \in Servers |-> {}]
  /\ seen = [s \in Servers |-> Nothing]
  /\ chan = [s \in Servers |-> None]
  /\ clock = 0 /\ configs = 0 /\ crashes = 0 /\ faults = 0

-----------------------------------------------------------------------------
(* How a run begins and ends.                                              *)

\* c's request obtains the discovery lock of s.
StartRun(s, c) ==
  /\ pc[s] = "free"
  /\ pc' = [pc EXCEPT ![s] = "reading"]
  /\ holder' = [holder EXCEPT ![s] = c]
  /\ UNCHANGED <<identity, state, boot, asked, seen, chan, clock, budgets>>

\* The task started along with the server runs discovery until it succeeds.
BootRun(s) == boot[s] /\ StartRun(s, s) /\ UNCHANGED queue

\* A request that waited for the lock.
ServeCall(s, c) ==
  /\ c \in queue[s]
  /\ StartRun(s, c)
  /\ queue' = [queue EXCEPT ![s] = @ \ {c}]

\* The endpoint is unprotected: anyone can invoke it, at any time.
StrangerRun(s) == StrangersCall /\ StartRun(s, Gone) /\ UNCHANGED queue

\* The queues when s closes its connections, with which its requests elsewhere
\* are dropped, and those in `waiting' are left in its own queue ...
HangUp(s, waiting) ==
  [d \in Servers |-> IF d = s THEN waiting ELSE queue[d] \ {s}]

\* ... and when it goes on making its requests without awaiting the answers.
Detach(s) ==
  [d \in Servers |-> IF s \in queue[d] THEN (queue[d] \ {s}) \cup {Gone} ELSE queue[d]]

\* The run at s stops, which leaves the servers in phases `pcs' with `queues'.
\* What others run at its request they run for nobody.
Vacate(s, pcs, queues) ==
  /\ pc' = pcs
  /\ holder' = [d \in Servers |-> IF d = s THEN None
                                  ELSE IF holder[d] = s THEN Gone ELSE holder[d]]
  /\ queue' = queues
  /\ asked' = [asked EXCEPT ![s] = {}]
  /\ seen' = [seen EXCEPT ![s] = Nothing]

\* The process of s exits; whoever has a request there loses the connection.
Exit(s) ==
  /\ Vacate(s, [pc EXCEPT ![s] = "down"], HangUp(s, {}))
  /\ con' = [con EXCEPT ![s] = None]
  /\ ss' = [ss EXCEPT ![s] = NoSecrets]
  /\ mek' = IF s = PHC THEN None ELSE mek
  /\ chan' = [chan EXCEPT ![s] = None]
  /\ boot' = [boot EXCEPT ![s] = FALSE]
  /\ UNCHANGED <<identity, clock>>

\* The run ends with a result ("ok"), or an error that may be retried.
FinishWith(s, result, queues) ==
  /\ Vacate(s, [pc EXCEPT ![s] = "free"], queues)
  /\ boot' = [boot EXCEPT ![s] = @ /\ ~(holder[s] = s /\ result = "ok")]
  /\ UNCHANGED <<identity, state, chan, clock>>

Finish(s, result) == FinishWith(s, result, HangUp(s, queue[s]))

\* The run ends with an error that may not be retried.  The startup task takes
\* the process down with it; another server is told, and fails in turn.
Fail(s) ==
  IF holder[s] = s
  THEN Exit(s)
  ELSE /\ Vacate(s, [d \in Servers |-> IF d = s THEN "free"
                                       ELSE IF d = holder[s] THEN "error" ELSE pc[d]],
                 Detach(s))
       /\ UNCHANGED <<boot, identity, state, chan, clock>>

-----------------------------------------------------------------------------
(* A run in progress.                                                      *)

\* Whose discovery info a run at s needs.
Sources(s) == IF s = PHC THEN Peers ELSE {PHC}

\* s receives the discovery info of d.
Read(s, d) ==
  /\ pc[s] = "reading" /\ d \in Sources(s) /\ seen[s][d] = None
  /\ pc[d] # "down"
  /\ seen' = [seen EXCEPT ![s][d] = DiscoveryInfo(d)]
  /\ UNCHANGED <<identity, state, boot, pc, holder, queue, asked, chan, clock, budgets>>

\* d cannot be reached.
ReadFails(s, d) ==
  /\ pc[s] = "reading" /\ d \in Sources(s) /\ seen[s][d] = None
  /\ pc[d] = "down"
  /\ Finish(s, "retry")
  /\ UNCHANGED budgets

HasRead(s) == pc[s] = "reading" /\ \A d \in Sources(s) : seen[s][d] # None

\* The run at s asks the servers in D to run discovery.  A server that is down
\* does not take the request.
Ask(s, D) ==
  /\ pc' = [pc EXCEPT ![s] = "asking"]
  /\ asked' = [asked EXCEPT ![s] = D]
  /\ queue' = [d \in Servers |-> IF d \in D /\ pc[d] # "down" THEN queue[d] \cup {s}
                                 ELSE queue[d]]
  /\ UNCHANGED <<identity, state, boot, holder, seen, chan, clock, budgets>>

\* The run at s hands a modification to its server, and waits for the server
\* to accept it.  The channel holds one command.
Send(s, plan) ==
  /\ chan[s] = None
  /\ chan' = [chan EXCEPT ![s] = plan]
  /\ pc' = [pc EXCEPT ![s] = "sent"]
  /\ UNCHANGED <<identity, state, boot, holder, queue, asked, seen, budgets>>

\* The first request to get an answer, or to lose its connection, ends the
\* run: whatever the answer, the caller is to start from the beginning.  The
\* other request is detached.
Answered(s) ==
  /\ pc[s] = "asking"
  /\ \E d \in asked[s] : s \notin queue[d] /\ holder[d] # s
  /\ FinishWith(s, "retry", Detach(s))
  /\ UNCHANGED budgets

\* The answer is an error that may not be retried.
Errored(s) == pc[s] = "error" /\ Fail(s) /\ UNCHANGED budgets

\* (slip: a client without a timeout)
NeverTimesOut(s) == FALSE

\* A request that does not get its turn is given up: the client times out.
TimedOut(s) ==
  /\ pc[s] = "asking"
  /\ \A d \in asked[s] : s \in queue[d]
  /\ Finish(s, "retry")
  /\ UNCHANGED budgets

\* A query of the run fails although the other server is up: a timeout, a lost
\* connection, or a response the client makes nothing of.
QueryFails(s) ==
  /\ pc[s] \in {"reading", "asking"} /\ faults < MaxFaults
  /\ faults' = faults + 1
  /\ Finish(s, "retry") \/ Fail(s)
  /\ UNCHANGED <<configs, crashes>>

\* The client is gone, and with it the request that was being served.
DropRun(s) ==
  /\ holder[s] = Gone
  /\ Finish(s, "retry")
  /\ UNCHANGED budgets

\* It may also be gone while its request waits for the lock.
DropCall(s) ==
  /\ Gone \in queue[s]
  /\ queue' = [queue EXCEPT ![s] = @ \ {Gone}]
  /\ UNCHANGED <<identity, state, boot, pc, holder, asked, seen, chan, clock, budgets>>

-----------------------------------------------------------------------------
(* What a run decides at the transcryptor and the authentication server,   *)
(* from the discovery info of PHC.                                         *)

FromPhc(p) == seen[p][PHC]

\* (slip: only the encapsulation key is compared)
FitsEncapKey(p, c) == c.cfg[p].enc = cfg[p].enc

\* check_constellation: PHC knows p by the configuration p has.
Fits(p, c) == c.cfg[p] = cfg[p]

\* PHC has no constellation yet.
PhcNotReady(p) ==
  /\ HasRead(p) /\ FromPhc(p).con = None
  /\ Finish(p, "retry")
  /\ UNCHANGED budgets

\* (slip: the outdated binary keeps running)
BinaryLingers(p) ==
  /\ HasRead(p) /\ FromPhc(p).con # None
  /\ ver[p] < FromPhc(p).ver
  /\ Finish(p, "retry")
  /\ UNCHANGED budgets

BinaryOutdated(p) ==
  /\ HasRead(p) /\ FromPhc(p).con # None
  /\ ver[p] < FromPhc(p).ver
  /\ Send(p, NoPlan)
  /\ UNCHANGED clock

PhcOutdated(p) ==
  /\ HasRead(p) /\ FromPhc(p).con # None
  /\ \/ ver[p] > FromPhc(p).ver
     \/ ver[p] = FromPhc(p).ver /\ ~Fits(p, FromPhc(p).con)
  /\ Ask(p, {PHC})

Current(p) ==
  HasRead(p) /\ FromPhc(p).con # None /\ ver[p] = FromPhc(p).ver /\ Fits(p, FromPhc(p).con)

UpToDate(p) ==
  /\ Current(p)
  /\ SameId(con[p], FromPhc(p).con)
  /\ Finish(p, "ok")
  /\ UNCHANGED budgets

Adopt(p) ==
  /\ Current(p)
  /\ ~SameId(con[p], FromPhc(p).con)
  /\ Send(p, [NoPlan EXCEPT !.kind = "republish", !.con = FromPhc(p).con])
  /\ UNCHANGED clock

-----------------------------------------------------------------------------
(* What a run decides at PHC, from the discovery info of its peers.        *)

FromPeer(p) == seen[PHC][p]

\* (slips: a ciphertext kept whatever the key, and never kept)
ReusesRegardless(p) == con[PHC] # None
NeverReuses(p) == FALSE

\* encap_or_reuse: the secret with p is kept while p keeps its key.
Reuses(p) == con[PHC] # None /\ con[PHC].cfg[p].enc = FromPeer(p).cfg.enc

NewCt(p) == IF Reuses(p) THEN con[PHC].ct[p]
            ELSE [for |-> FromPeer(p).cfg.enc, n |-> clock + 1]
\* (slip: the fresh secret is not stored)
NewSecretForgotten(p) == IF Reuses(p) THEN ss[PHC][p] ELSE None

NewSecret(p) == IF Reuses(p) THEN ss[PHC][p] ELSE clock + 1

NewConstellation ==
  [cfg |-> [s \in Servers |-> IF s = PHC THEN cfg[PHC] ELSE FromPeer(s).cfg],
   ct  |-> [p \in Peers |-> NewCt(p)],
   ver |-> ver[PHC],
   at  |-> clock + 1]

Parts(c) == [t |-> c.cfg[Transcryptor].part, phc |-> c.cfg[PHC].part]

\* (slip: the parts are not compared)
KeepsMekRegardless == con[PHC] # None /\ mek # None

\* PHC keeps its master encryption key unless one of the parts changed.
KeepsMek == con[PHC] # None /\ Parts(con[PHC]) = Parts(NewConstellation) /\ mek # None

\* master_enc_key_from_sealed_part: only when the transcryptor has adopted the
\* constellation PHC composes does PHC open the part it sealed ...
PartReady == SameId(FromPeer(Transcryptor).con, NewConstellation)

\* ... which fails unless both hold the same secret.
Unseals ==
  /\ FromPeer(Transcryptor).seal # 0
  /\ FromPeer(Transcryptor).seal = NewSecret(Transcryptor)

NewMek == IF KeepsMek THEN mek ELSE IF PartReady THEN Parts(NewConstellation) ELSE None

PhcBinaryOutdated ==
  /\ HasRead(PHC)
  /\ \E p \in Peers : ver[PHC] < FromPeer(p).ver
  /\ Send(PHC, NoPlan)
  /\ UNCHANGED clock

\* PHC has the newest version; deriving the master key ends the run with an
\* error when the sealed part does not open.
Composes ==
  /\ HasRead(PHC)
  /\ \A p \in Peers : ver[PHC] >= FromPeer(p).ver

CannotUnseal == ~KeepsMek /\ PartReady /\ ~Unseals

Changed == ~SameId(con[PHC], NewConstellation)

Seeded(kind, c) ==
  [NoPlan EXCEPT !.kind = kind, !.con = c, !.mek = NewMek,
                 !.ss = [p \in Peers |-> NewSecret(p)]]

Republish ==
  /\ Composes /\ ~CannotUnseal /\ Changed
  /\ Send(PHC, Seeded("republish", NewConstellation))
  /\ clock' = clock + 1

\* The constellation stands, but only now can PHC derive the master key.
Rebuild ==
  /\ Composes /\ ~CannotUnseal /\ ~Changed /\ NewMek # mek
  /\ Send(PHC, Seeded("rebuild", None))
  /\ UNCHANGED clock

\* PHC has nothing to change itself.
Settled == Composes /\ ~CannotUnseal /\ ~Changed /\ NewMek = mek

Outdated == {p \in Peers : FromPeer(p).con # None /\ ~SameId(FromPeer(p).con, con[PHC])}

RunPeers == Settled /\ Outdated # {} /\ Ask(PHC, Outdated)

\* With no peer to wait for, the run ends: with an error if the part sealed by
\* the transcryptor does not open, and otherwise according to whether every
\* peer has PHC's constellation or some have none yet.
Conclude ==
  /\ Composes
  /\ IF CannotUnseal
     THEN Fail(PHC)
     ELSE /\ Settled /\ Outdated = {}
          /\ Finish(PHC, IF \A p \in Peers : FromPeer(p).con # None THEN "ok" ELSE "retry")
  /\ UNCHANGED budgets

-----------------------------------------------------------------------------
(* The server: it executes the modifications in its command channel, and a *)
(* modification ends all requests in progress and restarts it, or exits.   *)

\* The server starts anew, within the process, with what is in plan.
Restart(s) ==
  /\ Vacate(s, [pc EXCEPT ![s] = "free"], HangUp(s, {}))
  /\ boot' = [boot EXCEPT ![s] = TRUE]
  /\ chan' = [chan EXCEPT ![s] = None]
  /\ UNCHANGED <<ver, disk, clock, budgets>>

\* create_running_state: a peer decapsulates; PHC has the secret in its seed.
Secrets(s, plan) ==
  IF s = PHC THEN plan.ss
  ELSE [NoSecrets EXCEPT ![s] = Decap(cfg[s].enc, plan.con.ct[s])]

ExecuteRepublish(s) ==
  /\ chan[s] # None /\ chan[s].kind = "republish"
  /\ con' = [con EXCEPT ![s] = chan[s].con]
  /\ ss' = [ss EXCEPT ![s] = Secrets(s, chan[s])]
  /\ mek' = IF s = PHC THEN chan[s].mek ELSE mek
  /\ Restart(s)
  /\ UNCHANGED cfg

\* Only PHC sends it; the process exits if there is no running state.
ExecuteRebuild(s) ==
  /\ chan[s] # None /\ chan[s].kind = "rebuild"
  /\ IF con[s] = None
     THEN Exit(s) /\ UNCHANGED budgets
     ELSE /\ ss' = [ss EXCEPT ![s] = chan[s].ss]
          /\ mek' = chan[s].mek
          /\ Restart(s)
          /\ UNCHANGED <<cfg, con>>

ExecuteExit(s) ==
  /\ chan[s] # None /\ chan[s].kind = "exit"
  /\ Exit(s)
  /\ UNCHANGED budgets

\* A server made from a new configuration has no running state.
ExecuteConfig(s) ==
  /\ chan[s] # None /\ chan[s].kind = "config"
  /\ cfg' = [cfg EXCEPT ![s] = chan[s].cfg]
  /\ con' = [con EXCEPT ![s] = None]
  /\ ss' = [ss EXCEPT ![s] = NoSecrets]
  /\ mek' = IF s = PHC THEN None ELSE mek
  /\ Restart(s)

\* The admin posts a configuration in which one of the keys is replaced: it
\* is changed in memory only.
PostConfig(s) ==
  /\ s \in Configurable /\ configs < MaxConfigs
  /\ pc[s] # "down" /\ chan[s] = None
  /\ configs' = configs + 1
  /\ \E c \in Cfg :
       /\ c # cfg[s] /\ (c.enc = cfg[s].enc \/ c.part = cfg[s].part)
       /\ chan' = [chan EXCEPT ![s] = [NoPlan EXCEPT !.kind = "config", !.cfg = c]]
  /\ UNCHANGED <<identity, state, runs, clock, crashes, faults>>

Crash(s) ==
  /\ s \in Crashable /\ crashes < MaxCrashes
  /\ pc[s] # "down"
  /\ crashes' = crashes + 1
  /\ Exit(s)
  /\ UNCHANGED <<configs, faults>>

\* The service manager starts the process, with the binary installed by then
\* and the configuration in its file.
Start(s) ==
  /\ pc[s] = "down"
  /\ pc' = [pc EXCEPT ![s] = "free"]
  /\ boot' = [boot EXCEPT ![s] = TRUE]
  /\ ver' = [ver EXCEPT ![s] = disk[s]]
  /\ cfg' = [cfg EXCEPT ![s] = ConfigFile[s]]
  /\ UNCHANGED <<disk, state, holder, queue, asked, seen, chan, clock, budgets>>

Deploy(s) ==
  /\ \E v \in Versions : disk[s] < v /\ disk' = [disk EXCEPT ![s] = v]
  /\ UNCHANGED <<cfg, ver, state, runs, chan, clock, budgets>>

-----------------------------------------------------------------------------
DiscoverAsNonPhc(p) ==
  PhcNotReady(p) \/ BinaryOutdated(p) \/ PhcOutdated(p) \/ UpToDate(p) \/ Adopt(p)

DiscoverAsPhc ==
  PhcBinaryOutdated \/ Republish \/ Rebuild \/ RunPeers \/ Conclude

Discover(s) ==
  \/ \E d \in Servers : Read(s, d) \/ ReadFails(s, d)
  \/ Answered(s) \/ Errored(s) \/ TimedOut(s)
  \/ s = PHC /\ DiscoverAsPhc
  \/ s # PHC /\ DiscoverAsNonPhc(s)

Execute(s) ==
  ExecuteRepublish(s) \/ ExecuteRebuild(s) \/ ExecuteExit(s) \/ ExecuteConfig(s)

Environment(s) ==
  QueryFails(s) \/ PostConfig(s) \/ Crash(s) \/ Deploy(s) \/ StrangerRun(s)

Next ==
  \E s \in Servers :
    \/ BootRun(s) \/ \E c \in Callers : ServeCall(s, c)
    \/ Discover(s) \/ DropRun(s) \/ DropCall(s) \/ Execute(s) \/ Start(s) \/ Environment(s)

\* A run goes on, the lock is handed out in order of arrival, commands are
\* executed, and the service manager restarts a process that exits.
Fairness ==
  \A s \in Servers :
    /\ WF_vars(BootRun(s))
    /\ \A c \in Sources(s) : SF_vars(ServeCall(s, c))
    /\ WF_vars(Discover(s))
    /\ WF_vars(Execute(s) \/ Start(s))

Spec == Init /\ [][Next]_vars
FairSpec == Spec /\ Fairness
-----------------------------------------------------------------------------
(* Properties.                                                             *)

\* What PHC and a peer that are on the same constellation seal for one another,
\* the other can open: they hold the same secret.
SecretsAgree ==
  \A p \in Peers :
    SameId(con[PHC], con[p])
      => ss[p][p] # 0 /\ ss[PHC][p] = ss[p][p]

\* No server works with a constellation that has other keys for it than those
\* of its present configuration.
AdoptedFits ==
  \A s \in Servers : con[s] # None => con[s].cfg[s] = cfg[s]

\* Opening the part that the transcryptor sealed, once it has adopted the
\* constellation that PHC composes, `is guaranteed to succeed'.
UnsealSucceeds == Composes => ~CannotUnseal

\* PHC's master key combines the parts its constellation commits to.
MasterKeyCommitted ==
  mek # None => con[PHC] # None /\ mek = Parts(con[PHC])

\* PHC replaces its constellation (and makes every server restart) only if the
\* configuration of a server, or its own version, is another than recorded;
\* it never does so on account of the ciphertexts it makes itself.
NoNeedlessRepublish ==
  [][con[PHC] # None /\ con'[PHC] # None /\ con'[PHC] # con[PHC]
       => con'[PHC].cfg # con[PHC].cfg \/ con'[PHC].ver # con[PHC].ver]_vars

\* All servers are on one constellation, and PHC has the master key.
Converged ==
  /\ mek # None
  /\ \A s \in Servers : ~boot[s] /\ SameId(con[s], con[PHC])

SameRelease == \A s, t \in Servers : disk[s] = disk[t]

\* Once the admins stop, and every server has the same release installed, the
\* servers settle on one constellation.
Convergence == <>[]SameRelease => <>[]Converged

=============================================================================

-------------------------- MODULE MCDiscoverySettle --------------------------
(* The instance of Discovery that liveness is checked of.  To keep it small, *)
(* the configuration is changed, and PHC crashes, only while every server has *)
(* the newest release, and the transcryptor crashes only before the change:   *)
(* none of the steps that Scenario leaves out is one that fairness demands.   *)
EXTENDS MCDiscovery

Newest == CHOOSE v \in Versions : \A w \in Versions : w <= v
Upgraded == \A s \in Servers : ver[s] = Newest /\ disk[s] = Newest
Crashes(s) == crashes' # crashes /\ pc[s] # "down" /\ pc'[s] = "down"

Scenario ==
  /\ configs' # configs => Upgraded
  /\ Crashes(PHC) => Upgraded
  /\ Crashes(Transcryptor) => configs = 0
=============================================================================

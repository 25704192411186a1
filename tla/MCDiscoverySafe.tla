--------------------------- MODULE MCDiscoverySafe ---------------------------
(* The instance of Discovery that safety is checked of.  Besides a crash, one *)
(* thing disturbs the servers: a change of configuration, a query that fails, *)
(* or strangers that invoke discovery, as often as they like.                 *)
EXTENDS MCDiscovery

Strangers == \E s \in Servers : holder[s] = Gone \/ Gone \in queue[s]
StrangerCalls ==
  \E s \in Servers : pc[s] = "free" /\ holder'[s] = Gone /\ queue'[s] = queue[s]

OneDisturbance ==
  /\ configs' + faults' <= 1
  /\ configs' + faults' # configs + faults => ~Strangers
  /\ StrangerCalls => configs + faults = 0
=============================================================================

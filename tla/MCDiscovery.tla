---------------------------- MODULE MCDiscovery -----------------------------
(* Instances of Discovery for TLC.                                         *)
EXTENDS Discovery

CONSTANT FirstKey   \* every key is this one initially

\* The keys a configuration can take are interchangeable, and keys of different
\* servers are never compared, so that one initial key stands for all.
MCConfigFile == [s \in Servers |-> [enc |-> FirstKey, part |-> FirstKey]]
=============================================================================

----------------------------- MODULE MCRegistry -----------------------------
(* An instance of Registry for TLC.                                        *)
EXTENDS Registry, TLC

CONSTANTS p1, p2

OneName == [p \in Ports |-> "iqn.host"]
(* Three connections, two to a session; four that log in at once; one more *)
(* than g_conns has room for, from two ports of the initiator.             *)
Pairs == [conns |-> 3, ports |-> {p1}, slots |-> 3, MaxConnections |-> 2, events |-> 1, stops |-> TRUE]
Crowd == [conns |-> 4, ports |-> {p1}, slots |-> 4, MaxConnections |-> 1, events |-> 0, stops |-> FALSE]
Full == [conns |-> 3, ports |-> {p1, p2}, slots |-> 2, MaxConnections |-> 1, events |-> 1, stops |-> FALSE]
MCConfigs == {Pairs, Crowd, Full}
MCEntries == 1 .. 2
=============================================================================

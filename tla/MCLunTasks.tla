----------------------------- MODULE MCLunTasks -----------------------------
(* Small instances of LunTasks: two connections that are two ports of one   *)
(* initiator, or two connections of one session.                            *)
EXTENDS LunTasks, TLC

TwoPorts == [c \in Conns |-> c]
OneInitiator == [c \in Conns |-> "initiator"]
OnePort == [c \in Conns |-> "port"]

Symmetry == Permutations(Tasks) \cup Permutations(Conns)

=============================================================================

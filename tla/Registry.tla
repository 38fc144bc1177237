------------------------------ MODULE Registry ------------------------------
(***************************************************************************)
(* The connections of the target, g_conns, and the sessions they belong to:*)
(* the acceptor registers a connection and starts its worker; a login opens*)
(* a session, after the older connections of the same initiator port have  *)
(* been told to exit, or joins one; a reset drops all other connections of *)
(* an initiator; a worker that ends takes its connection out of g_conns and*)
(* of its session, and the last one frees the session and its TSIH; and the*)
(* main thread stops all of it.                                            *)
(*                                                                         *)
(* A step ends where a thread waits for g_conns_mutex, sleeps with it, or  *)
(* polls again.  A session is named by the connection that opened it, a    *)
(* connection by its place in the order of arrival.  The login phases are  *)
(* those of Login, commands those of LunTasks; there is one target, and no *)
(* discovery session.                                                      *)
(***************************************************************************)
EXTENDS Integers, Sequences, FiniteSets, SequencesExt

CONSTANTS
  Conns,         \* connections, in the order in which they arrive
  Ports, NameOf, \* initiator ports, the name of the initiator of a port
  Configs,       \* conns: how many come, ports: from where, slots: the entries of g_conns,
                 \* MaxConnections, events: how often a connection is lost or
                 \* an initiator resets, stops: whether the program is stopped
  Entries,       \* the entries of lu->tsih
  Wrap, Retries, \* 2^16 and 10 in istgt_lu_allocate_tsih
  None

Session == [conns: Seq(Conns), port: Ports, tsih: 0 .. Wrap - 1]
Entry == [tsih: 1 .. Wrap - 1, port: Ports]

ASSUME NoneAssumption == None \notin Conns \cup Ports /\ None \notin Session /\ None \notin Entry
ASSUME FiniteAssumption == IsFiniteSet(Conns) /\ IsFiniteSet(Entries)
ASSUME NumberAssumption ==
  Conns \subseteq Nat /\ Entries \subseteq Nat /\ Wrap \in Nat \ {0} /\ Retries \in Nat
ASSUME ConfigAssumption ==
  \A x \in Configs : /\ x.conns \in Nat /\ x.ports \subseteq Ports /\ x.slots \in Nat /\ x.MaxConnections \in Nat \ {0}
                     /\ x.events \in Nat /\ x.stops \in BOOLEAN

VARIABLES
  config,   \* which configuration
  main,     \* where the main thread is
  g_conns, g_mutex,        \* the registry and the owner of its mutex
  pc, state, pipe,         \* per connection: its worker, conn->state, "E" in task_pipe
  port, sess, full,        \* initiator_port, the session, full_feature
  local,    \* the connections a worker has counted, the TSIH it looks for
  session,  \* per session: its data, None if it is free
  tsih, last_tsih,         \* lu->tsih, lu->last_tsih
  events

connVars == <<pc, state, pipe, port, sess, full, local>>
sessVars == <<session, tsih, last_tsih>>
vars == <<config, main, g_conns, g_mutex, connVars, sessVars, events>>

Slots == 1 .. config.slots

Places == {"none", "loop", "drop", "dropping", "reset", "resetting", "append", "remove", "gone"}

TypeOK ==
  /\ config \in Configs
  /\ main \in {"accept", "stop", "wait", "last", "freed", "gaveup"}
  /\ g_conns \in [Slots -> Conns \cup {None}]
  /\ g_mutex \in Conns \cup {None}
  /\ pc \in [Conns -> Places]
  /\ state \in [Conns -> {"INVALID", "RUNNING", "EXITING"}]
  /\ pipe \in [Conns -> BOOLEAN] /\ full \in [Conns -> BOOLEAN]
  /\ port \in [Conns -> Ports \cup {None}]
  /\ sess \in [Conns -> Conns \cup {None}]
  /\ local \in [Conns -> Nat]
  /\ session \in [Conns -> Session \cup {None}]
  /\ tsih \in [Entries -> Entry \cup {None}]
  /\ last_tsih \in 0 .. Wrap - 1
  /\ events \in 0 .. config.events

Init ==
  /\ config \in Configs
  /\ main = "accept"
  /\ g_conns = [i \in Slots |-> None] /\ g_mutex = None
  /\ pc = [c \in Conns |-> "none"] /\ state = [c \in Conns |-> "INVALID"]
  /\ pipe = [c \in Conns |-> FALSE] /\ port = [c \in Conns |-> None]
  /\ sess = [c \in Conns |-> None] /\ full = [c \in Conns |-> FALSE]
  /\ local = [c \in Conns |-> 0]
  /\ session = [s \in Conns |-> None]
  /\ tsih = [i \in Entries |-> None] /\ last_tsih = 0
  /\ events = 0

-----------------------------------------------------------------------------
Registered == {c \in Conns : \E i \in Slots : g_conns[i] = c}
Disturb == events < config.events /\ events' = events + 1
Goto(c, p) == pc' = [pc EXCEPT ![c] = p]

FreeSlots == {i \in Slots : g_conns[i] = None}

(* istgt_create_conn.  Without a free slot the connection is freed.        *)
Accept(c) ==
  /\ main = "accept" /\ c <= config.conns /\ g_mutex = None
  /\ \A d \in Conns : d < c <=> pc[d] # "none"
  /\ IF FreeSlots = {} THEN Goto(c, "gone") /\ UNCHANGED <<g_conns, state>>
     ELSE \E i \in FreeSlots :
          /\ \A j \in FreeSlots : i <= j
          /\ g_conns' = [g_conns EXCEPT ![i] = c]
          /\ state' = [state EXCEPT ![c] = "RUNNING"]
          /\ Goto(c, "loop")
  /\ UNCHANGED <<config, main, g_mutex, pipe, port, sess, full, local, sessVars, events>>

(* Where a worker is, until the main thread gives up and the process ends.*)
At(c, p) == pc[c] = p /\ main # "gaveup"

(* The worker sees that it has to exit at the top of its loop, at the      *)
(* latest when poll times out; the state of the target and of its unit     *)
(* change together.                                                        *)
MustLeave(c) == main # "accept" \/ state[c] # "RUNNING" \/ pipe[c]

(* The loop ends; worker_cleanup ends the tasks and the sender.            *)
Ends(c) == Goto(c, "remove") /\ state' = [state EXCEPT ![c] = "EXITING"]

(* After a PDU: one that comes once the target stops is still served.      *)
NextTurn(c) == IF MustLeave(c) THEN Ends(c) ELSE Goto(c, "loop") /\ UNCHANGED state

Leave(c) ==
  /\ At(c, "loop") /\ MustLeave(c)
  /\ Ends(c)
  /\ UNCHANGED <<config, main, g_conns, g_mutex, pipe, port, sess, full, local, sessVars, events>>

(* The socket is closed, the initiator logs out, or a PDU fails.           *)
Lost(c) ==
  /\ At(c, "loop") /\ Disturb
  /\ Ends(c)
  /\ UNCHANGED <<config, main, g_conns, g_mutex, pipe, port, sess, full, local, sessVars>>

-----------------------------------------------------------------------------
(* The first login PDU: a new session ...                                  *)
LoginNew(c, p) ==
  /\ At(c, "loop") /\ state[c] = "RUNNING" /\ sess[c] = None
  /\ port' = [port EXCEPT ![c] = p]
  /\ Goto(c, "drop")
  /\ UNCHANGED <<config, main, g_conns, g_mutex, state, pipe, sess, full, local, sessVars, events>>

(* ... or one more connection of the session with TSIH t.                  *)
LoginMore(c, p, t) ==
  /\ At(c, "loop") /\ state[c] = "RUNNING" /\ sess[c] = None /\ config.MaxConnections > 1
  /\ port' = [port EXCEPT ![c] = p]
  /\ local' = [local EXCEPT ![c] = t]
  /\ Goto(c, "append")
  /\ UNCHANGED <<config, main, g_conns, g_mutex, state, pipe, sess, full, sessVars, events>>

(* A logical unit reset or a warm reset of the target.                     *)
Reset(c) ==
  /\ At(c, "loop") /\ state[c] = "RUNNING" /\ full[c] /\ Disturb
  /\ Goto(c, "reset")
  /\ UNCHANGED <<config, main, g_conns, g_mutex, state, pipe, port, sess, full, local, sessVars>>

-----------------------------------------------------------------------------
(* istgt_iscsi_drop_old_conns and istgt_iscsi_drop_all_conns: tell the     *)
(* others to exit, sleep with the mutex held, and, when they are too many, *)
(* write to the pipes: drop_all_conns to its own.  The join fails at once, *)
(* as the workers are detached.                                            *)
FaultySamePort(c) == {x \in Registered \ {c} : port[x] = port[c] /\ full[x]}
SamePort(c) == {x \in Registered \ {c} : port[x] = port[c]}
SameName(c) == {x \in Registered \ {c} : port[x] # None /\ NameOf[port[x]] = NameOf[port[c]]}

Mark(c, from, to, marked) ==
  /\ At(c, from) /\ g_mutex = None
  /\ g_mutex' = c
  /\ state' = [x \in Conns |-> IF x \in marked THEN "EXITING" ELSE state[x]]
  /\ local' = [local EXCEPT ![c] = Cardinality(marked)]
  /\ Goto(c, to)
  /\ UNCHANGED <<config, main, g_conns, pipe, port, sess, full, sessVars, events>>

DropMark(c) == Mark(c, "drop", "dropping", SamePort(c))
ResetMark(c) == Mark(c, "reset", "resetting", SameName(c))

FaultyJoined(xs) == \A x \in xs : pc[x] = "gone"
Joined(xs) == TRUE

Finish(c, from, written) ==
  /\ At(c, from)
  /\ LET many == local[c] > config.MaxConnections + 1 IN
     /\ many => Joined(SamePort(c))
     /\ pipe' = [x \in Conns |-> pipe[x] \/ (many /\ x \in written)]
  /\ g_mutex' = None
  /\ local' = [local EXCEPT ![c] = 0]
  /\ UNCHANGED <<config, main, g_conns, port, full, tsih, last_tsih, events>>

(* ... and istgt_create_sess.                                              *)
DropEnd(c) ==
  /\ Finish(c, "dropping", SamePort(c))
  /\ session' = [session EXCEPT ![c] = [conns |-> <<c>>, port |-> port[c], tsih |-> 0]]
  /\ sess' = [sess EXCEPT ![c] = c]
  /\ NextTurn(c)

(* A cold reset of the target ends the connection it came on, too.         *)
ResetEnd(c) ==
  /\ Finish(c, "resetting", IF SamePort(c) # {} THEN {c} ELSE {})
  /\ NextTurn(c) \/ Ends(c)
  /\ UNCHANGED <<session, sess>>

-----------------------------------------------------------------------------
(* The TSIHs that istgt_lu_allocate_tsih tries, in order.                  *)
Tried == [n \in 1 .. Retries + 1 |-> (last_tsih + n) % Wrap]

FaultyUsable(t) == t # 0
Usable(t) == t # 0 /\ \A i \in Entries : tsih[i] # None => tsih[i].tsih # t

(* The last login PDU.  A new session gets a TSIH, or the login fails.     *)
FullFeature(c) ==
  /\ At(c, "loop") /\ state[c] = "RUNNING" /\ sess[c] # None /\ ~full[c]
  /\ session[sess[c]].tsih # 0
  /\ full' = [full EXCEPT ![c] = TRUE]
  /\ NextTurn(c)
  /\ UNCHANGED <<config, main, g_conns, g_mutex, pipe, port, sess, local, sessVars, events>>

NewTsih(c) ==
  /\ At(c, "loop") /\ state[c] = "RUNNING" /\ sess[c] # None /\ ~full[c]
  /\ session[sess[c]].tsih = 0
  /\ \E i \in Entries : tsih[i] = None
  /\ LET n == SelectInSeq(Tried, Usable)
         i == CHOOSE i \in Entries : tsih[i] = None /\ \A j \in Entries : tsih[j] = None => i <= j
     IN  IF n = 0
         THEN /\ last_tsih' = Tried[Retries + 1]
              /\ Ends(c)
              /\ UNCHANGED <<full, session, tsih>>
         ELSE /\ last_tsih' = Tried[n]
              /\ tsih' = [tsih EXCEPT ![i] = [tsih |-> Tried[n], port |-> port[c]]]
              /\ session' = [session EXCEPT ![sess[c]].tsih = Tried[n]]
              /\ full' = [full EXCEPT ![c] = TRUE]
              /\ NextTurn(c)
  /\ UNCHANGED <<config, main, g_conns, g_mutex, pipe, port, sess, local, events>>

NoTsih(c) ==
  /\ At(c, "loop") /\ state[c] = "RUNNING" /\ sess[c] # None /\ ~full[c]
  /\ session[sess[c]].tsih = 0
  /\ \A i \in Entries : tsih[i] # None
  /\ Ends(c)
  /\ UNCHANGED <<config, main, g_conns, g_mutex, pipe, port, sess, full, local, sessVars, events>>

(* istgt_append_sess: the first session of the port with that TSIH.        *)
Matching(c) ==
  {s \in {sess[x] : x \in Registered} \ {None} :
     session[s].port = port[c] /\ session[s].tsih = local[c]}

Room(s) == Len(session[s].conns) < config.MaxConnections

JoinSess(c) ==
  /\ At(c, "append") /\ g_mutex = None
  /\ \/ /\ \A s \in Matching(c) : ~Room(s)
        /\ UNCHANGED <<session, sess>>
     \/ \E s \in Matching(c) :
          /\ Room(s)
          /\ session' = [session EXCEPT ![s].conns = Append(@, c)]
          /\ sess' = [sess EXCEPT ![c] = s]
  /\ local' = [local EXCEPT ![c] = 0]
  /\ NextTurn(c)
  /\ UNCHANGED <<config, main, g_conns, g_mutex, pipe, port, full, tsih, last_tsih, events>>

-----------------------------------------------------------------------------
FaultyLeft(conns, c) == SubSeq(conns, 1, Len(conns) - 1)

(* The connections of a session without c; if it is not found, their number*)
(* goes down all the same.                                                 *)
Left(conns, c) ==
  LET i == SelectInSeq(conns, LAMBDA x : x = c) IN
  IF i = 0 THEN SubSeq(conns, 1, Len(conns) - 1) ELSE RemoveAt(conns, i)

(* The end of worker_cleanup, with istgt_remove_conn.                      *)
Deregister(c) ==
  /\ At(c, "remove") /\ g_mutex = None
  /\ g_conns' = [i \in Slots |-> IF g_conns[i] = c THEN None ELSE g_conns[i]]
  /\ IF sess[c] = None THEN UNCHANGED <<session, tsih>>
     ELSE LET s == sess[c]
              left == Left(session[s].conns, c)
              mine == {i \in Entries : /\ tsih[i] # None
                                       /\ tsih[i] = [tsih |-> session[s].tsih, port |-> port[c]]}
          IN  IF left = <<>>
              THEN /\ session' = [session EXCEPT ![s] = None]
                   /\ tsih' = [i \in Entries |-> IF i \in mine THEN None ELSE tsih[i]]
              ELSE /\ session' = [session EXCEPT ![s].conns = left]
                   /\ UNCHANGED tsih
  /\ sess' = [sess EXCEPT ![c] = None] /\ full' = [full EXCEPT ![c] = FALSE]
  /\ pipe' = [pipe EXCEPT ![c] = FALSE] /\ port' = [port EXCEPT ![c] = None]
  /\ local' = [local EXCEPT ![c] = 0]
  /\ Goto(c, "gone")
  /\ UNCHANGED <<config, main, g_mutex, state, last_tsih, events>>

-----------------------------------------------------------------------------
(* The main thread: the acceptor ends, istgt_stop_conns, up to ten seconds *)
(* of waiting, istgt_iscsi_shutdown.                                       *)
Active == Registered

Stop ==
  /\ main = "accept" /\ config.stops
  /\ main' = "stop"
  /\ UNCHANGED <<config, g_conns, g_mutex, connVars, sessVars, events>>

StopConns ==
  /\ main = "stop" /\ g_mutex = None
  /\ pipe' = [c \in Conns |-> pipe[c] \/ c \in Registered]
  /\ main' = "wait"
  /\ UNCHANGED <<config, g_conns, g_mutex, pc, state, port, sess, full, local, sessVars, events>>

MarkAll ==
  /\ main = "wait" /\ g_mutex = None
  /\ state' = [c \in Conns |-> IF c \in Registered THEN "EXITING" ELSE state[c]]
  /\ main' = IF Active = {} THEN "freed" ELSE "last"
  /\ UNCHANGED <<config, g_conns, g_mutex, pc, pipe, port, sess, full, local, sessVars, events>>

(* g_conns is freed if the workers end in time.                            *)
Shutdown ==
  /\ main = "last" /\ g_mutex = None
  /\ main' = IF Active = {} THEN "freed" ELSE "gaveup"
  /\ UNCHANGED <<config, g_conns, g_mutex, connVars, sessVars, events>>

-----------------------------------------------------------------------------
Initiator(c) ==
  \/ Lost(c)
  \/ \E p \in config.ports : LoginNew(c, p)
  \/ \E p \in config.ports, t \in 1 .. Wrap - 1 : LoginMore(c, p, t)
  \/ Reset(c)
  \/ FullFeature(c) \/ NewTsih(c) \/ NoTsih(c)

Worker(c) ==
  \/ Leave(c)
  \/ DropMark(c) \/ DropEnd(c) \/ ResetMark(c) \/ ResetEnd(c)
  \/ JoinSess(c) \/ Deregister(c)

Main == StopConns \/ MarkAll \/ Shutdown

Next ==
  \/ \E c \in Conns : Accept(c) \/ Initiator(c) \/ Worker(c)
  \/ Stop \/ Main
Spec == Init /\ [][Next]_vars

(* Threads that can go on do, as poll times out and a mutex that is given  *)
(* back goes to one that waits; nothing is assumed of the initiators.      *)
Fairness == WF_vars(Main) /\ \A c \in Conns : WF_vars(Worker(c))
FairSpec == Spec /\ Fairness

-----------------------------------------------------------------------------
(* A connection is in g_conns, once, from its creation to its removal, so  *)
(* that nobody who looks there finds one that was freed.                   *)
RegisteredOnce ==
  /\ Registered = {c \in Conns : pc[c] \notin {"none", "gone"}}
  /\ \A i, j \in Slots : g_conns[i] # None /\ g_conns[i] = g_conns[j] => i = j

(* A session lists exactly the connections that refer to it, each once, and*)
(* exists as long as there is one: connections that join, fail their login *)
(* or break at the same time do not free it under the others.              *)
Members ==
  /\ \A c \in Conns : sess[c] # None => session[sess[c]] # None
  /\ \A s \in Conns : session[s] # None =>
       LET conns == session[s].conns IN
       /\ ToSet(conns) = {c \in Conns : sess[c] = s} /\ conns # <<>>
       /\ IsInjective(conns)

(* No session has more connections than its array conns has room for.      *)
SessionFits ==
  \A s \in Conns : session[s] # None => Len(session[s].conns) <= config.MaxConnections

(* g_conns is freed only when every worker has taken its connection out.   *)
FreedWhenUnused == main = "freed" => \A c \in Conns : pc[c] \in {"none", "gone"}

(* All of these: the table of connections, the sessions and the threads    *)
(* refer to each other as they should, and to nothing that was freed.      *)
Linked == TypeOK /\ RegisteredOnce /\ Members /\ SessionFits /\ FreedWhenUnused

(* The entries of lu->tsih are those of the sessions that have a TSIH: each*)
(* session has its own, and none is lost when sessions end.                *)
TsihOwned ==
  /\ \A s, r \in Conns :
       session[s] # None /\ session[r] # None /\ session[s].tsih = session[r].tsih =>
         s = r \/ session[s].tsih = 0
  /\ {<<tsih[i].tsih, tsih[i].port>> : i \in {i \in Entries : tsih[i] # None}} =
     {<<session[s].tsih, session[s].port>> :
        s \in {s \in Conns : session[s] # None /\ session[s].tsih # 0}}
  /\ \A i, j \in Entries : tsih[i] # None /\ tsih[i] = tsih[j] => i = j

(* A login that opens a session makes the connections exit that opened one *)
(* for the same initiator port before, those that still log in included.   *)
OldSessionDropped ==
  \A c, d \in Conns :
    c # d /\ sess[c] = c /\ sess[d] = d /\ port[c] = port[d] =>
      "EXITING" \in {state[c], state[d]}

(* A connection that is told to exit, by another login, by a reset or at   *)
(* the end, is removed unless the process ends first, although others hold *)
(* g_conns_mutex while they sleep, and drop connections that are           *)
(* themselves dropping others.                                             *)
ExitingEnds ==
  \A c \in Conns :
    pc[c] # "none" /\ (state[c] = "EXITING" \/ pipe[c] \/ main # "accept") ~>
      pc[c] = "gone" \/ main = "gaveup"
=============================================================================

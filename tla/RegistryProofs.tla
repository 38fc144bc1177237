---------------------------- MODULE RegistryProofs ----------------------------
(***************************************************************************)
(* Theorems about Registry: whatever the number of connections, ports,     *)
(* slots and entries, the registry, the sessions and the TSIHs refer to    *)
(* each other as they should (Linked, TsihOwned), and a login replaces the *)
(* older session of its initiator port (OldSessionDropped).                *)
(***************************************************************************)
EXTENDS Registry, FiniteSetTheorems, SequenceTheorems, WellFoundedInduction, TLAPS

-----------------------------------------------------------------------------
(* What the inductive invariant needs besides the three properties.        *)

(* A connection refers to a session between its login and its removal, and *)
(* then it is of the session's port.  While it logs in it refers to none,  *)
(* and it has opened none: a session is open only while the connection     *)
(* that opened it is a member, or gone.                                    *)
Phases ==
  \A c \in Conns :
    /\ sess[c] # None => /\ pc[c] \in {"loop", "reset", "resetting", "remove"}
                         /\ port[c] = session[sess[c]].port
    /\ pc[c] \in {"drop", "dropping", "append"} => port[c] # None
    /\ session[c] # None => pc[c] = "gone" \/ sess[c] = c

(* g_conns_mutex is held by the one worker that sleeps with it.            *)
Holds == \A c \in Conns : g_mutex = c <=> pc[c] \in {"dropping", "resetting"}

(* While a login sleeps, the openers of sessions of its port have been told*)
(* to exit.                                                                *)
Told ==
  \A c, d \in Conns :
    c # d /\ pc[c] = "dropping" /\ sess[d] = d /\ port[d] = port[c] => state[d] = "EXITING"

IInv == Linked /\ TsihOwned /\ OldSessionDropped /\ Phases /\ Holds /\ Told

-----------------------------------------------------------------------------
(* Helpers of the model.                                                   *)

(* A set of numbers that is not empty has a least member, which is Min.    *)
LEMMA LeastMember ==
  ASSUME NEW D \in SUBSET Nat, D # {}
  PROVE  Min(D) \in D /\ \A j \in D : Min(D) <= j
<1> DEFINE R == {p \in Nat \X Nat : p[1] < p[2]}
<1>1. IsWellFoundedOn(R, Nat)
  BY NatLessThanWellFounded DEF OpToRel
<1>2. \E x \in D : \A y \in D : ~ (<<y, x>> \in R)
  <2> HIDE DEF R
  <2> QED BY <1>1, WFMin
<1>3. \A x, y \in Nat : ~(<<y, x>> \in R) => x <= y
  OBVIOUS
<1>4. \E x \in D : \A y \in D : x <= y
  BY <1>2, <1>3
<1> QED BY <1>4 DEF Min

(* The connections of a session without one that is listed once.           *)
LEMMA LeftFacts ==
  ASSUME NEW S, NEW q \in Seq(S), IsInjective(q), NEW c \in ToSet(q)
  PROVE  /\ Left(q, c) \in Seq(S) /\ Len(Left(q, c)) = Len(q) - 1
         /\ ToSet(Left(q, c)) = ToSet(q) \ {c}
         /\ IsInjective(Left(q, c))
<1> DEFINE I == {i \in 1 .. Len(q) : q[i] = c}
           i == Min(I)
           r == SubSeq(q, 1, i - 1) \o SubSeq(q, i + 1, Len(q))
<1>1. Len(q) \in Nat /\ DOMAIN q = 1 .. Len(q) /\ \A k \in 1 .. Len(q) : q[k] \in S
  OBVIOUS
<1>2. I # {} /\ I \in SUBSET Nat
  BY <1>1 DEF ToSet
<1>3. i \in 1 .. Len(q) /\ q[i] = c /\ i \in Nat /\ 1 <= i /\ i <= Len(q)
  <2>1. i \in I
    BY <1>2, LeastMember
  <2> HIDE DEF i
  <2> QED BY <1>1, <2>1
<1>4. Left(q, c) = r
  <2>1. SelectInSeq(q, LAMBDA x : x = c) = i
    BY <1>2 DEF SelectInSeq
  <2>2. i # 0
    BY <1>1, <1>3
  <2> HIDE DEF i
  <2> QED BY <2>1, <2>2 DEF Left, RemoveAt
<1> HIDE DEF I, i
<1>5. /\ r \in Seq(S) /\ Len(r) = Len(q) - 1
      /\ \A k \in 1 .. Len(r) : r[k] = IF k < i THEN q[k] ELSE q[k + 1]
  <2> DEFINE u == SubSeq(q, 1, i - 1)
             v == SubSeq(q, i + 1, Len(q))
  <2>1. /\ u \in Seq(S) /\ Len(u) = i - 1
        /\ \A k \in 1 .. i - 1 : u[k] = q[k]
    BY <1>1, <1>3, SubSeqProperties
  <2>2. /\ v \in Seq(S) /\ Len(v) = Len(q) - i
        /\ \A k \in 1 .. Len(q) - i : v[k] = q[k + i]
    <3>1. i + 1 \in Int /\ Len(q) \in Int /\ \A k \in i + 1 .. Len(q) : q[k] \in S
      BY <1>1, <1>3
    <3>2. /\ v \in Seq(S) /\ Len(v) = IF i + 1 <= Len(q) THEN Len(q) - (i + 1) + 1 ELSE 0
          /\ \A k \in 1 .. Len(q) - (i + 1) + 1 : v[k] = q[i + 1 + k - 1]
      BY <3>1, SubSeqProperties
    <3> HIDE DEF v
    <3>3. Len(v) = Len(q) - i
      <4>1. Len(v) = IF i + 1 <= Len(q) THEN Len(q) - (i + 1) + 1 ELSE 0
        BY <3>2
      <4>2. Len(q) \in Nat /\ i \in Nat /\ i <= Len(q)
        BY <1>1, <1>3
      <4> QED BY <4>1, <4>2
    <3>4. ASSUME NEW k \in 1 .. Len(q) - i PROVE v[k] = q[k + i]
      <4>1. k \in 1 .. Len(q) - (i + 1) + 1 /\ i + 1 + k - 1 = k + i
        BY <1>1, <1>3
      <4>2. v[k] = q[i + 1 + k - 1]
        BY <3>2, <4>1
      <4> QED BY <4>1, <4>2
    <3> QED BY <3>2, <3>3, <3>4
  <2> HIDE DEF u, v
  <2>3. /\ u \o v \in Seq(S) /\ Len(u \o v) = Len(u) + Len(v)
        /\ \A k \in 1 .. Len(u) + Len(v) : (u \o v)[k] = IF k <= Len(u) THEN u[k] ELSE v[k - Len(u)]
    BY <2>1, <2>2, ConcatProperties
  <2>4. Len(u) + Len(v) = Len(q) - 1
    BY <1>1, <1>3, <2>1, <2>2
  <2>5. ASSUME NEW k \in 1 .. Len(q) - 1
        PROVE (u \o v)[k] = IF k < i THEN q[k] ELSE q[k + 1]
    <3>1. CASE k < i
      BY <1>1, <1>3, <2>1, <2>3, <2>4, <3>1
    <3>2. CASE ~(k < i)
      <4>1. k - (i - 1) \in 1 .. Len(q) - i /\ (k - (i - 1)) + i = k + 1 /\ ~(k <= i - 1)
        BY <1>1, <1>3, <3>2
      <4>2. v[k - (i - 1)] = q[k + 1]
        BY <2>2, <4>1
      <4> QED BY <2>1, <2>3, <2>4, <3>2, <4>1, <4>2
    <3> QED BY <3>1, <3>2
  <2> QED BY <2>3, <2>4, <2>5 DEF u, v
<1> HIDE DEF r
<1>6. DOMAIN r = 1 .. Len(q) - 1
  BY <1>5, LenProperties
<1>7. ToSet(r) = ToSet(q) \ {c}
  <2>1. ASSUME NEW k \in 1 .. Len(r) PROVE r[k] \in ToSet(q) \ {c}
    <3>1. PICK j \in 1 .. Len(q) : j # i /\ r[k] = q[j]
      <4>1. CASE k < i
        BY <1>3, <1>5, <4>1
      <4>2. CASE ~(k < i)
        BY <1>3, <1>5, <4>2
      <4> QED BY <4>1, <4>2
    <3>2. q[j] # c
      BY <1>1, <1>3, <3>1 DEF IsInjective
    <3> QED BY <1>1, <3>1, <3>2 DEF ToSet
  <2>2. ASSUME NEW k \in 1 .. Len(q), q[k] # c PROVE \E j \in 1 .. Len(r) : r[j] = q[k]
    <3>1. CASE k < i
      BY <1>1, <1>3, <1>5, <3>1
    <3>2. CASE k > i
      <4>1. k - 1 \in 1 .. Len(r) /\ ~(k - 1 < i) /\ (k - 1) + 1 = k
        BY <1>1, <1>3, <1>5, <3>2
      <4>2. r[k - 1] = q[k]
        BY <1>5, <4>1
      <4> QED BY <4>1, <4>2
    <3> QED BY <1>1, <1>3, <2>2, <3>1, <3>2
  <2>3. ToSet(r) = {r[k] : k \in 1 .. Len(r)} /\ ToSet(q) = {q[k] : k \in 1 .. Len(q)}
    BY <1>1, <1>5, <1>6 DEF ToSet
  <2>4. ToSet(q) \ {c} \subseteq ToSet(r)
    BY <2>2, <2>3
  <2>5. ToSet(r) \subseteq ToSet(q) \ {c}
    BY <2>1, <2>3
  <2> QED BY <2>4, <2>5
<1>8. IsInjective(r)
  <2> DEFINE from(k) == IF k < i THEN k ELSE k + 1
  <2>1. \A k \in DOMAIN r : from(k) \in DOMAIN q /\ r[k] = q[from(k)]
    BY <1>1, <1>3, <1>5, <1>6
  <2>2. \A a, b \in DOMAIN r : from(a) = from(b) => a = b
    BY <1>1, <1>3, <1>6
  <2>3. \A a, b \in DOMAIN q : q[a] = q[b] => a = b
    BY <1>1 DEF IsInjective
  <2> HIDE DEF from
  <2> QED BY <2>1, <2>2, <2>3 DEF IsInjective
<1> QED BY <1>4, <1>5, <1>7, <1>8

(* A connection that joins becomes one of the connections of the session.  *)
LEMMA AppendFacts ==
  ASSUME NEW S, NEW q \in Seq(S), NEW c \in S, c \notin ToSet(q), IsInjective(q)
  PROVE  /\ Append(q, c) \in Seq(S) /\ Len(Append(q, c)) = Len(q) + 1 /\ Append(q, c) # <<>>
         /\ ToSet(Append(q, c)) = ToSet(q) \cup {c}
         /\ IsInjective(Append(q, c))
<1> DEFINE r == Append(q, c)
<1>1. Len(q) \in Nat /\ DOMAIN q = 1 .. Len(q) /\ \A k \in 1 .. Len(q) : q[k] \in S
  OBVIOUS
<1>2. /\ r \in Seq(S) /\ Len(r) = Len(q) + 1 /\ r # <<>>
      /\ \A k \in 1 .. Len(q) : r[k] = q[k]
      /\ r[Len(q) + 1] = c
  BY AppendProperties
<1> HIDE DEF r
<1>3. DOMAIN r = 1 .. Len(q) + 1
  BY <1>2, LenProperties
<1>4. ToSet(r) = ToSet(q) \cup {c}
  BY <1>1, <1>2, <1>3 DEF ToSet
<1>5. IsInjective(r)
  BY <1>1, <1>2, <1>3 DEF IsInjective, ToSet
<1> QED BY <1>2, <1>4, <1>5 DEF r

(* The TSIH that is taken is not in use.                                   *)
LEMMA TriedFacts ==
  ASSUME TypeOK, NEW n, n = SelectInSeq(Tried, Usable)
  PROVE  /\ Tried[Retries + 1] \in 0 .. Wrap - 1
         /\ n # 0 => Tried[n] \in 1 .. Wrap - 1 /\ Usable(Tried[n])
<1> DEFINE I == {i \in 1 .. Len(Tried) : Usable(Tried[i])}
<1>1. last_tsih \in Nat /\ Wrap \in Nat \ {0} /\ Retries \in Nat
  BY NumberAssumption DEF TypeOK
<1>2. \A k \in Nat : (last_tsih + k) % Wrap \in 0 .. Wrap - 1
  BY <1>1
<1>3. /\ Len(Tried) = Retries + 1
      /\ \A k \in 1 .. Retries + 1 : Tried[k] \in 0 .. Wrap - 1
  BY <1>1, <1>2 DEF Tried
<1>4. Tried[Retries + 1] \in 0 .. Wrap - 1
  BY <1>1, <1>3
<1>5. ASSUME n # 0 PROVE Tried[n] \in 1 .. Wrap - 1 /\ Usable(Tried[n])
  <2>1. I # {} /\ n = Min(I)
    BY <1>5 DEF SelectInSeq
  <2>2. I \in SUBSET Nat
    BY <1>3, <1>1
  <2>3. n \in I
    BY <2>1, <2>2, LeastMember, Zenon
  <2>4. n \in 1 .. Retries + 1 /\ Usable(Tried[n])
    BY <1>3, <2>3
  <2>5. Tried[n] \in 0 .. Wrap - 1
    BY <1>3, <2>4
  <2>6. Tried[n] # 0
    BY <2>4 DEF Usable
  <2> QED BY <1>1, <2>4, <2>5, <2>6
<1> QED BY <1>4, <1>5

-----------------------------------------------------------------------------
(* The type invariant, by the variables it is about.                       *)
MainTypes ==
  /\ config \in Configs
  /\ main \in {"accept", "stop", "wait", "last", "freed", "gaveup"}
  /\ g_conns \in [Slots -> Conns \cup {None}]
  /\ g_mutex \in Conns \cup {None}
  /\ events \in 0 .. config.events

ConnTypes ==
  /\ pc \in [Conns -> Places]
  /\ state \in [Conns -> {"INVALID", "RUNNING", "EXITING"}]
  /\ pipe \in [Conns -> BOOLEAN] /\ full \in [Conns -> BOOLEAN]
  /\ port \in [Conns -> Ports \cup {None}]
  /\ sess \in [Conns -> Conns \cup {None}]
  /\ local \in [Conns -> Nat]

SessTypes ==
  /\ session \in [Conns -> Session \cup {None}]
  /\ tsih \in [Entries -> Entry \cup {None}]
  /\ last_tsih \in 0 .. Wrap - 1

LEMMA Types == TypeOK <=> MainTypes /\ ConnTypes /\ SessTypes
BY DEF TypeOK, MainTypes, ConnTypes, SessTypes

LEMMA TypesNext == TypeOK' <=> MainTypes' /\ ConnTypes' /\ SessTypes'
BY DEF TypeOK, MainTypes, ConnTypes, SessTypes, Slots

(* The state of the sessions, and the parts of the invariant about it.     *)
Sessions == SessTypes /\ Members /\ SessionFits /\ TsihOwned

(* TsihOwned, for each entry and each session.                             *)
Owned ==
  /\ \A s, r \in Conns :
       session[s] # None /\ session[r] # None /\ session[s].tsih = session[r].tsih =>
         s = r \/ session[s].tsih = 0
  /\ \A i \in Entries : tsih[i] # None =>
       \E s \in Conns : /\ session[s] # None /\ session[s].tsih # 0
                        /\ session[s].tsih = tsih[i].tsih /\ session[s].port = tsih[i].port
  /\ \A s \in Conns : session[s] # None /\ session[s].tsih # 0 =>
       \E i \in Entries : /\ tsih[i] # None
                          /\ session[s].tsih = tsih[i].tsih /\ session[s].port = tsih[i].port
  /\ \A i, j \in Entries : tsih[i] # None /\ tsih[i] = tsih[j] => i = j

LEMMA OwnedEach == TsihOwned <=> Owned
<1> DEFINE T == {i \in Entries : tsih[i] # None}
           N == {s \in Conns : session[s] # None /\ session[s].tsih # 0}
           A == {<<tsih[i].tsih, tsih[i].port>> : i \in T}
           B == {<<session[s].tsih, session[s].port>> : s \in N}
<1> DEFINE a(i) == <<tsih[i].tsih, tsih[i].port>>
           b(s) == <<session[s].tsih, session[s].port>>
<1>0. \A i, s : a(i) = b(s) <=> session[s].tsih = tsih[i].tsih /\ session[s].port = tsih[i].port
  OBVIOUS
<1>1. A \subseteq B <=> \A i \in T : \E s \in N : a(i) = b(s)
  <2> HIDE DEF T, N, a, b
  <2>1. A = {a(i) : i \in T} /\ B = {b(s) : s \in N}
    BY DEF a, b
  <2> HIDE DEF A, B
  <2> QED BY <2>1
<1>2. B \subseteq A <=> \A s \in N : \E i \in T : a(i) = b(s)
  <2> HIDE DEF T, N, a, b
  <2>1. A = {a(i) : i \in T} /\ B = {b(s) : s \in N}
    BY DEF a, b
  <2> HIDE DEF A, B
  <2> QED BY <2>1
<1>3. A = B <=> A \subseteq B /\ B \subseteq A
  OBVIOUS
<1>4. TsihOwned <=>
        /\ \A s, r \in Conns :
             session[s] # None /\ session[r] # None /\ session[s].tsih = session[r].tsih =>
               s = r \/ session[s].tsih = 0
        /\ A = B
        /\ \A i, j \in Entries : tsih[i] # None /\ tsih[i] = tsih[j] => i = j
  BY DEF TsihOwned
<1> HIDE DEF A, B, a, b
<1> QED BY <1>0, <1>1, <1>2, <1>3, <1>4 DEF Owned

LEMMA OwnedNext == TsihOwned' <=> Owned'
BY OwnedEach, PTL

(* A step that leaves the sessions alone keeps them as they should be.     *)
LEMMA SessionsKept ==
  ASSUME Sessions, UNCHANGED <<config, sess, sessVars>>
  PROVE  Sessions'
<1>1. SessTypes' /\ SessionFits'
  BY DEF Sessions, SessTypes, SessionFits, sessVars
<1>2. Members'
  BY DEF Sessions, Members, sessVars
<1>3. TsihOwned'
  BY DEF Sessions, TsihOwned, sessVars
<1> QED BY <1>1, <1>2, <1>3 DEF Sessions

(* Who has been told to exit stays so.                                     *)
LEMMA OpenersKept ==
  ASSUME OldSessionDropped, UNCHANGED <<sess, port>>,
         \A c \in Conns : state[c] = "EXITING" => state'[c] = "EXITING"
  PROVE  OldSessionDropped'
BY DEF OldSessionDropped

(* The parts of the invariant that are not about sessions.                 *)
Threads == /\ MainTypes /\ ConnTypes /\ RegisteredOnce /\ FreedWhenUnused
           /\ Phases /\ Holds /\ Told /\ OldSessionDropped

LEMMA Parts == IInv <=> Threads /\ Sessions
BY Types DEF IInv, Linked, Threads, Sessions

LEMMA PartsNext == IInv' <=> Threads' /\ Sessions'
BY TypesNext DEF IInv, Linked, Threads, Sessions

(* What a worker does at the end of its turn.                              *)
LEMMA TurnFacts ==
  ASSUME ConnTypes, NEW c \in Conns, NextTurn(c) \/ Ends(c)
  PROVE  /\ \E p \in {"loop", "remove"} : pc' = [pc EXCEPT ![c] = p]
         /\ state' \in [Conns -> {"INVALID", "RUNNING", "EXITING"}]
         /\ \A d \in Conns : state[d] = "EXITING" => state'[d] = "EXITING"
BY DEF ConnTypes, NextTurn, Ends, Goto

-----------------------------------------------------------------------------
(* Each action preserves the invariant.                                    *)
LEMMA AcceptStep ==
  ASSUME IInv, NEW c \in Conns, Accept(c)
  PROVE  IInv'
<1>1. Threads /\ Sessions
  BY Parts
<1>2. pc[c] = "none" /\ sess[c] = None /\ session[c] = None
  <2>1. ~(c < c)
    BY NumberAssumption
  <2> QED BY <1>1, <2>1, NoneAssumption DEF Accept, Threads, Phases
<1>3. Sessions'
  BY <1>1, SessionsKept DEF Accept
<1>4. ConnTypes' /\ \E p \in {"loop", "gone"} : pc' = [pc EXCEPT ![c] = p]
  BY <1>1 DEF Accept, Threads, ConnTypes, Goto, Places
<1>5. MainTypes' /\ RegisteredOnce'
  <2> USE <1>1 DEF Threads
  <2>1. CASE FreeSlots = {}
    <3>1. UNCHANGED <<config, main, g_conns, g_mutex, events, Registered>> /\ pc' = [pc EXCEPT ![c] = "gone"]
      BY <2>1 DEF Accept, Goto, Registered, Slots
    <3> QED BY <1>2, <3>1 DEF MainTypes, RegisteredOnce, ConnTypes, Slots
  <2>2. CASE FreeSlots # {}
    <3>1. PICK i \in FreeSlots : /\ g_conns' = [g_conns EXCEPT ![i] = c]
                                 /\ pc' = [pc EXCEPT ![c] = "loop"]
      BY <2>2 DEF Accept, Goto
    <3>2. Slots' = Slots /\ i \in Slots /\ g_conns[i] = None /\ c # None
      BY NoneAssumption DEF Accept, Slots, FreeSlots
    <3>3. /\ g_conns' \in [Slots -> Conns \cup {None}] /\ g_conns'[i] = c
          /\ \A j \in Slots \ {i} : g_conns'[j] = g_conns[j]
      BY <3>1, <3>2 DEF MainTypes
    <3>4. MainTypes'
      BY <3>2, <3>3 DEF MainTypes, Accept
    <3>5. c \notin Registered
      BY <1>2 DEF RegisteredOnce
    <3>6. Registered' = Registered \cup {c}
      <4>1. ASSUME NEW d \in Conns PROVE d \in Registered' <=> d \in Registered \/ d = c
        <5>1. d \in Registered' <=> \E j \in Slots : g_conns'[j] = d
          BY <3>2 DEF Registered
        <5>2. d \in Registered <=> \E j \in Slots : g_conns[j] = d
          BY DEF Registered
        <5>3. d # None
          BY NoneAssumption
        <5> QED BY <3>2, <3>3, <5>1, <5>2, <5>3
      <4>2. Registered \subseteq Conns /\ Registered' \subseteq Conns
        BY DEF Registered
      <4> QED BY <4>1, <4>2
    <3>7. Registered' = {d \in Conns : pc'[d] \notin {"none", "gone"}}
      BY <1>2, <3>1, <3>6 DEF RegisteredOnce, ConnTypes
    <3>8. \A j, k \in Slots : g_conns'[j] # None /\ g_conns'[j] = g_conns'[k] => j = k
      BY <3>2, <3>3, <3>5 DEF RegisteredOnce, Registered
    <3> QED BY <3>2, <3>4, <3>7, <3>8 DEF RegisteredOnce
  <2> QED BY <2>1, <2>2
<1>6. FreedWhenUnused' /\ Phases'
  BY <1>1, <1>2 DEF Accept, Threads, FreedWhenUnused, Phases, ConnTypes, Goto, sessVars
<1>7. Holds' /\ Told' /\ OldSessionDropped'
  BY <1>1, <1>2 DEF Accept, Threads, Holds, Told, OldSessionDropped, ConnTypes, Goto
<1> QED BY <1>3, <1>4, <1>5, <1>6, <1>7, PartsNext DEF Threads

(* A step of a worker from one place to another keeps it registered.       *)
LEMMA StaysRegistered ==
  ASSUME RegisteredOnce, FreedWhenUnused, ConnTypes, UNCHANGED <<config, main, g_conns>>,
         NEW c \in Conns, pc[c] \notin {"none", "gone"},
         NEW p \in Places \ {"none", "gone"}, pc' = [pc EXCEPT ![c] = p]
  PROVE  RegisteredOnce' /\ FreedWhenUnused' /\ main # "freed"
<1>1. Registered' = Registered /\ Slots' = Slots
  BY DEF Registered, Slots
<1>2. {d \in Conns : pc[d] \notin {"none", "gone"}} = {d \in Conns : pc'[d] \notin {"none", "gone"}}
  BY DEF ConnTypes
<1>3. RegisteredOnce'
  BY <1>1, <1>2 DEF RegisteredOnce
<1>4. main # "freed"
  BY DEF FreedWhenUnused
<1> QED BY <1>3, <1>4 DEF FreedWhenUnused

(* The end of a turn in which no session is opened, joined or left.        *)
LEMMA TurnThreads ==
  ASSUME Threads, Members, NEW c \in Conns, At(c, "loop"),
         NEW p \in {"loop", "remove", "reset"}, pc' = [pc EXCEPT ![c] = p],
         state' \in [Conns -> {"INVALID", "RUNNING", "EXITING"}],
         \A d \in Conns : state[d] = "EXITING" => state'[d] = "EXITING",
         full' \in [Conns -> BOOLEAN], events' \in 0 .. config.events,
         \A s \in Conns : /\ session'[s] = None <=> session[s] = None
                          /\ session[s] # None => session'[s].port = session[s].port,
         UNCHANGED <<config, main, g_conns, g_mutex, pipe, port, sess, local>>
  PROVE  Threads'
<1> USE DEF Threads
<1>1. MainTypes' /\ ConnTypes'
  BY DEF MainTypes, ConnTypes, Places, Slots
<1>2. RegisteredOnce' /\ FreedWhenUnused'
  BY StaysRegistered DEF At, Places
<1>3. Phases'
  <2> SUFFICES ASSUME NEW d \in Conns
               PROVE  /\ sess[d] # None => /\ pc'[d] \in {"loop", "reset", "resetting", "remove"}
                                           /\ port[d] = session'[sess[d]].port
                      /\ pc'[d] \in {"drop", "dropping", "append"} => port[d] # None
                      /\ session'[d] # None => pc'[d] = "gone" \/ sess[d] = d
    BY DEF Phases
  <2>1. sess[d] # None => sess[d] \in Conns /\ session[sess[d]] # None
    BY DEF ConnTypes, Members
  <2>2. pc'[d] = IF d = c THEN p ELSE pc[d]
    BY DEF ConnTypes
  <2> QED BY <2>1, <2>2 DEF Phases, At
<1>4. Holds'
  BY DEF At, Holds, ConnTypes
<1>5. Told' /\ OldSessionDropped'
  BY OpenersKept DEF At, Told, ConnTypes
<1> QED BY <1>1, <1>2, <1>3, <1>4, <1>5

(* ... and the sessions stay as they are.                                  *)
LEMMA TurnStep ==
  ASSUME IInv, NEW c \in Conns, At(c, "loop"),
         NEW p \in {"loop", "remove", "reset"}, pc' = [pc EXCEPT ![c] = p],
         state' \in [Conns -> {"INVALID", "RUNNING", "EXITING"}],
         \A d \in Conns : state[d] = "EXITING" => state'[d] = "EXITING",
         full' \in [Conns -> BOOLEAN], events' \in 0 .. config.events,
         UNCHANGED <<config, main, g_conns, g_mutex, pipe, port, sess, local, sessVars>>
  PROVE  IInv'
<1>1. Threads /\ Sessions
  BY Parts
<1>2. Sessions'
  BY <1>1, SessionsKept
<1>3. session' = session /\ Members
  BY <1>1 DEF sessVars, Sessions
<1>4. Threads'
  BY <1>1, <1>3, TurnThreads
<1> QED BY <1>2, <1>4, PartsNext

LEMMA LeaveStep ==
  ASSUME IInv, NEW c \in Conns, Leave(c) \/ Lost(c)
  PROVE  IInv'
<1>1. Threads
  BY Parts
<1>2. /\ At(c, "loop") /\ Ends(c)
      /\ UNCHANGED <<config, main, g_conns, g_mutex, pipe, port, sess, full, local, sessVars>>
  BY DEF Leave, Lost
<1>3. events' \in 0 .. config.events
  BY <1>1, ConfigAssumption DEF Leave, Lost, Disturb, Threads, MainTypes
<1>4. /\ pc' = [pc EXCEPT ![c] = "remove"]
      /\ state' \in [Conns -> {"INVALID", "RUNNING", "EXITING"}]
      /\ \A d \in Conns : state[d] = "EXITING" => state'[d] = "EXITING"
  BY <1>1, <1>2 DEF Ends, Goto, Threads, ConnTypes
<1>5. full' \in [Conns -> BOOLEAN]
  BY <1>1, <1>2 DEF Threads, ConnTypes
<1> QED BY <1>2, <1>3, <1>4, <1>5, TurnStep

LEMMA ResetStep ==
  ASSUME IInv, NEW c \in Conns, Reset(c)
  PROVE  IInv'
<1>1. Threads
  BY Parts
<1>2. /\ At(c, "loop") /\ pc' = [pc EXCEPT ![c] = "reset"]
      /\ UNCHANGED <<config, main, g_conns, g_mutex, pipe, port, sess, full, local, sessVars, state>>
  BY DEF Reset, Goto
<1>3. events' \in 0 .. config.events
  BY <1>1, ConfigAssumption DEF Reset, Disturb, Threads, MainTypes
<1>4. state' \in [Conns -> {"INVALID", "RUNNING", "EXITING"}] /\ full' \in [Conns -> BOOLEAN]
  BY <1>1, <1>2 DEF Threads, ConnTypes
<1> QED BY <1>2, <1>3, <1>4, TurnStep

LEMMA FullFeatureStep ==
  ASSUME IInv, NEW c \in Conns, FullFeature(c) \/ NoTsih(c)
  PROVE  IInv'
<1>1. Threads
  BY Parts
<1>2. /\ At(c, "loop") /\ (NextTurn(c) \/ Ends(c))
      /\ UNCHANGED <<config, main, g_conns, g_mutex, pipe, port, sess, local, sessVars, events>>
  BY DEF FullFeature, NoTsih
<1>3. PICK p \in {"loop", "remove"} : pc' = [pc EXCEPT ![c] = p]
  BY <1>1, <1>2, TurnFacts DEF Threads
<1>4. /\ state' \in [Conns -> {"INVALID", "RUNNING", "EXITING"}]
      /\ \A d \in Conns : state[d] = "EXITING" => state'[d] = "EXITING"
  BY <1>1, <1>2, TurnFacts DEF Threads
<1>5. full' \in [Conns -> BOOLEAN] /\ events' \in 0 .. config.events
  BY <1>1, <1>2 DEF FullFeature, NoTsih, Threads, ConnTypes, MainTypes
<1> QED BY <1>2, <1>3, <1>4, <1>5, TurnStep

(* A login PDU: the connection has no session yet, so that its port is of  *)
(* no concern to the others.                                               *)
LEMMA LoginStep ==
  ASSUME IInv, NEW c \in Conns, NEW p \in config.ports,
         LoginNew(c, p) \/ \E t \in 1 .. Wrap - 1 : LoginMore(c, p, t)
  PROVE  IInv'
<1>1. Threads /\ Sessions
  BY Parts
<1>2. /\ pc[c] = "loop" /\ sess[c] = None
      /\ port' = [port EXCEPT ![c] = p]
      /\ UNCHANGED <<config, main, g_conns, g_mutex, state, pipe, sess, full, sessVars, events>>
  BY DEF LoginNew, LoginMore, At
<1>3. PICK q \in {"drop", "append"} : pc' = [pc EXCEPT ![c] = q]
  BY DEF LoginNew, LoginMore, Goto
<1>4. p \in Ports /\ p # None /\ c # None
  BY <1>1, ConfigAssumption, NoneAssumption DEF Threads, MainTypes
<1>5. Sessions'
  BY <1>1, <1>2, SessionsKept
<1>6. local' \in [Conns -> Nat]
  BY <1>1, NumberAssumption DEF LoginNew, LoginMore, Threads, ConnTypes
<1>7. MainTypes' /\ ConnTypes'
  BY <1>1, <1>2, <1>3, <1>4, <1>6 DEF Threads, MainTypes, ConnTypes, Places, Slots
<1>8. RegisteredOnce' /\ FreedWhenUnused'
  BY <1>1, <1>2, <1>3, StaysRegistered DEF Threads, Places
<1>9. Phases'
  BY <1>1, <1>2, <1>3, <1>4 DEF Threads, Phases, ConnTypes, sessVars
<1>10. Holds'
  BY <1>1, <1>2, <1>3 DEF Threads, Holds, ConnTypes
<1>11. Told' /\ OldSessionDropped'
  BY <1>1, <1>2, <1>3, <1>4 DEF Threads, Told, OldSessionDropped, ConnTypes
<1> QED BY <1>5, <1>7, <1>8, <1>9, <1>10, <1>11, PartsNext DEF Threads

(* Marking: those of the port that are in g_conns include all that have a  *)
(* session.                                                                *)
LEMMA MarkStep ==
  ASSUME IInv, NEW c \in Conns, DropMark(c) \/ ResetMark(c)
  PROVE  IInv'
<1>1. Threads /\ Sessions
  BY Parts
<1> DEFINE told == IF DropMark(c) THEN SamePort(c) ELSE SameName(c)
<1>2. /\ \/ DropMark(c) /\ pc[c] = "drop" /\ pc' = [pc EXCEPT ![c] = "dropping"]
         \/ ~DropMark(c) /\ pc[c] = "reset" /\ pc' = [pc EXCEPT ![c] = "resetting"]
      /\ g_mutex = None /\ g_mutex' = c
      /\ state' = [x \in Conns |-> IF x \in told THEN "EXITING" ELSE state[x]]
      /\ local' = [local EXCEPT ![c] = Cardinality(told)]
      /\ UNCHANGED <<config, main, g_conns, pipe, port, sess, full, sessVars, events>>
  BY DEF DropMark, ResetMark, Mark, At, Goto
<1>3. Cardinality(told) \in Nat
  <2>1. told \in SUBSET Conns
    BY DEF SamePort, SameName, Registered
  <2>2. IsFiniteSet(told)
    BY <2>1, FiniteAssumption, FS_Subset
  <2> QED BY <2>2, FS_CardinalityType
<1>4. DropMark(c) => told = SamePort(c)
  OBVIOUS
<1> HIDE DEF told
<1>5. \A d \in Conns : /\ state[d] = "EXITING" => state'[d] = "EXITING"
                       /\ d \in told => state'[d] = "EXITING"
  BY <1>2
<1>6. Sessions'
  BY <1>1, <1>2, SessionsKept
<1>7. MainTypes' /\ ConnTypes'
  BY <1>1, <1>2, <1>3 DEF Threads, MainTypes, ConnTypes, Places, Slots
<1>8. RegisteredOnce' /\ FreedWhenUnused'
  BY <1>1, <1>2, StaysRegistered DEF Threads, Places
<1>9. Phases'
  BY <1>1, <1>2 DEF Threads, Phases, ConnTypes, sessVars
<1>10. Holds'
  BY <1>1, <1>2, NoneAssumption DEF Threads, Holds, ConnTypes
<1>11. OldSessionDropped'
  BY <1>1, <1>2, <1>5, OpenersKept DEF Threads
<1>12. Told'
  <2> SUFFICES ASSUME NEW x \in Conns, NEW d \in Conns, x # d, pc'[x] = "dropping",
                      sess'[d] = d, port'[d] = port'[x]
               PROVE  state'[d] = "EXITING"
    BY DEF Told
  <2>1. x = c /\ DropMark(c)
    BY <1>1, <1>2, NoneAssumption DEF Threads, Holds, ConnTypes
  <2>2. d \in Registered
    BY <1>1, <1>2, NoneAssumption DEF Threads, Phases, RegisteredOnce
  <2>3. d \in told
    BY <1>2, <1>4, <2>1, <2>2 DEF SamePort
  <2> QED BY <1>5, <2>3
<1> QED BY <1>6, <1>7, <1>8, <1>9, <1>10, <1>11, <1>12, PartsNext DEF Threads

(* What the end of drop_old_conns and of drop_all_conns have in common.    *)
LEMMA FinishFacts ==
  ASSUME Threads, NEW c \in Conns, NEW from \in {"dropping", "resetting"},
         NEW written, Finish(c, from, written), NextTurn(c) \/ Ends(c),
         sess' \in [Conns -> Conns \cup {None}]
  PROVE  /\ pc[c] = from /\ g_mutex' = None /\ MainTypes' /\ ConnTypes' /\ Holds' /\ Told'
         /\ RegisteredOnce' /\ FreedWhenUnused'
         /\ \E p \in {"loop", "remove"} : pc' = [pc EXCEPT ![c] = p]
         /\ \A d \in Conns : state[d] = "EXITING" => state'[d] = "EXITING"
<1> USE DEF Threads
<1>1. /\ pc[c] = from /\ g_mutex' = None
      /\ UNCHANGED <<config, main, g_conns, port, full, tsih, last_tsih, events>>
      /\ local' = [local EXCEPT ![c] = 0]
  BY DEF Finish, At
<1>2. /\ \A d \in Conns : state[d] = "EXITING" => state'[d] = "EXITING"
      /\ state' \in [Conns -> {"INVALID", "RUNNING", "EXITING"}]
  BY TurnFacts
<1>3. PICK p \in {"loop", "remove"} : pc' = [pc EXCEPT ![c] = p]
  BY TurnFacts
<1>4. pipe' \in [Conns -> BOOLEAN]
  BY DEF Finish, ConnTypes
<1>5. MainTypes' /\ ConnTypes'
  BY <1>1, <1>2, <1>3, <1>4 DEF MainTypes, ConnTypes, Places, Slots
<1>6. g_mutex = c /\ \A d \in Conns : d # c => pc[d] \notin {"dropping", "resetting"}
  BY <1>1 DEF Holds
<1>7. Holds' /\ Told'
  BY <1>1, <1>3, <1>6, NoneAssumption DEF Holds, Told, ConnTypes
<1>8. RegisteredOnce' /\ FreedWhenUnused'
  BY <1>1, <1>3, StaysRegistered DEF Places
<1> QED BY <1>1, <1>2, <1>3, <1>5, <1>7, <1>8

LEMMA ResetEndStep ==
  ASSUME IInv, NEW c \in Conns, ResetEnd(c)
  PROVE  IInv'
<1>1. Threads /\ Sessions
  BY Parts
<1>2. /\ Finish(c, "resetting", IF SamePort(c) # {} THEN {c} ELSE {})
      /\ NextTurn(c) \/ Ends(c)
      /\ UNCHANGED <<config, sess, port, sessVars>>
  BY DEF ResetEnd, Finish, sessVars
<1>3. sess' \in [Conns -> Conns \cup {None}]
  BY <1>1, <1>2 DEF Threads, ConnTypes
<1>4. /\ pc[c] = "resetting" /\ MainTypes' /\ ConnTypes' /\ Holds' /\ Told'
      /\ RegisteredOnce' /\ FreedWhenUnused'
      /\ \A d \in Conns : state[d] = "EXITING" => state'[d] = "EXITING"
  BY <1>1, <1>2, <1>3, FinishFacts
<1>5. PICK p \in {"loop", "remove"} : pc' = [pc EXCEPT ![c] = p]
  BY <1>1, <1>2, <1>3, FinishFacts
<1>6. Sessions'
  BY <1>1, <1>2, SessionsKept
<1>7. Phases' /\ OldSessionDropped'
  BY <1>1, <1>2, <1>4, <1>5, OpenersKept DEF Threads, Phases, ConnTypes, sessVars
<1> QED BY <1>4, <1>6, <1>7, PartsNext DEF Threads

(* A new session has one member, the connection that opens it, and no TSIH *)
(* yet; the sessions that its port had before are on their way out.        *)
LEMMA DropEndStep ==
  ASSUME IInv, NEW c \in Conns, DropEnd(c)
  PROVE  IInv'
<1> DEFINE new == [conns |-> <<c>>, port |-> port[c], tsih |-> 0]
<1>1. Threads /\ Sessions
  BY Parts
<1>2. /\ Finish(c, "dropping", SamePort(c)) /\ NextTurn(c)
      /\ session' = [session EXCEPT ![c] = new] /\ sess' = [sess EXCEPT ![c] = c]
      /\ UNCHANGED <<config, port, tsih, last_tsih>>
  BY DEF DropEnd, Finish
<1>3. sess' \in [Conns -> Conns \cup {None}]
  BY <1>1, <1>2 DEF Threads, ConnTypes
<1>4. /\ pc[c] = "dropping" /\ MainTypes' /\ ConnTypes' /\ Holds' /\ Told'
      /\ RegisteredOnce' /\ FreedWhenUnused'
      /\ \A d \in Conns : state[d] = "EXITING" => state'[d] = "EXITING"
  BY <1>1, <1>2, <1>3, FinishFacts
<1>5. PICK p \in {"loop", "remove"} : pc' = [pc EXCEPT ![c] = p]
  BY <1>1, <1>2, <1>3, FinishFacts
<1>6. /\ sess[c] = None /\ session[c] = None /\ port[c] \in Ports /\ c # None
      /\ \A d \in Conns : sess[d] # c
  <2>1. sess[c] = None /\ port[c] # None /\ c # None
    BY <1>1, <1>4, NoneAssumption DEF Threads, Phases
  <2>2. session[c] = None
    BY <1>1, <1>4, <2>1 DEF Threads, Phases
  <2>3. \A d \in Conns : sess[d] # c
    BY <1>1, <2>1, <2>2 DEF Sessions, Members
  <2> QED BY <1>1, <2>1, <2>2, <2>3 DEF Threads, ConnTypes
<1>7. new \in Session /\ new # None /\ Len(new.conns) = 1
  <2>1. <<c>> \in Seq(Conns) /\ Len(<<c>>) = 1
    OBVIOUS
  <2>2. 0 \in 0 .. Wrap - 1
    BY NumberAssumption
  <2>3. new \in Session
    BY <1>6, <2>1, <2>2 DEF Session
  <2> QED BY <2>1, <2>3, NoneAssumption
<1> HIDE DEF new
<1>8. /\ session' \in [Conns -> Session \cup {None}] /\ session'[c] = new
      /\ \A d \in Conns \ {c} : session'[d] = session[d]
      /\ sess'[c] = c /\ \A d \in Conns \ {c} : sess'[d] = sess[d]
  BY <1>1, <1>2, <1>7 DEF Sessions, SessTypes, Threads, ConnTypes
<1>9. SessTypes' /\ SessionFits'
  <2>1. SessTypes'
    BY <1>1, <1>2, <1>8 DEF Sessions, SessTypes
  <2>2. config.MaxConnections \in Nat \ {0}
    BY <1>1, ConfigAssumption DEF Threads, MainTypes
  <2>3. config' = config /\ \A d \in Conns : session[d] # None => Len(session[d].conns) <= config.MaxConnections
    BY <1>1, <1>2 DEF Sessions, SessionFits
  <2>4. ASSUME NEW s \in Conns, session'[s] # None PROVE Len(session'[s].conns) <= config.MaxConnections
    <3>1. CASE s = c
      <4>1. Len(session'[s].conns) = 1
        BY <1>7, <1>8, <3>1
      <4>2. 1 <= config.MaxConnections
        BY <2>2
      <4> QED BY <4>1, <4>2
    <3>2. CASE s # c
      BY <1>8, <2>3, <2>4, <3>2
    <3> QED BY <3>1, <3>2
  <2> QED BY <2>1, <2>3, <2>4 DEF SessionFits
<1>10. Members'
  <2>1. \A d \in Conns : sess'[d] # None => session'[sess'[d]] # None
    <3> SUFFICES ASSUME NEW d \in Conns, sess'[d] # None PROVE session'[sess'[d]] # None
      OBVIOUS
    <3>1. CASE d = c
      BY <1>7, <1>8, <3>1
    <3>2. CASE d # c
      <4>1. sess[d] \in Conns \ {c} /\ session[sess[d]] # None
        BY <1>1, <1>6, <1>8, <3>2 DEF Sessions, Members, Threads, ConnTypes
      <4> QED BY <1>8, <3>2, <4>1
    <3> QED BY <3>1, <3>2
  <2>2. /\ ToSet(new.conns) = {d \in Conns : sess'[d] = c} /\ new.conns # <<>>
        /\ IsInjective(new.conns)
    <3>1. new.conns = <<c>>
      BY DEF new
    <3>2. DOMAIN <<c>> = {1} /\ <<c>>[1] = c /\ <<c>> # <<>>
      OBVIOUS
    <3>3. ToSet(<<c>>) = {c} /\ IsInjective(<<c>>)
      BY <3>2 DEF ToSet, IsInjective
    <3> QED BY <1>6, <1>8, <3>1, <3>2, <3>3
  <2>3. ASSUME NEW s \in Conns \ {c}, session'[s] # None
        PROVE  /\ ToSet(session'[s].conns) = {d \in Conns : sess'[d] = s}
               /\ session'[s].conns # <<>> /\ IsInjective(session'[s].conns)
    <3>1. {d \in Conns : sess'[d] = s} = {d \in Conns : sess[d] = s}
      BY <1>6, <1>8, NoneAssumption
    <3> QED BY <1>1, <1>8, <2>3, <3>1 DEF Sessions, Members
  <2> QED BY <1>8, <2>1, <2>2, <2>3 DEF Members
<1>11. TsihOwned'
  <2>1. new.tsih = 0
    BY DEF new
  <2>2. {s \in Conns : session'[s] # None /\ session'[s].tsih # 0} =
        {s \in Conns : session[s] # None /\ session[s].tsih # 0}
    BY <1>6, <1>8, <2>1
  <2>3. {<<session'[s].tsih, session'[s].port>> :
            s \in {s \in Conns : session'[s] # None /\ session'[s].tsih # 0}} =
        {<<session[s].tsih, session[s].port>> :
            s \in {s \in Conns : session[s] # None /\ session[s].tsih # 0}}
    BY <1>6, <1>8, <2>2
  <2>4. \A s, r \in Conns :
          session'[s] # None /\ session'[r] # None /\ session'[s].tsih = session'[r].tsih =>
            s = r \/ session'[s].tsih = 0
    BY <1>1, <1>8, <2>1 DEF Sessions, TsihOwned
  <2> QED BY <1>1, <1>2, <2>3, <2>4 DEF Sessions, TsihOwned
<1>12. Phases'
  <2>1. new.port = port[c]
    BY DEF new
  <2> QED BY <1>1, <1>2, <1>5, <1>6, <1>8, <2>1 DEF Threads, Phases, ConnTypes, Sessions, Members
<1>13. OldSessionDropped'
  BY <1>1, <1>2, <1>4, <1>8 DEF Threads, Told, OldSessionDropped
<1> QED BY <1>4, <1>9, <1>10, <1>11, <1>12, <1>13, PartsNext DEF Threads, Sessions

(* The session of a connection gets a TSIH that no other session has, and  *)
(* the entry for it.                                                       *)
LEMMA NewTsihStep ==
  ASSUME IInv, NEW c \in Conns, NewTsih(c)
  PROVE  IInv'
<1> DEFINE n == SelectInSeq(Tried, Usable)
           i == CHOOSE j \in Entries : tsih[j] = None /\ \A k \in Entries : tsih[k] = None => j <= k
           s == sess[c]
<1>1. Threads /\ Sessions
  BY Parts
<1>2. /\ At(c, "loop") /\ s # None /\ session[s].tsih = 0
      /\ UNCHANGED <<config, main, g_conns, g_mutex, pipe, port, sess, local, events>>
  BY DEF NewTsih
<1>3. NextTurn(c) \/ Ends(c)
  BY DEF NewTsih
<1>4. s \in Conns /\ session[s] \in Session /\ session[s] # None /\ port[c] = session[s].port
  BY <1>1, <1>2 DEF At, Threads, Phases, ConnTypes, Sessions, SessTypes, Members
<1>5. i \in Entries /\ tsih[i] = None
  <2> DEFINE F == {j \in Entries : tsih[j] = None}
  <2>1. F # {} /\ F \in SUBSET Nat
    BY NumberAssumption DEF NewTsih
  <2>2. PICK j \in F : \A k \in F : j <= k
    BY <2>1, LeastMember
  <2> QED BY <2>2
<1>6. TypeOK
  BY DEF IInv, Linked
<1>7. /\ Tried[Retries + 1] \in 0 .. Wrap - 1
      /\ n # 0 => Tried[n] \in 1 .. Wrap - 1 /\ Usable(Tried[n])
  BY <1>6, TriedFacts
<1>8. \/ /\ n = 0 /\ last_tsih' = Tried[Retries + 1] /\ UNCHANGED <<full, session, tsih>>
      \/ /\ n # 0 /\ last_tsih' = Tried[n]
         /\ tsih' = [tsih EXCEPT ![i] = [tsih |-> Tried[n], port |-> port[c]]]
         /\ session' = [session EXCEPT ![s].tsih = Tried[n]]
         /\ full' = [full EXCEPT ![c] = TRUE]
  BY DEF NewTsih
<1> HIDE DEF n, i
<1>9. /\ \A d \in Conns : session'[d] # None => session[d] # None
      /\ \A d \in Conns : session[d] # None => session'[d] # None
      /\ \A d \in Conns : session[d] # None => session'[d].port = session[d].port
      /\ \A d \in Conns : session[d] # None => session'[d].conns = session[d].conns
      /\ SessTypes' /\ full' \in [Conns -> BOOLEAN]
  <2>1. CASE n = 0
    BY <1>1, <1>7, <1>8, <2>1 DEF Sessions, SessTypes, Threads, ConnTypes
  <2>2. CASE n # 0
    <3>1. [session[s] EXCEPT !.tsih = Tried[n]] \in Session
      <4>1. Tried[n] \in 0 .. Wrap - 1 /\ session[s] \in Session
        BY <1>4, <1>7, <2>2, NumberAssumption
      <4> DEFINE k == Tried[n]
                 z == session[s]
      <4> HIDE DEF k, z
      <4>2. k \in 0 .. Wrap - 1 /\ z \in Session
        BY <4>1 DEF k, z
      <4>3. [z EXCEPT !.tsih = k] \in Session
        BY <4>2 DEF Session
      <4> QED BY <4>3 DEF k, z
    <3>2. /\ session'[s] = [session[s] EXCEPT !.tsih = Tried[n]]
          /\ \A d \in Conns \ {s} : session'[d] = session[d]
      BY <1>1, <1>4, <1>8, <2>2 DEF Sessions, SessTypes
    <3>3. session' \in [Conns -> Session \cup {None}]
      BY <1>1, <1>4, <1>8, <2>2, <3>1 DEF Sessions, SessTypes
    <3>4. tsih' \in [Entries -> Entry \cup {None}]
      <4>1. port[c] \in Ports
        BY <1>4 DEF Session
      <4> QED BY <1>1, <1>5, <1>7, <1>8, <2>2, <4>1 DEF Sessions, SessTypes, Entry
    <3>5. SessTypes' /\ full' \in [Conns -> BOOLEAN]
      <4>1. last_tsih' \in 0 .. Wrap - 1
        BY <1>7, <1>8, <2>2
      <4>2. full' \in [Conns -> BOOLEAN]
        BY <1>1, <1>8, <2>2 DEF Threads, ConnTypes
      <4> QED BY <3>3, <3>4, <4>1, <4>2 DEF SessTypes
    <3>6. session'[s].port = session[s].port /\ session'[s].conns = session[s].conns /\ session'[s] # None
      BY <1>4, <3>1, <3>2, NoneAssumption DEF Session
    <3> HIDE DEF s
    <3> QED BY <1>4, <3>2, <3>5, <3>6
  <2> QED BY <2>1, <2>2
<1>10. Members' /\ SessionFits'
  <2>1. \A d \in Conns : sess[d] # None => session'[sess[d]] # None
    BY <1>1, <1>9 DEF Sessions, Members, Threads, ConnTypes
  <2>2. ASSUME NEW r \in Conns, session'[r] # None
        PROVE  /\ session'[r].conns # <<>> /\ IsInjective(session'[r].conns)
               /\ ToSet(session'[r].conns) = {d \in Conns : sess[d] = r}
               /\ Len(session'[r].conns) <= config.MaxConnections
    <3>1. session[r] # None /\ session'[r].conns = session[r].conns
      BY <1>9, <2>2
    <3> QED BY <1>1, <3>1 DEF Sessions, Members, SessionFits
  <2> QED BY <1>2, <2>1, <2>2 DEF Members, SessionFits
<1>11. TsihOwned'
  <2>1. CASE n = 0
    BY <1>1, <1>8, <2>1 DEF Sessions, TsihOwned
  <2>2. CASE n # 0
    <3> DEFINE e == [tsih |-> Tried[n], port |-> port[c]]
    <3>1. /\ Tried[n] # 0 /\ e.tsih = Tried[n] /\ e.port = port[c]
          /\ \A j \in Entries : tsih[j] # None => tsih[j].tsih # Tried[n]
      BY <1>7, <2>2 DEF Usable
    <3>2. e \in Entry /\ e # None
      BY <1>4, <1>7, <2>2, NoneAssumption DEF Entry, Session
    <3> HIDE DEF e
    <3>3. /\ tsih'[i] = e
          /\ \A j \in Entries \ {i} : tsih'[j] = tsih[j]
      <4>1. tsih' = [tsih EXCEPT ![i] = e]
        BY <1>8, <2>2 DEF e
      <4> QED BY <1>1, <1>5, <4>1 DEF Sessions, SessTypes
    <3>4. session'[s].tsih = Tried[n] /\ session'[s].port = port[c] /\ session'[s] # None
      <4>1. session'[s] = [session[s] EXCEPT !.tsih = Tried[n]]
        BY <1>1, <1>4, <1>8, <2>2 DEF Sessions, SessTypes
      <4>2. session'[s].tsih = Tried[n]
        BY <1>4, <4>1 DEF Session
      <4> QED BY <1>4, <1>9, <4>2
    <3>5. Owned
      BY <1>1, OwnedEach DEF Sessions
    <3>6. \A r \in Conns : session[r] # None => session[r].tsih # Tried[n]
      BY <3>1, <3>5 DEF Owned
    <3>7. \A r \in Conns \ {s} : session'[r] = session[r]
      BY <1>1, <1>8, <2>2 DEF Sessions, SessTypes
    <3> HIDE DEF s
    <3>8. \A r, q \in Conns :
            session'[r] # None /\ session'[q] # None /\ session'[r].tsih = session'[q].tsih =>
              r = q \/ session'[r].tsih = 0
      BY <3>4, <3>5, <3>6, <3>7 DEF Owned
    <3>9. ASSUME NEW j \in Entries, tsih'[j] # None
          PROVE  \E r \in Conns : /\ session'[r] # None /\ session'[r].tsih # 0
                                  /\ session'[r].tsih = tsih'[j].tsih /\ session'[r].port = tsih'[j].port
      <4>1. CASE j = i
        BY <1>4, <3>1, <3>3, <3>4, <4>1
      <4>2. CASE j # i
        <5>1. tsih'[j] = tsih[j]
          BY <3>3, <4>2
        <5>2. PICK r \in Conns : /\ session[r] # None /\ session[r].tsih # 0
                                 /\ session[r].tsih = tsih[j].tsih /\ session[r].port = tsih[j].port
          BY <3>5, <3>9, <5>1 DEF Owned
        <5>3. r # s
          BY <1>2, <5>2
        <5> QED BY <3>7, <5>1, <5>2, <5>3
      <4> QED BY <4>1, <4>2
    <3>10. ASSUME NEW r \in Conns, session'[r] # None, session'[r].tsih # 0
           PROVE  \E j \in Entries : /\ tsih'[j] # None
                                     /\ session'[r].tsih = tsih'[j].tsih /\ session'[r].port = tsih'[j].port
      <4>1. CASE r = s
        BY <1>5, <3>1, <3>2, <3>3, <3>4, <4>1
      <4>2. CASE r # s
        <5>1. session'[r] = session[r]
          BY <3>7, <4>2
        <5>2. PICK j \in Entries : /\ tsih[j] # None
                                   /\ session[r].tsih = tsih[j].tsih /\ session[r].port = tsih[j].port
          BY <3>5, <3>10, <5>1 DEF Owned
        <5>3. j # i
          BY <1>5, <5>2
        <5> QED BY <3>3, <5>1, <5>2, <5>3
      <4> QED BY <4>1, <4>2
    <3>11. \A j, k \in Entries : tsih'[j] # None /\ tsih'[j] = tsih'[k] => j = k
      <4>1. \A j \in Entries \ {i} : tsih'[j] # e
        BY <3>1, <3>2, <3>3
      <4> QED BY <3>3, <3>5, <4>1 DEF Owned
    <3>12. Owned'
      BY <3>8, <3>9, <3>10, <3>11 DEF Owned
    <3> QED BY <3>12, OwnedNext
  <2> QED BY <2>1, <2>2
<1>12. PICK p \in {"loop", "remove"} : pc' = [pc EXCEPT ![c] = p]
  BY <1>1, <1>3, TurnFacts DEF Threads
<1>13. /\ state' \in [Conns -> {"INVALID", "RUNNING", "EXITING"}]
       /\ \A d \in Conns : state[d] = "EXITING" => state'[d] = "EXITING"
  BY <1>1, <1>3, TurnFacts DEF Threads
<1>14. Threads'
  <2>1. events' \in 0 .. config.events /\ Members
    BY <1>1, <1>2 DEF Threads, MainTypes, Sessions
  <2>2. \A d \in Conns : /\ session'[d] = None <=> session[d] = None
                         /\ session[d] # None => session'[d].port = session[d].port
    BY <1>9
  <2>3. full' \in [Conns -> BOOLEAN]
    BY <1>9
  <2> HIDE DEF s
  <2> QED BY <1>1, <1>2, <1>12, <1>13, <2>1, <2>2, <2>3, TurnThreads
<1> QED BY <1>9, <1>10, <1>11, <1>14, PartsNext DEF Sessions

(* A connection joins a session of its port, or its login fails.           *)
LEMMA JoinSessStep ==
  ASSUME IInv, NEW c \in Conns, JoinSess(c)
  PROVE  IInv'
<1>1. Threads /\ Sessions
  BY Parts
<1>2. /\ pc[c] = "append" /\ g_mutex = None /\ NextTurn(c)
      /\ local' = [local EXCEPT ![c] = 0]
      /\ UNCHANGED <<config, main, g_conns, g_mutex, pipe, port, full, tsih, last_tsih, events>>
  BY DEF JoinSess, At
<1>3. sess[c] = None /\ session[c] = None /\ port[c] # None /\ c # None
  BY <1>1, <1>2, NoneAssumption DEF Threads, Phases
<1>4. PICK p \in {"loop", "remove"} : pc' = [pc EXCEPT ![c] = p]
  BY <1>1, <1>2, TurnFacts DEF Threads
<1>5. /\ state' \in [Conns -> {"INVALID", "RUNNING", "EXITING"}]
      /\ \A d \in Conns : state[d] = "EXITING" => state'[d] = "EXITING"
  BY <1>1, <1>2, TurnFacts DEF Threads
<1>6. RegisteredOnce' /\ FreedWhenUnused' /\ MainTypes' /\ Holds'
  <2>1. RegisteredOnce' /\ FreedWhenUnused'
    BY <1>1, <1>2, <1>4, StaysRegistered DEF Threads, Places
  <2>2. MainTypes' /\ Holds'
    BY <1>1, <1>2, <1>4 DEF Threads, MainTypes, Slots, Holds, ConnTypes
  <2> QED BY <2>1, <2>2
<1>7. ConnTypes' <=> sess' \in [Conns -> Conns \cup {None}]
  BY <1>1, <1>2, <1>4, <1>5 DEF Threads, ConnTypes, Places
<1>8. CASE UNCHANGED <<session, sess>>
  <2>1. Sessions'
    BY <1>1, <1>2, <1>8, SessionsKept DEF sessVars
  <2>2. ConnTypes'
    BY <1>1, <1>7, <1>8 DEF Threads, ConnTypes
  <2>3. Phases' /\ Told' /\ OldSessionDropped'
    BY <1>1, <1>2, <1>3, <1>4, <1>5, <1>8, OpenersKept DEF Threads, Phases, Told, ConnTypes
  <2> QED BY <1>6, <2>1, <2>2, <2>3, PartsNext DEF Threads
<1>9. ASSUME NEW s \in Matching(c), Room(s),
             session' = [session EXCEPT ![s].conns = Append(@, c)],
             sess' = [sess EXCEPT ![c] = s]
      PROVE  IInv'
  <2> DEFINE q == session[s].conns
  <2>1. /\ s \in Conns /\ s # c /\ s # None /\ session[s] # None /\ session[s] \in Session
        /\ session[s].port = port[c] /\ Len(q) < config.MaxConnections
    <3>1. PICK x \in Registered : s = sess[x] /\ s # None
      BY <1>9 DEF Matching
    <3>2. s \in Conns /\ session[s] # None
      BY <1>1, <3>1 DEF Registered, Threads, ConnTypes, Sessions, Members
    <3>3. session[s].port = port[c] /\ Len(q) < config.MaxConnections
      BY <1>9 DEF Matching, Room
    <3> QED BY <1>1, <1>3, <3>1, <3>2, <3>3 DEF Sessions, SessTypes
  <2>2. /\ q \in Seq(Conns) /\ IsInjective(q) /\ ToSet(q) = {d \in Conns : sess[d] = s}
    BY <1>1, <2>1 DEF Sessions, Members, Session
  <2>3. c \notin ToSet(q)
    BY <1>3, <2>1, <2>2
  <2> DEFINE r == Append(q, c)
  <2>4. /\ r \in Seq(Conns) /\ Len(r) = Len(q) + 1 /\ r # <<>>
        /\ ToSet(r) = ToSet(q) \cup {c} /\ IsInjective(r)
    BY <2>2, <2>3, AppendFacts
  <2> HIDE DEF r
  <2> DEFINE new == [session[s] EXCEPT !.conns = r]
  <2>5. /\ new \in Session /\ new # None
        /\ new.conns = r /\ new.port = session[s].port /\ new.tsih = session[s].tsih
    BY <2>1, <2>4, NoneAssumption DEF Session
  <2>6. session' = [session EXCEPT ![s] = new]
    BY <1>9 DEF r
  <2> HIDE DEF new, q
  <2>7. /\ session' \in [Conns -> Session \cup {None}] /\ session'[s] = new
        /\ \A d \in Conns \ {s} : session'[d] = session[d]
    BY <1>1, <2>1, <2>5, <2>6 DEF Sessions, SessTypes
  <2>8. /\ sess' \in [Conns -> Conns \cup {None}] /\ sess'[c] = s
        /\ \A d \in Conns \ {c} : sess'[d] = sess[d]
    BY <1>1, <1>9, <2>1 DEF Threads, ConnTypes
  <2>9. SessTypes' /\ ConnTypes'
    BY <1>1, <1>2, <1>7, <2>7, <2>8 DEF Sessions, SessTypes
  <2>10. \A d \in Conns : /\ session'[d] # None => session[d] # None
                          /\ session[d] # None => session'[d] # None
                          /\ session[d] # None => session'[d].port = session[d].port
                          /\ session[d] # None => session'[d].tsih = session[d].tsih
    BY <2>1, <2>5, <2>7
  <2>11. Members'
    <3>1. ASSUME NEW d \in Conns, sess'[d] # None PROVE session'[sess'[d]] # None
      <4>1. CASE d = c
        BY <2>5, <2>7, <2>8, <4>1
      <4>2. CASE d # c
        <5>1. sess'[d] = sess[d] /\ sess[d] \in Conns /\ session[sess[d]] # None
          BY <1>1, <2>8, <3>1, <4>2 DEF Sessions, Members, Threads, ConnTypes
        <5> QED BY <2>10, <5>1
      <4> QED BY <4>1, <4>2
    <3>2. ASSUME NEW d \in Conns, session'[d] # None
          PROVE  /\ ToSet(session'[d].conns) = {x \in Conns : sess'[x] = d}
                 /\ session'[d].conns # <<>> /\ IsInjective(session'[d].conns)
      <4>1. CASE d = s
        <5>1. session'[d].conns = r
          BY <2>5, <2>7, <4>1
        <5>2. {x \in Conns : sess'[x] = s} = {x \in Conns : sess[x] = s} \cup {c}
          BY <2>8
        <5> QED BY <2>2, <2>4, <4>1, <5>1, <5>2
      <4>2. CASE d # s
        <5>1. session'[d] = session[d]
          BY <2>7, <4>2
        <5>2. {x \in Conns : sess'[x] = d} = {x \in Conns : sess[x] = d}
          BY <1>3, <2>8, <4>2, NoneAssumption
        <5> QED BY <1>1, <3>2, <5>1, <5>2 DEF Sessions, Members
      <4> QED BY <4>1, <4>2
    <3> QED BY <3>1, <3>2 DEF Members
  <2>12. SessionFits'
    <3> SUFFICES ASSUME NEW d \in Conns, session'[d] # None
                 PROVE  Len(session'[d].conns) <= config.MaxConnections
      BY <1>2 DEF SessionFits
    <3>1. CASE d = s
      <4>1. session'[d].conns = r /\ Len(q) \in Nat
        BY <2>2, <2>5, <2>7, <3>1
      <4>2. config.MaxConnections \in Nat
        BY <1>1, ConfigAssumption DEF Threads, MainTypes
      <4> QED BY <2>1, <2>4, <4>1, <4>2
    <3>2. CASE d # s
      BY <1>1, <2>7, <3>2 DEF Sessions, SessionFits
    <3> QED BY <3>1, <3>2
  <2>13. TsihOwned'
    <3>1. Owned
      BY <1>1, OwnedEach DEF Sessions
    <3>2. Owned'
      BY <1>2, <2>10, <3>1 DEF Owned
    <3> QED BY <3>2, OwnedNext
  <2>14. Phases'
    <3> SUFFICES ASSUME NEW d \in Conns
                 PROVE  /\ sess'[d] # None => /\ pc'[d] \in {"loop", "reset", "resetting", "remove"}
                                              /\ port[d] = session'[sess'[d]].port
                        /\ pc'[d] \in {"drop", "dropping", "append"} => port[d] # None
                        /\ session'[d] # None => pc'[d] = "gone" \/ sess'[d] = d
      BY <1>2 DEF Phases
    <3>1. CASE d = c
      BY <1>1, <1>3, <1>4, <2>1, <2>5, <2>7, <2>8, <3>1 DEF Threads, ConnTypes
    <3>2. CASE d # c
      <4>1. pc'[d] = pc[d] /\ sess'[d] = sess[d]
        BY <1>1, <1>4, <2>8, <3>2 DEF Threads, ConnTypes
      <4>2. sess[d] # None => sess[d] \in Conns /\ session[sess[d]] # None
        BY <1>1 DEF Sessions, Members, Threads, ConnTypes
      <4> QED BY <1>1, <2>10, <4>1, <4>2 DEF Threads, Phases
    <3> QED BY <3>1, <3>2
  <2>15. Told' /\ OldSessionDropped'
    <3>1. \A d \in Conns : pc'[d] # "dropping"
      BY <1>1, <1>2, <1>4, NoneAssumption DEF Threads, Holds, ConnTypes
    <3>2. \A d \in Conns : sess'[d] = d => sess[d] = d
      BY <2>1, <2>8
    <3> QED BY <1>1, <1>2, <1>5, <3>1, <3>2 DEF Threads, Told, OldSessionDropped
  <2> QED BY <1>6, <2>9, <2>11, <2>12, <2>13, <2>14, <2>15, PartsNext DEF Threads, Sessions
<1> QED BY <1>8, <1>9 DEF JoinSess

(* The removal of a connection: the session it was the last of ends, and   *)
(* the entry with its TSIH is free again.                                  *)
LEMMA DeregisterStep ==
  ASSUME IInv, NEW c \in Conns, Deregister(c)
  PROVE  IInv'
<1> DEFINE s == sess[c]
           q == session[s].conns
           mine == {i \in Entries : /\ tsih[i] # None
                                    /\ tsih[i] = [tsih |-> session[s].tsih, port |-> port[c]]}
<1>1. Threads /\ Sessions
  BY Parts
<1>2. /\ pc[c] = "remove" /\ g_mutex = None /\ main # "gaveup"
      /\ pc' = [pc EXCEPT ![c] = "gone"]
      /\ g_conns' = [i \in Slots |-> IF g_conns[i] = c THEN None ELSE g_conns[i]]
      /\ sess' = [sess EXCEPT ![c] = None] /\ full' = [full EXCEPT ![c] = FALSE]
      /\ pipe' = [pipe EXCEPT ![c] = FALSE] /\ port' = [port EXCEPT ![c] = None]
      /\ local' = [local EXCEPT ![c] = 0]
      /\ UNCHANGED <<config, main, g_mutex, state, last_tsih, events>>
  BY DEF Deregister, At, Goto
<1>3. MainTypes' /\ ConnTypes'
  BY <1>1, <1>2 DEF Threads, MainTypes, ConnTypes, Places, Slots
<1>4. c # None /\ Slots' = Slots
  BY <1>2, NoneAssumption DEF Slots
<1>5. RegisteredOnce'
  <2>1. ASSUME NEW d \in Conns PROVE d \in Registered' <=> d \in Registered /\ d # c
    <3>1. d \in Registered' <=> \E j \in Slots : g_conns'[j] = d
      BY <1>4 DEF Registered
    <3>2. d \in Registered <=> \E j \in Slots : g_conns[j] = d
      BY DEF Registered
    <3>3. d # None
      BY NoneAssumption
    <3>4. \A j \in Slots : g_conns'[j] = IF g_conns[j] = c THEN None ELSE g_conns[j]
      BY <1>2
    <3> QED BY <3>1, <3>2, <3>3, <3>4
  <2>2. \A d \in Conns : pc'[d] \notin {"none", "gone"} <=> pc[d] \notin {"none", "gone"} /\ d # c
    BY <1>1, <1>2 DEF Threads, ConnTypes
  <2>3. Registered = {d \in Conns : pc[d] \notin {"none", "gone"}}
    BY <1>1 DEF Threads, RegisteredOnce
  <2>4. Registered' \subseteq Conns
    BY DEF Registered
  <2>5. Registered' = {d \in Conns : pc'[d] \notin {"none", "gone"}}
    BY <2>1, <2>2, <2>3, <2>4
  <2>6. \A i, j \in Slots : g_conns'[i] # None /\ g_conns'[i] = g_conns'[j] => i = j
    BY <1>1, <1>2 DEF Threads, RegisteredOnce
  <2> QED BY <1>4, <2>5, <2>6 DEF RegisteredOnce
<1>6. FreedWhenUnused' /\ Holds' /\ OldSessionDropped' /\ Told'
  <2>1. FreedWhenUnused' /\ Holds'
    BY <1>1, <1>2 DEF Threads, FreedWhenUnused, Holds, ConnTypes
  <2>2. \A d \in Conns : sess'[d] = d => sess[d] = d /\ d # c
    BY <1>1, <1>2, <1>4 DEF Threads, ConnTypes
  <2>3. \A d \in Conns : pc'[d] # "dropping"
    BY <1>1, <1>2, NoneAssumption DEF Threads, Holds, ConnTypes
  <2>4. \A d \in Conns \ {c} : port'[d] = port[d]
    BY <1>1, <1>2 DEF Threads, ConnTypes
  <2>5. OldSessionDropped'
    BY <1>1, <1>2, <2>2, <2>4 DEF Threads, OldSessionDropped
  <2> QED BY <2>1, <2>3, <2>5 DEF Told
<1>7. /\ sess'[c] = None /\ \A d \in Conns \ {c} : sess'[d] = sess[d]
      /\ pc'[c] = "gone" /\ \A d \in Conns \ {c} : pc'[d] = pc[d]
      /\ port'[c] = None /\ \A d \in Conns \ {c} : port'[d] = port[d]
  BY <1>1, <1>2 DEF Threads, ConnTypes
<1>8. CASE s = None
  <2>1. UNCHANGED <<session, tsih>> /\ sess' = sess
    BY <1>1, <1>2, <1>8 DEF Deregister, Threads, ConnTypes
  <2>2. Sessions'
    BY <1>1, <1>2, <2>1, SessionsKept DEF sessVars
  <2>3. Phases'
    BY <1>1, <1>7, <1>8, <2>1 DEF Threads, Phases, ConnTypes
  <2> QED BY <1>3, <1>5, <1>6, <2>2, <2>3, PartsNext DEF Threads
<1>9. CASE s # None
  <2>1. /\ s \in Conns /\ session[s] \in Session /\ session[s] # None
        /\ port[c] = session[s].port
    BY <1>1, <1>9 DEF Threads, Phases, ConnTypes, Sessions, SessTypes, Members
  <2>2. /\ q \in Seq(Conns) /\ IsInjective(q) /\ ToSet(q) = {d \in Conns : sess[d] = s}
        /\ Len(q) <= config.MaxConnections
    BY <1>1, <2>1 DEF Sessions, Members, SessionFits, Session
  <2>3. c \in ToSet(q)
    BY <2>2
  <2> DEFINE r == Left(q, c)
  <2>4. /\ r \in Seq(Conns) /\ Len(r) = Len(q) - 1
        /\ ToSet(r) = ToSet(q) \ {c} /\ IsInjective(r)
    BY <2>2, <2>3, LeftFacts
  <2>5. \/ /\ r = <<>>
           /\ session' = [session EXCEPT ![s] = None]
           /\ tsih' = [i \in Entries |-> IF i \in mine THEN None ELSE tsih[i]]
        \/ /\ r # <<>>
           /\ session' = [session EXCEPT ![s].conns = r]
           /\ tsih' = tsih
    BY <1>9 DEF Deregister
  <2> HIDE DEF r
  <2>6. {d \in Conns : sess'[d] = s} = ToSet(r)
    BY <1>4, <1>7, <1>9, <2>2, <2>4
  <2>7. \A d \in Conns \ {s} : {x \in Conns : sess'[x] = d} = {x \in Conns : sess[x] = d}
    BY <1>7, NoneAssumption
  <2>8. \A d \in Conns : sess[d] # None => sess[d] \in Conns /\ session[sess[d]] # None
    BY <1>1 DEF Sessions, Members, Threads, ConnTypes
  <2>9. Owned
    BY <1>1, OwnedEach DEF Sessions
  <2>10. CASE r = <<>>
    <3>1. /\ session' = [session EXCEPT ![s] = None]
          /\ tsih' = [i \in Entries |-> IF i \in mine THEN None ELSE tsih[i]]
      BY <2>5, <2>10
    <3>2. /\ session'[s] = None /\ \A d \in Conns \ {s} : session'[d] = session[d]
          /\ session' \in [Conns -> Session \cup {None}]
      BY <1>1, <2>1, <3>1 DEF Sessions, SessTypes
    <3>3. SessTypes'
      BY <1>1, <1>2, <3>1, <3>2 DEF Sessions, SessTypes
    <3>4. \A d \in Conns : sess'[d] # s
      <4>1. ToSet(r) = {}
        BY <2>10 DEF ToSet
      <4> QED BY <2>6, <4>1
    <3>5. Members'
      <4>1. \A d \in Conns : sess'[d] # None => session'[sess'[d]] # None
        BY <1>7, <2>8, <3>2, <3>4
      <4>2. ASSUME NEW d \in Conns, session'[d] # None
            PROVE  /\ ToSet(session'[d].conns) = {x \in Conns : sess'[x] = d}
                   /\ session'[d].conns # <<>> /\ IsInjective(session'[d].conns)
        <5>1. d # s /\ session'[d] = session[d] /\ session[d] # None
          BY <3>2, <4>2
        <5> QED BY <1>1, <2>7, <5>1 DEF Sessions, Members
      <4> QED BY <4>1, <4>2 DEF Members
    <3>6. SessionFits'
      BY <1>1, <1>2, <3>2 DEF Sessions, SessionFits
    <3>7. \A i \in Entries : /\ tsih'[i] # None => tsih'[i] = tsih[i] /\ i \notin mine
                             /\ i \notin mine => tsih'[i] = tsih[i]
      BY <3>1
    <3>8. \A i \in Entries : i \in mine <=> /\ tsih[i] # None /\ tsih[i].tsih = session[s].tsih
                                            /\ tsih[i].port = session[s].port
      <4>1. ASSUME NEW i \in Entries, tsih[i] # None
            PROVE  tsih[i] = [tsih |-> session[s].tsih, port |-> port[c]] <=>
                     tsih[i].tsih = session[s].tsih /\ tsih[i].port = session[s].port
        <5>1. tsih[i] \in Entry
          BY <1>1, <4>1 DEF Sessions, SessTypes
        <5> QED BY <2>1, <5>1 DEF Entry
      <4> QED BY <4>1
    <3> HIDE DEF mine, s, q
    <3>9. Owned'
      <4>1. \A x, y \in Conns :
              session'[x] # None /\ session'[y] # None /\ session'[x].tsih = session'[y].tsih =>
                x = y \/ session'[x].tsih = 0
        BY <2>9, <3>2 DEF Owned
      <4>2. ASSUME NEW i \in Entries, tsih'[i] # None
            PROVE  \E x \in Conns : /\ session'[x] # None /\ session'[x].tsih # 0
                                    /\ session'[x].tsih = tsih'[i].tsih /\ session'[x].port = tsih'[i].port
        <5>1. tsih'[i] = tsih[i] /\ i \notin mine /\ tsih[i] # None
          BY <3>7, <4>2
        <5>2. PICK x \in Conns : /\ session[x] # None /\ session[x].tsih # 0
                                 /\ session[x].tsih = tsih[i].tsih /\ session[x].port = tsih[i].port
          BY <2>9, <5>1 DEF Owned
        <5>3. x # s
          BY <3>8, <5>1, <5>2
        <5> QED BY <3>2, <5>1, <5>2, <5>3
      <4>3. ASSUME NEW x \in Conns, session'[x] # None, session'[x].tsih # 0
            PROVE  \E i \in Entries : /\ tsih'[i] # None
                                      /\ session'[x].tsih = tsih'[i].tsih /\ session'[x].port = tsih'[i].port
        <5>1. x # s /\ session'[x] = session[x]
          BY <3>2, <4>3
        <5>2. PICK i \in Entries : /\ tsih[i] # None
                                   /\ session[x].tsih = tsih[i].tsih /\ session[x].port = tsih[i].port
          BY <2>9, <4>3, <5>1 DEF Owned
        <5>3. i \notin mine
          BY <2>1, <2>9, <3>8, <4>3, <5>1, <5>2 DEF Owned
        <5> QED BY <3>7, <5>1, <5>2, <5>3
      <4>4. \A i, j \in Entries : tsih'[i] # None /\ tsih'[i] = tsih'[j] => i = j
        BY <2>9, <3>7 DEF Owned
      <4> QED BY <4>1, <4>2, <4>3, <4>4 DEF Owned
    <3>10. TsihOwned'
      BY <3>9, OwnedNext
    <3>11. Phases'
      <4> SUFFICES ASSUME NEW d \in Conns
                   PROVE  /\ sess'[d] # None => /\ pc'[d] \in {"loop", "reset", "resetting", "remove"}
                                                /\ port'[d] = session'[sess'[d]].port
                          /\ pc'[d] \in {"drop", "dropping", "append"} => port'[d] # None
                          /\ session'[d] # None => pc'[d] = "gone" \/ sess'[d] = d
        BY DEF Phases
      <4>1. CASE d = c
        BY <1>7, <4>1
      <4>2. CASE d # c
        BY <1>1, <1>7, <2>8, <3>2, <3>4, <4>2 DEF Threads, Phases
      <4> QED BY <4>1, <4>2
    <3> QED BY <1>3, <1>5, <1>6, <3>3, <3>5, <3>6, <3>10, <3>11, PartsNext DEF Threads, Sessions
  <2>11. CASE r # <<>>
    <3> DEFINE new == [session[s] EXCEPT !.conns = r]
    <3>1. /\ new \in Session /\ new # None
          /\ new.conns = r /\ new.port = session[s].port /\ new.tsih = session[s].tsih
      BY <2>1, <2>4, NoneAssumption DEF Session
    <3>2. session' = [session EXCEPT ![s] = new] /\ tsih' = tsih
      BY <2>5, <2>11
    <3> HIDE DEF new, q, mine
    <3>3. /\ session' \in [Conns -> Session \cup {None}] /\ session'[s] = new
          /\ \A d \in Conns \ {s} : session'[d] = session[d]
      BY <1>1, <2>1, <3>1, <3>2 DEF Sessions, SessTypes
    <3>4. SessTypes'
      BY <1>1, <1>2, <3>2, <3>3 DEF Sessions, SessTypes
    <3> HIDE DEF s
    <3>5. \A d \in Conns : /\ session'[d] # None => session[d] # None
                           /\ session[d] # None => session'[d] # None
                           /\ session[d] # None => session'[d].port = session[d].port
                           /\ session[d] # None => session'[d].tsih = session[d].tsih
      BY <2>1, <3>1, <3>3
    <3>6. Members'
      <4>1. \A d \in Conns : sess'[d] # None => session'[sess'[d]] # None
        BY <1>7, <2>8, <3>5
      <4>2. ASSUME NEW d \in Conns, session'[d] # None
            PROVE  /\ ToSet(session'[d].conns) = {x \in Conns : sess'[x] = d}
                   /\ session'[d].conns # <<>> /\ IsInjective(session'[d].conns)
        <5>1. CASE d = s
          BY <2>4, <2>6, <2>11, <3>1, <3>3, <5>1
        <5>2. CASE d # s
          BY <1>1, <2>7, <3>3, <4>2, <5>2 DEF Sessions, Members
        <5> QED BY <5>1, <5>2
      <4> QED BY <4>1, <4>2 DEF Members
    <3>7. SessionFits'
      <4> SUFFICES ASSUME NEW d \in Conns, session'[d] # None
                   PROVE  Len(session'[d].conns) <= config.MaxConnections
        BY <1>2 DEF SessionFits
      <4>1. CASE d = s
        <5>1. session'[d].conns = r /\ Len(q) \in Nat
          BY <2>2, <3>1, <3>3, <4>1
        <5>2. config.MaxConnections \in Nat
          BY <1>1, ConfigAssumption DEF Threads, MainTypes
        <5> QED BY <2>2, <2>4, <5>1, <5>2
      <4>2. CASE d # s
        BY <1>1, <3>3, <4>2 DEF Sessions, SessionFits
      <4> QED BY <4>1, <4>2
    <3>8. TsihOwned'
      <4>1. Owned'
        BY <2>9, <3>2, <3>5 DEF Owned
      <4> QED BY <4>1, OwnedNext
    <3>9. Phases'
      <4> SUFFICES ASSUME NEW d \in Conns
                   PROVE  /\ sess'[d] # None => /\ pc'[d] \in {"loop", "reset", "resetting", "remove"}
                                                /\ port'[d] = session'[sess'[d]].port
                          /\ pc'[d] \in {"drop", "dropping", "append"} => port'[d] # None
                          /\ session'[d] # None => pc'[d] = "gone" \/ sess'[d] = d
        BY DEF Phases
      <4>1. CASE d = c
        BY <1>7, <4>1
      <4>2. CASE d # c
        BY <1>1, <1>7, <2>8, <3>5, <4>2 DEF Threads, Phases
      <4> QED BY <4>1, <4>2
    <3> QED BY <1>3, <1>5, <1>6, <3>4, <3>6, <3>7, <3>8, <3>9, PartsNext DEF Threads, Sessions
  <2> QED BY <2>10, <2>11
<1> QED BY <1>8, <1>9

(* The main thread: it frees the registry when nobody is in it.            *)
LEMMA MainStep ==
  ASSUME IInv, Stop \/ Main
  PROVE  IInv'
<1>1. Threads /\ Sessions
  BY Parts
<1>2. UNCHANGED <<config, g_conns, g_mutex, pc, port, sess, full, local, sessVars, events>>
  BY DEF Stop, Main, StopConns, MarkAll, Shutdown, connVars
<1>3. /\ state' \in [Conns -> {"INVALID", "RUNNING", "EXITING"}]
      /\ \A d \in Conns : state[d] = "EXITING" => state'[d] = "EXITING"
  BY <1>1 DEF Stop, Main, StopConns, MarkAll, Shutdown, connVars, Threads, ConnTypes
<1>4. pipe' \in [Conns -> BOOLEAN]
  BY <1>1 DEF Stop, Main, StopConns, MarkAll, Shutdown, connVars, Threads, ConnTypes
<1>5. main' \in {"accept", "stop", "wait", "last", "freed", "gaveup"}
  BY <1>1 DEF Stop, Main, StopConns, MarkAll, Shutdown
<1>6. MainTypes' /\ ConnTypes'
  BY <1>1, <1>2, <1>3, <1>4, <1>5 DEF Threads, MainTypes, ConnTypes, Slots
<1>7. Sessions'
  BY <1>1, <1>2, SessionsKept
<1>8. RegisteredOnce'
  BY <1>1, <1>2 DEF Threads, RegisteredOnce, Registered, Slots
<1>9. FreedWhenUnused'
  <2>1. main' = "freed" => Registered = {}
    BY DEF Stop, Main, StopConns, MarkAll, Shutdown, Active
  <2> QED BY <1>1, <1>2, <2>1 DEF Threads, RegisteredOnce, FreedWhenUnused
<1>10. Phases' /\ Holds' /\ Told' /\ OldSessionDropped'
  BY <1>1, <1>2, <1>3, OpenersKept DEF Threads, Phases, Holds, Told, sessVars
<1> QED BY <1>6, <1>7, <1>8, <1>9, <1>10, PartsNext DEF Threads

-----------------------------------------------------------------------------
LEMMA InitIInv == Init => IInv
<1> SUFFICES ASSUME Init PROVE IInv
  OBVIOUS
<1>1. MainTypes /\ ConnTypes /\ SessTypes
  <2>1. 0 \in 0 .. Wrap - 1 /\ 0 \in 0 .. config.events
    BY NumberAssumption, ConfigAssumption DEF Init
  <2> QED BY <2>1 DEF Init, MainTypes, ConnTypes, SessTypes, Places
<1>2. Members /\ SessionFits /\ TsihOwned
  <2>1. Members /\ SessionFits
    BY DEF Init, Members, SessionFits
  <2>2. Owned
    BY DEF Init, Owned
  <2> QED BY <2>1, <2>2, OwnedEach
<1>3. RegisteredOnce /\ FreedWhenUnused /\ Phases /\ Holds /\ Told /\ OldSessionDropped
  BY NoneAssumption DEF Init, RegisteredOnce, Registered, FreedWhenUnused, Phases, Holds, Told, OldSessionDropped
<1> QED BY <1>1, <1>2, <1>3, Parts DEF Threads, Sessions

LEMMA NextIInv == IInv /\ [Next]_vars => IInv'
<1> SUFFICES ASSUME IInv, [Next]_vars PROVE IInv'
  OBVIOUS
<1>1. ASSUME NEW c \in Conns, Accept(c) PROVE IInv'
  BY <1>1, AcceptStep
<1>2. ASSUME NEW c \in Conns, Initiator(c) PROVE IInv'
  <2>1. CASE Lost(c)
    BY <2>1, LeaveStep
  <2>2. CASE \E p \in config.ports : LoginNew(c, p)
    BY <2>2, LoginStep
  <2>3. CASE \E p \in config.ports, t \in 1 .. Wrap - 1 : LoginMore(c, p, t)
    BY <2>3, LoginStep
  <2>4. CASE Reset(c)
    BY <2>4, ResetStep
  <2>5. CASE FullFeature(c) \/ NoTsih(c)
    BY <2>5, FullFeatureStep
  <2>6. CASE NewTsih(c)
    BY <2>6, NewTsihStep
  <2> QED BY <1>2, <2>1, <2>2, <2>3, <2>4, <2>5, <2>6 DEF Initiator
<1>3. ASSUME NEW c \in Conns, Worker(c) PROVE IInv'
  BY <1>3, LeaveStep, MarkStep, DropEndStep, ResetEndStep, JoinSessStep, DeregisterStep DEF Worker
<1>4. CASE Stop \/ Main
  BY <1>4, MainStep
<1>5. CASE UNCHANGED vars
  BY <1>5 DEF vars, connVars, sessVars, IInv, Linked, TsihOwned, OldSessionDropped, Phases, Holds, Told,
              TypeOK, RegisteredOnce, Members, SessionFits, FreedWhenUnused, Registered, Slots
<1> QED BY <1>1, <1>2, <1>3, <1>4, <1>5 DEF Next

-----------------------------------------------------------------------------
(* The inductive invariant holds in every reachable state, whatever the    *)
(* order in which logins, resets, losses and the end of the program meet.  *)
THEOREM RegistryInvariance == Spec => []IInv
BY InitIInv, NextIInv, PTL DEF Spec

(* g_conns, the sessions and the threads refer to each other as they       *)
(* should: a connection is found as long as its worker runs, a session is  *)
(* freed by its last connection and no earlier, and none has more than     *)
(* MaxConnections.                                                         *)
THEOREM ConnectionsLinked == Spec => []Linked
<1>1. IInv => Linked
  BY DEF IInv
<1> QED BY RegistryInvariance, <1>1, PTL

(* Sessions have TSIHs of their own, and lu->tsih lists these and no other:*)
(* istgt_lu_allocate_tsih gives out none that is in use, although numbers  *)
(* wrap, and the end of a session frees its entry.                         *)
THEOREM TsihsOwned == Spec => []TsihOwned
<1>1. IInv => TsihOwned
  BY DEF IInv
<1> QED BY RegistryInvariance, <1>1, PTL

(* Of two connections that opened sessions for the same initiator port one *)
(* has been told to exit, also when both log in at the same time.          *)
THEOREM OldSessionsDropped == Spec => []OldSessionDropped
<1>1. IInv => OldSessionDropped
  BY DEF IInv
<1> QED BY RegistryInvariance, <1>1, PTL
=============================================================================

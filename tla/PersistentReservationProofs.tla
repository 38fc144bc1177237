----------------------- MODULE PersistentReservationProofs -----------------------
(***************************************************************************)
(* Theorems about PersistentReservation.  The state of the unit is sound   *)
(* (Sound) when it has its type, fits the table, has at most one           *)
(* registration for each nexus, a complete reservation, and no key is used *)
(* by an initiator that does not own it.  Every handler leads from a sound *)
(* state to results that are a Step: sound again, and related to the state *)
(* before as the action properties say.                                    *)
(***************************************************************************)
EXTENDS PersistentReservation, QueueSelectFacts, WellFoundedInduction

(* The values of ALL_TG_PT. *)
AllFlags == BOOLEAN

Step(s, r) ==
  /\ Sound(r.spec)
  /\ r.status \in Statuses /\ r.aborted \in InitiatorPorts \cup {None}
  /\ r.status # "GOOD" => Reservation(r.spec) = Reservation(s)
  /\ Regs(r.spec) \subseteq Regs(s) \/ r.spec.pr_generation # s.pr_generation
  /\ s.rsv_key # NoKey /\ s.rsv_type \notin AllRegistrants
     /\ r.spec.rsv_port \notin {s.rsv_port, None}
     => \A g \in Regs(r.spec) : g.key # s.rsv_key

-----------------------------------------------------------------------------
(* Registrations.                                                          *)

(* The removal of registrations keeps the state sound, the reservation and *)
(* the generation, and leaves exactly the other registrations.             *)
LEMMA Removal ==
  ASSUME NEW s, Sound(s), NEW gone \in SUBSET DOMAIN s.pr_keys, NEW r \in Without(s, gone)
  PROVE  /\ Sound(r)
         /\ Reservation(r) = Reservation(s) /\ r.pr_generation = s.pr_generation
         /\ Len(r.pr_keys) <= Len(s.pr_keys)
         /\ gone # {} => Len(r.pr_keys) < Len(s.pr_keys)
         /\ \A g : g \in Regs(r) <=> \E i \in DOMAIN s.pr_keys \ gone : s.pr_keys[i] = g
<1> DEFINE q == s.pr_keys
           K == DOMAIN q \ gone
<1>1. /\ q \in Seq(Registration) /\ DOMAIN q = 1 .. Len(q) /\ Len(q) \in Nat
      /\ s \in SpecRec
  BY DEF Sound, Typed, SpecRec
<1>2. PICK p \in Selections(q, K) : r = [s EXCEPT !.pr_keys = p]
  BY DEF Without
<1>3. K \in SUBSET (1 .. Len(q))
  BY <1>1
<1>4. /\ r.pr_keys = p /\ r.pr_generation = s.pr_generation
      /\ r.rsv_port = s.rsv_port /\ r.rsv_key = s.rsv_key /\ r.rsv_type = s.rsv_type
  BY <1>1, <1>2 DEF SpecRec
<1>5. p \in Seq(Registration) /\ \A t : InSeq(t, p) <=> \E k \in K : q[k] = t
  <2> HIDE DEF q, K
  <2> QED BY <1>1, <1>2, <1>3, SelectionFacts
<1>6. /\ Len(p) \in Nat /\ Len(p) <= Len(q)
      /\ K # 1 .. Len(q) => Len(p) < Len(q)
      /\ \E f \in [1 .. Len(p) -> K] :
           /\ \A i \in 1 .. Len(p) : p[i] = q[f[i]]
           /\ \A i, j \in 1 .. Len(p) : f[i] = f[j] => i = j
  <2> HIDE DEF q, K
  <2> QED BY <1>1, <1>2, <1>3, SelectionIndices
<1>7. r \in SpecRec
  BY <1>1, <1>2, <1>5 DEF SpecRec
<1>8. Typed(r)
  BY <1>1, <1>4, <1>6, <1>7, BoundAssumption DEF Sound, Typed
<1>9. DOMAIN p = 1 .. Len(p)
  BY <1>5
<1>10. \A g : g \in Regs(r) <=> \E i \in K : q[i] = g
  BY <1>4, <1>5 DEF Regs, InSeq
<1>11. OneEach(r)
  <2> PICK f \in [1 .. Len(p) -> K] :
        /\ \A i \in 1 .. Len(p) : p[i] = q[f[i]]
        /\ \A i, j \in 1 .. Len(p) : f[i] = f[j] => i = j
    BY <1>6
  <2> SUFFICES ASSUME NEW i \in 1 .. Len(p), NEW j \in 1 .. Len(p),
                      p[i].iport = p[j].iport, p[i].tport = p[j].tport
               PROVE  i = j
    BY <1>4, <1>9 DEF OneEach
  <2>1. /\ f[i] \in DOMAIN q /\ f[j] \in DOMAIN q
        /\ q[f[i]].iport = q[f[j]].iport /\ q[f[i]].tport = q[f[j]].tport
    OBVIOUS
  <2>2. f[i] = f[j]
    BY <2>1 DEF Sound, OneEach
  <2> QED BY <2>2
<1>12. Complete(r)
  BY <1>4 DEF Sound, Complete
<1>13. Owned(r)
  <2>1. Regs(r) \subseteq Regs(s)
    BY <1>10 DEF Regs
  <2> QED BY <1>4, <2>1 DEF Sound, Owned
<1>14. gone # {} => K # 1 .. Len(q)
  BY <1>1
<1> QED
  BY <1>4, <1>6, <1>8, <1>10, <1>11, <1>12, <1>13, <1>14 DEF Sound, Reservation

LEMMA Fields ==
  ASSUME NEW s, NEW r
  PROVE  /\ r = Good(s) => r.spec = s /\ r.status = "GOOD" /\ r.aborted = None
         /\ r = Conflict(s) =>
              r.spec = s /\ r.status = "RESERVATION CONFLICT" /\ r.aborted = None
         /\ r = Check(s) =>
              r.spec = s /\ r.status = "CHECK CONDITION" /\ r.aborted = None
<1>1. /\ Good(s).spec = s /\ Good(s).status = "GOOD" /\ Good(s).aborted = None
      /\ Conflict(s).spec = s /\ Conflict(s).status = "RESERVATION CONFLICT"
      /\ Conflict(s).aborted = None
      /\ Check(s).spec = s /\ Check(s).status = "CHECK CONDITION"
      /\ Check(s).aborted = None
  BY DEF Good, Conflict, Check, Result
<1> QED BY <1>1

LEMMA KeyOwner ==
  ASSUME NEW n \in Nexuses, NEW key \in OwnKeys(n)
  PROVE  /\ key \in AnyKey
         /\ ~Foreign /\ key # NoKey => Owner[key] = InitiatorName[n.iport]
BY KeyAssumption DEF OwnKeys, AnyKey

(* A new generation differs from the last. *)
LEMMA Generation ==
  ASSUME NEW g \in 0 .. Generations - 1
  PROVE  (g + 1) % Generations \in 0 .. Generations - 1 /\ (g + 1) % Generations # g
<1>1. CASE g = Generations - 1
  BY <1>1, BoundAssumption
<1>2. CASE g # Generations - 1
  <2>1. g + 1 \in 0 .. Generations - 1
    BY <1>2, BoundAssumption
  <2> QED BY <2>1, BoundAssumption
<1> QED BY <1>1, <1>2

LEMMA NewGeneration ==
  ASSUME NEW s \in SpecRec
  PROVE  /\ NextGeneration(s) \in SpecRec
         /\ NextGeneration(s).pr_keys = s.pr_keys
         /\ Reservation(NextGeneration(s)) = Reservation(s)
         /\ NextGeneration(s).rsv_port = s.rsv_port
         /\ NextGeneration(s).rsv_key = s.rsv_key
         /\ NextGeneration(s).rsv_type = s.rsv_type
         /\ NextGeneration(s).pr_generation # s.pr_generation
<1> DEFINE g == (s.pr_generation + 1) % Generations
<1>1. g \in 0 .. Generations - 1 /\ g # s.pr_generation
  BY Generation DEF SpecRec
<1>2. NextGeneration(s) = [s EXCEPT !.pr_generation = g]
  BY DEF NextGeneration
<1> HIDE DEF g
<1> QED BY <1>1, <1>2 DEF SpecRec, Reservation

(* What becomes of a registration entered for a nexus that has none. *)
Entered(s, rkey, r) ==
  /\ Sound(r.spec) /\ r.status \in {"GOOD", "CHECK CONDITION"} /\ r.aborted = None
  /\ r.status # "GOOD" => r.spec = s
  /\ r.status = "GOOD" <=> Len(s.pr_keys) < MaxReserve
  /\ r.status = "GOOD" => r.spec.pr_generation # s.pr_generation
  /\ r.spec.rsv_port = s.rsv_port /\ r.spec.rsv_type = s.rsv_type
  /\ rkey = NoKey => r.spec.rsv_key = s.rsv_key

LEMMA Entering ==
  ASSUME NEW s, Sound(s), NEW n \in Nexuses, ~Registered(s, n, NoKey),
         NEW rkey \in OwnKeys(n), NEW sarkey \in OwnKeys(n), sarkey # NoKey,
         NEW all \in AllFlags,
         NEW r, r = Enter(s, n, rkey, sarkey, all)
  PROVE  Entered(s, rkey, r)
<1> DEFINE reg == [key |-> sarkey, iport |-> n.iport, tport |-> n.tport, all_tpg |-> all]
           key == IF rkey # NoKey /\ s.rsv_key = rkey THEN sarkey ELSE s.rsv_key
           t == [s EXCEPT !.pr_keys = Append(@, reg), !.rsv_key = key]
           p == Append(s.pr_keys, reg)
<1>1. /\ s \in SpecRec /\ s.pr_keys \in Seq(Registration) /\ Len(s.pr_keys) \in Nat
      /\ DOMAIN s.pr_keys = 1 .. Len(s.pr_keys) /\ Len(s.pr_keys) <= MaxReserve
  BY DEF Sound, Typed, SpecRec
<1>2. /\ rkey \in AnyKey /\ sarkey \in Keys
      /\ ~Foreign => Owner[sarkey] = InitiatorName[n.iport]
      /\ ~Foreign /\ rkey # NoKey => Owner[rkey] = InitiatorName[n.iport]
  BY KeyOwner DEF AnyKey
<1>3. reg \in Registration
  BY <1>2 DEF Registration, Nexuses, AllFlags
<1>4. CASE Len(s.pr_keys) >= MaxReserve
  <2>1. r = Check(s)
    BY <1>4 DEF Enter
  <2>2. r.spec = s /\ r.status = "CHECK CONDITION" /\ r.aborted = None
    BY <2>1, Fields, Zenon
  <2>3. ~(Len(s.pr_keys) < MaxReserve)
    BY <1>1, <1>4, BoundAssumption
  <2> QED BY <2>2, <2>3 DEF Entered
<1>5. CASE ~(Len(s.pr_keys) >= MaxReserve)
  <2>1. r = Good(NextGeneration(t))
    BY <1>5 DEF Enter
  <2>2. /\ p \in Seq(Registration) /\ Len(p) = Len(s.pr_keys) + 1
        /\ \A i \in 1 .. Len(s.pr_keys) : p[i] = s.pr_keys[i]
        /\ p[Len(s.pr_keys) + 1] = reg /\ DOMAIN p = 1 .. Len(p)
    <3> HIDE DEF reg
    <3> QED BY <1>1, <1>3
  <2>3. key \in AnyKey /\ (key # NoKey <=> s.rsv_key # NoKey)
    BY <1>1, <1>2, KeyAssumption DEF SpecRec, AnyKey
  <2>4. t = [s EXCEPT !.pr_keys = p, !.rsv_key = key]
    BY <1>1 DEF SpecRec
  <2>5. /\ t \in SpecRec /\ t.pr_keys = p /\ t.pr_generation = s.pr_generation
        /\ t.rsv_key = key /\ t.rsv_port = s.rsv_port /\ t.rsv_type = s.rsv_type
    <3> HIDE DEF key, p, t
    <3> QED BY <1>1, <2>2, <2>3, <2>4 DEF SpecRec
  <2> HIDE DEF t
  <2>6. /\ r.spec \in SpecRec /\ r.spec.pr_keys = p /\ r.spec.rsv_key = key
        /\ r.spec.rsv_port = s.rsv_port /\ r.spec.rsv_type = s.rsv_type
        /\ r.spec.pr_generation # s.pr_generation
        /\ r.status = "GOOD" /\ r.aborted = None
    <3>1. r.spec = NextGeneration(t) /\ r.status = "GOOD" /\ r.aborted = None
      BY <2>1, Fields, Zenon
    <3>2. /\ NextGeneration(t) \in SpecRec /\ NextGeneration(t).pr_keys = p
          /\ NextGeneration(t).rsv_key = key
          /\ NextGeneration(t).rsv_port = s.rsv_port
          /\ NextGeneration(t).rsv_type = s.rsv_type
          /\ NextGeneration(t).pr_generation # s.pr_generation
      <4> HIDE DEF p, key
      <4> QED BY <2>5, NewGeneration
    <3> HIDE DEF p, key
    <3> QED BY <3>1, <3>2
  <2>7. Typed(r.spec)
    BY <1>1, <1>5, <2>2, <2>6, BoundAssumption DEF Typed
  <2>8. OneEach(r.spec)
    <3>1. \A i \in 1 .. Len(s.pr_keys) :
            ~(s.pr_keys[i].iport = n.iport /\ s.pr_keys[i].tport = n.tport)
      BY <1>1 DEF Registered, Of
    <3>2. reg.iport = n.iport /\ reg.tport = n.tport
      OBVIOUS
    <3> HIDE DEF reg, p
    <3>3. \A i \in DOMAIN p : i = Len(s.pr_keys) + 1 \/ i \in 1 .. Len(s.pr_keys)
      BY <1>1, <2>2
    <3> SUFFICES ASSUME NEW i \in DOMAIN p, NEW j \in DOMAIN p,
                        p[i].iport = p[j].iport, p[i].tport = p[j].tport
                 PROVE  i = j
      BY <2>6 DEF OneEach
    <3>4. CASE i \in 1 .. Len(s.pr_keys) /\ j \in 1 .. Len(s.pr_keys)
      BY <1>1, <2>2, <3>4 DEF Sound, OneEach
    <3> QED BY <2>2, <3>1, <3>2, <3>3, <3>4
  <2>9. Complete(r.spec)
    BY <2>3, <2>6 DEF Sound, Complete
  <2>10. Owned(r.spec)
    <3> SUFFICES ASSUME ~Foreign
                 PROVE  /\ key # NoKey => Owner[key] = InitiatorName[s.rsv_port]
                        /\ \A g \in Regs(r.spec) : Owner[g.key] = InitiatorName[g.iport]
      BY <2>6 DEF Owned
    <3>1. key # NoKey => Owner[key] = InitiatorName[s.rsv_port]
      BY <1>2, <2>3 DEF Sound, Owned
    <3>2. reg.key = sarkey /\ reg.iport = n.iport
      OBVIOUS
    <3> HIDE DEF reg, p
    <3>3. \A g \in Regs(r.spec) : g = reg \/ g \in Regs(s)
      BY <1>1, <2>2, <2>6 DEF Regs
    <3> QED BY <1>2, <3>1, <3>2, <3>3 DEF Sound, Owned
  <2>11. rkey = NoKey => key = s.rsv_key
    OBVIOUS
  <2> QED BY <1>1, <1>5, <2>6, <2>7, <2>8, <2>9, <2>10, <2>11, BoundAssumption DEF Sound, Entered
<1> QED BY <1>4, <1>5

-----------------------------------------------------------------------------
(* Handlers.                                                               *)

(* Results that leave the reservation as it is and only remove             *)
(* registrations.                                                          *)
LEMMA Keeping ==
  ASSUME NEW s, NEW t, Sound(t), Regs(t) \subseteq Regs(s), Reservation(t) = Reservation(s),
         NEW r, r \in {Good(t), Conflict(t), Check(t)}
  PROVE  Step(s, r) /\ r.spec = t
<1>1. /\ r.spec = t /\ r.aborted = None
      /\ r.status \in {"GOOD", "RESERVATION CONFLICT", "CHECK CONDITION"}
  BY Fields
<1>2. t.rsv_port = s.rsv_port
  BY DEF Reservation
<1> QED BY <1>1, <1>2 DEF Step, Statuses

(* A nexus without its registrations is not registered. *)
LEMMA Cleared ==
  ASSUME NEW s, Sound(s), NEW n \in Nexuses, NEW t \in Without(s, Of(s, n, NoKey))
  PROVE  ~Registered(t, n, NoKey)
<1>1. Of(s, n, NoKey) \in SUBSET DOMAIN s.pr_keys
  BY DEF Of
<1>2. \A g \in Regs(t) : \E i \in DOMAIN s.pr_keys \ Of(s, n, NoKey) : s.pr_keys[i] = g
  BY <1>1, Removal
<1>3. \A g \in Regs(t) : ~(g.iport = n.iport /\ (g.all_tpg \/ g.tport = n.tport))
  BY <1>2 DEF Of
<1> QED BY <1>3 DEF Registered, Of, Regs

Renewed(s, n, rkey, sarkey, t, r) ==
  /\ r.status \in {"GOOD", "CHECK CONDITION"}
  /\ rkey = NoKey \/ sarkey = NoKey => Reservation(r.spec) = Reservation(s)
  /\ Registered(s, n, NoKey) \/ sarkey = NoKey => r.status = "GOOD"
  /\ sarkey = NoKey => r.spec = t

LEMMA Renewing ==
  ASSUME NEW s, Sound(s), NEW n \in Nexuses,
         NEW rkey \in OwnKeys(n), NEW sarkey \in OwnKeys(n), NEW all \in AllFlags,
         NEW t \in Without(s, Of(s, n, NoKey)),
         NEW r, r = Renew(t, n, rkey, sarkey, all)
  PROVE  Step(s, r) /\ Renewed(s, n, rkey, sarkey, t, r)
<1>1. Of(s, n, NoKey) \in SUBSET DOMAIN s.pr_keys
  BY DEF Of
<1>2. /\ Sound(t) /\ Reservation(t) = Reservation(s) /\ t.pr_generation = s.pr_generation
      /\ Len(t.pr_keys) <= Len(s.pr_keys)
      /\ Of(s, n, NoKey) # {} => Len(t.pr_keys) < Len(s.pr_keys)
      /\ Regs(t) \subseteq Regs(s)
  <2>1. \A g \in Regs(t) : g \in Regs(s)
    <3>1. \A g \in Regs(t) : \E i \in DOMAIN s.pr_keys : s.pr_keys[i] = g
      BY <1>1, Removal
    <3> QED BY <3>1 DEF Regs
  <2> QED BY <1>1, <2>1, Removal
<1>3. CASE sarkey = NoKey
  <2>1. r = Good(t)
    BY <1>3 DEF Renew
  <2>2. Step(s, r) /\ r.spec = t
    BY <1>2, <2>1, Keeping
  <2>3. r.status = "GOOD"
    BY <2>1, Fields
  <2> QED BY <1>2, <2>2, <2>3 DEF Renewed
<1>4. CASE sarkey # NoKey
  <2>1. r = Enter(t, n, rkey, sarkey, all)
    BY <1>4 DEF Renew
  <2>2. /\ Sound(r.spec) /\ r.status \in {"GOOD", "CHECK CONDITION"} /\ r.aborted = None
        /\ r.status # "GOOD" => r.spec = t
        /\ r.status = "GOOD" <=> Len(t.pr_keys) < MaxReserve
        /\ r.status = "GOOD" => r.spec.pr_generation # t.pr_generation
        /\ r.spec.rsv_port = t.rsv_port /\ r.spec.rsv_type = t.rsv_type
        /\ rkey = NoKey => r.spec.rsv_key = t.rsv_key
    <3>1. ~Registered(t, n, NoKey)
      BY Cleared
    <3>2. Entered(t, rkey, r)
      BY <1>2, <1>4, <2>1, <3>1, Entering
    <3> QED BY <3>2 DEF Entered
  <2>3. t.rsv_port = s.rsv_port
    BY <1>2 DEF Reservation
  <2>4. Step(s, r)
    BY <1>2, <2>2, <2>3 DEF Step, Statuses
  <2>5. Registered(s, n, NoKey) => r.status = "GOOD"
    <3>1. Len(s.pr_keys) <= MaxReserve /\ Len(s.pr_keys) \in Nat /\ Len(t.pr_keys) \in Nat
      BY <1>2 DEF Sound, Typed, SpecRec
    <3>2. Registered(s, n, NoKey) => Len(t.pr_keys) < Len(s.pr_keys)
      BY <1>2 DEF Registered
    <3>3. Len(t.pr_keys) < Len(s.pr_keys) => Len(t.pr_keys) < MaxReserve
      BY <3>1, BoundAssumption
    <3> QED BY <2>2, <3>2, <3>3
  <2> QED BY <1>2, <1>4, <2>2, <2>4, <2>5 DEF Reservation, Renewed
<1> QED BY <1>3, <1>4

LEMMA Untouched ==
  ASSUME NEW s, Sound(s), NEW r, r \in {Good(s), Conflict(s), Check(s)}
  PROVE  Step(s, r) /\ r.spec = s
BY Keeping

LEMMA RegisterSteps ==
  ASSUME NEW s, Sound(s), NEW n \in Nexuses,
         NEW rkey \in OwnKeys(n), NEW sarkey \in OwnKeys(n), NEW all \in AllFlags, NEW opt,
         NEW r \in Register(s, n, rkey, sarkey, all, opt)
  PROVE  Step(s, r)
<1>1. \/ r \in {Good(s), Conflict(s), Check(s)}
      \/ \E t \in Without(s, Of(s, n, NoKey)) : r = Renew(t, n, rkey, sarkey, all)
  BY Zenon DEF Register
<1>2. CASE r \in {Good(s), Conflict(s), Check(s)}
  BY <1>2, Untouched
<1>3. ASSUME NEW t \in Without(s, Of(s, n, NoKey)), r = Renew(t, n, rkey, sarkey, all)
      PROVE  Step(s, r)
  BY <1>3, Renewing
<1> QED BY <1>1, <1>2, <1>3

LEMMA RegisterIgnoreSteps ==
  ASSUME NEW s, Sound(s), NEW n \in Nexuses,
         NEW rkey \in OwnKeys(n), NEW sarkey \in OwnKeys(n), NEW all \in AllFlags, NEW opt,
         NEW r \in RegisterIgnore(s, n, rkey, sarkey, all, opt)
  PROVE  /\ Step(s, r)
         /\ rkey = NoKey \/ sarkey = NoKey => Reservation(r.spec) = Reservation(s)
         /\ sarkey = NoKey /\ opt = "plain" => r.status = "GOOD"
<1>1. \/ r = Check(s) /\ opt # "plain"
      \/ \E t \in Without(s, Of(s, n, NoKey)) : r = Renew(t, n, rkey, sarkey, all)
  BY Zenon DEF RegisterIgnore
<1>2. CASE r = Check(s) /\ opt # "plain"
  BY <1>2, Untouched
<1>3. ASSUME NEW t \in Without(s, Of(s, n, NoKey)), r = Renew(t, n, rkey, sarkey, all)
      PROVE  /\ Step(s, r)
             /\ rkey = NoKey \/ sarkey = NoKey => Reservation(r.spec) = Reservation(s)
             /\ sarkey = NoKey => r.status = "GOOD"
  <2>1. Step(s, r) /\ Renewed(s, n, rkey, sarkey, t, r)
    BY <1>3, Renewing
  <2> QED BY <2>1 DEF Renewed
<1> QED BY <1>1, <1>2, <1>3

(* A change of the reservation alone. *)
LEMMA Reserving ==
  ASSUME NEW t, Sound(t), NEW h, h \in SpecRec, h.pr_keys = t.pr_keys, Complete(h),
         ~Foreign /\ h.rsv_key # NoKey => Owner[h.rsv_key] = InitiatorName[h.rsv_port]
  PROVE  Sound(h) /\ Regs(h) = Regs(t)
<1>1. Regs(h) = Regs(t)
  BY DEF Regs
<1>2. Typed(h)
  BY DEF Sound, Typed
<1>3. OneEach(h)
  BY DEF Sound, OneEach
<1>4. Owned(h)
  BY <1>1 DEF Sound, Owned
<1> QED BY <1>1, <1>2, <1>3, <1>4 DEF Sound

LEMMA Holding ==
  ASSUME NEW t, Sound(t), NEW n \in Nexuses, NEW rkey \in OwnKeys(n), NEW type \in Types,
         NEW h, h = HeldBy(t, n, rkey, type)
  PROVE  /\ Sound(h) /\ Regs(h) = Regs(t)
         /\ h.pr_generation = t.pr_generation /\ h.rsv_port = n.iport
<1>1. t \in SpecRec /\ rkey \in AnyKey /\ n.iport \in InitiatorPorts
  BY KeyOwner DEF Sound, Typed, Nexuses
<1>2. /\ h \in SpecRec /\ h.pr_keys = t.pr_keys /\ h.pr_generation = t.pr_generation
      /\ h.rsv_port = n.iport /\ h.rsv_key = rkey /\ h.rsv_type = type
  BY <1>1 DEF HeldBy, SpecRec
<1>3. type # None
  BY TypeAssumption
<1>4. Complete(h)
  BY <1>1, <1>2, <1>3, PortAssumption DEF Complete
<1>5. ~Foreign /\ rkey # NoKey => Owner[rkey] = InitiatorName[n.iport]
  BY KeyOwner
<1> QED BY <1>2, <1>4, <1>5, Reserving

LEMMA Releasing ==
  ASSUME NEW s, Sound(s)
  PROVE  /\ Sound(Released(s)) /\ Regs(Released(s)) = Regs(s)
         /\ Released(s).rsv_port = None /\ Released(s).rsv_key = NoKey
<1> DEFINE h == Released(s)
<1>1. /\ h \in SpecRec /\ h.pr_keys = s.pr_keys /\ h.rsv_port = None /\ h.rsv_key = NoKey
  BY DEF Sound, Typed, SpecRec, AnyKey, Released
<1> HIDE DEF h
<1>2. Complete(h)
  BY <1>1 DEF Complete
<1>3. Sound(h) /\ Regs(h) = Regs(s)
  BY <1>1, <1>2, Reserving
<1> QED BY <1>1, <1>3 DEF h

LEMMA ReserveSteps ==
  ASSUME NEW s, Sound(s), NEW n \in Nexuses, NEW rkey \in OwnKeys(n),
         NEW type \in ReqTypes, NEW r \in Reserve(s, n, rkey, type)
  PROVE  /\ Step(s, r)
         /\ Regs(r.spec) = Regs(s) /\ r.spec.pr_generation = s.pr_generation
<1> DEFINE h == HeldBy(s, n, rkey, type)
<1>1. \/ r \in {Good(s), Conflict(s), Check(s)}
      \/ s.rsv_key = NoKey /\ type # "invalid" /\ r = Good(h)
  BY Zenon DEF Reserve
<1>2. CASE r \in {Good(s), Conflict(s), Check(s)}
  BY <1>2, Untouched
<1>3. CASE s.rsv_key = NoKey /\ type # "invalid" /\ r = Good(h)
  <2>1. type \in Types
    BY <1>3 DEF ReqTypes
  <2>2. Sound(h) /\ Regs(h) = Regs(s) /\ h.pr_generation = s.pr_generation
    BY <2>1, Holding
  <2> HIDE DEF h
  <2>3. r.spec = h /\ r.status = "GOOD" /\ r.aborted = None
    BY <1>3, Fields
  <2>4. Step(s, r)
    BY <1>3, <2>2, <2>3 DEF Step, Statuses
  <2> QED BY <2>2, <2>3, <2>4
<1> QED BY <1>1, <1>2, <1>3

LEMMA ReleaseSteps ==
  ASSUME NEW s, Sound(s), NEW n \in Nexuses, NEW rkey, NEW type,
         NEW r \in Release(s, n, rkey, type)
  PROVE  /\ Step(s, r) /\ Regs(r.spec) = Regs(s)
         /\ r.spec = s \/ r.spec = Released(s)
<1> DEFINE h == Released(s)
<1>1. r \in {Good(s), Conflict(s), Check(s)} \/ r = Good(h)
  BY Zenon DEF Release
<1>2. CASE r \in {Good(s), Conflict(s), Check(s)}
  BY <1>2, Untouched
<1>3. CASE r = Good(h)
  <2>1. Sound(h) /\ Regs(h) = Regs(s) /\ h.rsv_port = None
    BY Releasing
  <2> HIDE DEF h
  <2>2. r.spec = h /\ r.status = "GOOD" /\ r.aborted = None
    BY <1>3, Fields
  <2>3. Step(s, r)
    BY <2>1, <2>2 DEF Step, Statuses
  <2> QED BY <2>1, <2>2, <2>3 DEF h
<1> QED BY <1>1, <1>2, <1>3

LEMMA ClearSteps ==
  ASSUME NEW s, Sound(s), NEW n \in Nexuses, NEW r \in Clear(s, n)
  PROVE  Step(s, r)
<1> DEFINE t == Released(s)
           h == [t EXCEPT !.pr_keys = <<>>]
<1>1. r = Conflict(s) \/ r = Good(h)
  BY Zenon DEF Clear
<1>2. CASE r = Conflict(s)
  BY <1>2, Untouched
<1>3. CASE r = Good(h)
  <2>1. t \in SpecRec /\ t.rsv_port = None /\ t.rsv_key = NoKey
    BY Releasing DEF Sound, Typed
  <2>2. h \in SpecRec /\ h.pr_keys = <<>> /\ h.rsv_port = None /\ h.rsv_key = NoKey
    <3> HIDE DEF t
    <3>1. <<>> \in Seq(Registration)
      OBVIOUS
    <3> QED BY <2>1, <3>1 DEF SpecRec
  <2> HIDE DEF h
  <2>3. Regs(h) = {} /\ Sound(h)
    BY <2>2, BoundAssumption DEF Regs, Sound, Typed, OneEach, Complete, Owned
  <2>4. r.spec = h /\ r.status = "GOOD" /\ r.aborted = None
    BY <1>3, Fields
  <2> QED BY <2>2, <2>3, <2>4 DEF Step, Statuses
<1> QED BY <1>1, <1>2, <1>3

(* The reservation passes to n, over registrations of t, which are some of  *)
(* those of s.                                                             *)
LEMMA TakingOver ==
  ASSUME NEW s, Sound(s), NEW gone \in SUBSET DOMAIN s.pr_keys,
         NEW n \in Nexuses, NEW rkey \in OwnKeys(n), NEW type \in ReqTypes, NEW abort,
         \/ s.rsv_type \in AllRegistrants
         \/ \A i \in DOMAIN s.pr_keys \ gone : s.pr_keys[i].key # s.rsv_key,
         NEW r \in TakeOver(s, gone, n, rkey, type, abort)
  PROVE  Step(s, r)
<1>1. PICK t \in Without(s, gone) :
        r = IF type = "invalid" THEN Check(t)
            ELSE [Good(NextGeneration(HeldBy(t, n, rkey, type)))
                    EXCEPT !.aborted = IF abort THEN s.rsv_port ELSE None]
  BY DEF TakeOver
<1>2. /\ Sound(t) /\ Reservation(t) = Reservation(s) /\ t.pr_generation = s.pr_generation
      /\ \A g \in Regs(t) : \E i \in DOMAIN s.pr_keys \ gone : s.pr_keys[i] = g
  BY Removal
<1>3. Regs(t) \subseteq Regs(s)
  BY <1>2 DEF Regs
<1>4. CASE type = "invalid"
  BY <1>1, <1>2, <1>3, <1>4, Keeping
<1>5. CASE type # "invalid"
  <2> DEFINE h == HeldBy(t, n, rkey, type)
             g == NextGeneration(h)
             a == IF abort THEN s.rsv_port ELSE None
  <2>1. type \in Types
    BY <1>5 DEF ReqTypes
  <2>2. Sound(h) /\ Regs(h) = Regs(t)
    BY <1>2, <2>1, Holding
  <2>3. h \in SpecRec
    BY <2>2 DEF Sound, Typed
  <2> HIDE DEF h
  <2>4. /\ g \in SpecRec /\ g.pr_keys = h.pr_keys
        /\ g.rsv_port = h.rsv_port /\ g.rsv_key = h.rsv_key /\ g.rsv_type = h.rsv_type
    BY <2>3, NewGeneration
  <2> HIDE DEF g
  <2>5. Sound(g) /\ Regs(g) = Regs(h)
    BY <2>2, <2>4, Reserving DEF Sound, Complete, Owned
  <2>6. a \in InitiatorPorts \cup {None}
    BY DEF Sound, Typed, SpecRec
  <2>7. r.spec = g /\ r.status = "GOOD" /\ r.aborted = a
    <3>1. r = [Good(g) EXCEPT !.aborted = a]
      BY <1>1, <1>5 DEF g, h
    <3> HIDE DEF a
    <3>2. [Good(g) EXCEPT !.aborted = a] = [spec |-> g, status |-> "GOOD", aborted |-> a]
      BY DEF Good, Result
    <3> QED BY <3>1, <3>2
  <2> HIDE DEF a
  <2>8. Regs(g) \subseteq Regs(s)
    BY <1>3, <2>2, <2>5
  <2>9. \/ s.rsv_type \in AllRegistrants
        \/ \A x \in Regs(g) : x.key # s.rsv_key
    BY <1>2, <2>2, <2>5
  <2> QED BY <2>5, <2>6, <2>7, <2>8, <2>9 DEF Step, Statuses
<1> QED BY <1>4, <1>5

LEMMA PreemptSteps ==
  ASSUME NEW s, Sound(s), NEW n \in Nexuses, NEW rkey \in OwnKeys(n), NEW sarkey,
         NEW type \in ReqTypes, NEW abort, NEW r \in Preempt(s, n, rkey, sarkey, type, abort)
  PROVE  Step(s, r)
<1>1. /\ WithKey(s, sarkey) \in SUBSET DOMAIN s.pr_keys
      /\ Others(s, n, rkey) \in SUBSET DOMAIN s.pr_keys
  BY DEF WithKey, Others
<1>2. \/ r \in {Conflict(s), Check(s)}
      \/ \E t \in Without(s, WithKey(s, sarkey)) : r = Good(NextGeneration(t))
      \/ \E t \in Without(s, WithKey(s, sarkey)) : r = Good(t)
      \/ /\ s.rsv_type \in AllRegistrants
         /\ r \in TakeOver(s, Others(s, n, rkey), n, rkey, type, abort)
      \/ /\ s.rsv_key # NoKey /\ sarkey = s.rsv_key
         /\ r \in TakeOver(s, WithKey(s, sarkey), n, rkey, type, abort)
  BY Zenon DEF Preempt
<1>3. CASE r \in {Conflict(s), Check(s)}
  BY <1>3, Untouched
<1>4. \A t \in Without(s, WithKey(s, sarkey)) :
        Sound(t) /\ Reservation(t) = Reservation(s) /\ Regs(t) \subseteq Regs(s)
  <2> SUFFICES ASSUME NEW t \in Without(s, WithKey(s, sarkey))
               PROVE  Sound(t) /\ Reservation(t) = Reservation(s) /\ Regs(t) \subseteq Regs(s)
    OBVIOUS
  <2>1. /\ Sound(t) /\ Reservation(t) = Reservation(s)
        /\ \A g \in Regs(t) : \E i \in DOMAIN s.pr_keys : s.pr_keys[i] = g
    BY <1>1, Removal
  <2> QED BY <2>1 DEF Regs
<1>5. ASSUME NEW t \in Without(s, WithKey(s, sarkey)), r = Good(NextGeneration(t))
      PROVE  Step(s, r)
  <2> DEFINE g == NextGeneration(t)
  <2>1. Sound(t) /\ t \in SpecRec
    BY <1>4 DEF Sound, Typed
  <2>2. /\ g \in SpecRec /\ g.pr_keys = t.pr_keys /\ Reservation(g) = Reservation(t)
        /\ g.rsv_port = t.rsv_port /\ g.rsv_key = t.rsv_key /\ g.rsv_type = t.rsv_type
    BY <2>1, NewGeneration
  <2> HIDE DEF g
  <2>3. Sound(g) /\ Regs(g) = Regs(t)
    BY <2>1, <2>2, Reserving DEF Sound, Complete, Owned
  <2>4. r = Good(g)
    BY <1>5 DEF g
  <2> QED BY <1>4, <2>2, <2>3, <2>4, Keeping
<1>6. ASSUME NEW t \in Without(s, WithKey(s, sarkey)), r = Good(t)
      PROVE  Step(s, r)
  BY <1>4, <1>6, Keeping
<1>7. CASE /\ s.rsv_type \in AllRegistrants
           /\ r \in TakeOver(s, Others(s, n, rkey), n, rkey, type, abort)
  BY <1>1, <1>7, TakingOver
<1>8. CASE /\ s.rsv_key # NoKey /\ sarkey = s.rsv_key
           /\ r \in TakeOver(s, WithKey(s, sarkey), n, rkey, type, abort)
  <2>1. \A i \in DOMAIN s.pr_keys \ WithKey(s, sarkey) : s.pr_keys[i].key # s.rsv_key
    BY <1>8 DEF WithKey
  <2> QED BY <1>1, <1>8, <2>1, TakingOver
<1> QED BY <1>2, <1>3, <1>5, <1>6, <1>7, <1>8

LEMMA LegacyKeys ==
  ASSUME NEW n \in Nexuses
  PROVE  LegacyKey[n.iport] \in OwnKeys(n) /\ NoKey \in OwnKeys(n) /\ FALSE \in AllFlags
BY LegacyAssumption DEF Nexuses, OwnKeys, AnyKey, AllFlags

LEMMA LegacyReserveSteps ==
  ASSUME NEW s, Sound(s), NEW n \in Nexuses, NEW r \in LegacyReserve(s, n)
  PROVE  Step(s, r)
<1> DEFINE key == LegacyKey[n.iport]
           all == FALSE
<1>1. PICK q \in RegisterIgnore(s, n, NoKey, key, all, "plain") :
        \/ q.status = "GOOD" /\ r \in Reserve(q.spec, n, key, "EA")
        \/ r = q
  BY Zenon DEF LegacyReserve
<1>2. key \in OwnKeys(n) /\ NoKey \in OwnKeys(n) /\ all \in AllFlags
  BY LegacyKeys
<1> HIDE DEF key, all
<1>3. Step(s, q) /\ Reservation(q.spec) = Reservation(s)
  BY <1>1, <1>2, RegisterIgnoreSteps
<1>4. CASE r = q
  BY <1>3, <1>4
<1>5. CASE q.status = "GOOD" /\ r \in Reserve(q.spec, n, key, "EA")
  <2>1. Sound(q.spec)
    BY <1>3 DEF Step
  <2>2. "EA" \in ReqTypes
    BY DEF ReqTypes, Types
  <2>3. /\ Step(q.spec, r)
        /\ Regs(r.spec) = Regs(q.spec) /\ r.spec.pr_generation = q.spec.pr_generation
    BY <1>2, <1>5, <2>1, <2>2, ReserveSteps
  <2>4. /\ q.spec.rsv_key = s.rsv_key /\ q.spec.rsv_port = s.rsv_port
        /\ q.spec.rsv_type = s.rsv_type
    BY <1>3 DEF Reservation
  <2> QED BY <1>3, <2>3, <2>4 DEF Step
<1> QED BY <1>1, <1>4, <1>5

LEMMA LegacyReleaseSteps ==
  ASSUME NEW s, Sound(s), NEW n \in Nexuses, NEW r \in LegacyRelease(s, n)
  PROVE  Step(s, r)
<1> DEFINE key == LegacyKey[n.iport]
           all == FALSE
<1>1. PICK q \in Release(s, n, key, "EA") :
        \/ q.status = "GOOD" /\ r \in RegisterIgnore(q.spec, n, key, NoKey, all, "plain")
        \/ r = q
  BY Zenon DEF LegacyRelease
<1>2. key \in OwnKeys(n) /\ NoKey \in OwnKeys(n) /\ all \in AllFlags
  BY LegacyKeys
<1> HIDE DEF key, all
<1>3. /\ Step(s, q) /\ Regs(q.spec) = Regs(s)
      /\ q.spec = s \/ q.spec = Released(s)
  BY <1>1, ReleaseSteps
<1>4. CASE r = q
  BY <1>3, <1>4
<1>5. CASE q.status = "GOOD" /\ r \in RegisterIgnore(q.spec, n, key, NoKey, all, "plain")
  <2>1. Sound(q.spec)
    BY <1>3 DEF Step
  <2>2. Step(q.spec, r) /\ r.status = "GOOD" /\ Reservation(r.spec) = Reservation(q.spec)
    BY <1>2, <1>5, <2>1, RegisterIgnoreSteps
  <2>3. r.spec.rsv_port \in {s.rsv_port, None}
    BY <1>3, <2>2, Releasing DEF Reservation
  <2>4. q.spec.pr_generation = s.pr_generation
    <3>1. Released(s).pr_generation = s.pr_generation
      BY DEF Sound, Typed, SpecRec, Released
    <3> QED BY <1>3, <3>1
  <2> QED BY <1>3, <2>2, <2>3, <2>4 DEF Step
<1> QED BY <1>1, <1>4, <1>5

-----------------------------------------------------------------------------
(* The specification.                                                      *)

(* What a step does, the parts of Step that relate two states. *)
Moves ==
  /\ status' # "GOOD" => Reservation(spec') = Reservation(spec)
  /\ Regs(spec') \subseteq Regs(spec) \/ spec'.pr_generation # spec.pr_generation
  /\ spec.rsv_key # NoKey /\ spec.rsv_type \notin AllRegistrants
     /\ spec'.rsv_port \notin {spec.rsv_port, None}
     => \A g \in Regs(spec') : g.key # spec.rsv_key

LEMMA Doing ==
  ASSUME NEW STATE results, \A r \in results : Step(spec, r), Do(results)
  PROVE  Inv' /\ Moves
<1>1. PICK r \in results : spec' = r.spec /\ status' = r.status /\ aborted' = r.aborted
  BY DEF Do
<1>2. Step(spec, r)
  OBVIOUS
<1>3. Sound(spec')
  BY <1>1, <1>2 DEF Step
<1> QED BY <1>1, <1>2, <1>3 DEF Step, Inv, Moves

LEMMA InitInv == Init => Inv
<1> SUFFICES ASSUME Init PROVE Inv
  OBVIOUS
<1>1. spec = NoReservations /\ status = "GOOD" /\ aborted = None
  BY DEF Init
<1>2. Sound(NoReservations)
  <2> DEFINE s == NoReservations
  <2>1. s \in SpecRec /\ s.pr_keys = <<>> /\ s.rsv_key = NoKey
    <3>1. <<>> \in Seq(Registration) /\ 0 \in 0 .. Generations - 1
      BY BoundAssumption
    <3> QED BY <3>1 DEF NoReservations, SpecRec, AnyKey
  <2> HIDE DEF s
  <2>2. Sound(s)
    BY <2>1, BoundAssumption DEF Sound, Typed, OneEach, Complete, Owned, Regs
  <2> QED BY <2>2 DEF s
<1> QED BY <1>1, <1>2 DEF Inv, Statuses

LEMMA NextInv == Inv /\ Next => Inv' /\ Moves
<1> SUFFICES ASSUME Inv, Next PROVE Inv' /\ Moves
  OBVIOUS
<1>1. Sound(spec)
  BY DEF Inv
<1>2. ASSUME NEW n \in Nexuses, DoRegister(n) PROVE Inv' /\ Moves
  <2>1. PICK rkey \in OwnKeys(n), sarkey \in OwnKeys(n), all \in AllFlags, opt \in Options :
          Do(Register(spec, n, rkey, sarkey, all, opt))
    BY <1>2 DEF DoRegister, AllFlags
  <2> QED BY <1>1, <2>1, RegisterSteps, Doing
<1>3. ASSUME NEW n \in Nexuses, DoRegisterIgnore(n) PROVE Inv' /\ Moves
  <2>1. PICK rkey \in OwnKeys(n), sarkey \in OwnKeys(n), all \in AllFlags, opt \in Options :
          Do(RegisterIgnore(spec, n, rkey, sarkey, all, opt))
    BY <1>3 DEF DoRegisterIgnore, AllFlags
  <2> QED BY <1>1, <2>1, RegisterIgnoreSteps, Doing
<1>4. ASSUME NEW n \in Nexuses, DoReserve(n) PROVE Inv' /\ Moves
  <2>1. PICK rkey \in OwnKeys(n), type \in ReqTypes : Do(Reserve(spec, n, rkey, type))
    BY <1>4 DEF DoReserve
  <2> QED BY <1>1, <2>1, ReserveSteps, Doing
<1>5. ASSUME NEW n \in Nexuses, DoRelease(n) PROVE Inv' /\ Moves
  <2>1. PICK rkey \in OwnKeys(n), type \in ReqTypes : Do(Release(spec, n, rkey, type))
    BY <1>5 DEF DoRelease
  <2> QED BY <1>1, <2>1, ReleaseSteps, Doing
<1>6. ASSUME NEW n \in Nexuses, DoClear(n) PROVE Inv' /\ Moves
  BY <1>1, <1>6, ClearSteps, Doing DEF DoClear
<1>7. ASSUME NEW n \in Nexuses, DoPreempt(n) PROVE Inv' /\ Moves
  <2>1. PICK rkey \in OwnKeys(n), sarkey \in AnyKey, type \in ReqTypes, abort \in BOOLEAN :
          Do(Preempt(spec, n, rkey, sarkey, type, abort))
    BY <1>7 DEF DoPreempt
  <2> QED BY <1>1, <2>1, PreemptSteps, Doing
<1>8. ASSUME NEW n \in Nexuses, DoLegacyReserve(n) PROVE Inv' /\ Moves
  BY <1>1, <1>8, LegacyReserveSteps, Doing DEF DoLegacyReserve
<1>9. ASSUME NEW n \in Nexuses, DoLegacyRelease(n) PROVE Inv' /\ Moves
  BY <1>1, <1>9, LegacyReleaseSteps, Doing DEF DoLegacyRelease
<1>10. ASSUME NEW n \in Nexuses, Command(n) PROVE Inv' /\ Moves
  <2>1. PICK r \in {Good(spec), Conflict(spec)} : Do({r})
    BY <1>10, Zenon DEF Command
  <2>2. Step(spec, r)
    BY <1>1, <2>1, Untouched
  <2> QED BY <2>1, <2>2, Doing
<1>11. CASE Restart
  <2>1. Init'
    BY <1>11 DEF Restart, Init
  <2>2. Inv'
    BY <2>1, InitInv, PTL
  <2>3. Regs(NoReservations) = {} /\ NoReservations.rsv_port = None
    BY DEF Regs, NoReservations
  <2> QED BY <1>11, <2>2, <2>3 DEF Restart, Moves
<1> QED BY <1>2, <1>3, <1>4, <1>5, <1>6, <1>7, <1>8, <1>9, <1>10, <1>11 DEF Next

(* The registrations and the reservation are sound in every state. *)
THEOREM Soundness == Spec => []Inv
<1>1. Init => Inv
  BY InitInv
<1>2. Inv /\ [Next]_vars => Inv'
  <2>1. Inv /\ UNCHANGED vars => Inv'
    BY DEF Inv, vars
  <2> QED BY <2>1, NextInv
<1> QED BY <1>1, <1>2, PTL DEF Spec

(* The reservation state keeps its type, and the table its size. *)
THEOREM TypeCorrect == Spec => []TypeOK
<1>1. Inv => TypeOK
  BY DEF Inv, Sound, Typed, TypeOK
<1> QED BY <1>1, Soundness, PTL

(* No nexus has two registrations of its own, whether it registered for one*)
(* target port or for all, with its key or ignoring it.                    *)
THEOREM RegisteredOnce == Spec => []OnePerNexus
<1>1. Inv => OnePerNexus
  BY DEF Inv, Sound, OneEach, OnePerNexus
<1> QED BY <1>1, Soundness, PTL

(* A reservation in force has a port, which RESERVE and RELEASE compare,    *)
(* and a type, on which the check of every command depends.                *)
THEOREM ReservationComplete == Spec => []InForceIsComplete
<1>1. Inv => InForceIsComplete
  BY DEF Inv, Sound, Complete, InForceIsComplete
<1> QED BY <1>1, Soundness, PTL

LEMMA LeastIndex ==
  ASSUME NEW D \in SUBSET Nat, D # {}
  PROVE  \E i \in D : \A j \in D : i <= j
<1> DEFINE R == {p \in Nat \X Nat : p[1] < p[2]}
<1>1. IsWellFoundedOn(R, Nat)
  BY NatLessThanWellFounded DEF OpToRel
<1>2. \E x \in D : \A y \in D : ~ (<<y, x>> \in R)
  <2> HIDE DEF R
  <2> QED BY <1>1, WFMin
<1>3. \A x, y \in Nat : ~(<<y, x>> \in R) => x <= y
  OBVIOUS
<1> QED BY <1>2, <1>3

(* Find returns a registration of the nexus. *)
LEMMA Found ==
  ASSUME NEW s \in SpecRec, NEW n \in Nexuses, NEW key, Registered(s, n, key)
  PROVE  /\ Find(s, n, key) \in Regs(s) /\ Find(s, n, key).iport = n.iport
         /\ key # NoKey => Find(s, n, key).key = key
<1> DEFINE D == Of(s, n, key)
<1>1. D \subseteq DOMAIN s.pr_keys /\ D # {} /\ D \subseteq Nat
  BY DEF Registered, Of, SpecRec
<1>2. \E i \in D : \A j \in D : i <= j
  <2> HIDE DEF D
  <2> QED BY <1>1, LeastIndex
<1>3. PICK i \in D : Find(s, n, key) = s.pr_keys[i]
  BY <1>2 DEF Find
<1> QED BY <1>1, <1>3 DEF Of, Regs

(* As long as initiators use keys of their own, nobody but the initiator    *)
(* that holds an exclusive reservation writes.                             *)
THEOREM WriterIsHolder == Spec => []ExclusiveWrite
<1>1. Inv => ExclusiveWrite
  <2> SUFFICES ASSUME Inv, ~Foreign, spec.rsv_key # NoKey, spec.rsv_type \in {"WE", "EA"},
                      NEW n \in Nexuses, Access(spec, n, TRUE)
               PROVE  InitiatorName[n.iport] = InitiatorName[spec.rsv_port]
    BY DEF ExclusiveWrite
  <2>1. Registered(spec, n, NoKey) /\ Find(spec, n, NoKey).key = spec.rsv_key
    BY DEF Access, Allows, Types, AllRegistrants
  <2>2. Find(spec, n, NoKey) \in Regs(spec) /\ Find(spec, n, NoKey).iport = n.iport
    BY <2>1, Found DEF Inv, Sound, Typed
  <2>3. Owner[spec.rsv_key] = InitiatorName[n.iport]
    BY <2>1, <2>2 DEF Inv, Sound, Owned
  <2> QED BY <2>3 DEF Inv, Sound, Owned
<1> QED BY <1>1, Soundness, PTL

(* A registered nexus can change its key even in a full table. *)
THEOREM ReRegistration == Spec => []ReRegisterFits
<1>1. Inv => ReRegisterFits
  <2> SUFFICES ASSUME Inv, NEW n \in Nexuses, NEW old \in Keys, NEW new \in Keys,
                      NEW all \in AllFlags, Registered(spec, n, old),
                      NEW r \in Register(spec, n, old, new, all, "plain")
               PROVE  r.status = "GOOD"
    BY DEF ReRegisterFits, AllFlags
  <2>1. Sound(spec) /\ Of(spec, n, old) \subseteq Of(spec, n, NoKey)
    BY DEF Inv, Of
  <2>2. Registered(spec, n, NoKey)
    BY <2>1 DEF Registered
  <2>3. PICK t \in Without(spec, Of(spec, n, NoKey)) : r = Renew(t, n, old, new, all)
    BY <2>2, Zenon DEF Register
  <2>4. Len(t.pr_keys) < Len(spec.pr_keys)
    <3>1. Of(spec, n, NoKey) \in SUBSET DOMAIN spec.pr_keys /\ Of(spec, n, NoKey) # {}
      BY <2>2 DEF Of, Registered
    <3> QED BY <2>1, <3>1, Removal
  <2>5. Len(spec.pr_keys) <= MaxReserve /\ Len(spec.pr_keys) \in Nat /\ Len(t.pr_keys) \in Nat
    <3>1. Sound(t)
      BY <2>1, Removal DEF Of
    <3> QED BY <2>1, <3>1 DEF Sound, Typed, SpecRec
  <2>6. ~(Len(t.pr_keys) >= MaxReserve)
    BY <2>4, <2>5, BoundAssumption
  <2>7. new # NoKey
    BY KeyAssumption
  <2>8. \E x : r = Good(x)
    BY <2>3, <2>6, <2>7, Zenon DEF Renew, Enter
  <2> QED BY <2>8, Fields
<1> QED BY <1>1, Soundness, PTL

(* A refused command leaves the reservation as it was. *)
THEOREM RefusalKeeps == Spec => RefusedKeepsReservation
<1>1. Inv /\ [Next]_vars => [status' # "GOOD" => Reservation(spec') = Reservation(spec)]_vars
  BY NextInv DEF Moves
<1> QED BY <1>1, Soundness, PTL DEF Spec, RefusedKeepsReservation

(* A new registration comes with a new generation. *)
THEOREM GenerationCounts == Spec => GenerationMarks
<1>1. Inv /\ [Next]_vars =>
        [Regs(spec') \subseteq Regs(spec) \/ spec'.pr_generation # spec.pr_generation]_vars
  BY NextInv DEF Moves
<1> QED BY <1>1, Soundness, PTL DEF Spec, GenerationMarks

(* Who takes a reservation from another port leaves no registration under   *)
(* the key of the old reservation.                                         *)
THEOREM PreemptionRemoves == Spec => PreemptedAreGone
<1>1. Inv /\ [Next]_vars =>
        [/\ spec.rsv_key # NoKey /\ spec.rsv_type \notin AllRegistrants
         /\ spec'.rsv_port \notin {spec.rsv_port, None}
         => \A r \in Regs(spec') : r.key # spec.rsv_key]_vars
  BY NextInv DEF Moves
<1> QED BY <1>1, Soundness, PTL DEF Spec, PreemptedAreGone

-----------------------------------------------------------------------------
(* RESERVE(6) and RELEASE(6), one after the other.                         *)

IsOf(g, n) == g.iport = n.iport /\ (g.all_tpg \/ g.tport = n.tport)

(* A registration that is entered is the only one that is new.             *)
LEMMA NewEntry ==
  ASSUME NEW s, Sound(s), NEW n \in Nexuses, NEW key \in Keys, NEW all \in AllFlags,
         NEW r, r = Enter(s, n, NoKey, key, all), r.status = "GOOD"
  PROVE  \E reg \in Regs(r.spec) :
           /\ reg.key = key /\ IsOf(reg, n)
           /\ \A g \in Regs(r.spec) : g = reg \/ g \in Regs(s)
<1> DEFINE reg == [key |-> key, iport |-> n.iport, tport |-> n.tport, all_tpg |-> all]
           p == Append(s.pr_keys, reg)
           t == [s EXCEPT !.pr_keys = p, !.rsv_key = s.rsv_key]
<1>1. /\ s \in SpecRec /\ s.pr_keys \in Seq(Registration) /\ Len(s.pr_keys) \in Nat
      /\ DOMAIN s.pr_keys = 1 .. Len(s.pr_keys)
  BY DEF Sound, Typed, SpecRec
<1>2. reg \in Registration /\ reg.key = key /\ IsOf(reg, n)
  BY DEF Registration, Nexuses, AllFlags, IsOf
<1>3. ~(Len(s.pr_keys) >= MaxReserve)
  <2>1. Check(s).status = "CHECK CONDITION"
    BY DEF Check, Result
  <2>2. Len(s.pr_keys) >= MaxReserve => r = Check(s)
    BY Zenon DEF Enter
  <2> QED BY <2>1, <2>2
<1>4. r = Good(NextGeneration(t))
  <2>1. t = [s EXCEPT !.pr_keys = Append(@, reg), !.rsv_key = @]
    BY <1>1 DEF SpecRec
  <2> QED BY <1>3, <2>1 DEF Enter
<1> HIDE DEF reg
<1>5. /\ p \in Seq(Registration) /\ DOMAIN p = 1 .. Len(s.pr_keys) + 1
      /\ \A i \in 1 .. Len(s.pr_keys) : p[i] = s.pr_keys[i]
      /\ p[Len(s.pr_keys) + 1] = reg
  BY <1>1, <1>2
<1> HIDE DEF p
<1>6. t \in SpecRec /\ t.pr_keys = p
  BY <1>1, <1>5 DEF SpecRec
<1> HIDE DEF t
<1>7. r.spec.pr_keys = p
  <2>1. r.spec = NextGeneration(t)
    BY <1>4, Fields, Zenon
  <2> QED BY <1>6, <2>1, NewGeneration
<1>8. reg \in Regs(r.spec) /\ \A g \in Regs(r.spec) : g = reg \/ g \in Regs(s)
  <2>1. Len(s.pr_keys) + 1 \in DOMAIN p
    BY <1>1, <1>5
  <2>2. \A i \in DOMAIN p : i = Len(s.pr_keys) + 1 \/ i \in 1 .. Len(s.pr_keys)
    BY <1>1, <1>5
  <2>3. Regs(r.spec) = {p[i] : i \in DOMAIN p}
    BY <1>7 DEF Regs
  <2> QED BY <1>1, <1>5, <2>1, <2>2, <2>3 DEF Regs
<1> QED BY <1>2, <1>8

(* What RESERVE(6) leads to when there was no reservation.                 *)
LEMMA LegacyReserved ==
  ASSUME NEW s, Sound(s), s.rsv_key = NoKey, NEW n \in Nexuses,
         NEW r \in LegacyReserve(s, n), r.status = "GOOD"
  PROVE  /\ Sound(r.spec)
         /\ r.spec.rsv_key = LegacyKey[n.iport] /\ r.spec.rsv_port = n.iport
         /\ r.spec.rsv_type = "EA"
         /\ \A g \in Regs(r.spec) : IsOf(g, n) => g.key = LegacyKey[n.iport]
         /\ \E g \in Regs(r.spec) : IsOf(g, n)
<1> DEFINE key == LegacyKey[n.iport]
           all == FALSE
<1>1. key \in OwnKeys(n) /\ NoKey \in OwnKeys(n) /\ all \in AllFlags /\ key \in Keys /\ key # NoKey
  BY LegacyKeys, LegacyAssumption, KeyAssumption DEF Nexuses
<1>2. PICK q \in RegisterIgnore(s, n, NoKey, key, all, "plain") :
        r \in (IF q.status = "GOOD" THEN Reserve(q.spec, n, key, "EA") ELSE {q})
  BY Zenon DEF LegacyReserve
<1>3. q.status = "GOOD" /\ r \in Reserve(q.spec, n, key, "EA")
  BY <1>2
<1> HIDE DEF key, all
<1>4. PICK t \in Without(s, Of(s, n, NoKey)) : q = Renew(t, n, NoKey, key, all)
  BY <1>2, Zenon DEF RegisterIgnore
<1>5. q = Enter(t, n, NoKey, key, all)
  BY <1>1, <1>4 DEF Renew
<1>6. Sound(t) /\ t.rsv_key = NoKey /\ ~Registered(t, n, NoKey)
  BY Removal, Cleared DEF Reservation, Of
<1>7. Sound(q.spec) /\ q.spec.rsv_key = NoKey
  <2>1. Entered(t, NoKey, q)
    BY <1>1, <1>5, <1>6, Entering
  <2> QED BY <1>6, <2>1 DEF Entered
<1>8. PICK reg \in Regs(q.spec) :
        /\ reg.key = key /\ IsOf(reg, n)
        /\ \A g \in Regs(q.spec) : g = reg \/ g \in Regs(t)
  BY <1>1, <1>3, <1>5, <1>6, NewEntry
<1>9. \A g \in Regs(t) : ~IsOf(g, n)
  BY <1>6 DEF Registered, Of, Regs, IsOf
<1>10. Registered(q.spec, n, key)
  BY <1>8 DEF Registered, Of, Regs, IsOf
<1>11. "EA" \in Types /\ "EA" # "invalid"
  BY DEF Types
<1>12. r = Good(HeldBy(q.spec, n, key, "EA"))
  BY <1>3, <1>7, <1>10, <1>11, Zenon DEF Reserve
<1>13. r.spec = HeldBy(q.spec, n, key, "EA")
  BY <1>12, Fields
<1>14. Sound(r.spec) /\ Regs(r.spec) = Regs(q.spec)
  BY <1>1, <1>7, <1>11, <1>13, Holding
<1>15. r.spec.rsv_key = key /\ r.spec.rsv_port = n.iport /\ r.spec.rsv_type = "EA"
  BY <1>7, <1>13 DEF HeldBy, Sound, Typed, SpecRec
<1> QED BY <1>8, <1>9, <1>14, <1>15 DEF key

(* RELEASE(6) after RESERVE(6) gives the reservation back and leaves the   *)
(* nexus unregistered, as it also was before; in between the nexus has     *)
(* access, and as long as initiators use keys of their own, no other       *)
(* initiator has.                                                          *)
THEOREM ReleaseUndoesReserve == Spec => []LegacyRoundTrip
<1>1. Inv => LegacyRoundTrip
  <2> SUFFICES ASSUME Inv, NEW n \in Nexuses, spec.rsv_key = NoKey,
                      NEW r \in LegacyReserve(spec, n), r.status = "GOOD"
               PROVE  /\ Access(r.spec, n, TRUE)
                      /\ \A x \in Nexuses :
                           InitiatorName[x.iport] # InitiatorName[n.iport] /\ ~Foreign =>
                             ~Access(r.spec, x, FALSE)
                      /\ \A q \in LegacyRelease(r.spec, n) :
                           /\ q.status = "GOOD" /\ q.spec.rsv_key = NoKey
                           /\ ~Registered(q.spec, n, NoKey)
    BY DEF LegacyRoundTrip
  <2> DEFINE key == LegacyKey[n.iport]
             s == r.spec
  <2>1. key \in OwnKeys(n) /\ NoKey \in OwnKeys(n) /\ FALSE \in AllFlags /\ key \in Keys /\ key # NoKey
    BY LegacyKeys, LegacyAssumption, KeyAssumption DEF Nexuses
  <2>2. /\ Sound(s) /\ s.rsv_key = key /\ s.rsv_port = n.iport /\ s.rsv_type = "EA"
        /\ \A g \in Regs(s) : IsOf(g, n) => g.key = key
        /\ \E g \in Regs(s) : IsOf(g, n)
    BY LegacyReserved DEF Inv
  <2>3. s \in SpecRec
    BY <2>2 DEF Sound, Typed
  <2>4. Registered(s, n, NoKey) /\ Registered(s, n, key)
    BY <2>1, <2>2 DEF Registered, Of, Regs, IsOf
  <2> HIDE DEF s, key
  <2>5. Find(s, n, NoKey).key = key
    <3>1. PICK i \in Of(s, n, NoKey) : Find(s, n, NoKey) = s.pr_keys[i]
      <4>1. Of(s, n, NoKey) \subseteq Nat /\ Of(s, n, NoKey) # {}
        BY <2>3, <2>4 DEF Of, SpecRec, Registered
      <4>2. \E i \in Of(s, n, NoKey) : \A j \in Of(s, n, NoKey) : i <= j
        BY <4>1, LeastIndex
      <4> QED BY <4>2 DEF Find
    <3>2. s.pr_keys[i] \in Regs(s) /\ IsOf(s.pr_keys[i], n)
      BY DEF Of, Regs, IsOf
    <3> QED BY <2>2, <3>1, <3>2
  <2>6. Access(s, n, TRUE)
    BY <2>2, <2>4, <2>5 DEF Access, Allows
  <2>7. ASSUME NEW x \in Nexuses, InitiatorName[x.iport] # InitiatorName[n.iport], ~Foreign,
               Access(s, x, FALSE)
        PROVE  FALSE
    <3>1. Registered(s, x, NoKey) /\ Find(s, x, NoKey).key = key
      BY <2>1, <2>2, <2>7 DEF Access, Allows
    <3>2. Find(s, x, NoKey) \in Regs(s) /\ Find(s, x, NoKey).iport = x.iport
      BY <2>3, <3>1, Found
    <3> QED BY <2>1, <2>2, <2>7, <3>1, <3>2 DEF Sound, Owned
  <2>8. ASSUME NEW q \in LegacyRelease(s, n)
        PROVE  q.status = "GOOD" /\ q.spec.rsv_key = NoKey /\ ~Registered(q.spec, n, NoKey)
    <3>1. Find(s, n, key).key = key
      BY <2>1, <2>3, <2>4, Found
    <3>2. Release(s, n, key, "EA") = {Good(Released(s))}
      BY <2>1, <2>2, <2>4, <3>1, Zenon DEF Release, Holds
    <3> DEFINE t == Released(s)
    <3>3. Good(t).status = "GOOD" /\ Good(t).spec = t
      BY Fields
    <3>4. q \in RegisterIgnore(t, n, key, NoKey, FALSE, "plain")
      <4>1. LegacyRelease(s, n) =
              UNION {IF x.status = "GOOD"
                       THEN RegisterIgnore(x.spec, n, key, NoKey, FALSE, "plain") ELSE {x} :
                     x \in {Good(t)}}
        BY <3>2, Zenon DEF LegacyRelease, key
      <4> HIDE DEF t
      <4> QED BY <3>3, <4>1, Zenon
    <3>5. Sound(t) /\ t.rsv_key = NoKey
      BY <2>2, Releasing
    <3> HIDE DEF t
    <3>6. PICK v \in Without(t, Of(t, n, NoKey)) : q = Renew(v, n, key, NoKey, FALSE)
      BY <3>4, Zenon DEF RegisterIgnore
    <3>7. q = Good(v)
      BY <3>6 DEF Renew
    <3>8. q.status = "GOOD" /\ q.spec = v
      BY <3>7, Fields
    <3>9. Reservation(v) = Reservation(t) /\ ~Registered(v, n, NoKey)
      BY <3>5, Removal, Cleared DEF Of
    <3> QED BY <3>5, <3>8, <3>9 DEF Reservation
  <2> QED BY <2>6, <2>7, <2>8 DEF s
<1> QED BY <1>1, Soundness, PTL

=============================================================================

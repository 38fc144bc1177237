------------------------ MODULE PersistentReservation ------------------------
(***************************************************************************)
(* The reservations of one logical unit number (ISTGT_LU_DISK): which      *)
(* I_T nexuses are registered, with which key, and which port and key hold *)
(* the reservation.  PERSISTENT RESERVE OUT, the RESERVE and RELEASE       *)
(* commands built from it, and the check before every other command run    *)
(* under lu->mutex, so that each command is one step.                      *)
(*                                                                         *)
(* The handlers are operators from the state s of the unit to the set of   *)
(* results they can have; Do commits one of them.                          *)
(***************************************************************************)
EXTENDS QueueSelect

CONSTANTS
  InitiatorPorts, \* conn->initiator_port: name and ISID
  InitiatorName,  \* conn->initiator_name of each
  TargetPorts,    \* conn->target_port: name and portal group tag
  Keys,           \* reservation keys other than 0
  Owner,          \* the initiator that has chosen a key as its own
  LegacyKey,      \* istgt_get_rkey of each initiator port
  Foreign,        \* initiators also send keys of others as their own
  MaxReserve,     \* MAX_LU_RESERVE
  Generations,    \* pr_generation counts modulo this: 2^32
  NoKey,          \* key 0
  None

Names == {InitiatorName[p] : p \in InitiatorPorts}

ASSUME PortAssumption == InitiatorName \in [InitiatorPorts -> Names] /\ None \notin InitiatorPorts
ASSUME KeyAssumption == NoKey \notin Keys /\ Owner \in [Keys -> Names] /\ Foreign \in BOOLEAN
ASSUME LegacyAssumption ==
  /\ LegacyKey \in [InitiatorPorts -> Keys]
  /\ \A p \in InitiatorPorts : Owner[LegacyKey[p]] = InitiatorName[p]
ASSUME BoundAssumption == MaxReserve \in Nat \ {0} /\ Generations \in Nat /\ Generations > 1

VARIABLES
  spec,           \* the part of ISTGT_LU_DISK that keeps the reservations
  status,         \* lu_cmd->status of the last command
  aborted         \* the port whose queued tasks the last command aborted

vars == <<spec, status, aborted>>

Nexuses == [iport: InitiatorPorts, tport: TargetPorts]
AnyKey == Keys \cup {NoKey}

(* WE: WRITE EXCLUSIVE, EA: EXCLUSIVE ACCESS; RO: registrants only, AR: all *)
(* registrants.                                                            *)
AllRegistrants == {"WE_AR", "EA_AR"}
Types == {"WE", "EA", "WE_RO", "EA_RO"} \cup AllRegistrants

ASSUME TypeAssumption == None \notin Types

(* The type of a request; invalid: an unsupported type, or a scope other   *)
(* than the whole unit.  The scope of a reservation is thus always 0.      *)
ReqTypes == Types \cup {"invalid"}

Registration == [key: Keys, iport: InitiatorPorts, tport: TargetPorts, all_tpg: BOOLEAN]

SpecRec == [pr_keys: Seq(Registration), pr_generation: 0 .. Generations - 1,
            rsv_port: InitiatorPorts \cup {None}, rsv_key: AnyKey,
            rsv_type: Types \cup {None}]

Statuses == {"GOOD", "RESERVATION CONFLICT", "CHECK CONDITION"}

TypeOK ==
  /\ spec \in SpecRec
  /\ Len(spec.pr_keys) <= MaxReserve
  /\ status \in Statuses
  /\ aborted \in InitiatorPorts \cup {None}

NoReservations ==
  [pr_keys |-> <<>>, pr_generation |-> 0, rsv_port |-> None, rsv_key |-> NoKey,
   rsv_type |-> None]

Init == spec = NoReservations /\ status = "GOOD" /\ aborted = None

-----------------------------------------------------------------------------
(* Registrations.                                                          *)

(* The indices of the registrations of nexus n, under this key or any. *)
Of(s, n, key) ==
  {i \in DOMAIN s.pr_keys :
     /\ key # NoKey => s.pr_keys[i].key = key
     /\ s.pr_keys[i].iport = n.iport
     /\ s.pr_keys[i].all_tpg \/ s.pr_keys[i].tport = n.tport}

Registered(s, n, key) == Of(s, n, key) # {}

(* istgt_lu_disk_find_pr_key returns the first of them. *)
Find(s, n, key) ==
  s.pr_keys[CHOOSE i \in Of(s, n, key) : \A j \in Of(s, n, key) : i <= j]

WithKey(s, key) ==
  {i \in DOMAIN s.pr_keys : key # NoKey => s.pr_keys[i].key = key}

(* What istgt_lu_disk_remove_other_pr_key takes out: registrations that     *)
(* have another key and another initiator port and another target port.    *)
Others(s, n, key) ==
  {i \in DOMAIN s.pr_keys :
     /\ key # NoKey /\ s.pr_keys[i].key # key
     /\ s.pr_keys[i].iport # n.iport
     /\ ~s.pr_keys[i].all_tpg /\ s.pr_keys[i].tport # n.tport}

Without(s, gone) ==
  {[s EXCEPT !.pr_keys = q] : q \in Selections(s.pr_keys, DOMAIN s.pr_keys \ gone)}

-----------------------------------------------------------------------------
(* Results.                                                                *)

Result(s, st) == [spec |-> s, status |-> st, aborted |-> None]
Good(s) == Result(s, "GOOD")
Conflict(s) == Result(s, "RESERVATION CONFLICT")
Check(s) == Result(s, "CHECK CONDITION")

FaultyNextGeneration(s) == s
NextGeneration(s) == [s EXCEPT !.pr_generation = (@ + 1) % Generations]

Released(s) == [s EXCEPT !.rsv_port = None, !.rsv_key = NoKey, !.rsv_type = None]

HeldBy(s, n, key, type) ==
  [s EXCEPT !.rsv_port = n.iport, !.rsv_key = key, !.rsv_type = type]

(* do_register: a free entry takes the registration; a reservation under   *)
(* the key rkey goes on under the new key.                                 *)
Enter(s, n, rkey, sarkey, all) ==
  IF Len(s.pr_keys) >= MaxReserve
    THEN Check(s)
    ELSE Good(NextGeneration(
           [s EXCEPT !.pr_keys = Append(@, [key |-> sarkey, iport |-> n.iport,
                                           tport |-> n.tport, all_tpg |-> all]),
                     !.rsv_key = IF rkey # NoKey /\ @ = rkey THEN sarkey ELSE @]))

(* A nexus whose registrations are removed in s enters the new one, or none *)
(* if the new key is 0.                                                    *)
Renew(s, n, rkey, sarkey, all) ==
  IF sarkey = NoKey THEN Good(s) ELSE Enter(s, n, rkey, sarkey, all)

FaultyRegister(s, n, rkey, sarkey, all, opt) ==
  LET known == Registered(s, n, NoKey)
  IN  IF opt # "plain" \/ Len(s.pr_keys) >= MaxReserve THEN {Check(s)}
      ELSE IF IF known THEN ~Registered(s, n, rkey) ELSE rkey # NoKey THEN {Conflict(s)}
      ELSE {Renew(r, n, rkey, sarkey, all) : r \in Without(s, Of(s, n, NoKey))}

(* REGISTER. *)
Register(s, n, rkey, sarkey, all, opt) ==
  LET known == Registered(s, n, NoKey)
  IN  IF opt = "aptpl" \/ (opt = "spec_i_pt" /\ known) THEN {Check(s)}
      ELSE IF IF known THEN ~Registered(s, n, rkey) ELSE rkey # NoKey THEN {Conflict(s)}
      ELSE {Renew(r, n, rkey, sarkey, all) : r \in Without(s, Of(s, n, NoKey))}

FaultyRegisterIgnore(s, n, rkey, sarkey, all, opt) ==
  IF \/ opt = "aptpl"
     \/ opt = "spec_i_pt" /\ (Registered(s, n, NoKey) \/ sarkey # NoKey)
    THEN {Check(s)}
    ELSE {Renew(s, n, rkey, sarkey, all)}

(* REGISTER AND IGNORE EXISTING KEY. *)
RegisterIgnore(s, n, rkey, sarkey, all, opt) ==
  IF \/ opt = "aptpl"
     \/ opt = "spec_i_pt" /\ (Registered(s, n, NoKey) \/ sarkey # NoKey)
    THEN {Check(s)}
    ELSE {Renew(r, n, rkey, sarkey, all) : r \in Without(s, Of(s, n, NoKey))}

-----------------------------------------------------------------------------
(* The reservation.                                                        *)

(* The nexus and key that reserved: only they may reserve again or release. *)
Holds(s, n, rkey) == Find(s, n, rkey).key = s.rsv_key /\ s.rsv_port = n.iport

FaultyReserve(s, n, rkey, type) ==
  IF ~Registered(s, n, rkey) \/ (s.rsv_key # NoKey /\ Find(s, n, rkey).key # s.rsv_key)
    THEN {Conflict(s)}
    ELSE IF type = "invalid" THEN {Check(s)} ELSE {Good(HeldBy(s, n, rkey, type))}

Reserve(s, n, rkey, type) ==
  IF ~Registered(s, n, rkey) THEN {Conflict(s)}
  ELSE IF s.rsv_key # NoKey THEN {IF Holds(s, n, rkey) THEN Good(s) ELSE Conflict(s)}
  ELSE {IF type = "invalid" THEN Check(s) ELSE Good(HeldBy(s, n, rkey, type))}

Release(s, n, rkey, type) ==
  IF ~Registered(s, n, rkey) THEN {Conflict(s)}
  ELSE IF s.rsv_key = NoKey THEN {Good(s)}
  ELSE {IF Holds(s, n, rkey) /\ type = s.rsv_type THEN Good(Released(s)) ELSE Check(s)}

Clear(s, n) ==
  {IF Registered(s, n, NoKey) THEN Good([Released(s) EXCEPT !.pr_keys = <<>>])
                              ELSE Conflict(s)}

FaultyTakeOver(s, gone, n, rkey, type, abort) ==
  {IF type = "invalid"
     THEN Check(Released(r))
     ELSE [Good(NextGeneration(HeldBy(r, n, rkey, type)))
             EXCEPT !.aborted = IF abort THEN s.rsv_port ELSE None] :
   r \in Without(s, gone)}

(* PREEMPT removes registrations and, if the request is valid, takes the   *)
(* reservation; PREEMPT AND ABORT also aborts the queued tasks of the port *)
(* that had it.                                                            *)
TakeOver(s, gone, n, rkey, type, abort) ==
  {IF type = "invalid"
     THEN Check(r)
     ELSE [Good(NextGeneration(HeldBy(r, n, rkey, type)))
             EXCEPT !.aborted = IF abort THEN s.rsv_port ELSE None] :
   r \in Without(s, gone)}

(* PREEMPT and PREEMPT AND ABORT. *)
Preempt(s, n, rkey, sarkey, type, abort) ==
  IF ~Registered(s, n, NoKey) THEN {Conflict(s)}
  ELSE IF s.rsv_key = NoKey \/ (s.rsv_type \in AllRegistrants /\ sarkey # NoKey)
    THEN {Good(NextGeneration(r)) : r \in Without(s, WithKey(s, sarkey))}
  ELSE IF s.rsv_type \in AllRegistrants THEN TakeOver(s, Others(s, n, rkey), n, rkey, type, abort)
  ELSE IF Registered(s, n, rkey) /\ sarkey = s.rsv_key
    THEN TakeOver(s, WithKey(s, sarkey), n, rkey, type, abort)
  ELSE IF sarkey = NoKey THEN {Check(s)}
  ELSE {Good(r) : r \in Without(s, WithKey(s, sarkey))}

(* RESERVE(6) and RESERVE(10): register, then reserve.  A registration that *)
(* was made stays when the reservation is refused.                         *)
LegacyReserve(s, n) ==
  LET key == LegacyKey[n.iport]
  IN  UNION {IF r.status = "GOOD" THEN Reserve(r.spec, n, key, "EA") ELSE {r} :
             r \in RegisterIgnore(s, n, NoKey, key, FALSE, "plain")}

FaultyLegacyRelease(s, n) ==
  LET key == LegacyKey[n.iport]
  IN  UNION {IF r.status = "GOOD" THEN Release(r.spec, n, key, "EA") ELSE {r} :
             r \in RegisterIgnore(s, n, key, NoKey, FALSE, "plain")}

(* RELEASE(6) and RELEASE(10): release, then unregister. *)
LegacyRelease(s, n) ==
  LET key == LegacyKey[n.iport]
  IN  UNION {IF r.status = "GOOD"
               THEN RegisterIgnore(r.spec, n, key, NoKey, FALSE, "plain") ELSE {r} :
             r \in Release(s, n, key, "EA")}

-----------------------------------------------------------------------------
(* The check before a command that reads or writes the medium.             *)

FaultyAllows(s, n, write) ==
  \/ Registered(s, n, NoKey)
  \/ s.rsv_type \in {"WE", "WE_RO", "WE_AR"} /\ ~write

(* istgt_lu_disk_check_pr: by key, not by port. *)
Allows(s, n, write) ==
  \/ Registered(s, n, NoKey) /\ \/ Find(s, n, NoKey).key = s.rsv_key
                                \/ s.rsv_type \in Types \ {"WE", "EA"}
  \/ s.rsv_type \in {"WE", "WE_RO", "WE_AR"} /\ ~write

Access(s, n, write) == s.rsv_key # NoKey => Allows(s, n, write)

-----------------------------------------------------------------------------
Do(results) ==
  \E r \in results : spec' = r.spec /\ status' = r.status /\ aborted' = r.aborted

(* The keys that nexus n sends as its own. *)
OwnKeys(n) == IF Foreign THEN AnyKey
              ELSE {k \in Keys : Owner[k] = InitiatorName[n.iport]} \cup {NoKey}

(* SPEC_I_PT asks for the registration of other ports too, with an empty    *)
(* list here (any other list is rejected, as its length is taken for a     *)
(* TransportID); APTPL asks for one that survives a power loss.            *)
Options == {"plain", "spec_i_pt", "aptpl"}

DoRegister(n) ==
  \E rkey, sarkey \in OwnKeys(n), all \in BOOLEAN, opt \in Options :
    Do(Register(spec, n, rkey, sarkey, all, opt))

DoRegisterIgnore(n) ==
  \E rkey, sarkey \in OwnKeys(n), all \in BOOLEAN, opt \in Options :
    Do(RegisterIgnore(spec, n, rkey, sarkey, all, opt))

DoReserve(n) == \E rkey \in OwnKeys(n), type \in ReqTypes : Do(Reserve(spec, n, rkey, type))
DoRelease(n) == \E rkey \in OwnKeys(n), type \in ReqTypes : Do(Release(spec, n, rkey, type))
DoClear(n) == Do(Clear(spec, n))

DoPreempt(n) ==
  \E rkey \in OwnKeys(n), sarkey \in AnyKey, type \in ReqTypes, abort \in BOOLEAN :
    Do(Preempt(spec, n, rkey, sarkey, type, abort))

DoLegacyReserve(n) == Do(LegacyReserve(spec, n))
DoLegacyRelease(n) == Do(LegacyRelease(spec, n))

(* A command that reads or writes the medium. *)
Command(n) ==
  \E write \in BOOLEAN :
    Do({IF Access(spec, n, write) THEN Good(spec) ELSE Conflict(spec)})

(* "lost reservations if daemon restart" *)
Restart == spec' = NoReservations /\ status' = "GOOD" /\ aborted' = None

Next ==
  \/ \E n \in Nexuses :
       \/ DoRegister(n) \/ DoRegisterIgnore(n) \/ DoReserve(n) \/ DoRelease(n)
       \/ DoClear(n) \/ DoPreempt(n) \/ DoLegacyReserve(n) \/ DoLegacyRelease(n)
       \/ Command(n)
  \/ Restart

Spec == Init /\ [][Next]_vars

-----------------------------------------------------------------------------
(* Properties.                                                             *)

Regs(s) == {s.pr_keys[i] : i \in DOMAIN s.pr_keys}
Reservation(s) == <<s.rsv_port, s.rsv_key, s.rsv_type>>

(* However a nexus registers, for one target port or for all of them, under*)
(* its key or ignoring it, it never has two registrations of its own.  (One*)
(* that was made for all target ports through another port may come to it, *)
(* see HolderIsLetIn.)                                                     *)
OnePerNexus ==
  \A i, j \in DOMAIN spec.pr_keys :
    /\ spec.pr_keys[i].iport = spec.pr_keys[j].iport
    /\ spec.pr_keys[i].tport = spec.pr_keys[j].tport
    => i = j

(* While a reservation is in force it has a port and a type: RESERVE and   *)
(* RELEASE compare spec->rsv_port then, which must not be NULL, and the    *)
(* check refuses every command when the type is 0.                         *)
InForceIsComplete ==
  spec.rsv_key # NoKey => spec.rsv_port # None /\ spec.rsv_type # None

(* "reservation holder" (istgt_lu_disk.c:3480): a port that holds the      *)
(* reservation and is registered under its key is let in, through each     *)
(* target port where it is.  It does not hold with several target ports:   *)
(* the check finds another registration of the port first.                 *)
HolderIsLetIn ==
  \A n \in Nexuses :
    spec.rsv_key # NoKey /\ spec.rsv_port = n.iport /\ Registered(spec, n, spec.rsv_key)
      => Access(spec, n, TRUE)

(* The inductive invariant of the proofs: the state of the unit is sound,  *)
(* with its type, room in the table, OnePerNexus, InForceIsComplete, and,  *)
(* provided initiators use keys of their own, no key of one initiator used *)
(* by another, neither in the table nor for the reservation.               *)
Typed(s) == s \in SpecRec /\ Len(s.pr_keys) <= MaxReserve

OneEach(s) ==
  \A i, j \in DOMAIN s.pr_keys :
    s.pr_keys[i].iport = s.pr_keys[j].iport /\ s.pr_keys[i].tport = s.pr_keys[j].tport
      => i = j

Complete(s) == s.rsv_key # NoKey => s.rsv_port # None /\ s.rsv_type # None

Owned(s) ==
  ~Foreign =>
    /\ s.rsv_key # NoKey => Owner[s.rsv_key] = InitiatorName[s.rsv_port]
    /\ \A g \in Regs(s) : Owner[g.key] = InitiatorName[g.iport]

Sound(s) == Typed(s) /\ OneEach(s) /\ Complete(s) /\ Owned(s)

Inv == Sound(spec) /\ status \in Statuses /\ aborted \in InitiatorPorts \cup {None}

(* Provided initiators use keys of their own, a reservation that is not    *)
(* for registrants lets only the initiator write that holds it, whatever   *)
(* was registered, re-registered and preempted before.                     *)
ExclusiveWrite ==
  ~Foreign /\ spec.rsv_key # NoKey /\ spec.rsv_type \in {"WE", "EA"} =>
    \A n \in Nexuses :
      Access(spec, n, TRUE) => InitiatorName[n.iport] = InitiatorName[spec.rsv_port]

(* A nexus that is registered can change its key even when the table is    *)
(* full.                                                                   *)
ReRegisterFits ==
  \A n \in Nexuses, old, new \in Keys, all \in BOOLEAN :
    Registered(spec, n, old) =>
      \A r \in Register(spec, n, old, new, all, "plain") : r.status = "GOOD"

(* RELEASE(6) undoes RESERVE(6).                                           *)
LegacyRoundTrip ==
  \A n \in Nexuses : spec.rsv_key = NoKey =>
    \A r \in LegacyReserve(spec, n) : r.status = "GOOD" =>
      /\ Access(r.spec, n, TRUE)
      /\ \A x \in Nexuses : InitiatorName[x.iport] # InitiatorName[n.iport] /\ ~Foreign =>
           ~Access(r.spec, x, FALSE)
      /\ \A q \in LegacyRelease(r.spec, n) :
           /\ q.status = "GOOD" /\ q.spec.rsv_key = NoKey
           /\ ~Registered(q.spec, n, NoKey)

(* A command that is refused does not change who holds the reservation,    *)
(* although it may have changed registrations.                             *)
RefusedKeepsReservation ==
  [][status' # "GOOD" => Reservation(spec') = Reservation(spec)]_vars

(* PRGENERATION: no registration appears without a new generation.          *)
GenerationMarks ==
  [][Regs(spec') \subseteq Regs(spec) \/ spec'.pr_generation # spec.pr_generation]_vars

(* A reservation for one port passes to another only when all the          *)
(* registrations under its key are gone: those that had access by that key *)
(* have lost it.                                                           *)
PreemptedAreGone ==
  [][/\ spec.rsv_key # NoKey /\ spec.rsv_type \notin AllRegistrants
     /\ spec'.rsv_port \notin {spec.rsv_port, None}
     => \A r \in Regs(spec') : r.key # spec.rsv_key]_vars

=============================================================================

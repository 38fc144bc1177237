-------------------------- MODULE CmdWindowProofs ---------------------------
(***************************************************************************)
(* Theorems about CmdWindow, for every set of connections, width of the    *)
(* counters, queue depth and first number.                                 *)
(*                                                                         *)
(* First the comparison of serial numbers: SerialOrder says when it is the *)
(* order of the counters, so that the proofs need no modulus.  Then Basis, *)
(* an inductive invariant for all kinds of commands, broken connections    *)
(* and time-outs: types, what a worker has in hand at each place, and the  *)
(* wake-up that is owed to those that sleep.  One lemma for each action;   *)
(* the frame lemmas (HandFrame, WorkerFrame, AnsweringBasis) say what      *)
(* steps of a worker have in common.                                       *)
(*                                                                         *)
(* Then OrderInv, for sessions of SCSI commands and pings over any number  *)
(* of connections that may break: it follows every number from the         *)
(* initiator to its answer, and shows that all numbers under way are near  *)
(* enough for SerialOrder.  Again one lemma for each action.               *)
(*                                                                         *)
(* Last SteadyInv, for one connection with all kinds but Text: what is     *)
(* numbered, open and acknowledged add up, so that nothing is refused.     *)
(***************************************************************************)
EXTENDS CmdWindow, FiniteSetTheorems, SequenceTheorems, TLAPS

(* Division with remainder.                                                *)
LEMMA Division ==
  ASSUME NEW a \in Nat, NEW m \in Nat \ {0}
  PROVE  /\ (a % m) \in 0 .. (m - 1)
         /\ a = (m * (a \div m)) + (a % m)
         /\ (a \div m) \in Int
  BY SMT

LEMMA Remainder ==
  ASSUME NEW q \in Int, NEW r \in Int, NEW m \in Nat \ {0}, 0 <= r, r < m
  PROVE  ((m * q) + r) % m = r
  BY SMT

(* The remainder of a sum, without and with a carry.                       *)
LEMMA RemainderOfSum ==
  ASSUME NEW a \in Nat, NEW m \in Nat \ {0}, NEW d \in Nat, d < m
  PROVE  /\ (a % m) + d < m => (a + d) % m = (a % m) + d
         /\ (a % m) + d >= m => (a + d) % m = ((a % m) + d) - m
<1> DEFINE q == a \div m
           r == a % m
<1>1. q \in Int /\ a = (m * q) + r /\ r \in 0 .. (m - 1)
  BY Division
<1> HIDE DEF q, r
<1>2. ASSUME r + d < m PROVE (a + d) % m = r + d
  <2>1. a + d = (m * q) + (r + d)
    BY <1>1
  <2>2. r + d \in Int /\ 0 <= r + d
    BY <1>1
  <2>3. ((m * q) + (r + d)) % m = r + d
    BY <1>1, <1>2, <2>2, Remainder
  <2> QED BY <2>1, <2>3
<1>3. ASSUME r + d >= m PROVE (a + d) % m = (r + d) - m
  <2>1. a + d = (m * (q + 1)) + ((r + d) - m)
    BY <1>1
  <2>2. (r + d) - m \in Int /\ 0 <= (r + d) - m /\ (r + d) - m < m /\ q + 1 \in Int
    BY <1>1, <1>3
  <2>3. ((m * (q + 1)) + ((r + d) - m)) % m = (r + d) - m
    BY <2>2, Remainder
  <2> QED BY <2>1, <2>3
<1> QED BY <1>2, <1>3 DEF r

(* The serial number of a counter that is a little ahead of another.       *)
LEMMA SerialAhead ==
  ASSUME NEW x \in Nat, NEW d \in Nat, d < Half
  PROVE  /\ SN(x) \in Nat /\ SN(x) < Mod
         /\ \/ SN(x + d) = SN(x) + d /\ SN(x) + d < Mod
            \/ SN(x + d) = (SN(x) + d) - Mod /\ SN(x) + d >= Mod
<1>1. First + x \in Nat /\ Mod \in Nat \ {0} /\ d < Mod /\ First + (x + d) = (First + x) + d
  BY FirstAssumption, HalfAssumption DEF Mod, Serial
<1>2. SN(x) \in 0 .. (Mod - 1)
  BY <1>1, Division DEF SN
<1>3. /\ SN(x) + d < Mod => SN(x + d) = SN(x) + d
      /\ SN(x) + d >= Mod => SN(x + d) = (SN(x) + d) - Mod
  BY <1>1, RemainderOfSum DEF SN
<1> QED BY <1>1, <1>2, <1>3

(* The comparisons of serial numbers, for a counter and one a little       *)
(* ahead of it.                                                            *)
LEMMA CompareAhead ==
  ASSUME NEW x \in Nat, NEW d \in Nat, d < Half
  PROVE  /\ (LT(x, x + d) <=> d > 0) /\ ~GT(x, x + d)
         /\ (GT(x + d, x) <=> d > 0) /\ ~LT(x + d, x)
<1> DEFINE s == SN(x)
           t == SN(x + d)
<1>1. s \in Nat /\ s < Mod /\ ((t = s + d /\ s + d < Mod) \/ (t = (s + d) - Mod /\ s + d >= Mod))
  BY SerialAhead
<1>2. Mod = 2 * Half /\ Half \in Nat \ {0}
  BY HalfAssumption DEF Mod
<1>3. /\ LT(x, x + d) <=> SN32_LT(s, t)
      /\ GT(x, x + d) <=> SN32_GT(s, t)
      /\ LT(x + d, x) <=> SN32_LT(t, s)
      /\ GT(x + d, x) <=> SN32_GT(t, s)
  BY DEF LT, GT
<1> HIDE DEF s, t
<1>4. t \in Int
  BY <1>1, <1>2
<1>5. (SN32_LT(s, t) <=> d > 0) /\ ~SN32_GT(s, t)
  BY <1>1, <1>2, <1>4 DEF SN32_LT, SN32_GT
<1>6. (SN32_GT(t, s) <=> d > 0) /\ ~SN32_LT(t, s)
  BY <1>1, <1>2, <1>4 DEF SN32_LT, SN32_GT
<1> QED BY <1>3, <1>5, <1>6

(* Serial numbers of counters less than Half apart compare as the counters *)
(* do, wherever the register wraps.                                        *)
THEOREM SerialOrder ==
  ASSUME NEW x \in Nat, NEW y \in Nat, x - y < Half, y - x < Half
  PROVE  (LT(x, y) <=> x < y) /\ (GT(x, y) <=> x > y)
<1>0. Half \in Nat
  BY HalfAssumption
<1>1. CASE x <= y
  <2>1. y - x \in Nat /\ y = x + (y - x)
    BY <1>1
  <2> DEFINE d == y - x
  <2>2. /\ (LT(x, x + d) <=> d > 0) /\ ~GT(x, x + d)
    BY <2>1, CompareAhead
  <2> QED BY <2>1, <2>2, <1>1
<1>2. CASE y < x
  <2>1. x - y \in Nat /\ x = y + (x - y)
    BY <1>2
  <2> DEFINE d == x - y
  <2>2. /\ (GT(y + d, y) <=> d > 0) /\ ~LT(y + d, y)
    BY <2>1, CompareAhead
  <2> QED BY <2>1, <2>2, <1>2
<1> QED BY <1>1, <1>2

-----------------------------------------------------------------------------
(* Types.                                                                  *)

SessTypes == /\ ExpCmdSN \in Nat /\ MaxCmdSN \in Nat /\ req_mcs_cond \in Nat
StatTypes == StatSN \in [Conns -> Nat]
WorkTypes == wk \in [Conns -> Places] /\ pdu \in [Conns -> Command \cup {None}]
OutTypes  == /\ wout \in [Conns -> Rsp \cup {None}] /\ sout \in [Conns -> Rsp \cup {None}]
             /\ queued \in [Conns -> [own: SUBSET Numbers, imm: Nat]]
             /\ result_queue \in [Conns -> Seq(Result)]
NetTypes  == /\ inbox \in [Conns -> Seq(Command)] /\ wire \in [Conns -> Seq(Rsp)]
             /\ cut \in SUBSET Conns
SentTypes == /\ nextN \in Nat /\ imms \in Nat /\ texted \in SUBSET Conns /\ winSN \in Nat
             /\ ack \in [Conns -> Nat]
AuxTypes  == at \in [Numbers -> Fates] /\ refused \in BOOLEAN

LEMMA TypeParts ==
  TypeOK <=> /\ SessTypes /\ StatTypes /\ WorkTypes /\ OutTypes /\ NetTypes
             /\ SentTypes /\ AuxTypes
  BY DEF TypeOK, SessTypes, StatTypes, WorkTypes, OutTypes, NetTypes, SentTypes, AuxTypes

LEMMA TypePartsNext ==
  TypeOK' <=> /\ SessTypes' /\ StatTypes' /\ WorkTypes' /\ OutTypes' /\ NetTypes'
              /\ SentTypes' /\ AuxTypes'
  BY DEF TypeOK, SessTypes, StatTypes, WorkTypes, OutTypes, NetTypes, SentTypes, AuxTypes

LEMMA CommandFields ==
  ASSUME NEW p \in Command
  PROVE  /\ p.kind \in AllKinds /\ p.imm \in BOOLEAN /\ p.n \in Nat /\ p.ack \in Nat
         /\ Own(p) \in SUBSET Numbers
         /\ ~p.imm => Own(p) = {p.n} /\ p.n \in Numbers
         /\ p.imm => Own(p) = {}
  BY DEF Command, Own

LEMMA FateTypes ==
  /\ <<"unsent", None>> \in Fates /\ <<"lost", None>> \in Fates
  /\ <<"answered", None>> \in Fates /\ <<"dropped", None>> \in Fates
  /\ \A c \in Conns : /\ <<"inbox", c>> \in Fates /\ <<"hand", c>> \in Fates
                      /\ <<"now", c>> \in Fates /\ <<"queued", c>> \in Fates
                      /\ <<"result", c>> \in Fates
  BY DEF Fates

LEMMA MoveType ==
  ASSUME NEW S, NEW place, NEW d, <<place, d>> \in Fates,
         at \in [Numbers -> Fates], Move(S, place, d)
  PROVE  at' \in [Numbers -> Fates]
  BY DEF Move

LEMMA InitBasis == Init => Basis
<1> SUFFICES ASSUME Init PROVE Basis
  OBVIOUS
<1>1. SessTypes /\ StatTypes /\ WorkTypes /\ NetTypes /\ SentTypes
  BY DepthAssumption DEF Init, SessTypes, StatTypes, WorkTypes, NetTypes, SentTypes, Places
<1>2. OutTypes
  BY DEF Init, OutTypes
<1>3. AuxTypes
  BY FateTypes DEF Init, AuxTypes
<1>4. InHand /\ WakeupOwed
  BY DEF Init, InHand, WakeupOwed
<1> QED BY <1>1, <1>2, <1>3, <1>4, TypeParts DEF Basis

(* The result of the test of a command, for the types.                     *)
LEMMA CheckTypes ==
  ASSUME TypeOK, NEW c \in Conns, NEW p \in Command, Check(c, p)
  PROVE  /\ ExpCmdSN' \in Nat /\ MaxCmdSN' \in Nat
         /\ StatTypes' /\ AuxTypes'
         /\ wk' \in {[wk EXCEPT ![c] = "exit"], [wk EXCEPT ![c] = "held"]}
<1>1. /\ SessTypes /\ StatTypes /\ AuxTypes
  BY TypeParts
<1>2. /\ p.n \in Nat /\ p.ack \in Nat
  BY CommandFields
<1>3. Acked(c, p) \in Nat
  BY <1>1, <1>2 DEF Acked, StatTypes
<1>4. ExpCmdSN' \in Nat /\ MaxCmdSN' \in Nat
  BY <1>1, <1>2 DEF Check, SessTypes
<1>5. StatTypes'
  BY <1>1, <1>3 DEF Check, StatTypes
<1>6. \/ Refuse(c, p)
      \/ /\ wk' = [wk EXCEPT ![c] = "held"]
         /\ Move(Own(p), "hand", c) /\ UNCHANGED refused
  BY DEF Check
<1>7. AuxTypes'
  BY <1>1, <1>6, FateTypes, MoveType DEF AuxTypes, Refuse
<1> QED BY <1>4, <1>5, <1>6, <1>7 DEF Refuse

(* A step of one worker that changes only its own entries keeps the types  *)
(* of workers, InHand and, unless it falls asleep, WakeupOwed.             *)
LEMMA WorkerFrame ==
  ASSUME Basis, NEW c \in Conns, NEW place \in Places \ {"mcs", "asleep", "held", "now"},
         wk' = [wk EXCEPT ![c] = place], UNCHANGED <<pdu, req_mcs_cond>>,
         \A d \in Conns \ {c} : wout'[d] = wout[d],
         place = "write" => wout'[c] \in Rsp
  PROVE  WorkTypes' /\ InHand' /\ WakeupOwed'
<1>1. WorkTypes /\ InHand /\ WakeupOwed
  BY TypeParts DEF Basis
<1> USE <1>1
<1>2. WorkTypes'
  BY DEF WorkTypes
<1>3. /\ wk'[c] = place
      /\ \A d \in Conns \ {c} : wk'[d] = wk[d]
  BY DEF WorkTypes
<1>4. InHand'
  BY <1>3 DEF InHand
<1>5. WakeupOwed'
  BY <1>3 DEF WakeupOwed
<1> QED BY <1>2, <1>4, <1>5

LEMMA SendBasis ==
  ASSUME Basis, NEW c \in Conns, NEW k \in AllKinds, NEW imm \in BOOLEAN, Send(c, k, imm)
  PROVE  Basis'
<1>1. /\ SessTypes /\ StatTypes /\ WorkTypes /\ OutTypes /\ NetTypes /\ SentTypes /\ AuxTypes
      /\ InHand /\ WakeupOwed
  BY TypeParts DEF Basis
<1> USE <1>1
<1>2. SessTypes' /\ StatTypes' /\ WorkTypes' /\ OutTypes' /\ InHand' /\ WakeupOwed'
  BY DEF Send, sessVars, outVars, workVars, SessTypes, StatTypes, WorkTypes, OutTypes,
         InHand, WakeupOwed
<1> DEFINE p == [kind |-> k, imm |-> imm, n |-> nextN, ack |-> ack[c]]
<1>3. p \in Command
  <2>1. ~imm => nextN \in Numbers
    BY BoundAssumption DEF Send, Numbers, SentTypes
  <2> QED BY <2>1 DEF SentTypes, Command, Own
<1>4. inbox' = [inbox EXCEPT ![c] = Append(@, p)] /\ UNCHANGED <<wire, cut>>
  BY DEF Send
<1>5. NetTypes'
  BY <1>3, <1>4 DEF NetTypes
<1>6. SentTypes'
  BY DEF Send, SentTypes
<1>7. AuxTypes'
  BY FateTypes, MoveType DEF Send, AuxTypes
<1> QED BY <1>2, <1>5, <1>6, <1>7, TypePartsNext DEF Basis

LEMMA ReceiveBasis ==
  ASSUME Basis, NEW c \in Conns, Receive(c)
  PROVE  Basis'
<1>1. /\ SessTypes /\ StatTypes /\ WorkTypes /\ OutTypes /\ NetTypes /\ SentTypes /\ AuxTypes
      /\ InHand /\ WakeupOwed
  BY TypeParts DEF Basis
<1> USE <1>1
<1>2. SessTypes' /\ StatTypes' /\ WorkTypes' /\ OutTypes' /\ AuxTypes' /\ InHand' /\ WakeupOwed'
  BY DEF Receive, sessVars, outVars, workVars, auxVars, SessTypes, StatTypes, WorkTypes,
         OutTypes, AuxTypes, InHand, WakeupOwed
<1>3. /\ Head(wire[c]) \in Rsp /\ Tail(wire[c]) \in Seq(Rsp)
  BY DEF Receive, NetTypes
<1>4. NetTypes'
  BY <1>3 DEF Receive, NetTypes
<1>5. Head(wire[c]).max \in Nat
  BY <1>3 DEF Rsp
<1>6. SentTypes'
  BY <1>5 DEF Receive, SentTypes
<1> QED BY <1>2, <1>4, <1>6, TypePartsNext DEF Basis

LEMMA CutBasis ==
  ASSUME Basis, NEW c \in Conns, Cut(c)
  PROVE  Basis'
<1>1. /\ SessTypes /\ StatTypes /\ WorkTypes /\ OutTypes /\ NetTypes /\ SentTypes /\ AuxTypes
      /\ InHand /\ WakeupOwed
  BY TypeParts DEF Basis
<1> USE <1>1
<1>2. SessTypes' /\ StatTypes' /\ WorkTypes' /\ OutTypes' /\ SentTypes' /\ InHand' /\ WakeupOwed'
  BY DEF Cut, sessVars, outVars, workVars, initVars, SessTypes, StatTypes, WorkTypes,
         OutTypes, SentTypes, InHand, WakeupOwed
<1>3. PICK i \in 0 .. Len(inbox[c]) :
        /\ inbox' = [inbox EXCEPT ![c] = SubSeq(@, 1, i)]
        /\ Move(OwnIn(SubSeq(inbox[c], i + 1, Len(inbox[c]))), "lost", None)
  BY DEF Cut
<1>4. SubSeq(inbox[c], 1, i) \in Seq(Command)
  BY DEF NetTypes
<1>5. NetTypes'
  BY <1>3, <1>4 DEF Cut, NetTypes
<1>6. AuxTypes'
  BY <1>3, FateTypes, MoveType DEF Cut, AuxTypes
<1> QED BY <1>2, <1>5, <1>6, TypePartsNext DEF Basis

(* What reading a command leaves in hand and in the inbox.                 *)
LEMMA TakeTypes ==
  ASSUME TypeOK, NEW c \in Conns, Take(c)
  PROVE  /\ pdu'[c] = Head(inbox[c]) /\ pdu'[c] \in Command
         /\ \A d \in Conns \ {c} : pdu'[d] = pdu[d]
         /\ pdu' \in [Conns -> Command \cup {None}]
         /\ NetTypes' /\ OutTypes' /\ SentTypes' /\ req_mcs_cond' = req_mcs_cond
         /\ wout' = wout /\ wk[c] = "idle"
<1>1. NetTypes /\ WorkTypes /\ OutTypes /\ SentTypes
  BY TypeParts
<1>2. Head(inbox[c]) \in Command /\ Tail(inbox[c]) \in Seq(Command)
  BY <1>1 DEF Take, NetTypes
<1>3. NetTypes'
  BY <1>1, <1>2 DEF Take, NetTypes
<1>4. OutTypes' /\ SentTypes'
  BY <1>1 DEF Take, OutTypes, SentTypes, outVars, initVars
<1> QED BY <1>1, <1>2, <1>3, <1>4 DEF Take, WorkTypes, outVars

(* The step of a worker that takes a command in hand.                      *)
LEMMA HandFrame ==
  ASSUME Basis, NEW c \in Conns, NEW place \in {"exit", "held", "mcs"},
         wk' = [wk EXCEPT ![c] = place], UNCHANGED <<req_mcs_cond, wout>>,
         pdu' \in [Conns -> Command \cup {None}], pdu'[c] \in Command,
         \A d \in Conns \ {c} : pdu'[d] = pdu[d]
  PROVE  WorkTypes' /\ InHand' /\ WakeupOwed'
<1>1. WorkTypes /\ InHand /\ WakeupOwed
  BY TypeParts DEF Basis
<1> USE <1>1
<1>2. WorkTypes'
  BY DEF WorkTypes, Places
<1>3. /\ wk'[c] = place
      /\ \A d \in Conns \ {c} : wk'[d] = wk[d]
  BY DEF WorkTypes
<1>4. InHand'
  BY <1>3 DEF InHand
<1>5. WakeupOwed'
  BY <1>3 DEF WakeupOwed
<1> QED BY <1>2, <1>4, <1>5

LEMMA ReadCommandBasis ==
  ASSUME Basis, NEW c \in Conns, ReadCommand(c)
  PROVE  Basis'
<1>0. TypeOK /\ Take(c)
  BY DEF Basis, ReadCommand
<1>1. /\ SessTypes /\ StatTypes /\ WorkTypes /\ AuxTypes
  BY <1>0, TypeParts
<1>2. /\ pdu'[c] \in Command
      /\ \A d \in Conns \ {c} : pdu'[d] = pdu[d]
      /\ pdu' \in [Conns -> Command \cup {None}]
      /\ NetTypes' /\ OutTypes' /\ SentTypes' /\ req_mcs_cond' = req_mcs_cond
      /\ wout' = wout
  BY <1>0, TakeTypes
<1>3. CASE Early(pdu'[c]) /\ Connections > 1
  <2>1. /\ wk' = [wk EXCEPT ![c] = "mcs"]
        /\ Move(Own(pdu'[c]), "hand", c)
        /\ UNCHANGED <<ExpCmdSN, MaxCmdSN, StatSN, refused>>
    BY <1>3 DEF ReadCommand
  <2>2. SessTypes' /\ StatTypes'
    BY <1>1, <1>2, <2>1 DEF SessTypes, StatTypes
  <2>3. AuxTypes'
    BY <1>1, <2>1, FateTypes, MoveType DEF AuxTypes
  <2>4. WorkTypes' /\ InHand' /\ WakeupOwed'
    BY <1>2, <2>1, HandFrame
  <2> QED BY <1>2, <2>2, <2>3, <2>4, TypePartsNext DEF Basis
<1>4. CASE ~(Early(pdu'[c]) /\ Connections > 1)
  <2>1. Check(c, pdu'[c])
    BY <1>4 DEF ReadCommand
  <2>2. /\ ExpCmdSN' \in Nat /\ MaxCmdSN' \in Nat
        /\ StatTypes' /\ AuxTypes'
        /\ wk' \in {[wk EXCEPT ![c] = "exit"], [wk EXCEPT ![c] = "held"]}
    BY <1>0, <1>2, <2>1, CheckTypes
  <2>3. SessTypes'
    BY <1>1, <1>2, <2>2 DEF SessTypes
  <2>4. WorkTypes' /\ InHand' /\ WakeupOwed'
    BY <1>2, <2>2, HandFrame
  <2> QED BY <1>2, <2>2, <2>3, <2>4, TypePartsNext DEF Basis
<1> QED BY <1>3, <1>4

LEMMA ReadTextBasis ==
  ASSUME Basis, NEW c \in Conns, ReadText(c)
  PROVE  Basis'
<1>0. TypeOK /\ Take(c)
  BY DEF Basis, ReadText
<1>1. /\ SessTypes /\ StatTypes /\ WorkTypes /\ AuxTypes
  BY <1>0, TypeParts
<1>2. /\ pdu'[c] \in Command
      /\ \A d \in Conns \ {c} : pdu'[d] = pdu[d]
      /\ pdu' \in [Conns -> Command \cup {None}]
      /\ NetTypes' /\ OutTypes' /\ SentTypes' /\ req_mcs_cond' = req_mcs_cond
      /\ wout' = wout
  BY <1>0, TakeTypes
<1>3. SessTypes'
  BY <1>1, <1>2 DEF ReadText, SessTypes
<1>4. pdu'[c].ack \in Nat
  BY <1>2, CommandFields
<1>5. StatTypes'
  BY <1>1, <1>4 DEF ReadText, StatTypes
<1>6. \/ Refuse(c, pdu'[c])
      \/ /\ wk' = [wk EXCEPT ![c] = "held"]
         /\ Move(Own(pdu'[c]), "hand", c) /\ UNCHANGED refused
  BY DEF ReadText
<1>7. AuxTypes'
  BY <1>1, <1>6, FateTypes, MoveType DEF AuxTypes, Refuse
<1>8. WorkTypes' /\ InHand' /\ WakeupOwed'
  BY <1>2, <1>6, HandFrame DEF Refuse
<1> QED BY <1>2, <1>3, <1>5, <1>7, <1>8, TypePartsNext DEF Basis

LEMMA ReadTaskBasis ==
  ASSUME Basis, NEW c \in Conns, ReadTask(c)
  PROVE  Basis'
<1>0. TypeOK /\ Take(c)
  BY DEF Basis, ReadTask
<1>1. /\ SessTypes /\ StatTypes /\ WorkTypes /\ AuxTypes
  BY <1>0, TypeParts
<1>2. /\ pdu'[c] \in Command
      /\ \A d \in Conns \ {c} : pdu'[d] = pdu[d]
      /\ pdu' \in [Conns -> Command \cup {None}]
      /\ NetTypes' /\ OutTypes' /\ SentTypes' /\ req_mcs_cond' = req_mcs_cond
      /\ wout' = wout
  BY <1>0, TakeTypes
<1>3. pdu'[c].ack \in Nat /\ pdu'[c].n \in Nat
  BY <1>2, CommandFields
<1>4. SessTypes'
  BY <1>1, <1>2, <1>3 DEF ReadTask, SessTypes
<1>5. StatTypes'
  BY <1>1, <1>3 DEF ReadTask, StatTypes, Acked
<1>6. /\ wk' = [wk EXCEPT ![c] = "held"]
      /\ Move(Own(pdu'[c]), "hand", c) /\ UNCHANGED refused
  BY DEF ReadTask
<1>7. AuxTypes'
  BY <1>1, <1>6, FateTypes, MoveType DEF AuxTypes
<1>8. WorkTypes' /\ InHand' /\ WakeupOwed'
  BY <1>2, <1>6, HandFrame
<1> QED BY <1>2, <1>4, <1>5, <1>7, <1>8, TypePartsNext DEF Basis

LEMMA McsTestBasis ==
  ASSUME Basis, NEW c \in Conns, McsTest(c)
  PROVE  Basis'
<1>1. /\ TypeOK /\ InHand /\ WakeupOwed
      /\ SessTypes /\ StatTypes /\ WorkTypes /\ OutTypes /\ NetTypes /\ SentTypes /\ AuxTypes
  BY TypeParts DEF Basis
<1>2. pdu[c] \in Command
  BY <1>1 DEF McsTest, InHand
<1>3. UNCHANGED <<pdu, wout>> /\ OutTypes' /\ NetTypes' /\ SentTypes'
  BY <1>1 DEF McsTest, outVars, netVars, initVars, OutTypes, NetTypes, SentTypes
<1>4. CASE Early(pdu[c])
  <2>1. /\ wk' = [wk EXCEPT ![c] = "asleep"]
        /\ req_mcs_cond' = req_mcs_cond + 1
        /\ UNCHANGED <<ExpCmdSN, MaxCmdSN, StatSN, at, refused>>
    BY <1>4 DEF McsTest, auxVars
  <2>2. SessTypes' /\ StatTypes' /\ AuxTypes'
    BY <1>1, <2>1 DEF SessTypes, StatTypes, AuxTypes
  <2>3. WorkTypes' /\ InHand'
    BY <1>1, <1>2, <1>3, <2>1 DEF WorkTypes, Places, InHand
  <2>4. WakeupOwed'
    BY <1>1, <2>1 DEF SessTypes, WakeupOwed
  <2> QED BY <1>3, <2>2, <2>3, <2>4, TypePartsNext DEF Basis
<1>5. CASE ~Early(pdu[c])
  <2>1. Check(c, pdu[c]) /\ UNCHANGED req_mcs_cond
    BY <1>5 DEF McsTest
  <2>2. /\ ExpCmdSN' \in Nat /\ MaxCmdSN' \in Nat
        /\ StatTypes' /\ AuxTypes'
        /\ wk' \in {[wk EXCEPT ![c] = "exit"], [wk EXCEPT ![c] = "held"]}
    BY <1>1, <1>2, <2>1, CheckTypes
  <2>3. SessTypes'
    BY <1>1, <2>1, <2>2 DEF SessTypes
  <2>4. WorkTypes' /\ InHand' /\ WakeupOwed'
    BY <1>1, <1>2, <1>3, <2>1, <2>2, HandFrame DEF WorkTypes
  <2> QED BY <1>3, <2>2, <2>3, <2>4, TypePartsNext DEF Basis
<1> QED BY <1>4, <1>5

LEMMA McsTimeOutBasis ==
  ASSUME Basis, NEW c \in Conns, McsTimeOut(c)
  PROVE  Basis'
<1>1. /\ TypeOK /\ InHand /\ WakeupOwed
      /\ SessTypes /\ StatTypes /\ WorkTypes /\ OutTypes /\ NetTypes /\ SentTypes /\ AuxTypes
  BY TypeParts DEF Basis
<1>2. pdu[c] \in Command
  BY <1>1 DEF McsTimeOut, InHand
<1>3. /\ UNCHANGED <<pdu, wout, req_mcs_cond>> /\ OutTypes' /\ NetTypes' /\ SentTypes'
  BY <1>1 DEF McsTimeOut, outVars, netVars, initVars, OutTypes, NetTypes, SentTypes
<1>4. /\ ExpCmdSN' \in Nat /\ MaxCmdSN' \in Nat
      /\ StatTypes' /\ AuxTypes'
      /\ wk' \in {[wk EXCEPT ![c] = "exit"], [wk EXCEPT ![c] = "held"]}
  <2>1. CASE Early(pdu[c])
    <3>1. Refuse(c, pdu[c]) /\ UNCHANGED <<ExpCmdSN, MaxCmdSN, StatSN>>
      BY <2>1 DEF McsTimeOut
    <3> QED BY <1>1, <3>1, FateTypes, MoveType DEF Refuse, SessTypes, StatTypes, AuxTypes
  <2>2. CASE ~Early(pdu[c])
    BY <1>1, <1>2, <2>2, CheckTypes DEF McsTimeOut
  <2> QED BY <2>1, <2>2
<1>5. SessTypes'
  BY <1>1, <1>3, <1>4 DEF SessTypes
<1>6. WorkTypes' /\ InHand' /\ WakeupOwed'
  BY <1>1, <1>2, <1>3, <1>4, HandFrame DEF WorkTypes
<1> QED BY <1>3, <1>4, <1>5, <1>6, TypePartsNext DEF Basis

(* A delivery that wakes leaves nobody asleep; one that does not leaves    *)
(* the count as it is.                                                     *)
LEMMA DeliverBasis ==
  ASSUME Basis, NEW c \in Conns, Deliver(c)
  PROVE  Basis'
<1>1. /\ TypeOK /\ InHand /\ WakeupOwed
      /\ SessTypes /\ StatTypes /\ WorkTypes /\ OutTypes /\ NetTypes /\ SentTypes /\ AuxTypes
  BY TypeParts DEF Basis
<1> DEFINE p == pdu[c]
<1>2. p \in Command
  BY <1>1 DEF Deliver, InHand
<1>3. /\ Own(p) \in SUBSET Numbers
  BY <1>2, CommandFields
<1>4. /\ UNCHANGED <<MaxCmdSN, StatSN, wout, sout, result_queue, pdu>>
      /\ StatTypes' /\ NetTypes' /\ SentTypes'
  BY <1>1 DEF Deliver, netVars, initVars, StatTypes, NetTypes, SentTypes
<1>5. SessTypes'
  BY <1>1 DEF Deliver, Waiting, Wakes, SessTypes
<1>6. \/ /\ queued' = [queued EXCEPT ![c] =
              [own |-> @.own \cup Own(p), imm |-> IF p.imm THEN @.imm + 1 ELSE @.imm]]
         /\ wk' = [Awake(p) EXCEPT ![c] = "idle"]
         /\ Move(Own(p), "queued", c) /\ UNCHANGED refused
      \/ /\ wk' = [Awake(p) EXCEPT ![c] = "now"]
         /\ Move(Own(p), "now", c) /\ UNCHANGED <<queued, refused>>
  BY DEF Deliver
<1>7. queued' \in [Conns -> [own: SUBSET Numbers, imm: Nat]]
  <2> DEFINE Q == [own: SUBSET Numbers, imm: Nat]
             k == IF p.imm THEN queued[c].imm + 1 ELSE queued[c].imm
  <2>1. queued[c] \in Q /\ queued \in [Conns -> Q]
    BY <1>1 DEF OutTypes
  <2>2. queued[c].own \cup Own(p) \in SUBSET Numbers /\ k \in Nat
    BY <1>3, <2>1
  <2>3. \/ queued' = queued
        \/ queued' = [queued EXCEPT ![c] = [own |-> queued[c].own \cup Own(p), imm |-> k]]
    BY <1>6
  <2> HIDE DEF k
  <2>4. [own |-> queued[c].own \cup Own(p), imm |-> k] \in Q
    BY <2>2
  <2> HIDE DEF Q
  <2>5. queued' \in [Conns -> Q]
    BY <2>1, <2>3, <2>4
  <2> QED BY <2>5 DEF Q
<1>8. OutTypes'
  BY <1>1, <1>4, <1>7 DEF OutTypes
<1>9. AuxTypes'
  BY <1>1, <1>6, FateTypes, MoveType DEF AuxTypes
<1>10. PICK place \in {"idle", "now"} : wk' = [Awake(p) EXCEPT ![c] = place]
  BY <1>6
<1>11. /\ Awake(p) \in [Conns -> Places]
       /\ \A d \in Conns : Awake(p)[d] = IF Wakes(p) /\ wk[d] = "asleep" THEN "mcs" ELSE wk[d]
  BY <1>1 DEF Awake, WorkTypes, Places
<1>12. /\ wk' \in [Conns -> Places] /\ wk'[c] = place
       /\ \A d \in Conns \ {c} : wk'[d] = IF Wakes(p) /\ wk[d] = "asleep" THEN "mcs" ELSE wk[d]
  BY <1>10, <1>11 DEF Places
<1>13. WorkTypes'
  BY <1>1, <1>4, <1>12 DEF WorkTypes
<1>14. InHand'
  <2> SUFFICES ASSUME NEW d \in Conns
               PROVE  /\ wk'[d] \in {"mcs", "asleep", "held", "now"} => pdu'[d] \in Command
                      /\ wk'[d] = "write" => wout'[d] \in Rsp
    BY DEF InHand
  <2>1. CASE d = c
    BY <1>2, <1>4, <1>12, <2>1
  <2>2. CASE d # c
    BY <1>1, <1>4, <1>12, <2>2 DEF InHand
  <2> QED BY <2>1, <2>2
<1>15. WakeupOwed'
  <2>1. CASE Wakes(p)
    BY <1>12, <2>1 DEF WakeupOwed
  <2>2. CASE ~Wakes(p)
    <3>1. req_mcs_cond' = req_mcs_cond
      BY <2>2 DEF Deliver, Waiting
    <3> QED BY <1>1, <1>12, <2>2, <3>1 DEF WakeupOwed
  <2> QED BY <2>1, <2>2
<1> QED BY <1>4, <1>5, <1>8, <1>9, <1>13, <1>14, <1>15, TypePartsNext DEF Basis

(* The numbers of a response, for the types.                               *)
LEMMA NumberTypes ==
  ASSUME TypeOK, NEW c \in Conns, NEW own, NEW advance \in BOOLEAN,
         Number(c, own, advance), UNCHANGED <<req_mcs_cond, refused>>
  PROVE  SessTypes' /\ StatTypes' /\ AuxTypes' /\ NumberedRsp(c) \in Rsp
<1>1. SessTypes /\ StatTypes /\ AuxTypes
  BY TypeParts
<1>2. SessTypes'
  BY <1>1 DEF Number, Opens, SessTypes
<1>3. StatTypes'
  BY <1>1 DEF Number, StatTypes
<1>4. AuxTypes'
  BY <1>1, FateTypes, MoveType DEF Number, AuxTypes
<1>5. NumberedRsp(c) \in Rsp
  BY <1>1, <1>2 DEF NumberedRsp, Rsp, SessTypes, StatTypes
<1> QED BY <1>2, <1>3, <1>4, <1>5

LEMMA PostTypes ==
  ASSUME TypeOK, NEW c \in Conns, NEW type \in {"RESPONSE", "REQPDU", "REQUPDPDU"},
         NEW own \in SUBSET Numbers, NEW rsp \in Rsp \cup {None}, Post(c, type, own, rsp)
  PROVE  result_queue' \in [Conns -> Seq(Result)]
<1> DEFINE r == [type |-> type, own |-> own, rsp |-> rsp]
<1>1. r \in Result
  BY DEF Result
<1>2. result_queue \in [Conns -> Seq(Result)]
  BY DEF TypeOK
<1>3. result_queue' = [result_queue EXCEPT ![c] = Append(@, r)]
  BY DEF Post
<1> HIDE DEF r
<1> QED BY <1>1, <1>2, <1>3

LEMMA DirectTypes ==
  ASSUME TypeOK, NEW c \in Conns, WriteDirect(c), NumberedRsp(c) \in Rsp
  PROVE  /\ wk' = [wk EXCEPT ![c] = "write"] /\ result_queue' = result_queue
         /\ wout' \in [Conns -> Rsp \cup {None}] /\ wout'[c] \in Rsp
         /\ \A d \in Conns \ {c} : wout'[d] = wout[d]
<1>1. wout \in [Conns -> Rsp \cup {None}]
  BY DEF TypeOK
<1> DEFINE r == NumberedRsp(c)
<1>2. /\ wout' = [wout EXCEPT ![c] = r] /\ wk' = [wk EXCEPT ![c] = "write"]
      /\ UNCHANGED result_queue
  BY DEF WriteDirect
<1> HIDE DEF r
<1>3. r \in Rsp
  BY DEF r
<1> QED BY <1>1, <1>2, <1>3

(* A worker is done with its command: its response is posted, or it goes   *)
(* on to write it.                                                         *)
Answering(c) ==
  /\ \/ wk' = [wk EXCEPT ![c] = "idle"] /\ UNCHANGED wout
     \/ /\ wk' = [wk EXCEPT ![c] = "write"] /\ wout'[c] \in Rsp
        /\ \A d \in Conns \ {c} : wout'[d] = wout[d]
  /\ wout' \in [Conns -> Rsp \cup {None}]
  /\ result_queue' \in [Conns -> Seq(Result)]

LEMMA DirectAnswering ==
  ASSUME TypeOK, NEW c \in Conns, WriteDirect(c), NumberedRsp(c) \in Rsp
  PROVE  Answering(c)
<1>1. result_queue \in [Conns -> Seq(Result)]
  BY DEF TypeOK
<1> QED BY <1>1, DirectTypes DEF Answering

LEMMA PduAnswering ==
  ASSUME TypeOK, NEW c \in Conns, WritePdu(c), NumberedRsp(c) \in Rsp
  PROVE  Answering(c)
<1>1. CASE UseSender
  <2>1. /\ Post(c, "REQPDU", {}, NumberedRsp(c))
        /\ wk' = [wk EXCEPT ![c] = "idle"] /\ UNCHANGED wout
    BY <1>1 DEF WritePdu
  <2>2. {} \in SUBSET Numbers /\ NumberedRsp(c) \in Rsp \cup {None}
    OBVIOUS
  <2>3. result_queue' \in [Conns -> Seq(Result)]
    BY <2>1, <2>2, PostTypes
  <2> QED BY <2>1, <2>3 DEF Answering, TypeOK
<1>2. CASE ~UseSender
  BY <1>2, DirectAnswering DEF WritePdu
<1> QED BY <1>1, <1>2

(* A worker's step that answers keeps the invariant when what it does      *)
(* elsewhere keeps the types.                                              *)
LEMMA AnsweringBasis ==
  ASSUME Basis, NEW c \in Conns, Answering(c), UNCHANGED <<pdu, req_mcs_cond, sout>>,
         queued' \in [Conns -> [own: SUBSET Numbers, imm: Nat]],
         UNCHANGED <<netVars, initVars>>, SessTypes', StatTypes', AuxTypes'
  PROVE  Basis'
<1>1. WorkTypes /\ OutTypes /\ NetTypes /\ SentTypes
  BY TypeParts DEF Basis
<1>2. OutTypes'
  BY <1>1 DEF Answering, OutTypes
<1>3. NetTypes' /\ SentTypes'
  BY <1>1 DEF NetTypes, SentTypes, netVars, initVars
<1>4. \E place \in {"idle", "write"} :
        /\ wk' = [wk EXCEPT ![c] = place]
        /\ \A d \in Conns \ {c} : wout'[d] = wout[d]
        /\ place = "write" => wout'[c] \in Rsp
  BY DEF Answering
<1>5. WorkTypes' /\ InHand' /\ WakeupOwed'
  BY <1>4, WorkerFrame DEF Places
<1> QED BY <1>2, <1>3, <1>5, TypePartsNext DEF Basis

LEMMA AnswerNowBasis ==
  ASSUME Basis, NEW c \in Conns, AnswerNow(c)
  PROVE  Basis'
<1>1. TypeOK /\ OutTypes
  BY TypeParts DEF Basis
<1>2. /\ Number(c, Own(pdu[c]), FALSE) /\ (WritePdu(c) \/ WriteDirect(c))
      /\ UNCHANGED <<req_mcs_cond, pdu, sout, queued, netVars, initVars, refused>>
  BY DEF AnswerNow
<1>3. SessTypes' /\ StatTypes' /\ AuxTypes' /\ NumberedRsp(c) \in Rsp
  BY <1>1, <1>2, NumberTypes
<1>4. Answering(c)
  BY <1>1, <1>2, <1>3, PduAnswering, DirectAnswering
<1>5. queued' \in [Conns -> [own: SUBSET Numbers, imm: Nat]]
  BY <1>1, <1>2 DEF OutTypes
<1> QED BY <1>2, <1>3, <1>4, <1>5, AnsweringBasis

LEMMA AnswerTextBasis ==
  ASSUME Basis, NEW c \in Conns, AnswerText(c)
  PROVE  Basis'
<1>1. TypeOK /\ OutTypes
  BY TypeParts DEF Basis
<1>2. /\ WritePdu(c)
      /\ StatSN' = [StatSN EXCEPT ![c] = @ + 1]
      /\ MaxCmdSN' = MaxCmdSN + 1 /\ ExpCmdSN' = ExpCmdSN + 1
      /\ Move(Own(pdu[c]), "answered", None)
      /\ UNCHANGED <<req_mcs_cond, pdu, sout, queued, netVars, initVars, refused>>
  BY DEF AnswerText
<1>3. SessTypes' /\ StatTypes' /\ AuxTypes' /\ NumberedRsp(c) \in Rsp
  <2>1. SessTypes /\ StatTypes /\ AuxTypes
    BY <1>1, TypeParts
  <2>2. SessTypes'
    BY <1>2, <2>1 DEF SessTypes
  <2>3. StatTypes'
    BY <1>2, <2>1 DEF StatTypes
  <2>4. AuxTypes'
    BY <1>2, <2>1, FateTypes, MoveType DEF AuxTypes
  <2>5. NumberedRsp(c) \in Rsp
    BY <1>2, <2>1, <2>2 DEF NumberedRsp, Rsp, SessTypes, StatTypes
  <2> QED BY <2>2, <2>3, <2>4, <2>5
<1>4. Answering(c)
  BY <1>1, <1>2, <1>3, PduAnswering
<1>5. queued' \in [Conns -> [own: SUBSET Numbers, imm: Nat]]
  BY <1>1, <1>2 DEF OutTypes
<1> QED BY <1>2, <1>3, <1>4, <1>5, AnsweringBasis

(* NOP-Out and task management, whose number the sender may give.          *)
LEMMA NumberUpdBasis ==
  ASSUME Basis, NEW c \in Conns, wk[c] = "held", NumberUpd(c, Own(pdu[c])),
         UNCHANGED <<req_mcs_cond, pdu, sout, queued, netVars, initVars, refused>>
  PROVE  Basis'
<1>1. TypeOK /\ InHand /\ SessTypes /\ StatTypes /\ OutTypes /\ AuxTypes
  BY TypeParts DEF Basis
<1>2. Own(pdu[c]) \in SUBSET Numbers
  BY <1>1, CommandFields DEF InHand
<1>3. queued' \in [Conns -> [own: SUBSET Numbers, imm: Nat]]
  BY <1>1 DEF OutTypes
<1>4. CASE UseSender
  <2>1. /\ Post(c, "REQUPDPDU", Own(pdu[c]), None)
        /\ wk' = [wk EXCEPT ![c] = "idle"]
        /\ Move(Own(pdu[c]), "result", c)
        /\ UNCHANGED <<StatSN, MaxCmdSN, ExpCmdSN, wout>>
    BY <1>4 DEF NumberUpd
  <2>2. None \in Rsp \cup {None}
    OBVIOUS
  <2>3. Answering(c)
    BY <1>1, <1>2, <2>1, <2>2, PostTypes DEF Answering, TypeOK
  <2>4. SessTypes' /\ StatTypes' /\ AuxTypes'
    BY <1>1, <2>1, FateTypes, MoveType DEF SessTypes, StatTypes, AuxTypes
  <2> QED BY <1>3, <2>3, <2>4, AnsweringBasis
<1>5. CASE ~UseSender
  <2>1. Number(c, Own(pdu[c]), TRUE) /\ WriteDirect(c)
    BY <1>5 DEF NumberUpd
  <2>2. SessTypes' /\ StatTypes' /\ AuxTypes' /\ NumberedRsp(c) \in Rsp
    BY <1>1, <2>1, NumberTypes
  <2>3. Answering(c)
    BY <1>1, <2>1, <2>2, DirectAnswering
  <2> QED BY <1>3, <2>2, <2>3, AnsweringBasis
<1> QED BY <1>4, <1>5

LEMMA EndTaskTypes ==
  ASSUME TypeOK, NEW c \in Conns, NEW own \in OwnSets, TaskOf(c, own), EndTask(c, own)
  PROVE  queued' \in [Conns -> [own: SUBSET Numbers, imm: Nat]]
<1> DEFINE Q == [own: SUBSET Numbers, imm: Nat]
           k == IF own = {} THEN queued[c].imm - 1 ELSE queued[c].imm
<1>1. queued \in [Conns -> Q] /\ queued[c] \in Q
  BY DEF TypeOK
<1>2. queued[c].own \ own \in SUBSET Numbers /\ k \in Nat
  BY <1>1 DEF TaskOf
<1>3. queued' = [queued EXCEPT ![c] = [own |-> queued[c].own \ own, imm |-> k]]
  BY DEF EndTask
<1> HIDE DEF k
<1>4. [own |-> queued[c].own \ own, imm |-> k] \in Q
  BY <1>2
<1> HIDE DEF Q
<1>5. queued' \in [Conns -> Q]
  BY <1>1, <1>3, <1>4
<1> QED BY <1>5 DEF Q

LEMMA AnswerDoneBasis ==
  ASSUME Basis, NEW c \in Conns, NEW own \in OwnSets, AnswerDone(c, own)
  PROVE  Basis'
<1>1. TypeOK
  BY DEF Basis
<1>2. /\ TaskOf(c, own) /\ EndTask(c, own) /\ Number(c, own, FALSE) /\ WriteDirect(c)
      /\ UNCHANGED <<req_mcs_cond, pdu, sout, netVars, initVars, refused>>
  BY DEF AnswerDone
<1>3. SessTypes' /\ StatTypes' /\ AuxTypes' /\ NumberedRsp(c) \in Rsp
  BY <1>1, <1>2, NumberTypes
<1>4. Answering(c)
  BY <1>1, <1>2, <1>3, DirectAnswering
<1>5. queued' \in [Conns -> [own: SUBSET Numbers, imm: Nat]]
  BY <1>1, <1>2, EndTaskTypes
<1> QED BY <1>2, <1>3, <1>4, <1>5, AnsweringBasis

LEMMA AbortTaskBasis ==
  ASSUME Basis, NEW c \in Conns, AbortTask(c)
  PROVE  Basis'
<1>1. /\ TypeOK /\ InHand /\ WakeupOwed
      /\ SessTypes /\ StatTypes /\ WorkTypes /\ OutTypes /\ NetTypes /\ SentTypes /\ AuxTypes
  BY TypeParts DEF Basis
<1>2. PICK d \in Conns, own \in OwnSets :
        TaskOf(d, own) /\ EndTask(d, own) /\ Move(own, "dropped", None)
  BY DEF AbortTask
<1>3. queued' \in [Conns -> [own: SUBSET Numbers, imm: Nat]]
  BY <1>1, <1>2, EndTaskTypes
<1>4. OutTypes'
  BY <1>1, <1>3 DEF AbortTask, OutTypes
<1>5. AuxTypes'
  BY <1>1, <1>2, FateTypes, MoveType DEF AbortTask, AuxTypes
<1>6. /\ SessTypes' /\ StatTypes' /\ WorkTypes' /\ NetTypes' /\ SentTypes'
      /\ InHand' /\ WakeupOwed'
  BY <1>1 DEF AbortTask, sessVars, workVars, netVars, initVars, SessTypes, StatTypes, WorkTypes,
         NetTypes, SentTypes, InHand, WakeupOwed
<1> QED BY <1>4, <1>5, <1>6, TypePartsNext DEF Basis

LEMMA EndPingBasis ==
  ASSUME Basis, NEW c \in Conns, EndPing(c)
  PROVE  Basis'
<1>1. /\ SessTypes /\ StatTypes /\ OutTypes /\ NetTypes /\ SentTypes /\ AuxTypes
  BY TypeParts DEF Basis
<1>2. /\ SessTypes' /\ StatTypes' /\ OutTypes' /\ NetTypes' /\ SentTypes' /\ AuxTypes'
      /\ UNCHANGED <<pdu, req_mcs_cond, wout>>
  BY <1>1 DEF EndPing, sessVars, outVars, netVars, initVars, auxVars, SessTypes, StatTypes,
         OutTypes, NetTypes, SentTypes, AuxTypes
<1>3. WorkTypes' /\ InHand' /\ WakeupOwed'
  BY <1>2, WorkerFrame DEF EndPing, Places
<1> QED BY <1>2, <1>3, TypePartsNext DEF Basis

LEMMA HangUpBasis ==
  ASSUME Basis, NEW c \in Conns, HangUp(c)
  PROVE  Basis'
<1>1. /\ SessTypes /\ StatTypes /\ OutTypes /\ NetTypes /\ SentTypes /\ AuxTypes
  BY TypeParts DEF Basis
<1>2. /\ SessTypes' /\ StatTypes' /\ OutTypes' /\ NetTypes' /\ SentTypes' /\ AuxTypes'
      /\ UNCHANGED <<pdu, req_mcs_cond, wout>>
  BY <1>1 DEF HangUp, sessVars, outVars, netVars, initVars, auxVars, SessTypes, StatTypes,
         OutTypes, NetTypes, SentTypes, AuxTypes
<1>3. WorkTypes' /\ InHand' /\ WakeupOwed'
  BY <1>2, WorkerFrame DEF HangUp, Places
<1> QED BY <1>2, <1>3, TypePartsNext DEF Basis

LEMMA ToWireType ==
  ASSUME NEW c \in Conns, NEW r \in Rsp, wire \in [Conns -> Seq(Rsp)], ToWire(c, r)
  PROVE  wire' \in [Conns -> Seq(Rsp)]
  BY DEF ToWire

LEMMA WorkerWriteBasis ==
  ASSUME Basis, NEW c \in Conns, WorkerWrite(c)
  PROVE  Basis'
<1>1. /\ InHand
      /\ SessTypes /\ StatTypes /\ WorkTypes /\ OutTypes /\ NetTypes /\ SentTypes /\ AuxTypes
  BY TypeParts DEF Basis
<1>2. wout[c] \in Rsp
  BY <1>1 DEF WorkerWrite, InHand
<1>3. NetTypes'
  BY <1>1, <1>2, ToWireType DEF WorkerWrite, NetTypes
<1>4. OutTypes'
  BY <1>1 DEF WorkerWrite, OutTypes
<1>5. SessTypes' /\ StatTypes' /\ SentTypes' /\ AuxTypes' /\ UNCHANGED <<pdu, req_mcs_cond>>
  BY <1>1 DEF WorkerWrite, sessVars, initVars, auxVars, SessTypes, StatTypes, SentTypes, AuxTypes
<1>6. \A d \in Conns \ {c} : wout'[d] = wout[d]
  BY <1>1 DEF WorkerWrite, OutTypes
<1>7. \E place \in {"exit", "idle"} : wk' = [wk EXCEPT ![c] = place]
  BY DEF WorkerWrite
<1>8. WorkTypes' /\ InHand' /\ WakeupOwed'
  BY <1>5, <1>6, <1>7, WorkerFrame DEF Places
<1> QED BY <1>3, <1>4, <1>5, <1>8, TypePartsNext DEF Basis

LEMMA LeaveBasis ==
  ASSUME Basis, NEW c \in Conns, Leave(c)
  PROVE  Basis'
<1>1. /\ SessTypes /\ StatTypes /\ WorkTypes /\ OutTypes /\ NetTypes /\ SentTypes /\ AuxTypes
  BY TypeParts DEF Basis
<1> DEFINE Q == [own: SUBSET Numbers, imm: Nat]
<1>2. queued' \in [Conns -> Q]
  <2>1. PICK own \in SUBSET UNION {queued[d].own : d \in Conns}, imm \in 0 .. imms :
          queued' = Executed(c, own, imm)
    BY DEF Leave
  <2>2. \A d \in Conns :
          (IF d = c THEN [own |-> {}, imm |-> 0]
           ELSE [own |-> queued[d].own \cap own,
                 imm |-> IF queued[d].imm > imm THEN imm ELSE queued[d].imm]) \in Q
    <3> SUFFICES ASSUME NEW d \in Conns
                 PROVE  /\ [own |-> {}, imm |-> 0] \in Q
                        /\ [own |-> queued[d].own \cap own,
                            imm |-> IF queued[d].imm > imm THEN imm ELSE queued[d].imm] \in Q
      OBVIOUS
    <3>1. queued[d].own \in SUBSET Numbers /\ queued[d].imm \in Nat /\ imm \in Nat
      BY <1>1, <2>1 DEF OutTypes, SentTypes
    <3> DEFINE k == IF queued[d].imm > imm THEN imm ELSE queued[d].imm
    <3>2. k \in Nat /\ queued[d].own \cap own \in SUBSET Numbers
      BY <3>1
    <3> HIDE DEF k
    <3>3. [own |-> queued[d].own \cap own, imm |-> k] \in Q
      BY <3>2
    <3> QED BY <3>3 DEF k
  <2> HIDE DEF Q
  <2> QED BY <2>1, <2>2 DEF Executed
<1>3. OutTypes'
  BY <1>1, <1>2 DEF Leave, OutTypes
<1>4. NetTypes'
  BY <1>1 DEF Leave, NetTypes
<1>5. AuxTypes'
  BY <1>1, FateTypes DEF Leave, AuxTypes
<1>6. SessTypes' /\ StatTypes' /\ SentTypes' /\ UNCHANGED <<pdu, req_mcs_cond>>
  BY <1>1 DEF Leave, sessVars, initVars, SessTypes, StatTypes, SentTypes
<1>7. \A d \in Conns \ {c} : wout'[d] = wout[d]
  BY <1>1 DEF Leave, OutTypes
<1>8. WorkTypes' /\ InHand' /\ WakeupOwed'
  BY <1>6, <1>7, WorkerFrame DEF Leave, Places
<1> QED BY <1>3, <1>4, <1>5, <1>6, <1>8, TypePartsNext DEF Basis

LEMMA TaskDoneBasis ==
  ASSUME Basis, NEW c \in Conns, NEW own \in OwnSets, TaskDone(c, own)
  PROVE  Basis'
<1>1. /\ TypeOK /\ InHand /\ WakeupOwed
      /\ SessTypes /\ StatTypes /\ WorkTypes /\ OutTypes /\ NetTypes /\ SentTypes /\ AuxTypes
  BY TypeParts DEF Basis
<1>2. /\ TaskOf(c, own) /\ EndTask(c, own)
      /\ Post(c, "RESPONSE", own, None) /\ Move(own, "result", c)
  BY DEF TaskDone
<1>3. queued' \in [Conns -> [own: SUBSET Numbers, imm: Nat]]
  BY <1>1, <1>2, EndTaskTypes
<1>4. own \in SUBSET Numbers
  BY DEF OwnSets
<1>5. result_queue' \in [Conns -> Seq(Result)]
  <2>1. None \in Rsp \cup {None}
    OBVIOUS
  <2> QED BY <1>1, <1>2, <1>4, <2>1, PostTypes
<1>6. OutTypes'
  BY <1>1, <1>3, <1>5 DEF TaskDone, OutTypes
<1>7. AuxTypes'
  BY <1>1, <1>2, FateTypes, MoveType DEF TaskDone, AuxTypes
<1>8. /\ SessTypes' /\ StatTypes' /\ WorkTypes' /\ NetTypes' /\ SentTypes'
      /\ InHand' /\ WakeupOwed'
  BY <1>1 DEF TaskDone, sessVars, workVars, netVars, initVars, SessTypes, StatTypes, WorkTypes,
         NetTypes, SentTypes, InHand, WakeupOwed
<1> QED BY <1>6, <1>7, <1>8, TypePartsNext DEF Basis

LEMMA SenderTakeBasis ==
  ASSUME Basis, NEW c \in Conns, SenderTake(c)
  PROVE  Basis'
<1>1. /\ TypeOK /\ InHand /\ WakeupOwed
      /\ SessTypes /\ StatTypes /\ WorkTypes /\ OutTypes /\ NetTypes /\ SentTypes /\ AuxTypes
  BY TypeParts DEF Basis
<1> DEFINE r == Head(result_queue[c])
<1>2. r \in Result /\ Tail(result_queue[c]) \in Seq(Result)
  BY <1>1 DEF SenderTake, OutTypes
<1>3. /\ UNCHANGED <<req_mcs_cond, wout, queued, workVars, netVars, initVars, refused>>
      /\ result_queue' = [result_queue EXCEPT ![c] = Tail(@)]
  BY DEF SenderTake
<1>4. SessTypes' /\ StatTypes' /\ AuxTypes' /\ sout' \in [Conns -> Rsp \cup {None}]
  <2>1. CASE r.type = "REQPDU"
    <3>1. /\ sout' = [sout EXCEPT ![c] = r.rsp]
          /\ UNCHANGED <<StatSN, MaxCmdSN, ExpCmdSN, at>>
      BY <2>1 DEF SenderTake
    <3>2. r.rsp \in Rsp \cup {None}
      BY <1>2 DEF Result
    <3>3. sout' \in [Conns -> Rsp \cup {None}]
      BY <1>1, <3>1, <3>2 DEF OutTypes
    <3> QED BY <1>1, <1>3, <3>1, <3>3 DEF SessTypes, StatTypes, AuxTypes
  <2>2. CASE r.type # "REQPDU"
    <3>1. /\ Number(c, r.own, r.type = "REQUPDPDU")
          /\ sout' = [sout EXCEPT ![c] = NumberedRsp(c)]
      BY <2>2 DEF SenderTake
    <3>2. (r.type = "REQUPDPDU") \in BOOLEAN
      OBVIOUS
    <3>3. SessTypes' /\ StatTypes' /\ AuxTypes' /\ NumberedRsp(c) \in Rsp
      BY <1>1, <1>3, <3>1, <3>2, NumberTypes
    <3> DEFINE s == NumberedRsp(c)
    <3>4. sout' = [sout EXCEPT ![c] = s] /\ s \in Rsp
      BY <3>1, <3>3
    <3> HIDE DEF s
    <3>5. sout' \in [Conns -> Rsp \cup {None}]
      BY <1>1, <3>4 DEF OutTypes
    <3> QED BY <3>3, <3>5
  <2> QED BY <2>1, <2>2
<1>5. OutTypes'
  BY <1>1, <1>2, <1>3, <1>4 DEF OutTypes
<1>6. WorkTypes' /\ NetTypes' /\ SentTypes' /\ InHand' /\ WakeupOwed'
  BY <1>1, <1>3 DEF workVars, netVars, initVars, WorkTypes, NetTypes, SentTypes, InHand,
         WakeupOwed
<1> QED BY <1>4, <1>5, <1>6, TypePartsNext DEF Basis

LEMMA SenderWriteBasis ==
  ASSUME Basis, NEW c \in Conns, SenderWrite(c)
  PROVE  Basis'
<1>1. /\ InHand /\ WakeupOwed
      /\ SessTypes /\ StatTypes /\ WorkTypes /\ OutTypes /\ NetTypes /\ SentTypes /\ AuxTypes
  BY TypeParts DEF Basis
<1>2. sout[c] \in Rsp
  BY <1>1 DEF SenderWrite, OutTypes
<1>3. NetTypes'
  BY <1>1, <1>2, ToWireType DEF SenderWrite, NetTypes
<1>4. OutTypes'
  BY <1>1 DEF SenderWrite, OutTypes
<1>5. /\ SessTypes' /\ StatTypes' /\ WorkTypes' /\ SentTypes' /\ AuxTypes'
      /\ InHand' /\ WakeupOwed'
  BY <1>1 DEF SenderWrite, sessVars, workVars, initVars, auxVars, SessTypes, StatTypes,
         WorkTypes, SentTypes, AuxTypes, InHand, WakeupOwed
<1> QED BY <1>3, <1>4, <1>5, TypePartsNext DEF Basis

LEMMA StutterBasis ==
  ASSUME Basis, UNCHANGED vars
  PROVE  Basis'
  BY DEF Basis, TypeOK, InHand, WakeupOwed, vars, sessVars, outVars, workVars, netVars,
         initVars, auxVars

LEMMA NextBasis ==
  ASSUME Basis, [Next]_vars
  PROVE  Basis'
<1>1. CASE UNCHANGED vars
  BY <1>1, StutterBasis
<1>2. ASSUME NEW c \in Conns, Worker(c)
      PROVE  Basis'
  <2>1. CASE ReadCommand(c) \/ ReadText(c) \/ ReadTask(c) \/ McsTest(c) \/ McsTimeOut(c)
    BY <2>1, ReadCommandBasis, ReadTextBasis, ReadTaskBasis, McsTestBasis, McsTimeOutBasis
  <2>2. CASE Deliver(c) \/ AnswerNow(c) \/ EndPing(c) \/ AnswerText(c) \/ AbortTask(c)
    BY <2>2, DeliverBasis, AnswerNowBasis, EndPingBasis, AnswerTextBasis, AbortTaskBasis
  <2>3. CASE AnswerNop(c)
    BY <2>3, NumberUpdBasis DEF AnswerNop
  <2>4. CASE AnswerTask(c)
    BY <2>4, NumberUpdBasis DEF AnswerTask
  <2>5. CASE \E own \in OwnSets : AnswerDone(c, own)
    BY <2>5, AnswerDoneBasis
  <2>6. CASE WorkerWrite(c) \/ HangUp(c) \/ Leave(c)
    BY <2>6, WorkerWriteBasis, HangUpBasis, LeaveBasis
  <2> QED BY <1>2, <2>1, <2>2, <2>3, <2>4, <2>5, <2>6 DEF Worker
<1>3. ASSUME NEW c \in Conns, Sender(c)
      PROVE  Basis'
  BY <1>3, SenderTakeBasis, SenderWriteBasis DEF Sender
<1>4. ASSUME NEW c \in Conns, Initiator(c)
      PROVE  Basis'
  <2>1. ASSUME NEW k \in Kinds, NEW i \in BOOLEAN, Send(c, k, i)
        PROVE  Basis'
    <3>1. k \in AllKinds
      BY KindsAssumption
    <3> QED BY <2>1, <3>1, SendBasis
  <2> QED BY <1>4, <2>1, ReceiveBasis, CutBasis DEF Initiator
<1>5. ASSUME NEW c \in Conns, NEW own \in OwnSets, TaskDone(c, own)
      PROVE  Basis'
  BY <1>5, TaskDoneBasis
<1> QED BY <1>1, <1>2, <1>3, <1>4, <1>5 DEF Next

(* The invariant behind the others, for any number of connections, all     *)
(* kinds of commands, breaks, time-outs and aborts: no count falls below   *)
(* zero, what a worker holds and writes is there, and a worker asleep on   *)
(* mcs_cond is counted.                                                    *)
THEOREM BasisHolds == Spec => []Basis
  BY InitBasis, NextBasis, PTL DEF Spec

(* Every variable keeps its type, with all kinds of commands and broken    *)
(* connections: the counts of waiting workers, of immediate tasks and of   *)
(* the window never go below zero, and commands in hand are commands.      *)
THEOREM TypeCorrect == Spec => []TypeOK
<1>1. Basis => TypeOK
  BY DEF Basis
<1> QED BY <1>1, BasisHolds, PTL

(* While a worker sleeps on mcs_cond, req_mcs_cond is not zero, so that    *)
(* the next delivery of a command with a number of its own broadcasts.     *)
(* The count falls by one with each broadcast although the broadcast wakes *)
(* all, and it is not taken back by a time-out: what keeps it right is     *)
(* that after a broadcast nobody sleeps.                                   *)
THEOREM WakeupIsOwed == Spec => []WakeupOwed
<1>1. Basis => WakeupOwed
  BY DEF Basis
<1> QED BY <1>1, BasisHolds, PTL
-----------------------------------------------------------------------------
(* The order of commands, for sessions of SCSI commands and pings; NOP-Out *)
(* with an answer, Text and task management do not wait for their turn.    *)

Simple(p) == p.kind \in {"scsi", "ping"} /\ (p.kind = "ping" => p.imm)

(* What is on its way over a connection comes in the order of the numbers, *)
(* since one initiator counts for all connections.                         *)
Line(s) ==
  /\ \A i \in DOMAIN s : Simple(s[i])
  /\ \A i, j \in DOMAIN s : i < j => \A m \in Own(s[i]), n \in Own(s[j]) : m < n

(* Custody: every command that is not delivered yet is in one inbox or in  *)
(* one hand, the one that at names; tasks and responses have different     *)
(* numbers.                                                                *)
InboxIs(c) ==
  /\ Line(inbox[c])
  /\ \A n \in Numbers : at[n] = <<"inbox", c>> <=> n \in OwnIn(inbox[c])
  /\ wk[c] = "gone" => c \in cut /\ inbox[c] = <<>>

Grip(c) == IF wk[c] \in {"mcs", "asleep", "held"} THEN Own(pdu[c]) ELSE {}
HandIs(c) ==
  /\ wk[c] \in {"mcs", "asleep", "held", "now"} => Simple(pdu[c])
  /\ wk[c] \in {"mcs", "asleep"} => ~pdu[c].imm
  /\ wk[c] = "now" => \A n \in Own(pdu[c]) : at[n] = <<"now", c>>
  /\ \A n \in Numbers : at[n] = <<"hand", c>> <=> n \in Grip(c)

UnitIs(c) == \A n \in queued[c].own : at[n] = <<"queued", c>>

OwnSetsIn(s) == UNION {s[i].own : i \in DOMAIN s}
Apart(s) ==
  /\ \A i \in DOMAIN s : s[i].type # "REQUPDPDU" /\ s[i].own \in OwnSets
  /\ \A i, j \in DOMAIN s : s[i].own \cap s[j].own # {} => i = j
ResultIs(c) ==
  Apart(result_queue[c]) /\ \A n \in Posted(c) : at[n] = <<"result", c>>

InCustody(c) == InboxIs(c) /\ HandIs(c) /\ UnitIs(c) /\ ResultIs(c)
Custody == \A c \in Conns : InCustody(c)

SentIs == \A n \in Numbers : at[n] = <<"unsent", None>> <=> n >= nextN

(* ExpCmdSN parts what was delivered, or lost, from what was not; who is   *)
(* past the test has it, who sleeps is beyond it.                          *)
Turns ==
  /\ \A n \in Delivered : n < ExpCmdSN
  /\ \A n \in Numbers : n < ExpCmdSN => n \in Delivered \cup Lost
  /\ \A c \in Conns : Holds(c) => pdu[c].n = ExpCmdSN
  /\ \A c \in Conns : wk[c] = "asleep" => pdu[c].n > ExpCmdSN

(* MaxCmdSN moves with the answers, and no response promises more: what is *)
(* under way is within QueueDepth of ExpCmdSN, where serial numbers        *)
(* compare as counters do.                                                 *)
Answered == {n \in Numbers : at[n] = <<"answered", None>>}
Opened   == MaxCmdSN = (QueueDepth - 1) + Cardinality(Answered)
Allowed  == nextN <= winSN + 1 /\ winSN <= MaxCmdSN

Kept == {r \in Rsp : r.max <= MaxCmdSN}
Told(c) ==
  /\ wk[c] = "write" => wout[c] \in Kept
  /\ sout[c] # None => sout[c] \in Kept
  /\ wire[c] \in Seq(Kept)
  /\ \A i \in DOMAIN result_queue[c] :
       result_queue[c][i].type = "REQPDU" => result_queue[c][i].rsp \in Kept

Promised == Opened /\ Allowed /\ \A c \in Conns : Told(c)

Order == Custody /\ SentIs /\ Turns /\ Promised
OrderInv == Basis /\ Order

(* A command put at the end of a line.                                     *)
LEMMA LineAppend ==
  ASSUME NEW s \in Seq(Command), NEW p \in Command, Line(s), Simple(p),
         \A m \in OwnIn(s) : \A n \in Own(p) : m < n
  PROVE  Line(Append(s, p)) /\ OwnIn(Append(s, p)) = OwnIn(s) \cup Own(p)
<1> DEFINE t == Append(s, p)
<1>1. /\ Len(s) \in Nat /\ DOMAIN s = 1 .. Len(s)
      /\ DOMAIN t = 1 .. (Len(s) + 1)
      /\ \A i \in 1 .. Len(s) : t[i] = s[i]
      /\ t[Len(s) + 1] = p
  OBVIOUS
<1> HIDE DEF t
<1>2. Line(t)
  <2>1. \A i \in DOMAIN t : Simple(t[i])
    BY <1>1 DEF Line
  <2>2. ASSUME NEW i \in DOMAIN t, NEW j \in DOMAIN t, i < j,
               NEW m \in Own(t[i]), NEW n \in Own(t[j])
        PROVE  m < n
    <3>1. i \in DOMAIN s /\ t[i] = s[i]
      BY <1>1, <2>2
    <3>2. m \in OwnIn(s)
      BY <2>2, <3>1 DEF OwnIn
    <3>3. CASE j = Len(s) + 1
      BY <1>1, <2>2, <3>2, <3>3
    <3>4. CASE j # Len(s) + 1
      BY <1>1, <2>2, <3>1, <3>4 DEF Line
    <3> QED BY <3>3, <3>4
  <2> QED BY <2>1, <2>2 DEF Line
<1>3. OwnIn(t) = OwnIn(s) \cup Own(p)
  <2>1. ASSUME NEW n \in OwnIn(t)
        PROVE  n \in OwnIn(s) \cup Own(p)
    <3>1. PICK i \in DOMAIN t : n \in Own(t[i])
      BY <2>1 DEF OwnIn
    <3> QED BY <1>1, <3>1 DEF OwnIn
  <2>2. ASSUME NEW n \in OwnIn(s)
        PROVE  n \in OwnIn(t)
    <3>1. PICK i \in DOMAIN s : n \in Own(s[i])
      BY <2>2 DEF OwnIn
    <3>2. i \in DOMAIN t /\ n \in Own(t[i])
      BY <1>1, <3>1
    <3> QED BY <3>2 DEF OwnIn
  <2>3. ASSUME NEW n \in Own(p)
        PROVE  n \in OwnIn(t)
    <3>1. Len(s) + 1 \in DOMAIN t /\ n \in Own(t[Len(s) + 1])
      BY <1>1, <2>3
    <3> QED BY <3>1 DEF OwnIn
  <2> QED BY <2>1, <2>2, <2>3
<1> QED BY <1>2, <1>3 DEF t

(* The first of a line is the least.                                       *)
LEMMA LineHead ==
  ASSUME NEW s \in Seq(Command), s # <<>>, Line(s)
  PROVE  /\ Simple(Head(s)) /\ Line(Tail(s))
         /\ OwnIn(s) = Own(Head(s)) \cup OwnIn(Tail(s))
         /\ \A m \in Own(Head(s)) : \A n \in OwnIn(Tail(s)) : m < n
<1> DEFINE p == Head(s)
           t == Tail(s)
<1>1. /\ Len(s) \in Nat \ {0} /\ DOMAIN s = 1 .. Len(s)
      /\ DOMAIN t = 1 .. (Len(s) - 1)
      /\ \A i \in 1 .. (Len(s) - 1) : t[i] = s[i + 1]
      /\ s[1] = p
  OBVIOUS
<1> HIDE DEF p, t
<1>2. \A i \in DOMAIN t : i + 1 \in DOMAIN s /\ i + 1 > 1 /\ t[i] = s[i + 1]
  BY <1>1
<1>3. Simple(p)
  BY <1>1 DEF Line
<1>4. Line(t)
  <2>1. \A i \in DOMAIN t : Simple(t[i])
    BY <1>2 DEF Line
  <2>2. ASSUME NEW i \in DOMAIN t, NEW j \in DOMAIN t, i < j,
               NEW m \in Own(t[i]), NEW n \in Own(t[j])
        PROVE  m < n
    <3>1. i + 1 < j + 1 /\ m \in Own(s[i + 1]) /\ n \in Own(s[j + 1])
      BY <1>1, <1>2, <2>2
    <3> QED BY <1>2, <3>1 DEF Line
  <2> QED BY <2>1, <2>2 DEF Line
<1>5. \A m \in Own(p) : \A n \in OwnIn(t) : m < n
  <2> SUFFICES ASSUME NEW m \in Own(p), NEW n \in OwnIn(t)
               PROVE  m < n
    OBVIOUS
  <2>1. PICK i \in DOMAIN t : n \in Own(t[i])
    BY DEF OwnIn
  <2>2. 1 \in DOMAIN s /\ i + 1 \in DOMAIN s /\ 1 < i + 1 /\ m \in Own(s[1]) /\ n \in Own(s[i + 1])
    BY <1>1, <1>2, <2>1
  <2> QED BY <2>2 DEF Line
<1>6. OwnIn(s) = Own(p) \cup OwnIn(t)
  <2>1. ASSUME NEW n \in OwnIn(s)
        PROVE  n \in Own(p) \cup OwnIn(t)
    <3>1. PICK i \in DOMAIN s : n \in Own(s[i])
      BY <2>1 DEF OwnIn
    <3>2. CASE i = 1
      BY <1>1, <3>1, <3>2
    <3>3. CASE i # 1
      <4>1. i - 1 \in DOMAIN t /\ t[i - 1] = s[i]
        BY <1>1, <3>1, <3>3
      <4> QED BY <3>1, <4>1 DEF OwnIn
    <3> QED BY <3>2, <3>3
  <2>2. ASSUME NEW n \in Own(p)
        PROVE  n \in OwnIn(s)
    <3>1. 1 \in DOMAIN s /\ n \in Own(s[1])
      BY <1>1, <2>2
    <3> QED BY <3>1 DEF OwnIn
  <2>3. ASSUME NEW n \in OwnIn(t)
        PROVE  n \in OwnIn(s)
    <3>1. PICK i \in DOMAIN t : n \in Own(t[i])
      BY <2>3 DEF OwnIn
    <3>2. i + 1 \in DOMAIN s /\ n \in Own(s[i + 1])
      BY <1>2, <3>1
    <3> QED BY <3>2 DEF OwnIn
  <2> QED BY <2>1, <2>2, <2>3
<1> QED BY <1>3, <1>4, <1>5, <1>6 DEF p, t

(* A line that is cut keeps its beginning; what is lost is lost once.      *)
LEMMA LineCut ==
  ASSUME NEW s \in Seq(Command), Line(s), NEW k \in 0 .. Len(s)
  PROVE  /\ Line(SubSeq(s, 1, k))
         /\ OwnIn(s) = OwnIn(SubSeq(s, 1, k)) \cup OwnIn(SubSeq(s, k + 1, Len(s)))
         /\ OwnIn(SubSeq(s, 1, k)) \cap OwnIn(SubSeq(s, k + 1, Len(s))) = {}
<1> DEFINE t == SubSeq(s, 1, k)
           u == SubSeq(s, k + 1, Len(s))
           l == Len(s)
<1>0. l \in Nat /\ k \in Nat /\ k <= l /\ DOMAIN s = 1 .. l /\ \A i \in 1 .. l : s[i] \in Command
  OBVIOUS
<1>1. DOMAIN t = 1 .. k /\ \A i \in 1 .. k : t[i] = s[i]
  BY <1>0
<1>2. DOMAIN u = 1 .. (l - k) /\ \A i \in 1 .. (l - k) : u[i] = s[k + i]
  <2>1. k + 1 \in Int /\ l \in Int /\ \A i \in (k + 1) .. l : s[i] \in Command
    BY <1>0
  <2>2. /\ u \in Seq(Command)
        /\ Len(u) = IF k + 1 <= l THEN l - (k + 1) + 1 ELSE 0
        /\ \A i \in 1 .. l - (k + 1) + 1 : u[i] = s[(k + 1) + i - 1]
    BY <2>1, SubSeqProperties
  <2> HIDE DEF u, l
  <2>3. Len(u) = l - k
    BY <1>0, <2>2
  <2>4. DOMAIN u = 1 .. (l - k)
    BY <2>2, <2>3
  <2>5. ASSUME NEW i \in 1 .. (l - k) PROVE u[i] = s[k + i]
    <3>1. i \in 1 .. l - (k + 1) + 1 /\ (k + 1) + i - 1 = k + i
      BY <1>0
    <3> QED BY <2>2, <3>1
  <2> QED BY <2>4, <2>5
<1> HIDE DEF t, u, l
<1>3. Line(t)
  BY <1>0, <1>1 DEF Line
<1>4. OwnIn(t) \cap OwnIn(u) = {}
  <2> SUFFICES ASSUME NEW n, n \in OwnIn(t), n \in OwnIn(u) PROVE FALSE
    OBVIOUS
  <2>1. PICK i \in DOMAIN t : n \in Own(t[i])
    BY DEF OwnIn
  <2>2. PICK j \in DOMAIN u : n \in Own(u[j])
    BY DEF OwnIn
  <2>3. i \in DOMAIN s /\ k + j \in DOMAIN s /\ i < k + j /\ n \in Own(s[i]) /\ n \in Own(s[k + j])
    BY <1>0, <1>1, <1>2, <2>1, <2>2
  <2>4. n < n
    BY <2>3 DEF Line
  <2>5. n \in Nat
    BY <1>0, <2>3, CommandFields DEF Numbers
  <2> QED BY <2>4, <2>5
<1>5. OwnIn(s) = OwnIn(t) \cup OwnIn(u)
  <2>1. ASSUME NEW n \in OwnIn(s)
        PROVE  n \in OwnIn(t) \cup OwnIn(u)
    <3>1. PICK i \in DOMAIN s : n \in Own(s[i])
      BY <2>1 DEF OwnIn
    <3>2. CASE i <= k
      <4>1. i \in DOMAIN t /\ t[i] = s[i]
        BY <1>0, <1>1, <3>1, <3>2
      <4> QED BY <3>1, <4>1 DEF OwnIn
    <3>3. CASE i > k
      <4>1. i - k \in 1 .. (l - k) /\ k + (i - k) = i
        BY <1>0, <3>1, <3>3
      <4>2. i - k \in DOMAIN u /\ u[i - k] = s[i]
        BY <1>2, <4>1
      <4> QED BY <3>1, <4>2 DEF OwnIn
    <3> QED BY <1>0, <3>1, <3>2, <3>3
  <2>2. ASSUME NEW n \in OwnIn(t)
        PROVE  n \in OwnIn(s)
    <3>1. PICK i \in DOMAIN t : n \in Own(t[i])
      BY <2>2 DEF OwnIn
    <3>2. i \in DOMAIN s /\ n \in Own(s[i])
      BY <1>0, <1>1, <3>1
    <3> QED BY <3>2 DEF OwnIn
  <2>3. ASSUME NEW n \in OwnIn(u)
        PROVE  n \in OwnIn(s)
    <3>1. PICK i \in DOMAIN u : n \in Own(u[i])
      BY <2>3 DEF OwnIn
    <3>2. k + i \in DOMAIN s /\ n \in Own(s[k + i])
      BY <1>0, <1>2, <3>1
    <3> QED BY <3>2 DEF OwnIn
  <2> QED BY <2>1, <2>2, <2>3
<1> QED BY <1>3, <1>4, <1>5 DEF t, u, l

(* Responses in a result_queue, one added and the first one taken.         *)
LEMMA ApartAppend ==
  ASSUME NEW s \in Seq(Result), NEW r \in Result, Apart(s),
         r.type # "REQUPDPDU", r.own \in OwnSets, r.own \cap OwnSetsIn(s) = {}
  PROVE  Apart(Append(s, r)) /\ OwnSetsIn(Append(s, r)) = OwnSetsIn(s) \cup r.own
<1> DEFINE t == Append(s, r)
<1>1. /\ Len(s) \in Nat /\ DOMAIN s = 1 .. Len(s)
      /\ DOMAIN t = 1 .. (Len(s) + 1)
      /\ \A i \in 1 .. Len(s) : t[i] = s[i]
      /\ t[Len(s) + 1] = r
  OBVIOUS
<1> HIDE DEF t
<1>2. \A i \in DOMAIN s : s[i].own \cap r.own = {}
  BY DEF OwnSetsIn
<1>3. Apart(t)
  <2>1. \A i \in DOMAIN t : t[i].type # "REQUPDPDU" /\ t[i].own \in OwnSets
    BY <1>1 DEF Apart
  <2>2. ASSUME NEW i \in DOMAIN t, NEW j \in DOMAIN t, t[i].own \cap t[j].own # {}
        PROVE  i = j
    <3>1. CASE i \in DOMAIN s /\ j \in DOMAIN s
      BY <1>1, <2>2, <3>1 DEF Apart
    <3>2. CASE i \notin DOMAIN s \/ j \notin DOMAIN s
      BY <1>1, <1>2, <2>2, <3>2
    <3> QED BY <3>1, <3>2
  <2> QED BY <2>1, <2>2 DEF Apart
<1>4. OwnSetsIn(t) = OwnSetsIn(s) \cup r.own
  <2>1. ASSUME NEW n \in OwnSetsIn(t)
        PROVE  n \in OwnSetsIn(s) \cup r.own
    <3>1. PICK i \in DOMAIN t : n \in t[i].own
      BY <2>1 DEF OwnSetsIn
    <3> QED BY <1>1, <3>1 DEF OwnSetsIn
  <2>2. ASSUME NEW n \in OwnSetsIn(s)
        PROVE  n \in OwnSetsIn(t)
    <3>1. PICK i \in DOMAIN s : n \in s[i].own
      BY <2>2 DEF OwnSetsIn
    <3>2. i \in DOMAIN t /\ n \in t[i].own
      BY <1>1, <3>1
    <3> QED BY <3>2 DEF OwnSetsIn
  <2>3. ASSUME NEW n \in r.own
        PROVE  n \in OwnSetsIn(t)
    <3>1. Len(s) + 1 \in DOMAIN t /\ n \in t[Len(s) + 1].own
      BY <1>1, <2>3
    <3> QED BY <3>1 DEF OwnSetsIn
  <2> QED BY <2>1, <2>2, <2>3
<1> QED BY <1>3, <1>4 DEF t

LEMMA ApartHead ==
  ASSUME NEW s \in Seq(Result), s # <<>>, Apart(s)
  PROVE  /\ Head(s).type # "REQUPDPDU" /\ Head(s).own \in OwnSets
         /\ Apart(Tail(s))
         /\ Head(s).own \subseteq OwnSetsIn(s) /\ OwnSetsIn(Tail(s)) \subseteq OwnSetsIn(s)
         /\ Head(s).own \cap OwnSetsIn(Tail(s)) = {}
<1> DEFINE r == Head(s)
           t == Tail(s)
<1>1. /\ Len(s) \in Nat \ {0} /\ DOMAIN s = 1 .. Len(s)
      /\ DOMAIN t = 1 .. (Len(s) - 1)
      /\ \A i \in 1 .. (Len(s) - 1) : t[i] = s[i + 1]
      /\ s[1] = r
  OBVIOUS
<1> HIDE DEF r, t
<1>2. /\ 1 \in DOMAIN s
      /\ \A i \in DOMAIN t : i + 1 \in DOMAIN s /\ i + 1 # 1 /\ t[i] = s[i + 1]
  BY <1>1
<1>3. r.type # "REQUPDPDU" /\ r.own \in OwnSets
  BY <1>1, <1>2 DEF Apart
<1>4. Apart(t)
  <2>1. \A i \in DOMAIN t : t[i].type # "REQUPDPDU" /\ t[i].own \in OwnSets
    BY <1>2 DEF Apart
  <2>2. ASSUME NEW i \in DOMAIN t, NEW j \in DOMAIN t, t[i].own \cap t[j].own # {}
        PROVE  i = j
    <3>1. i + 1 = j + 1
      BY <1>2, <2>2 DEF Apart
    <3> QED BY <1>1, <3>1
  <2> QED BY <2>1, <2>2 DEF Apart
<1>5. r.own \subseteq OwnSetsIn(s) /\ OwnSetsIn(t) \subseteq OwnSetsIn(s)
  <2>1. ASSUME NEW n \in OwnSetsIn(t) PROVE n \in OwnSetsIn(s)
    <3>1. PICK i \in DOMAIN t : n \in t[i].own
      BY <2>1 DEF OwnSetsIn
    <3>2. i + 1 \in DOMAIN s /\ n \in s[i + 1].own
      BY <1>2, <3>1
    <3> QED BY <3>2 DEF OwnSetsIn
  <2>2. ASSUME NEW n \in r.own PROVE n \in OwnSetsIn(s)
    <3>1. n \in s[1].own
      BY <1>1, <2>2
    <3> QED BY <1>2, <3>1 DEF OwnSetsIn
  <2> QED BY <2>1, <2>2
<1>6. r.own \cap OwnSetsIn(t) = {}
  <2> SUFFICES ASSUME NEW n, n \in r.own, n \in OwnSetsIn(t) PROVE FALSE
    OBVIOUS
  <2>1. PICK i \in DOMAIN t : n \in t[i].own
    BY DEF OwnSetsIn
  <2>2. i + 1 \in DOMAIN s /\ i + 1 # 1 /\ n \in s[i + 1].own /\ n \in s[1].own
    BY <1>1, <1>2, <2>1
  <2> QED BY <1>2, <2>2 DEF Apart
<1> QED BY <1>3, <1>4, <1>5, <1>6 DEF r, t

(* Where a command belongs to a connection.                                *)
Spots == {"inbox", "hand", "now", "queued", "result"}

(* No command comes to a place of the connection or leaves it.             *)
Same(place, c) == \A n \in Numbers : at'[n] = <<place, c>> <=> at[n] = <<place, c>>
Stays(c) == \A place \in Spots : Same(place, c)

(* Commands go from one place to another.                                  *)
Shift(S, old, y, new, x) ==
  S \in SUBSET Numbers /\ Move(S, new, x) /\ \A n \in S : at[n] = <<old, y>>

LEMMA MoveElsewhere ==
  ASSUME NEW S, NEW old, NEW y, NEW new, NEW x, Shift(S, old, y, new, x),
         NEW place, NEW d, place # old \/ d # y, place # new \/ d # x
  PROVE  Same(place, d)
<1>1. <<place, d>> # <<old, y>> /\ <<place, d>> # <<new, x>>
  OBVIOUS
<1>2. \A n \in Numbers : at'[n] = IF n \in S THEN <<new, x>> ELSE at[n]
  BY DEF Shift, Move
<1> QED BY <1>1, <1>2 DEF Same, Shift

LEMMA MoveStays ==
  ASSUME NEW S, NEW old, NEW y, NEW new, NEW x, Shift(S, old, y, new, x),
         NEW d, old \notin Spots \/ d # y, new \notin Spots \/ d # x
  PROVE  Stays(d)
<1> SUFFICES ASSUME NEW place \in Spots PROVE Same(place, d)
  BY DEF Stays
<1>1. <<place, d>> # <<old, y>> /\ <<place, d>> # <<new, x>>
  OBVIOUS
<1>2. \A n \in Numbers : at'[n] = IF n \in S THEN <<new, x>> ELSE at[n]
  BY DEF Shift, Move
<1> QED BY <1>1, <1>2 DEF Same, Shift

LEMMA InboxKept ==
  ASSUME NEW c \in Conns, InboxIs(c), inbox'[c] = inbox[c], Same("inbox", c),
         wk'[c] = "gone" => wk[c] = "gone", c \in cut => c \in cut'
  PROVE  InboxIs(c)'
  BY DEF InboxIs, Same

LEMMA HandKept ==
  ASSUME TypeOK, InHand, NEW c \in Conns, HandIs(c), Same("hand", c), Same("now", c),
         pdu'[c] = pdu[c],
         \/ wk'[c] = wk[c]
         \/ wk[c] \in {"mcs", "asleep"} /\ wk'[c] \in {"mcs", "asleep"}
         \/ Grip(c) = {} /\ wk'[c] \notin {"mcs", "asleep", "held", "now"}
  PROVE  HandIs(c)'
<1>1. Grip(c)' = Grip(c)
  BY DEF Grip
<1>2. \A n \in Numbers : at'[n] = <<"hand", c>> <=> n \in Grip(c)'
  BY <1>1 DEF HandIs, Same
<1>3. wk'[c] = "now" => wk[c] = "now" /\ Own(pdu[c]) \in SUBSET Numbers
  BY CommandFields DEF InHand
<1>4. wk'[c] = "now" => \A n \in Own(pdu[c])' : at'[n] = <<"now", c>>
  BY <1>3 DEF HandIs, Same
<1> QED BY <1>2, <1>4 DEF HandIs

LEMMA UnitKept ==
  ASSUME TypeOK, NEW c \in Conns, UnitIs(c), queued'[c].own \subseteq queued[c].own,
         Same("queued", c)
  PROVE  UnitIs(c)'
<1>1. queued[c].own \in SUBSET Numbers
  BY DEF TypeOK
<1> QED BY <1>1 DEF UnitIs, Same

LEMMA PostedNumbers ==
  ASSUME TypeOK, NEW c \in Conns
  PROVE  /\ Posted(c) \in SUBSET Numbers /\ Posted(c) = OwnSetsIn(result_queue[c])
         /\ Posted(c)' = OwnSetsIn(result_queue'[c])
<1>0. result_queue[c] \in Seq(Result)
  BY DEF TypeOK
<1>1. \A i \in DOMAIN result_queue[c] : result_queue[c][i].own \in SUBSET Numbers
  <2> SUFFICES ASSUME NEW i \in DOMAIN result_queue[c]
               PROVE  result_queue[c][i].own \in SUBSET Numbers
    OBVIOUS
  <2>1. result_queue[c][i] \in Result
    BY <1>0
  <2> QED BY <2>1 DEF Result
<1> QED BY <1>1 DEF Posted, OwnSetsIn

LEMMA ResultKept ==
  ASSUME TypeOK, NEW c \in Conns, ResultIs(c), result_queue'[c] = result_queue[c],
         Same("result", c)
  PROVE  ResultIs(c)'
<1>1. Posted(c)' = Posted(c) /\ Posted(c) \in SUBSET Numbers
  BY PostedNumbers
<1> QED BY <1>1 DEF ResultIs, Same

LEMMA ResultAppend ==
  ASSUME TypeOK, NEW c \in Conns, ResultIs(c), NEW r \in Result,
         result_queue'[c] = Append(result_queue[c], r),
         r.type # "REQUPDPDU", r.own \in OwnSets, r.own \cap Posted(c) = {},
         \A n \in Posted(c) : at'[n] = at[n], \A n \in r.own : at'[n] = <<"result", c>>
  PROVE  ResultIs(c)'
<1>1. result_queue[c] \in Seq(Result)
  BY DEF TypeOK
<1>2. Posted(c) = OwnSetsIn(result_queue[c]) /\ Posted(c)' = OwnSetsIn(result_queue'[c])
  BY PostedNumbers
<1>3. Apart(result_queue'[c]) /\ Posted(c)' = Posted(c) \cup r.own
  BY <1>1, <1>2, ApartAppend DEF ResultIs
<1> QED BY <1>3 DEF ResultIs

LEMMA CustodyKept ==
  ASSUME TypeOK, InHand, NEW d \in Conns, InCustody(d), Stays(d),
         inbox'[d] = inbox[d], pdu'[d] = pdu[d], queued'[d].own \subseteq queued[d].own,
         result_queue'[d] = result_queue[d],
         wk'[d] = wk[d] \/ (wk[d] = "asleep" /\ wk'[d] = "mcs"),
         d \in cut => d \in cut'
  PROVE  InCustody(d)'
<1>1. /\ Same("inbox", d) /\ Same("hand", d) /\ Same("now", d)
      /\ Same("queued", d) /\ Same("result", d)
  BY DEF Stays, Spots
<1>2. InboxIs(d)'
  BY <1>1, InboxKept DEF InCustody
<1>3. HandIs(d)'
  BY <1>1, HandKept DEF InCustody
<1>4. UnitIs(d)'
  BY <1>1, UnitKept DEF InCustody
<1>5. ResultIs(d)'
  BY <1>1, ResultKept DEF InCustody
<1> QED BY <1>2, <1>3, <1>4, <1>5 DEF InCustody

LEMMA CustodyParts ==
  /\ Custody <=> \A c \in Conns : InCustody(c)
  /\ Custody' <=> \A c \in Conns : InCustody(c)'
  BY DEF Custody

LEMMA SentKept ==
  ASSUME SentIs, nextN' = nextN, Same("unsent", None)
  PROVE  SentIs'
  BY DEF SentIs, Same

(* What a command does to Delivered, Lost and Answered when it moves.      *)
After == {"now", "queued", "result", "answered", "dropped"}

LEMMA MoveCounts ==
  ASSUME NEW S, NEW old, NEW y, NEW new, NEW x, Shift(S, old, y, new, x)
  PROVE  /\ old \in After /\ new \in After => Delivered' = Delivered /\ Lost' = Lost
         /\ old \notin After /\ new \in After => Delivered' = Delivered \cup S
         /\ old \notin After /\ new \notin After => Delivered' = Delivered
         /\ old # "lost" => Lost \subseteq Lost'
         /\ old # "lost" /\ new # "lost" => Lost' = Lost
         /\ new = "lost" => Lost' = Lost \cup S
<1>1. \A n \in Numbers : at'[n] = IF n \in S THEN <<new, x>> ELSE at[n]
  BY DEF Shift, Move
<1>2. \A n \in Numbers : at'[n][1] = IF n \in S THEN new ELSE at[n][1]
  BY <1>1
<1>3. S \in SUBSET Numbers /\ \A n \in S : at[n][1] = old
  BY DEF Shift
<1>4. /\ Delivered = {n \in Numbers : at[n][1] \in After}
      /\ Delivered' = {n \in Numbers : at'[n][1] \in After}
      /\ Lost = {n \in Numbers : at[n][1] = "lost"} /\ Lost' = {n \in Numbers : at'[n][1] = "lost"}
  BY DEF Delivered, Lost, After
<1>5. "lost" \notin After
  BY DEF After
<1> HIDE DEF After
<1> QED BY <1>2, <1>3, <1>4, <1>5

LEMMA AnsweredKept ==
  ASSUME Same("answered", None)
  PROVE  Answered' = Answered
  BY DEF Same, Answered

LEMMA TurnsKept ==
  ASSUME Turns, ExpCmdSN' = ExpCmdSN, Delivered' \subseteq Delivered,
         Delivered \cup Lost \subseteq Delivered' \cup Lost',
         \A d \in Conns : Holds(d)' => pdu'[d].n = ExpCmdSN,
         \A d \in Conns : wk'[d] = "asleep" => pdu'[d].n > ExpCmdSN
  PROVE  Turns'
  BY DEF Turns

(* Another place of a worker, none where it holds a turn or sleeps.        *)
LEMMA TurnsQuiet ==
  ASSUME Turns, ExpCmdSN' = ExpCmdSN, pdu' = pdu, Delivered' \subseteq Delivered,
         Delivered \cup Lost \subseteq Delivered' \cup Lost',
         \A d \in Conns : wk'[d] \in {"held", "asleep"} => wk'[d] = wk[d]
  PROVE  Turns'
<1>1. \A d \in Conns : Holds(d)' => Holds(d)
  BY DEF Holds
<1> QED BY <1>1, TurnsKept DEF Turns

LEMMA SeqMonotone ==
  ASSUME NEW S, NEW T, S \subseteq T, NEW s \in Seq(S)
  PROVE  s \in Seq(T)
  BY SMT

LEMMA KeptGrows ==
  ASSUME TypeOK, MaxCmdSN' \in Nat, MaxCmdSN <= MaxCmdSN'
  PROVE  Kept \subseteq Kept'
  BY DEF Kept, Rsp, TypeOK

LEMMA ToldKept ==
  ASSUME NEW d \in Conns, Told(d), Kept \subseteq Kept',
         wk'[d] = "write" => wk[d] = "write", wout'[d] = wout[d], sout'[d] = sout[d],
         wire'[d] = wire[d], result_queue'[d] = result_queue[d]
  PROVE  Told(d)'
<1>1. wire'[d] \in Seq(Kept')
  BY SeqMonotone DEF Told
<1> QED BY <1>1 DEF Told

LEMMA AllowedKept ==
  ASSUME TypeOK, Allowed, MaxCmdSN' \in Nat, MaxCmdSN <= MaxCmdSN', nextN' = nextN, winSN' = winSN
  PROVE  Allowed'
  BY DEF Allowed, TypeOK

LEMMA PromisedQuiet ==
  ASSUME TypeOK, Promised, MaxCmdSN' = MaxCmdSN, Same("answered", None),
         nextN' = nextN, winSN' = winSN,
         \A d \in Conns : /\ wk'[d] = "write" => wk[d] = "write"
                          /\ wout'[d] = wout[d] /\ sout'[d] = sout[d]
                          /\ wire'[d] = wire[d] /\ result_queue'[d] = result_queue[d]
  PROVE  Promised'
<1>1. Opened' /\ Allowed'
  BY AnsweredKept DEF Promised, Opened, Allowed
<1>2. Kept \subseteq Kept'
  BY DEF Kept
<1>3. \A d \in Conns : Told(d)'
  BY <1>2, ToldKept DEF Promised
<1> QED BY <1>1, <1>3 DEF Promised

(* Numbers that are under way.                                             *)
LEMMA NumbersNear ==
  ASSUME OrderInv, NEW n \in Numbers, NEW c, at[n] = <<"inbox", c>> \/ at[n] = <<"hand", c>>
  PROVE  /\ n < nextN /\ ExpCmdSN <= n /\ n <= MaxCmdSN
         /\ GT(n, ExpCmdSN) <=> n > ExpCmdSN
         /\ ~LT(n, ExpCmdSN) /\ ~GT(n, MaxCmdSN)
<1>1. /\ nextN \in Nat /\ ExpCmdSN \in Nat /\ MaxCmdSN \in Nat /\ winSN \in Nat
      /\ n \in Nat /\ QueueDepth \in Nat \ {0} /\ Half \in Nat /\ 2 * QueueDepth < Half
  BY DepthAssumption, HalfAssumption DEF OrderInv, Order, Basis, TypeOK, Numbers
<1>2. n < nextN
  <2>1. at[n] # <<"unsent", None>>
    OBVIOUS
  <2> QED BY <1>1, <2>1 DEF OrderInv, Order, SentIs
<1>3. n <= MaxCmdSN
  BY <1>1, <1>2 DEF OrderInv, Order, Promised, Allowed
<1>4. ExpCmdSN <= n
  <2>1. at[n][1] = "inbox" \/ at[n][1] = "hand"
    OBVIOUS
  <2>2. n \notin Delivered \cup Lost
    BY <2>1 DEF Delivered, Lost
  <2> QED BY <1>1, <2>2 DEF OrderInv, Order, Turns
<1>5. MaxCmdSN <= (ExpCmdSN + QueueDepth) - 1
  <2>1. Answered \subseteq 0 .. (ExpCmdSN - 1)
    <3> SUFFICES ASSUME NEW m \in Answered PROVE m \in 0 .. (ExpCmdSN - 1)
      OBVIOUS
    <3>1. m \in Numbers /\ at[m] = <<"answered", None>>
      BY DEF Answered
    <3>2. at[m][1] = "answered"
      BY <3>1
    <3>3. m \in Delivered
      BY <3>1, <3>2 DEF Delivered
    <3>4. m < ExpCmdSN /\ m \in Nat
      BY <3>1, <3>3 DEF OrderInv, Order, Turns, Numbers
    <3> QED BY <1>1, <3>4
  <2>2. IsFiniteSet(0 .. (ExpCmdSN - 1)) /\ Cardinality(0 .. (ExpCmdSN - 1)) = ExpCmdSN
    <3>1. ExpCmdSN - 1 \in Int /\ 0 \in Int
      BY <1>1
    <3>2. /\ IsFiniteSet(0 .. (ExpCmdSN - 1))
          /\ Cardinality(0 .. (ExpCmdSN - 1)) =
               IF 0 > ExpCmdSN - 1 THEN 0 ELSE (ExpCmdSN - 1) - 0 + 1
      BY <3>1, FS_Interval
    <3> QED BY <1>1, <3>2
  <2>3. Cardinality(Answered) <= ExpCmdSN /\ Cardinality(Answered) \in Nat
    <3>1. IsFiniteSet(Answered) /\ Cardinality(Answered) <= Cardinality(0 .. (ExpCmdSN - 1))
      BY <2>1, <2>2, FS_Subset
    <3> QED BY <2>2, <3>1, FS_CardinalityType
  <2> QED BY <1>1, <2>3 DEF OrderInv, Order, Promised, Opened
<1>6. n - ExpCmdSN < Half /\ ExpCmdSN - n < Half /\ n - MaxCmdSN < Half /\ MaxCmdSN - n < Half
  BY <1>1, <1>3, <1>4, <1>5
<1>7. (LT(n, ExpCmdSN) <=> n < ExpCmdSN) /\ (GT(n, ExpCmdSN) <=> n > ExpCmdSN)
  BY <1>1, <1>6, SerialOrder
<1>8. GT(n, MaxCmdSN) <=> n > MaxCmdSN
  BY <1>1, <1>6, SerialOrder
<1> QED BY <1>1, <1>2, <1>3, <1>4, <1>7, <1>8

LEMMA InvariantOrder ==
  ASSUME OrderInv
  PROVE  InOrder /\ NoLostWakeup
<1>1. Basis /\ Custody /\ Turns /\ TypeOK /\ InHand
  BY DEF OrderInv, Order, Basis
<1>2. ASSUME NEW c \in Conns, wk[c] \in {"mcs", "asleep", "held"}, ~pdu[c].imm
      PROVE  /\ pdu[c].n \in Numbers /\ at[pdu[c].n] = <<"hand", c>>
             /\ pdu[c].kind = "scsi" /\ Own(pdu[c]) = {pdu[c].n}
  <2>1. pdu[c] \in Command /\ HandIs(c)
    BY <1>1, <1>2 DEF InHand, Custody, InCustody
  <2>2. Own(pdu[c]) = {pdu[c].n} /\ pdu[c].n \in Numbers
    BY <1>2, <2>1, CommandFields
  <2>3. Simple(pdu[c])
    BY <1>2, <2>1 DEF HandIs
  <2> QED BY <1>2, <2>1, <2>2, <2>3 DEF HandIs, Grip, Simple
<1>3. Fresh
  BY <1>1 DEF Fresh, Turns
<1>4. Gapless
  <2> SUFFICES ASSUME NEW c \in Conns, Holds(c), NEW m \in 0 .. pdu[c].n - 1
               PROVE  m \in Delivered \cup Lost
    BY DEF Gapless
  <2>1. pdu[c].n \in Numbers /\ pdu[c].n = ExpCmdSN
    BY <1>1, <1>2 DEF Holds, Turns
  <2>2. m \in Numbers /\ m < ExpCmdSN
    BY <2>1, BoundAssumption DEF Numbers
  <2> QED BY <1>1, <2>2 DEF Turns
<1>5. OneTurn
  <2> SUFFICES ASSUME NEW c \in Conns, NEW d \in Conns, Holds(c), Holds(d)
               PROVE  c = d
    BY DEF OneTurn
  <2>1. pdu[c].n = pdu[d].n
    BY <1>1 DEF Turns
  <2>2. at[pdu[c].n] = <<"hand", c>> /\ at[pdu[d].n] = <<"hand", d>>
    BY <1>2 DEF Holds
  <2>3. <<"hand", c>> = <<"hand", d>>
    BY <2>1, <2>2
  <2> QED BY <2>3
<1>6. NoLostWakeup
  <2> SUFFICES ASSUME NEW c \in Conns, wk[c] = "asleep" PROVE Early(pdu[c])
    BY DEF NoLostWakeup
  <2>1. ~pdu[c].imm
    BY <1>1 DEF HandIs, InCustody, Custody
  <2>2. pdu[c].n \in Numbers /\ at[pdu[c].n] = <<"hand", c>> /\ pdu[c].kind = "scsi"
    BY <1>2, <2>1
  <2>3. pdu[c].n > ExpCmdSN
    BY <1>1 DEF Turns
  <2>4. GT(pdu[c].n, ExpCmdSN)
    BY <2>2, <2>3, NumbersNear
  <2> QED BY <2>1, <2>2, <2>4 DEF Early
<1> QED BY <1>3, <1>4, <1>5, <1>6 DEF InOrder

LEMMA InitOrder == Init => OrderInv
<1> SUFFICES ASSUME Init PROVE OrderInv
  OBVIOUS
<1>1. Basis
  BY InitBasis
<1>2. /\ \A n \in Numbers : at[n] = <<"unsent", None>>
      /\ \A c \in Conns : /\ inbox[c] = <<>> /\ wk[c] = "idle"
                          /\ queued[c] = [own |-> {}, imm |-> 0]
                          /\ result_queue[c] = <<>> /\ wire[c] = <<>> /\ sout[c] = None
  BY DEF Init
<1>3. Custody
  <2> SUFFICES ASSUME NEW c \in Conns PROVE InCustody(c)
    BY CustodyParts
  <2>1. InboxIs(c)
    <3>1. \A n \in Numbers : at[n] # <<"inbox", c>>
      BY <1>2
    <3>2. OwnIn(inbox[c]) = {} /\ Line(inbox[c])
      BY <1>2 DEF OwnIn, Line
    <3> QED BY <1>2, <3>1, <3>2 DEF InboxIs
  <2>2. HandIs(c)
    <3>1. \A n \in Numbers : at[n] # <<"hand", c>>
      BY <1>2
    <3> QED BY <1>2, <3>1 DEF HandIs, Grip
  <2>3. UnitIs(c)
    BY <1>2 DEF UnitIs
  <2>4. ResultIs(c)
    <3>1. DOMAIN result_queue[c] = {}
      BY <1>2
    <3> QED BY <3>1 DEF ResultIs, Apart, Posted
  <2> QED BY <2>1, <2>2, <2>3, <2>4 DEF InCustody
<1>4. SentIs
  BY <1>2 DEF SentIs, Init, Numbers
<1>5. Turns
  <2>1. \A n \in Numbers : at[n][1] = "unsent"
    BY <1>2
  <2>2. Delivered = {}
    BY <2>1 DEF Delivered
  <2> QED BY <1>2, <2>2 DEF Turns, Holds, Init, Numbers
<1>6. Promised
  <2>1. Answered = {}
    <3>1. <<"unsent", None>> # <<"answered", None>>
      OBVIOUS
    <3> QED BY <1>2, <3>1 DEF Answered
  <2>2. Opened
    BY <2>1, FS_EmptySet, DepthAssumption DEF Opened, Init
  <2>3. Allowed
    BY DepthAssumption DEF Allowed, Init
  <2>4. \A c \in Conns : Told(c)
    <3>1. <<>> \in Seq(Kept) /\ DOMAIN <<>> = {}
      BY EmptySeq
    <3> QED BY <1>2, <3>1 DEF Told
  <2> QED BY <2>2, <2>3, <2>4 DEF Promised
<1> QED BY <1>1, <1>3, <1>4, <1>5, <1>6 DEF OrderInv, Order

LEMMA OrderParts ==
  ASSUME OrderInv
  PROVE  /\ TypeOK /\ InHand /\ WakeupOwed /\ SentIs /\ Turns /\ Promised
         /\ Custody /\ \A c \in Conns : InCustody(c)
  BY CustodyParts DEF OrderInv, Order, Basis

(* A step that moves no command.                                           *)
LEMMA AtKept ==
  ASSUME at' = at
  PROVE  /\ \A place, d : Same(place, d)
         /\ \A d : Stays(d)
         /\ Delivered' = Delivered /\ Lost' = Lost /\ Answered' = Answered
  BY DEF Same, Stays, Delivered, Lost, Answered

LEMMA CustodyQuiet ==
  ASSUME OrderInv, at' = at, nextN' = nextN, pdu' = pdu, inbox' = inbox, queued' = queued,
         result_queue' = result_queue, cut' = cut,
         \A d \in Conns : \/ wk'[d] = wk[d]
                          \/ Grip(d) = {} /\ wk'[d] \notin {"mcs", "asleep", "held", "now", "gone"}
  PROVE  Custody' /\ SentIs'
<1>1. /\ TypeOK /\ InHand /\ SentIs /\ \A c \in Conns : InCustody(c)
  BY OrderParts
<1>2. /\ \A place, d : Same(place, d)
  BY AtKept
<1>3. SentIs'
  BY <1>1, <1>2, SentKept
<1>4. ASSUME NEW d \in Conns PROVE InCustody(d)'
  <2>1. InboxIs(d)'
    BY <1>1, <1>2, InboxKept DEF InCustody
  <2>2. HandIs(d)'
    BY <1>1, <1>2, HandKept DEF InCustody
  <2>3. UnitIs(d)'
    BY <1>1, <1>2, UnitKept DEF InCustody
  <2>4. ResultIs(d)'
    BY <1>1, <1>2, ResultKept DEF InCustody
  <2> QED BY <2>1, <2>2, <2>3, <2>4 DEF InCustody
<1> QED BY <1>3, <1>4, CustodyParts

LEMMA SendOrder ==
  ASSUME OrderInv, NEW c \in Conns, NEW k \in {"scsi", "ping"}, NEW imm \in BOOLEAN, Send(c, k, imm)
  PROVE  Order'
<1> DEFINE p == [kind |-> k, imm |-> imm, n |-> nextN, ack |-> ack[c]]
<1>1. /\ TypeOK /\ InHand /\ SentIs /\ Turns /\ Promised /\ \A d \in Conns : InCustody(d)
  BY OrderParts
<1>2. /\ nextN \in Nat /\ ack[c] \in Nat /\ inbox \in [Conns -> Seq(Command)]
      /\ at \in [Numbers -> Fates] /\ winSN \in Nat
  BY <1>1 DEF TypeOK
<1>3. p \in Command
  <2>1. ~imm => nextN \in Numbers
    BY <1>2, BoundAssumption DEF Send, Numbers
  <2> QED BY <1>2, <2>1 DEF AllKinds, Command, Own
<1>4. /\ inbox' = [inbox EXCEPT ![c] = Append(@, p)]
      /\ UNCHANGED <<sessVars, StatSN, outVars, workVars, wire, cut, winSN, ack, refused>>
      /\ k = "ping" => imm
  BY DEF Send
<1>5. /\ Own(p) = IF imm THEN {} ELSE {nextN}
      /\ nextN' = (IF imm THEN nextN ELSE nextN + 1)
      /\ ~imm => nextN <= winSN
  BY DEF Send, Own
<1>6. Move(Own(p), "inbox", c)
  BY <1>2, <1>5 DEF Send, Move
<1>7. Simple(p)
  BY <1>4 DEF Simple
<1> HIDE DEF p
<1>8. Own(p) \in SUBSET Numbers
  BY <1>3, CommandFields
<1>9. Shift(Own(p), "unsent", None, "inbox", c)
  <2>1. \A n \in Own(p) : at[n] = <<"unsent", None>>
    BY <1>1, <1>2, <1>5, <1>8 DEF SentIs
  <2> QED BY <1>6, <1>8, <2>1 DEF Shift
<1>10. /\ inbox'[c] = Append(inbox[c], p) /\ \A d \in Conns \ {c} : inbox'[d] = inbox[d]
  BY <1>2, <1>4
<1>11. UNCHANGED <<wk, pdu, queued, result_queue, cut, wout, sout, wire, MaxCmdSN, ExpCmdSN, winSN>>
  BY <1>4 DEF workVars, outVars, sessVars
<1>12. ASSUME NEW d \in Conns \ {c} PROVE InCustody(d)'
  <2>1. Stays(d)
    BY <1>9, MoveStays DEF Spots
  <2>2. /\ d \in Conns /\ InCustody(d) /\ inbox'[d] = inbox[d] /\ pdu'[d] = pdu[d]
        /\ queued'[d].own \subseteq queued[d].own /\ result_queue'[d] = result_queue[d]
        /\ wk'[d] = wk[d] /\ (d \in cut => d \in cut')
    BY <1>1, <1>10, <1>11
  <2> QED BY <1>1, <2>1, <2>2, CustodyKept
<1>13. InCustody(c)'
  <2>1. /\ Same("hand", c) /\ Same("now", c) /\ Same("queued", c) /\ Same("result", c)
    BY <1>9, MoveElsewhere
  <2>2. HandIs(c)' /\ UnitIs(c)' /\ ResultIs(c)'
    BY <1>1, <1>11, <2>1, HandKept, UnitKept, ResultKept DEF InCustody
  <2>3. InboxIs(c)'
    <3>1. InboxIs(c)
      BY <1>1 DEF InCustody
    <3>2. \A m \in OwnIn(inbox[c]) : m \in Numbers /\ at[m] = <<"inbox", c>>
      <4>1. ASSUME NEW m \in OwnIn(inbox[c]) PROVE m \in Numbers
        <5>1. PICK i \in DOMAIN inbox[c] : m \in Own(inbox[c][i])
          BY <4>1 DEF OwnIn
        <5>2. inbox[c][i] \in Command
          BY <1>2
        <5> QED BY <5>1, <5>2, CommandFields
      <4> QED BY <3>1, <4>1 DEF InboxIs
    <3>3. \A m \in OwnIn(inbox[c]) : m < nextN
      <4> SUFFICES ASSUME NEW m \in OwnIn(inbox[c]) PROVE m < nextN
        OBVIOUS
      <4>1. m \in Numbers /\ at[m] # <<"unsent", None>> /\ m \in Nat
        BY <3>2 DEF Numbers
      <4> QED BY <1>1, <1>2, <4>1 DEF SentIs
    <3>4. Line(inbox'[c]) /\ OwnIn(inbox'[c]) = OwnIn(inbox[c]) \cup Own(p)
      <4>1. \A m \in OwnIn(inbox[c]) : \A n \in Own(p) : m < n
        BY <1>5, <3>3
      <4>2. inbox[c] \in Seq(Command) /\ Line(inbox[c])
        BY <1>2, <3>1 DEF InboxIs
      <4> QED BY <1>3, <1>7, <1>10, <4>1, <4>2, LineAppend
    <3>5. \A n \in Numbers : at'[n] = IF n \in Own(p) THEN <<"inbox", c>> ELSE at[n]
      BY <1>6 DEF Move
    <3>6. wk'[c] = "gone" => FALSE
      BY <1>11, <3>1 DEF InboxIs, Send
    <3> QED BY <3>1, <3>4, <3>5, <3>6 DEF InboxIs
  <2> QED BY <2>2, <2>3 DEF InCustody
<1>14. Custody'
  BY <1>12, <1>13, CustodyParts
<1>15. SentIs'
  <2> SUFFICES ASSUME NEW n \in Numbers
               PROVE  at'[n] = <<"unsent", None>> <=> n >= nextN'
    BY DEF SentIs
  <2>1. at'[n] = IF n \in Own(p) THEN <<"inbox", c>> ELSE at[n]
    BY <1>6 DEF Move
  <2>2. n \in Nat /\ (at[n] = <<"unsent", None>> <=> n >= nextN)
    BY <1>1 DEF SentIs, Numbers
  <2>3. <<"inbox", c>> # <<"unsent", None>>
    OBVIOUS
  <2> QED BY <1>2, <1>5, <2>1, <2>2, <2>3
<1>16. Turns'
  <2>1. Delivered' = Delivered /\ Lost' = Lost
    BY <1>9, MoveCounts DEF After
  <2> QED BY <1>1, <1>11, <2>1, TurnsQuiet
<1>17. Promised'
  <2>1. Same("answered", None)
    BY <1>9, MoveElsewhere
  <2>2. Opened'
    BY <1>1, <1>11, <2>1, AnsweredKept DEF Promised, Opened
  <2>3. Allowed'
    BY <1>1, <1>2, <1>5, <1>11 DEF Promised, Allowed
  <2>4. \A d \in Conns : Told(d)'
    BY <1>1, <1>11, ToldKept DEF Promised, Kept
  <2> QED BY <2>2, <2>3, <2>4 DEF Promised
<1> QED BY <1>14, <1>15, <1>16, <1>17 DEF Order

LEMMA ReceiveOrder ==
  ASSUME OrderInv, NEW c \in Conns, Receive(c)
  PROVE  Order'
<1>1. /\ TypeOK /\ Turns /\ Promised
  BY OrderParts
<1>2. UNCHANGED <<at, nextN, pdu, inbox, queued, result_queue, cut, wk, wout, sout,
                  MaxCmdSN, ExpCmdSN>>
  BY DEF Receive, sessVars, outVars, workVars, auxVars
<1>3. Custody' /\ SentIs'
  BY <1>2, CustodyQuiet
<1>4. Turns'
  BY <1>1, <1>2, AtKept, TurnsQuiet
<1>5. Head(wire[c]) \in Kept /\ Tail(wire[c]) \in Seq(Kept)
  BY <1>1 DEF Promised, Told, Receive
<1>6. Kept' = Kept
  BY <1>2 DEF Kept
<1>7. \A d \in Conns : Told(d)'
  <2> SUFFICES ASSUME NEW d \in Conns PROVE Told(d)'
    OBVIOUS
  <2>1. wire'[d] \in Seq(Kept)
    BY <1>1, <1>5 DEF Receive, Promised, Told, TypeOK
  <2> QED BY <1>1, <1>2, <1>6, <2>1 DEF Promised, Told
<1>8. Opened'
  BY <1>1, <1>2 DEF Promised, Opened, Answered
<1>9. Allowed'
  <2>1. /\ Head(wire[c]).max \in Nat /\ Head(wire[c]).max <= MaxCmdSN
        /\ winSN \in Nat /\ nextN \in Nat /\ MaxCmdSN \in Nat
    BY <1>1, <1>5 DEF Kept, Rsp, TypeOK
  <2>2. winSN' = IF Head(wire[c]).max > winSN THEN Head(wire[c]).max ELSE winSN
    BY DEF Receive
  <2> QED BY <1>1, <1>2, <2>1, <2>2 DEF Promised, Allowed
<1> QED BY <1>3, <1>4, <1>7, <1>8, <1>9 DEF Order, Promised

LEMMA CutOrder ==
  ASSUME OrderInv, NEW c \in Conns, Cut(c)
  PROVE  Order'
<1>1. /\ TypeOK /\ InHand /\ SentIs /\ Turns /\ Promised /\ \A d \in Conns : InCustody(d)
  BY OrderParts
<1>2. PICK i \in 0 .. Len(inbox[c]) :
        /\ inbox' = [inbox EXCEPT ![c] = SubSeq(@, 1, i)]
        /\ Move(OwnIn(SubSeq(inbox[c], i + 1, Len(inbox[c]))), "lost", None)
  BY DEF Cut
<1> DEFINE S == OwnIn(SubSeq(inbox[c], i + 1, Len(inbox[c])))
           K == OwnIn(SubSeq(inbox[c], 1, i))
<1>3. /\ cut' = cut \cup {c} /\ wire' = [wire EXCEPT ![c] = <<>>]
      /\ UNCHANGED <<wk, pdu, queued, result_queue, wout, sout, MaxCmdSN, ExpCmdSN, winSN, nextN>>
  BY DEF Cut, sessVars, outVars, workVars, initVars
<1>4. /\ inbox'[c] = SubSeq(inbox[c], 1, i) /\ \A d \in Conns \ {c} : inbox'[d] = inbox[d]
      /\ inbox[c] \in Seq(Command)
  BY <1>1, <1>2 DEF TypeOK
<1>5. InboxIs(c)
  BY <1>1 DEF InCustody
<1>6. Line(inbox'[c]) /\ OwnIn(inbox[c]) = K \cup S /\ K \cap S = {} /\ OwnIn(inbox'[c]) = K
  BY <1>4, <1>5, LineCut DEF InboxIs
<1>7. Move(S, "lost", None)
  BY <1>2
<1> HIDE DEF S, K
<1>8. OwnIn(inbox[c]) \subseteq Numbers
  BY <1>4, CommandFields DEF OwnIn
<1>9. Shift(S, "inbox", c, "lost", None)
  <2>1. S \in SUBSET Numbers /\ \A n \in S : at[n] = <<"inbox", c>>
    BY <1>5, <1>6, <1>8 DEF InboxIs
  <2> QED BY <1>7, <2>1 DEF Shift
<1>10. ASSUME NEW d \in Conns \ {c} PROVE InCustody(d)'
  <2>1. Stays(d)
    BY <1>9, MoveStays DEF Spots
  <2>2. /\ d \in Conns /\ InCustody(d) /\ inbox'[d] = inbox[d] /\ pdu'[d] = pdu[d]
        /\ queued'[d].own \subseteq queued[d].own /\ result_queue'[d] = result_queue[d]
        /\ wk'[d] = wk[d] /\ (d \in cut => d \in cut')
    BY <1>1, <1>3, <1>4
  <2> QED BY <1>1, <2>1, <2>2, CustodyKept
<1>11. InCustody(c)'
  <2>1. /\ Same("hand", c) /\ Same("now", c) /\ Same("queued", c) /\ Same("result", c)
    BY <1>9, MoveElsewhere
  <2>2. HandIs(c)' /\ UnitIs(c)' /\ ResultIs(c)'
    BY <1>1, <1>3, <2>1, HandKept, UnitKept, ResultKept DEF InCustody
  <2>3. InboxIs(c)'
    <3>1. \A n \in Numbers : at'[n] = IF n \in S THEN <<"lost", None>> ELSE at[n]
      BY <1>7 DEF Move
    <3>2. <<"lost", None>> # <<"inbox", c>>
      OBVIOUS
    <3>3. wk[c] = "gone" => FALSE
      BY <1>5 DEF InboxIs, Cut
    <3> QED BY <1>3, <1>5, <1>6, <3>1, <3>2, <3>3 DEF InboxIs
  <2> QED BY <2>2, <2>3 DEF InCustody
<1>12. Custody'
  BY <1>10, <1>11, CustodyParts
<1>13. SentIs' /\ Same("answered", None)
  <2>1. Same("unsent", None) /\ Same("answered", None)
    BY <1>9, MoveElsewhere
  <2> QED BY <1>1, <1>3, <2>1, SentKept
<1>14. Turns'
  <2>1. Delivered' = Delivered /\ Lost \subseteq Lost'
    BY <1>9, MoveCounts DEF After
  <2> QED BY <1>1, <1>3, <2>1, TurnsQuiet
<1>15. Promised'
  <2>1. Opened' /\ Allowed'
    BY <1>1, <1>3, <1>13, AnsweredKept DEF Promised, Opened, Allowed
  <2>2. Kept' = Kept
    BY <1>3 DEF Kept
  <2>3. ASSUME NEW d \in Conns PROVE Told(d)'
    <3>1. wire'[d] \in Seq(Kept)
      BY <1>1, <1>3, EmptySeq DEF Promised, Told, TypeOK
    <3> QED BY <1>1, <1>3, <2>2, <3>1 DEF Promised, Told
  <2> QED BY <2>1, <2>3 DEF Promised
<1> QED BY <1>12, <1>13, <1>14, <1>15 DEF Order

LEMMA EndPingOrder ==
  ASSUME OrderInv, NEW c \in Conns, EndPing(c)
  PROVE  Order'
<1>1. /\ TypeOK /\ InHand /\ Turns /\ Promised /\ HandIs(c)
  BY OrderParts DEF InCustody
<1>2. /\ UNCHANGED <<at, nextN, pdu, inbox, queued, result_queue, cut, wout, sout, wire,
                     MaxCmdSN, ExpCmdSN, winSN>>
      /\ wk' = [wk EXCEPT ![c] = "idle"]
  BY DEF EndPing, sessVars, outVars, netVars, initVars, auxVars
<1>3. \A d \in Conns : wk'[d] = IF d = c THEN "idle" ELSE wk[d]
  BY <1>1, <1>2 DEF TypeOK
<1>4. Grip(c) = {}
  BY <1>1 DEF HandIs, Simple, Grip, Own, EndPing
<1>5. Custody' /\ SentIs'
  BY <1>2, <1>3, <1>4, CustodyQuiet
<1>6. Turns'
  BY <1>1, <1>2, <1>3, AtKept, TurnsQuiet
<1>7. Promised'
  BY <1>1, <1>2, <1>3, AtKept, PromisedQuiet
<1> QED BY <1>5, <1>6, <1>7 DEF Order

LEMMA HangUpOrder ==
  ASSUME OrderInv, NEW c \in Conns, HangUp(c)
  PROVE  Order'
<1>1. /\ TypeOK /\ InHand /\ Turns /\ Promised
  BY OrderParts
<1>2. /\ UNCHANGED <<at, nextN, pdu, inbox, queued, result_queue, cut, wout, sout, wire,
                     MaxCmdSN, ExpCmdSN, winSN>>
      /\ wk' = [wk EXCEPT ![c] = "exit"]
  BY DEF HangUp, sessVars, outVars, netVars, initVars, auxVars
<1>3. \A d \in Conns : wk'[d] = IF d = c THEN "exit" ELSE wk[d]
  BY <1>1, <1>2 DEF TypeOK
<1>4. Grip(c) = {}
  BY DEF Grip, HangUp
<1>5. Custody' /\ SentIs'
  BY <1>2, <1>3, <1>4, CustodyQuiet
<1>6. Turns'
  BY <1>1, <1>2, <1>3, AtKept, TurnsQuiet
<1>7. Promised'
  BY <1>1, <1>2, <1>3, AtKept, PromisedQuiet
<1> QED BY <1>5, <1>6, <1>7 DEF Order

(* What is put on the wire was promised.                                   *)
LEMMA ToWireKept ==
  ASSUME wire \in [Conns -> Seq(Rsp)], NEW c \in Conns, NEW r \in Kept, ToWire(c, r),
         NEW d \in Conns, wire[d] \in Seq(Kept)
  PROVE  wire'[d] \in Seq(Kept)
<1>1. CASE d = c
  <2>1. wire'[d] = IF c \in cut THEN <<>> ELSE Append(wire[d], r)
    BY <1>1 DEF ToWire
  <2> QED BY <2>1, EmptySeq, AppendProperties
<1>2. CASE d # c
  BY <1>2 DEF ToWire
<1> QED BY <1>1, <1>2

LEMMA WorkerWriteOrder ==
  ASSUME OrderInv, NEW c \in Conns, WorkerWrite(c)
  PROVE  Order'
<1>1. /\ TypeOK /\ InHand /\ Turns /\ Promised
  BY OrderParts
<1>2. /\ UNCHANGED <<at, nextN, pdu, inbox, queued, result_queue, cut, sout,
                     MaxCmdSN, ExpCmdSN, winSN>>
      /\ ToWire(c, wout[c]) /\ wout' = [wout EXCEPT ![c] = None]
      /\ wk[c] = "write"
  BY DEF WorkerWrite, sessVars, initVars, auxVars
<1>3. /\ \A d \in Conns : wk'[d] = IF d = c THEN IF c \in cut THEN "exit" ELSE "idle" ELSE wk[d]
      /\ \A d \in Conns \ {c} : wout'[d] = wout[d]
  BY <1>1, <1>2 DEF TypeOK, WorkerWrite
<1>4. Grip(c) = {}
  BY <1>2 DEF Grip
<1>5. Custody' /\ SentIs'
  BY <1>2, <1>3, <1>4, CustodyQuiet
<1>6. Turns'
  BY <1>1, <1>2, <1>3, AtKept, TurnsQuiet
<1>7. Opened' /\ Allowed'
  BY <1>1, <1>2, AtKept DEF Promised, Opened, Allowed
<1>8. ASSUME NEW d \in Conns PROVE Told(d)'
  <2>1. Kept' = Kept
    BY <1>2 DEF Kept
  <2>2. wout[c] \in Kept /\ wire[d] \in Seq(Kept) /\ wire \in [Conns -> Seq(Rsp)]
    BY <1>1, <1>2 DEF Promised, Told, TypeOK
  <2>3. wire'[d] \in Seq(Kept)
    BY <1>2, <2>2, ToWireKept
  <2>4. wk'[d] = "write" => d # c /\ wk[d] = "write" /\ wout'[d] = wout[d]
    BY <1>3
  <2> QED BY <1>1, <1>2, <2>1, <2>3, <2>4 DEF Promised, Told
<1> QED BY <1>5, <1>6, <1>7, <1>8 DEF Order, Promised

LEMMA SenderWriteOrder ==
  ASSUME OrderInv, NEW c \in Conns, SenderWrite(c)
  PROVE  Order'
<1>1. /\ TypeOK /\ InHand /\ Turns /\ Promised
  BY OrderParts
<1>2. /\ UNCHANGED <<at, nextN, pdu, inbox, queued, result_queue, cut, wout, wk,
                     MaxCmdSN, ExpCmdSN, winSN>>
      /\ ToWire(c, sout[c]) /\ sout' = [sout EXCEPT ![c] = None]
      /\ sout[c] # None
  BY DEF SenderWrite, sessVars, initVars, auxVars, workVars
<1>3. \A d \in Conns : sout'[d] = IF d = c THEN None ELSE sout[d]
  BY <1>1, <1>2 DEF TypeOK
<1>5. Custody' /\ SentIs'
  BY <1>2, CustodyQuiet
<1>6. Turns'
  BY <1>1, <1>2, AtKept, TurnsQuiet
<1>7. Opened' /\ Allowed'
  BY <1>1, <1>2, AtKept DEF Promised, Opened, Allowed
<1>8. ASSUME NEW d \in Conns PROVE Told(d)'
  <2>1. Kept' = Kept
    BY <1>2 DEF Kept
  <2>2. sout[c] \in Kept /\ wire[d] \in Seq(Kept) /\ wire \in [Conns -> Seq(Rsp)]
    BY <1>1, <1>2 DEF Promised, Told, TypeOK
  <2>3. wire'[d] \in Seq(Kept)
    BY <1>2, <2>2, ToWireKept
  <2> QED BY <1>1, <1>2, <1>3, <2>1, <2>3 DEF Promised, Told
<1> QED BY <1>5, <1>6, <1>7, <1>8 DEF Order, Promised

(* What the test does to a command that is under way: its number is never  *)
(* outside the window, so that only an acknowledgement that lags refuses   *)
(* it, and one that need not wait has its turn.                            *)
LEMMA CheckTurn ==
  ASSUME OrderInv, NEW c \in Conns, NEW p \in Command, Simple(p), Check(c, p),
         \A n \in Own(p) : at[n] = <<"inbox", c>> \/ at[n] = <<"hand", c>>
  PROVE  /\ MaxCmdSN' = MaxCmdSN
         /\ ExpCmdSN' = IF p.imm THEN ExpCmdSN ELSE p.n
         /\ \/ wk' = [wk EXCEPT ![c] = "exit"] /\ Move(Own(p), "lost", None)
            \/ wk' = [wk EXCEPT ![c] = "held"] /\ Move(Own(p), "hand", c)
         /\ ~p.imm => /\ p.kind = "scsi" /\ p.n >= ExpCmdSN
                      /\ ~Early(p) => p.n = ExpCmdSN
<1>1. MaxCmdSN' = MaxCmdSN
  BY DEF Check
<1>2. \/ wk' = [wk EXCEPT ![c] = "exit"] /\ Move(Own(p), "lost", None)
      \/ wk' = [wk EXCEPT ![c] = "held"] /\ Move(Own(p), "hand", c)
  BY DEF Check, Refuse
<1>3. CASE p.imm
  BY <1>1, <1>2, <1>3 DEF Check
<1>4. CASE ~p.imm
  <2>1. p.kind = "scsi" /\ Own(p) = {p.n} /\ p.n \in Numbers
    BY <1>4, CommandFields DEF Simple
  <2>2. /\ ExpCmdSN <= p.n /\ (GT(p.n, ExpCmdSN) <=> p.n > ExpCmdSN)
        /\ ~LT(p.n, ExpCmdSN) /\ ~GT(p.n, MaxCmdSN)
    <3>1. at[p.n] = <<"inbox", c>> \/ at[p.n] = <<"hand", c>>
      BY <2>1
    <3> QED BY <2>1, <3>1, NumbersNear
  <2>3. ~Outside(p)
    BY <1>4, <2>2 DEF Outside, OutsideWindow
  <2>4. ExpCmdSN' = p.n
    BY <1>4, <2>1, <2>3 DEF Check
  <2>5. ~Early(p) => p.n = ExpCmdSN
    <3>1. ExpCmdSN \in Nat /\ p.n \in Nat
      BY <2>1 DEF OrderInv, Order, Basis, TypeOK, Numbers
    <3> QED BY <1>4, <2>1, <2>2, <3>1 DEF Early
  <2>6. p.n >= ExpCmdSN
    <3>1. ExpCmdSN \in Nat /\ p.n \in Nat
      BY <2>1 DEF OrderInv, Order, Basis, TypeOK, Numbers
    <3> QED BY <2>2, <3>1
  <2> QED BY <1>1, <1>2, <1>4, <2>1, <2>4, <2>5, <2>6
<1> QED BY <1>3, <1>4

(* The head of an inbox goes to the hand of the worker, or is lost.        *)
LEMMA TakeCustody ==
  ASSUME OrderInv, NEW c \in Conns, Take(c), NEW w \in {"exit", "held", "mcs"},
         wk' = [wk EXCEPT ![c] = w], w = "mcs" => ~Head(inbox[c]).imm,
         \/ w = "exit" /\ Move(Own(Head(inbox[c])), "lost", None)
         \/ w # "exit" /\ Move(Own(Head(inbox[c])), "hand", c)
  PROVE  Custody' /\ SentIs' /\ Delivered' = Delivered /\ Lost \subseteq Lost'
         /\ Same("answered", None)
<1> DEFINE p == Head(inbox[c])
<1>1. /\ TypeOK /\ InHand /\ SentIs /\ \A d \in Conns : InCustody(d)
  BY OrderParts
<1>2. /\ inbox[c] \in Seq(Command) /\ inbox[c] # <<>> /\ wk[c] = "idle"
      /\ inbox'[c] = Tail(inbox[c]) /\ \A d \in Conns \ {c} : inbox'[d] = inbox[d]
      /\ pdu'[c] = p /\ \A d \in Conns \ {c} : pdu'[d] = pdu[d]
      /\ UNCHANGED <<queued, result_queue, cut, nextN>>
      /\ wk'[c] = w /\ \A d \in Conns \ {c} : wk'[d] = wk[d]
  BY <1>1 DEF Take, TypeOK, outVars, initVars
<1>3. p \in Command /\ InboxIs(c)
  BY <1>1, <1>2 DEF InCustody
<1>4. /\ Simple(p) /\ Line(inbox'[c])
      /\ OwnIn(inbox[c]) = Own(p) \cup OwnIn(inbox'[c])
      /\ \A m \in Own(p) : \A n \in OwnIn(inbox'[c]) : m < n
  BY <1>2, <1>3, LineHead DEF InboxIs
<1> HIDE DEF p
<1>5. Own(p) \in SUBSET Numbers
  BY <1>3, CommandFields
<1>6. \A n \in Own(p) : at[n] = <<"inbox", c>>
  BY <1>3, <1>4, <1>5 DEF InboxIs
<1>7. PICK new \in {"lost", "hand"}, x \in {None, c} :
        /\ Move(Own(p), new, x)
        /\ w = "exit" => new = "lost" /\ x = None
        /\ w # "exit" => new = "hand" /\ x = c
  BY DEF p
<1>8. Shift(Own(p), "inbox", c, new, x)
  BY <1>5, <1>6, <1>7 DEF Shift
<1>9. ASSUME NEW d \in Conns \ {c} PROVE InCustody(d)'
  <2>1. x = d => new \notin Spots
    BY <1>7 DEF Spots
  <2>2. Stays(d)
    BY <1>8, <2>1, MoveStays
  <2> QED BY <1>1, <1>2, <2>2, CustodyKept
<1>10. \A n \in Numbers : at'[n] = IF n \in Own(p) THEN <<new, x>> ELSE at[n]
  BY <1>7 DEF Move
<1>11. InCustody(c)'
  <2>1. /\ Same("now", c) /\ Same("queued", c) /\ Same("result", c)
    BY <1>8, MoveElsewhere
  <2>2. UnitIs(c)' /\ ResultIs(c)'
    BY <1>1, <1>2, <2>1, UnitKept, ResultKept DEF InCustody
  <2>3. InboxIs(c)'
    <3>1. \A n \in Own(p) : n \notin OwnIn(inbox'[c])
      <4>1. \A n \in Own(p) : n \in Nat
        BY <1>5 DEF Numbers
      <4> QED BY <1>4, <4>1
    <3>2. <<new, x>> # <<"inbox", c>>
      OBVIOUS
    <3> QED BY <1>2, <1>3, <1>4, <1>10, <3>1, <3>2 DEF InboxIs
  <2>4. HandIs(c)'
    <3>1. \A n \in Numbers : at[n] # <<"hand", c>>
      BY <1>1, <1>2 DEF InCustody, HandIs, Grip
    <3>2. Grip(c)' = IF w = "exit" THEN {} ELSE Own(p)
      BY <1>2 DEF Grip
    <3>3. \A n \in Numbers : at'[n] = <<"hand", c>> <=> n \in Grip(c)'
      BY <1>7, <1>10, <3>1, <3>2
    <3> QED BY <1>2, <1>4, <3>3 DEF HandIs, p
  <2> QED BY <2>2, <2>3, <2>4 DEF InCustody
<1>12. Custody'
  BY <1>9, <1>11, CustodyParts
<1>13. SentIs' /\ Same("answered", None)
  <2>1. Same("unsent", None) /\ Same("answered", None)
    BY <1>8, MoveElsewhere
  <2> QED BY <1>1, <1>2, <2>1, SentKept
<1>14. Delivered' = Delivered /\ Lost \subseteq Lost'
  BY <1>8, MoveCounts DEF After
<1> QED BY <1>12, <1>13, <1>14

(* The only connection left skips the commands before the one that came:   *)
(* all of them are lost, since none is in hand or under way.               *)
LEMMA NothingBefore ==
  ASSUME OrderInv, NEW c \in Conns, wk[c] = "idle", inbox[c] # <<>>, ~(Connections > 1),
         ~Head(inbox[c]).imm
  PROVE  /\ \A d \in Conns \ {c} : wk[d] = "gone"
         /\ \A m \in Numbers : m < Head(inbox[c]).n => m \in Delivered \cup Lost
<1> DEFINE p == Head(inbox[c])
<1>1. /\ TypeOK /\ SentIs /\ \A d \in Conns : InCustody(d)
  BY OrderParts
<1>2. inbox[c] \in Seq(Command) /\ at \in [Numbers -> Fates] /\ p \in Command
  BY <1>1 DEF TypeOK
<1>3. \A d \in Conns \ {c} : wk[d] = "gone"
  <2> DEFINE L == {d \in Conns : wk[d] # "gone"}
  <2>1. IsFiniteSet(L) /\ Cardinality(L) \in Nat /\ {c} \in SUBSET L
    BY ConnsAssumption, FS_Subset, FS_CardinalityType
  <2>2. Cardinality({c}) = 1
    BY FS_Singleton
  <2>3. Cardinality(L) <= 1
    BY <2>1 DEF Connections
  <2>4. Cardinality({c}) <= Cardinality(L) /\ (Cardinality(L) = Cardinality({c}) => L = {c})
    BY <2>1, FS_Subset
  <2>5. L = {c}
    BY <2>1, <2>2, <2>3, <2>4
  <2> QED BY <2>5
<1>4. InboxIs(c) /\ Own(p) = {p.n} /\ p.n \in Numbers
  BY <1>1, <1>2, CommandFields DEF InCustody
<1>5. /\ OwnIn(inbox[c]) = {p.n} \cup OwnIn(Tail(inbox[c]))
      /\ \A n \in OwnIn(Tail(inbox[c])) : p.n < n
  BY <1>2, <1>4, LineHead DEF InboxIs
<1> HIDE DEF p
<1>6. p.n < nextN
  <2>1. at[p.n] = <<"inbox", c>>
    BY <1>4, <1>5 DEF InboxIs
  <2> QED BY <1>4, <2>1, NumbersNear
<1>7. ASSUME NEW m \in Numbers, m < p.n
      PROVE  m \in Delivered \cup Lost
  <2>1. m \in Nat /\ p.n \in Nat /\ nextN \in Nat
    BY <1>1, <1>4 DEF Numbers, TypeOK
  <2>2. at[m] # <<"unsent", None>>
    BY <1>1, <1>6, <1>7, <2>1 DEF SentIs
  <2>3. ASSUME NEW d \in Conns PROVE at[m] # <<"inbox", d>>
    <3>1. CASE d = c
      <4>1. m \notin OwnIn(inbox[c])
        <5>1. m # p.n
          BY <1>7, <2>1
        <5>2. m \notin OwnIn(Tail(inbox[c]))
          <6>1. ASSUME m \in OwnIn(Tail(inbox[c])) PROVE FALSE
            <7>1. p.n < m
              BY <1>5, <6>1
            <7> QED BY <1>7, <2>1, <7>1
          <6> QED BY <6>1
        <5> QED BY <1>5, <5>1, <5>2
      <4> QED BY <1>4, <3>1, <4>1 DEF InboxIs
    <3>2. CASE d # c
      <4>1. inbox[d] = <<>> /\ InboxIs(d)
        BY <1>1, <1>3, <3>2 DEF InCustody, InboxIs
      <4>2. OwnIn(inbox[d]) = {}
        BY <4>1 DEF OwnIn
      <4> QED BY <4>1, <4>2 DEF InboxIs
    <3> QED BY <3>1, <3>2
  <2>4. ASSUME NEW d \in Conns PROVE at[m] # <<"hand", d>>
    <3>1. HandIs(d) /\ wk[d] \in {"idle", "gone"}
      BY <1>1, <1>3 DEF InCustody
    <3> QED BY <3>1 DEF HandIs, Grip
  <2>5. at[m][1] \in After \cup {"lost"}
    BY <1>2, <2>2, <2>3, <2>4 DEF Fates, After
  <2> QED BY <2>5 DEF Delivered, Lost, After
<1> QED BY <1>3, <1>7 DEF p

LEMMA ReadCommandOrder ==
  ASSUME OrderInv, NEW c \in Conns, ReadCommand(c)
  PROVE  Order'
<1> DEFINE p == Head(inbox[c])
<1>1. /\ TypeOK /\ InHand /\ Turns /\ Promised /\ InCustody(c)
  BY OrderParts
<1>2. /\ Take(c) /\ wk[c] = "idle" /\ inbox[c] # <<>> /\ inbox[c] \in Seq(Command)
      /\ pdu'[c] = p /\ \A d \in Conns \ {c} : pdu'[d] = pdu[d]
      /\ UNCHANGED <<wout, sout, result_queue, wire, nextN, winSN>>
  BY <1>1 DEF ReadCommand, Take, TypeOK, outVars, initVars
<1>3. p \in Command /\ Simple(p) /\ (\A n \in Own(p) : at[n] = <<"inbox", c>>)
  <2>1. InboxIs(c) /\ p \in Command
    BY <1>1, <1>2 DEF InCustody
  <2>2. Simple(p) /\ Own(p) \subseteq OwnIn(inbox[c])
    BY <1>2, <2>1, LineHead DEF InboxIs
  <2>3. Own(p) \in SUBSET Numbers
    BY <2>1, CommandFields
  <2> QED BY <2>1, <2>2, <2>3 DEF InboxIs
<1>4. \/ /\ Early(p) /\ Connections > 1 /\ wk' = [wk EXCEPT ![c] = "mcs"]
         /\ Move(Own(p), "hand", c) /\ UNCHANGED <<ExpCmdSN, MaxCmdSN>>
      \/ ~(Early(p) /\ Connections > 1) /\ Check(c, p)
  BY <1>2 DEF ReadCommand
<1> HIDE DEF p
<1>5. Check(c, p) =>
        /\ MaxCmdSN' = MaxCmdSN
        /\ ExpCmdSN' = IF p.imm THEN ExpCmdSN ELSE p.n
        /\ \/ wk' = [wk EXCEPT ![c] = "exit"] /\ Move(Own(p), "lost", None)
           \/ wk' = [wk EXCEPT ![c] = "held"] /\ Move(Own(p), "hand", c)
        /\ ~p.imm => /\ p.kind = "scsi" /\ p.n >= ExpCmdSN
                     /\ ~Early(p) => p.n = ExpCmdSN
  BY <1>3, CheckTurn
<1>6. PICK w \in {"exit", "held", "mcs"} :
        /\ wk' = [wk EXCEPT ![c] = w]
        /\ w = "mcs" => ~p.imm
        /\ \/ w = "exit" /\ Move(Own(p), "lost", None)
           \/ w # "exit" /\ Move(Own(p), "hand", c)
        /\ w # "mcs" => Check(c, p) /\ ~(Early(p) /\ Connections > 1)
        /\ w = "mcs" => ExpCmdSN' = ExpCmdSN
  <2>1. Early(p) => ~p.imm
    BY DEF Early
  <2> QED BY <1>4, <1>5, <2>1
<1>7. /\ Custody' /\ SentIs' /\ Delivered' = Delivered /\ Lost \subseteq Lost'
      /\ Same("answered", None)
  BY <1>2, <1>6, TakeCustody DEF p
<1>8. wk'[c] = w /\ \A d \in Conns \ {c} : wk'[d] = wk[d]
  BY <1>1, <1>6 DEF TypeOK
<1>9. Promised'
  <2>1. MaxCmdSN' = MaxCmdSN
    BY <1>4, <1>5
  <2> QED BY <1>1, <1>2, <1>7, <1>8, <2>1, PromisedQuiet
<1>10. ASSUME ExpCmdSN' = ExpCmdSN, w = "held" /\ ~p.imm => p.n = ExpCmdSN
       PROVE  Turns'
  <2>1. ASSUME NEW d \in Conns, Holds(d)' PROVE pdu'[d].n = ExpCmdSN
    <3>1. CASE d = c
      BY <1>2, <1>8, <1>10, <2>1, <3>1 DEF Holds
    <3>2. CASE d # c
      BY <1>1, <1>2, <1>8, <2>1, <3>2 DEF Holds, Turns
    <3> QED BY <3>1, <3>2
  <2>2. ASSUME NEW d \in Conns, wk'[d] = "asleep" PROVE pdu'[d].n > ExpCmdSN
    BY <1>1, <1>2, <1>8, <2>2 DEF Turns
  <2> QED BY <1>1, <1>7, <1>10, <2>1, <2>2, TurnsKept
<1>11. Turns'
  <2>1. CASE w = "mcs"
    BY <1>6, <1>10, <2>1
  <2>2. CASE p.imm /\ w # "mcs"
    BY <1>5, <1>6, <1>10, <2>2
  <2>3. CASE ~p.imm /\ w # "mcs" /\ ~Early(p)
    BY <1>5, <1>6, <1>10, <2>3
  <2>4. CASE ~p.imm /\ w # "mcs" /\ Early(p)
    <3>1. ~(Connections > 1) /\ ExpCmdSN' = p.n /\ p.n >= ExpCmdSN
      BY <1>5, <1>6, <2>4
    <3>2. /\ \A d \in Conns \ {c} : wk[d] = "gone"
          /\ \A m \in Numbers : m < p.n => m \in Delivered \cup Lost
      BY <1>2, <2>4, <3>1, NothingBefore DEF p
    <3>3. \A d \in Conns : Holds(d)' => pdu'[d].n = ExpCmdSN'
      BY <1>2, <1>8, <3>1, <3>2 DEF Holds
    <3>4. \A d \in Conns : wk'[d] # "asleep"
      BY <1>8, <3>2
    <3>5. \A n \in Delivered' : n < ExpCmdSN'
      <4>1. p.n \in Nat /\ ExpCmdSN \in Nat
        BY <1>1, <1>3, CommandFields DEF TypeOK
      <4>2. \A n \in Delivered : n < ExpCmdSN /\ n \in Nat
        BY <1>1 DEF Turns, Delivered, Numbers
      <4> QED BY <1>7, <3>1, <4>1, <4>2
    <3>6. \A n \in Numbers : n < ExpCmdSN' => n \in Delivered' \cup Lost'
      BY <1>7, <3>1, <3>2
    <3> QED BY <3>3, <3>4, <3>5, <3>6 DEF Turns
  <2> QED BY <2>1, <2>2, <2>3, <2>4
<1> QED BY <1>7, <1>9, <1>11 DEF Order

(* A command in hand that waited: it has its turn, or it is lost.          *)
LEMMA JudgeOrder ==
  ASSUME OrderInv, NEW c \in Conns, wk[c] \in {"mcs", "asleep"}, NEW w \in {"exit", "held"},
         wk' = [wk EXCEPT ![c] = w],
         \/ w = "exit" /\ Move(Own(pdu[c]), "lost", None)
         \/ w = "held" /\ Move(Own(pdu[c]), "hand", c) /\ pdu[c].n = ExpCmdSN,
         ExpCmdSN' = ExpCmdSN, MaxCmdSN' = MaxCmdSN,
         UNCHANGED <<outVars, pdu, netVars, initVars>>
  PROVE  Order'
<1> DEFINE p == pdu[c]
<1>1. /\ TypeOK /\ InHand /\ SentIs /\ Turns /\ Promised /\ \A d \in Conns : InCustody(d)
  BY OrderParts
<1>2. p \in Command /\ HandIs(c) /\ Own(p) \in SUBSET Numbers /\ Own(p) = Grip(c)
  BY <1>1, CommandFields DEF InHand, InCustody, Grip
<1>3. /\ UNCHANGED <<inbox, pdu, queued, result_queue, cut, nextN, winSN, wout, sout, wire>>
      /\ wk'[c] = w /\ \A d \in Conns \ {c} : wk'[d] = wk[d]
  BY <1>1 DEF TypeOK, outVars, netVars, initVars
<1> HIDE DEF p
<1>4. PICK new \in {"lost", "hand"}, x \in {None, c} :
        /\ Move(Own(p), new, x)
        /\ w = "exit" => new = "lost" /\ x = None
        /\ w = "held" => new = "hand" /\ x = c
  BY DEF p
<1>5. Shift(Own(p), "hand", c, new, x)
  BY <1>2, <1>4 DEF Shift, HandIs
<1>6. ASSUME NEW d \in Conns \ {c} PROVE InCustody(d)'
  <2>1. x = d => new \notin Spots
    BY <1>4 DEF Spots
  <2>2. Stays(d)
    BY <1>5, <2>1, MoveStays
  <2> QED BY <1>1, <1>3, <2>2, CustodyKept
<1>7. InCustody(c)'
  <2>1. /\ Same("inbox", c) /\ Same("now", c) /\ Same("queued", c) /\ Same("result", c)
    BY <1>5, MoveElsewhere
  <2>2. UnitIs(c)' /\ ResultIs(c)' /\ InboxIs(c)'
    BY <1>1, <1>3, <2>1, UnitKept, ResultKept, InboxKept DEF InCustody
  <2>3. HandIs(c)'
    <3>1. Grip(c)' = IF w = "exit" THEN {} ELSE Own(p)
      BY <1>3 DEF Grip, p
    <3>2. \A n \in Numbers : at'[n] = IF n \in Own(p) THEN <<new, x>> ELSE at[n]
      BY <1>4 DEF Move
    <3>3. \A n \in Numbers : at'[n] = <<"hand", c>> <=> n \in Grip(c)'
      BY <1>2, <1>4, <3>1, <3>2 DEF HandIs
    <3> QED BY <1>2, <1>3, <3>3 DEF HandIs
  <2> QED BY <2>2, <2>3 DEF InCustody
<1>8. Custody'
  BY <1>6, <1>7, CustodyParts
<1>9. SentIs' /\ Same("answered", None)
  <2>1. Same("unsent", None) /\ Same("answered", None)
    BY <1>5, MoveElsewhere
  <2> QED BY <1>1, <1>3, <2>1, SentKept
<1>10. Turns'
  <2>1. Delivered' = Delivered /\ Lost \subseteq Lost'
    BY <1>5, MoveCounts DEF After
  <2>2. \A d \in Conns : Holds(d)' => pdu'[d].n = ExpCmdSN
    BY <1>1, <1>3 DEF Holds, Turns
  <2>3. \A d \in Conns : wk'[d] = "asleep" => pdu'[d].n > ExpCmdSN
    BY <1>1, <1>3 DEF Turns
  <2> QED BY <1>1, <2>1, <2>2, <2>3, TurnsKept
<1>11. Promised'
  BY <1>1, <1>3, <1>9, PromisedQuiet
<1> QED BY <1>8, <1>9, <1>10, <1>11 DEF Order

LEMMA WaitingCommand ==
  ASSUME OrderInv, NEW c \in Conns, wk[c] \in {"mcs", "asleep"}
  PROVE  /\ pdu[c] \in Command /\ Simple(pdu[c]) /\ ~pdu[c].imm
         /\ pdu[c].n \in Numbers /\ Own(pdu[c]) = {pdu[c].n} /\ at[pdu[c].n] = <<"hand", c>>
<1>1. pdu[c] \in Command /\ HandIs(c)
  BY OrderParts DEF InHand, InCustody
<1>2. Simple(pdu[c]) /\ ~pdu[c].imm
  BY <1>1 DEF HandIs
<1>3. pdu[c].n \in Numbers /\ Own(pdu[c]) = {pdu[c].n}
  BY <1>1, <1>2, CommandFields
<1> QED BY <1>1, <1>2, <1>3 DEF HandIs, Grip

LEMMA McsTestOrder ==
  ASSUME OrderInv, NEW c \in Conns, McsTest(c)
  PROVE  Order'
<1>1. /\ TypeOK /\ InHand /\ SentIs /\ Turns /\ Promised /\ \A d \in Conns : InCustody(d)
  BY OrderParts
<1>2. /\ pdu[c] \in Command /\ Simple(pdu[c]) /\ ~pdu[c].imm
      /\ pdu[c].n \in Numbers /\ Own(pdu[c]) = {pdu[c].n} /\ at[pdu[c].n] = <<"hand", c>>
  BY WaitingCommand DEF McsTest
<1>3. CASE Early(pdu[c])
  <2>1. /\ UNCHANGED <<at, nextN, pdu, inbox, queued, result_queue, cut, wout, sout, wire,
                       MaxCmdSN, ExpCmdSN, winSN>>
        /\ wk' = [wk EXCEPT ![c] = "asleep"] /\ wk[c] = "mcs"
    BY <1>3 DEF McsTest, outVars, netVars, initVars, auxVars
  <2>2. \A d \in Conns : wk'[d] = IF d = c THEN "asleep" ELSE wk[d]
    BY <1>1, <2>1 DEF TypeOK
  <2>3. \A place, d : Same(place, d)
    BY <2>1, AtKept
  <2>4. SentIs'
    BY <1>1, <2>1, <2>3, SentKept
  <2>5. Custody'
    <3>1. ASSUME NEW d \in Conns PROVE InCustody(d)'
      <4>1. UnitIs(d)' /\ ResultIs(d)'
        BY <1>1, <2>1, <2>3, UnitKept, ResultKept DEF InCustody
      <4>2. InboxIs(d)'
        BY <1>1, <2>1, <2>2, <2>3, InboxKept DEF InCustody
      <4>3. HandIs(d)'
        BY <1>1, <2>1, <2>2, <2>3, HandKept DEF InCustody
      <4> QED BY <4>1, <4>2, <4>3 DEF InCustody
    <3> QED BY <3>1, CustodyParts
  <2>6. Turns'
    <3>1. pdu[c].n > ExpCmdSN
      BY <1>2, <1>3, NumbersNear DEF Early
    <3>2. \A d \in Conns : wk'[d] = "asleep" => pdu'[d].n > ExpCmdSN
      BY <1>1, <2>1, <2>2, <3>1 DEF Turns
    <3>3. \A d \in Conns : Holds(d)' => pdu'[d].n = ExpCmdSN
      BY <1>1, <2>1, <2>2 DEF Holds, Turns
    <3>4. Delivered' = Delivered /\ Lost' = Lost
      BY <2>1, AtKept
    <3> QED BY <1>1, <2>1, <3>2, <3>3, <3>4, TurnsKept
  <2>7. Promised'
    BY <1>1, <2>1, <2>2, <2>3, PromisedQuiet
  <2> QED BY <2>4, <2>5, <2>6, <2>7 DEF Order
<1>4. CASE ~Early(pdu[c])
  <2>1. Check(c, pdu[c]) /\ UNCHANGED <<outVars, pdu, netVars, initVars>>
    BY <1>4 DEF McsTest
  <2>2. /\ MaxCmdSN' = MaxCmdSN /\ ExpCmdSN' = ExpCmdSN /\ pdu[c].n = ExpCmdSN
        /\ \/ wk' = [wk EXCEPT ![c] = "exit"] /\ Move(Own(pdu[c]), "lost", None)
           \/ wk' = [wk EXCEPT ![c] = "held"] /\ Move(Own(pdu[c]), "hand", c)
    <3>1. \A n \in Own(pdu[c]) : at[n] = <<"hand", c>>
      BY <1>2
    <3>2. /\ MaxCmdSN' = MaxCmdSN
          /\ ExpCmdSN' = IF pdu[c].imm THEN ExpCmdSN ELSE pdu[c].n
          /\ \/ wk' = [wk EXCEPT ![c] = "exit"] /\ Move(Own(pdu[c]), "lost", None)
             \/ wk' = [wk EXCEPT ![c] = "held"] /\ Move(Own(pdu[c]), "hand", c)
          /\ ~pdu[c].imm => /\ pdu[c].kind = "scsi" /\ pdu[c].n >= ExpCmdSN
                            /\ ~Early(pdu[c]) => pdu[c].n = ExpCmdSN
      BY <1>2, <2>1, <3>1, CheckTurn
    <3> QED BY <1>2, <1>4, <3>2
  <2> QED BY <2>1, <2>2, JudgeOrder DEF McsTest
<1> QED BY <1>3, <1>4

LEMMA McsTimeOutOrder ==
  ASSUME OrderInv, NEW c \in Conns, McsTimeOut(c)
  PROVE  Order'
<1>1. /\ pdu[c] \in Command /\ Simple(pdu[c]) /\ ~pdu[c].imm
      /\ Own(pdu[c]) = {pdu[c].n} /\ at[pdu[c].n] = <<"hand", c>>
  BY WaitingCommand DEF McsTimeOut
<1>2. UNCHANGED <<outVars, pdu, netVars, initVars>> /\ wk[c] = "asleep"
  BY DEF McsTimeOut
<1>3. CASE Early(pdu[c])
  <2>1. /\ wk' = [wk EXCEPT ![c] = "exit"] /\ Move(Own(pdu[c]), "lost", None)
        /\ ExpCmdSN' = ExpCmdSN /\ MaxCmdSN' = MaxCmdSN
    BY <1>3 DEF McsTimeOut, Refuse
  <2> QED BY <1>2, <2>1, JudgeOrder
<1>4. CASE ~Early(pdu[c])
  <2>1. Check(c, pdu[c])
    BY <1>4 DEF McsTimeOut
  <2>2. /\ MaxCmdSN' = MaxCmdSN /\ ExpCmdSN' = ExpCmdSN /\ pdu[c].n = ExpCmdSN
        /\ \/ wk' = [wk EXCEPT ![c] = "exit"] /\ Move(Own(pdu[c]), "lost", None)
           \/ wk' = [wk EXCEPT ![c] = "held"] /\ Move(Own(pdu[c]), "hand", c)
    <3>1. \A n \in Own(pdu[c]) : at[n] = <<"hand", c>>
      BY <1>1
    <3>2. /\ MaxCmdSN' = MaxCmdSN
          /\ ExpCmdSN' = IF pdu[c].imm THEN ExpCmdSN ELSE pdu[c].n
          /\ \/ wk' = [wk EXCEPT ![c] = "exit"] /\ Move(Own(pdu[c]), "lost", None)
             \/ wk' = [wk EXCEPT ![c] = "held"] /\ Move(Own(pdu[c]), "hand", c)
          /\ ~pdu[c].imm => /\ pdu[c].kind = "scsi" /\ pdu[c].n >= ExpCmdSN
                            /\ ~Early(pdu[c]) => pdu[c].n = ExpCmdSN
      BY <1>1, <2>1, <3>1, CheckTurn
    <3> QED BY <1>1, <1>4, <3>2
  <2> QED BY <1>2, <2>2, JudgeOrder
<1> QED BY <1>3, <1>4

(* A delivery moves ExpCmdSN past the command that had its turn and leaves *)
(* nobody asleep.                                                          *)
LEMMA DeliverOrder ==
  ASSUME OrderInv, NEW c \in Conns, Deliver(c)
  PROVE  Order'
<1> DEFINE p == pdu[c]
<1>1. /\ TypeOK /\ InHand /\ WakeupOwed /\ SentIs /\ Turns /\ Promised
      /\ \A d \in Conns : InCustody(d)
  BY OrderParts
<1>2. /\ p \in Command /\ HandIs(c) /\ Own(p) \in SUBSET Numbers /\ Own(p) = Grip(c)
      /\ p.imm \in BOOLEAN
      /\ ~p.imm => Own(p) = {p.n} /\ p.n \in Numbers /\ p.n = ExpCmdSN
      /\ p.imm => Own(p) = {}
  <2>1. p \in Command /\ HandIs(c) /\ Own(p) = Grip(c)
    BY <1>1 DEF InHand, InCustody, Deliver, Grip
  <2>2. ~p.imm => p.n = ExpCmdSN
    BY <1>1 DEF Turns, Holds, Deliver
  <2> QED BY <2>1, <2>2, CommandFields
<1>3. /\ wk[c] = "held"
      /\ UNCHANGED <<inbox, pdu, result_queue, cut, nextN, winSN, wout, sout, wire, MaxCmdSN>>
      /\ ExpCmdSN' = IF p.imm THEN ExpCmdSN ELSE ExpCmdSN + 1
  BY DEF Deliver, netVars, initVars
<1>4. PICK w \in {"idle", "now"}, new \in {"queued", "now"} :
        /\ wk' = [Awake(p) EXCEPT ![c] = w] /\ Move(Own(p), new, c)
        /\ w = "now" => new = "now" /\ queued' = queued
        /\ w = "idle" => new = "queued" /\ queued' = [queued EXCEPT ![c] =
             [own |-> @.own \cup Own(p), imm |-> IF p.imm THEN @.imm + 1 ELSE @.imm]]
  BY DEF Deliver
<1>5. /\ \A d \in Conns : Awake(p)[d] = IF Wakes(p) /\ wk[d] = "asleep" THEN "mcs" ELSE wk[d]
      /\ Awake(p) = [d \in Conns |-> Awake(p)[d]]
  BY DEF Awake
<1>6. /\ wk'[c] = w
      /\ \A d \in Conns \ {c} : wk'[d] = IF Wakes(p) /\ wk[d] = "asleep" THEN "mcs" ELSE wk[d]
  BY <1>4, <1>5
<1>7. /\ \A d \in Conns \ {c} : queued'[d] = queued[d]
      /\ w = "now" => queued'[c].own = queued[c].own
      /\ w = "idle" => queued'[c].own = queued[c].own \cup Own(p)
  <2>1. queued \in [Conns -> [own: SUBSET Numbers, imm: Nat]]
    BY <1>1 DEF TypeOK
  <2> QED BY <1>4, <2>1
<1> HIDE DEF p
<1>8. Shift(Own(p), "hand", c, new, c)
  BY <1>2, <1>4 DEF Shift, HandIs
<1>9. \A n \in Numbers : at'[n] = IF n \in Own(p) THEN <<new, c>> ELSE at[n]
  BY <1>4 DEF Move
<1>10. ASSUME NEW d \in Conns \ {c} PROVE InCustody(d)'
  <2>1. Stays(d)
    BY <1>8, MoveStays
  <2> QED BY <1>1, <1>3, <1>6, <1>7, <2>1, CustodyKept
<1>11. InCustody(c)'
  <2>1. /\ Same("inbox", c) /\ Same("result", c)
    BY <1>8, MoveElsewhere
  <2>2. ResultIs(c)' /\ InboxIs(c)'
    BY <1>1, <1>3, <1>6, <2>1, ResultKept, InboxKept DEF InCustody
  <2>3. UnitIs(c)'
    <3>1. \A n \in queued[c].own : at[n] = <<"queued", c>> /\ n \in Numbers
      BY <1>1 DEF InCustody, UnitIs, TypeOK
    <3>2. \A n \in queued[c].own : at'[n] = <<"queued", c>>
      <4>1. \A n \in Own(p) : at[n] = <<"hand", c>>
        BY <1>8 DEF Shift
      <4>2. <<"hand", c>> # <<"queued", c>>
        OBVIOUS
      <4> QED BY <1>9, <3>1, <4>1, <4>2
    <3>3. w = "idle" => \A n \in Own(p) : at'[n] = <<"queued", c>>
      BY <1>2, <1>4, <1>9
    <3> QED BY <1>4, <1>7, <3>2, <3>3 DEF UnitIs
  <2>4. HandIs(c)'
    <3>1. Grip(c)' = {}
      BY <1>4, <1>6 DEF Grip
    <3>2. <<new, c>> # <<"hand", c>>
      OBVIOUS
    <3>3. \A n \in Numbers : at'[n] # <<"hand", c>>
      BY <1>2, <1>9, <3>2 DEF HandIs
    <3>4. w = "now" => \A n \in Own(p) : at'[n] = <<"now", c>>
      BY <1>2, <1>4, <1>9
    <3>5. Simple(p)
      BY <1>2, <1>3 DEF HandIs, p
    <3> QED BY <1>3, <1>4, <1>6, <3>1, <3>3, <3>4, <3>5 DEF HandIs, p
  <2> QED BY <2>2, <2>3, <2>4 DEF InCustody
<1>12. Custody'
  BY <1>10, <1>11, CustodyParts
<1>13. SentIs' /\ Same("answered", None)
  <2>1. Same("unsent", None) /\ Same("answered", None)
    BY <1>8, MoveElsewhere
  <2> QED BY <1>1, <1>3, <2>1, SentKept
<1>14. Delivered' = Delivered \cup Own(p) /\ Lost \subseteq Lost'
  BY <1>8, MoveCounts DEF After
<1>15. Turns'
  <2>1. CASE p.imm
    <3>1. \A d \in Conns : wk'[d] \in {"held", "asleep"} => wk'[d] = wk[d]
      BY <1>4, <1>6
    <3> QED BY <1>1, <1>2, <1>3, <1>14, <2>1, <3>1, TurnsQuiet
  <2>2. CASE ~p.imm
    <3>1. /\ ExpCmdSN' = ExpCmdSN + 1 /\ ExpCmdSN \in Nat
          /\ Delivered' = Delivered \cup {ExpCmdSN}
      BY <1>1, <1>2, <1>3, <1>14, <2>2 DEF TypeOK
    <3>2. \A n \in Delivered' : n < ExpCmdSN'
      BY <1>1, <3>1 DEF Turns, Delivered, Numbers
    <3>3. \A n \in Numbers : n < ExpCmdSN' => n \in Delivered' \cup Lost'
      <4>1. \A n \in Numbers : n < ExpCmdSN' => n = ExpCmdSN \/ n < ExpCmdSN
        BY <3>1 DEF Numbers
      <4> QED BY <1>1, <1>14, <3>1, <4>1 DEF Turns
    <3>4. \A d \in Conns : ~Holds(d)'
      <4> SUFFICES ASSUME NEW d \in Conns, Holds(d)' PROVE FALSE
        OBVIOUS
      <4>1. d # c /\ wk[d] = "held" /\ ~pdu[d].imm
        BY <1>3, <1>4, <1>6 DEF Holds
      <4>2. pdu[d].n = ExpCmdSN
        BY <1>1, <4>1 DEF Turns, Holds
      <4>3. HandIs(d) /\ Own(pdu[d]) = {pdu[d].n} /\ pdu[d].n \in Numbers
        BY <1>1, <4>1, CommandFields DEF InHand, InCustody
      <4>4. at[ExpCmdSN] = <<"hand", d>>
        BY <4>1, <4>2, <4>3 DEF HandIs, Grip
      <4>5. at[ExpCmdSN] = <<"hand", c>>
        BY <1>2, <2>2 DEF HandIs
      <4> QED BY <4>1, <4>4, <4>5
    <3>5. \A d \in Conns : wk'[d] # "asleep"
      <4> SUFFICES ASSUME NEW d \in Conns, wk'[d] = "asleep" PROVE FALSE
        OBVIOUS
      <4>1. wk[d] = "asleep" /\ ~Wakes(p)
        BY <1>4, <1>6
      <4>2. req_mcs_cond > 0
        BY <1>1, <4>1 DEF WakeupOwed
      <4> QED BY <2>2, <4>1, <4>2 DEF Wakes
    <3> QED BY <3>2, <3>3, <3>4, <3>5 DEF Turns
  <2> QED BY <2>1, <2>2
<1>16. Promised'
  <2>1. \A d \in Conns : wk'[d] = "write" => wk[d] = "write"
    BY <1>4, <1>6
  <2> QED BY <1>1, <1>3, <1>13, <2>1, PromisedQuiet
<1> QED BY <1>12, <1>13, <1>15, <1>16 DEF Order

(* A number that is answered opens the window by one; it was not answered  *)
(* before.                                                                 *)
LEMMA NumberOrder ==
  ASSUME OrderInv, NEW c \in Conns, NEW own \in OwnSets, NEW old \in {"now", "queued", "result"},
         NEW y, \A n \in own : at[n] = <<old, y>>, Number(c, own, FALSE),
         nextN' = nextN, winSN' = winSN
  PROVE  /\ Shift(own, old, y, "answered", None)
         /\ Opened' /\ Allowed' /\ Kept \subseteq Kept' /\ NumberedRsp(c) \in Kept'
         /\ ExpCmdSN' = ExpCmdSN /\ Delivered' = Delivered /\ Lost' = Lost /\ SentIs'
<1>1. /\ TypeOK /\ Turns /\ Promised /\ SentIs
  BY OrderParts
<1>2. /\ MaxCmdSN \in Nat /\ StatSN[c] \in Nat
  BY <1>1 DEF TypeOK
<1>3. own \in SUBSET Numbers
  BY DEF OwnSets
<1>4. /\ MaxCmdSN' = MaxCmdSN + Opens(own) /\ ExpCmdSN' = ExpCmdSN /\ Move(own, "answered", None)
  BY DEF Number
<1>5. Shift(own, old, y, "answered", None)
  BY <1>3, <1>4 DEF Shift
<1>6. MaxCmdSN' \in Nat /\ MaxCmdSN <= MaxCmdSN'
  BY <1>2, <1>4 DEF Opens
<1>7. Answered' = Answered \cup own /\ own \cap Answered = {}
  <2>1. \A n \in Numbers : at'[n] = IF n \in own THEN <<"answered", None>> ELSE at[n]
    BY <1>4 DEF Move
  <2>2. <<old, y>> # <<"answered", None>>
    OBVIOUS
  <2> QED BY <1>3, <2>1, <2>2 DEF Answered
<1>8. Opened'
  <2>0. IsFiniteSet(Answered)
    <3>1. IsFiniteSet(Numbers)
      BY BoundAssumption, FS_Interval DEF Numbers
    <3> QED BY <3>1, FS_Subset DEF Answered
  <2>1. CASE own = {}
    BY <1>1, <1>2, <1>4, <1>7, <2>1 DEF Promised, Opened, Opens
  <2>2. CASE own # {}
    <3>1. PICK n \in Numbers : own = {n}
      BY <2>2 DEF OwnSets
    <3>2. Cardinality(Answered \cup {n}) = Cardinality(Answered) + 1
      BY <1>7, <2>0, <3>1, FS_AddElement
    <3>3. Cardinality(Answered) \in Nat
      BY <2>0, FS_CardinalityType
    <3>4. Cardinality(Answered') = Cardinality(Answered) + 1
      BY <1>7, <3>1, <3>2
    <3>5. MaxCmdSN' = MaxCmdSN + 1
      BY <1>4, <2>2 DEF Opens
    <3> QED BY <1>1, <1>2, <3>3, <3>4, <3>5, DepthAssumption DEF Promised, Opened
  <2> QED BY <2>1, <2>2
<1>9. Allowed'
  BY <1>1, <1>6, AllowedKept DEF Promised
<1>10. Kept \subseteq Kept'
  BY <1>1, <1>6, KeptGrows
<1>11. NumberedRsp(c) \in Kept'
  BY <1>2, <1>6 DEF NumberedRsp, Kept, Rsp
<1>12. Delivered' = Delivered /\ Lost' = Lost
  BY <1>5, MoveCounts DEF After
<1>13. SentIs'
  <2>1. Same("unsent", None)
    BY <1>5, MoveElsewhere
  <2> QED BY <1>1, <2>1, SentKept
<1> QED BY <1>4, <1>5, <1>8, <1>9, <1>10, <1>11, <1>12, <1>13

(* A response is posted behind the others.                                 *)
LEMMA PostTold ==
  ASSUME NEW s \in Seq(Result), NEW r \in Result, NEW K,
         \A i \in DOMAIN s : s[i].type = "REQPDU" => s[i].rsp \in K,
         r.type = "REQPDU" => r.rsp \in K
  PROVE  \A i \in DOMAIN Append(s, r) :
           Append(s, r)[i].type = "REQPDU" => Append(s, r)[i].rsp \in K
<1> DEFINE t == Append(s, r)
<1>1. /\ Len(s) \in Nat /\ DOMAIN s = 1 .. Len(s) /\ DOMAIN t = 1 .. (Len(s) + 1)
      /\ \A i \in 1 .. Len(s) : t[i] = s[i]
      /\ t[Len(s) + 1] = r
  OBVIOUS
<1> HIDE DEF t
<1>2. \A i \in DOMAIN t : t[i].type = "REQPDU" => t[i].rsp \in K
  BY <1>1
<1> QED BY <1>2 DEF t

LEMMA AnswerNowOrder ==
  ASSUME OrderInv, NEW c \in Conns, AnswerNow(c)
  PROVE  Order'
<1> DEFINE own == Own(pdu[c])
           r == NumberedRsp(c)
           res == [type |-> "REQPDU", own |-> {}, rsp |-> r]
<1>1. /\ TypeOK /\ InHand /\ Turns /\ Promised /\ \A d \in Conns : InCustody(d)
  BY OrderParts
<1>2. /\ wk[c] = "now" /\ Number(c, own, FALSE)
      /\ UNCHANGED <<pdu, sout, queued, inbox, wire, cut, nextN, winSN>>
  BY DEF AnswerNow, netVars, initVars
<1>3. own \in OwnSets /\ \A n \in own : at[n] = <<"now", c>>
  <2>1. pdu[c] \in Command /\ HandIs(c)
    BY <1>1, <1>2 DEF InHand, InCustody
  <2> QED BY <1>2, <2>1, CommandFields DEF OwnSets, HandIs
<1>4. /\ Shift(own, "now", c, "answered", None)
      /\ Opened' /\ Allowed' /\ Kept \subseteq Kept' /\ r \in Kept'
      /\ ExpCmdSN' = ExpCmdSN /\ Delivered' = Delivered /\ Lost' = Lost /\ SentIs'
  BY <1>2, <1>3, NumberOrder
<1>5. r \in Rsp
  BY <1>4 DEF Kept
<1>6. \/ /\ wk' = [wk EXCEPT ![c] = "idle"] /\ wout' = wout
         /\ result_queue' = [result_queue EXCEPT ![c] = Append(@, res)]
      \/ /\ wk' = [wk EXCEPT ![c] = "write"] /\ wout' = [wout EXCEPT ![c] = r]
         /\ result_queue' = result_queue
  BY DEF AnswerNow, WritePdu, WriteDirect, Post
<1>7. res \in Result /\ res.type = "REQPDU" /\ res.own = {} /\ res.rsp = r
  BY <1>5 DEF Result
<1> HIDE DEF own, r, res
<1>8. /\ \A d \in Conns \ {c} : /\ wk'[d] = wk[d] /\ wout'[d] = wout[d]
                                /\ result_queue'[d] = result_queue[d]
      /\ \/ wk'[c] = "idle" /\ wout'[c] = wout[c]
            /\ result_queue'[c] = Append(result_queue[c], res)
         \/ wk'[c] = "write" /\ wout'[c] = r /\ result_queue'[c] = result_queue[c]
  BY <1>1, <1>6 DEF TypeOK
<1>9. ASSUME NEW d \in Conns \ {c} PROVE InCustody(d)'
  <2>1. Stays(d)
    BY <1>4, MoveStays DEF Spots
  <2> QED BY <1>1, <1>2, <1>8, <2>1, CustodyKept
<1>10. InCustody(c)'
  <2>1. /\ Same("inbox", c) /\ Same("result", c) /\ Same("hand", c) /\ Same("queued", c)
    BY <1>4, MoveElsewhere
  <2>2. InboxIs(c)' /\ UnitIs(c)'
    BY <1>1, <1>2, <1>8, <2>1, UnitKept, InboxKept DEF InCustody
  <2>3. HandIs(c)'
    <3>1. Grip(c) = {} /\ Grip(c)' = {}
      BY <1>2, <1>8 DEF Grip
    <3> QED BY <1>1, <1>8, <2>1, <3>1 DEF InCustody, HandIs, Same
  <2>4. ResultIs(c)'
    <3>1. CASE result_queue'[c] = result_queue[c]
      BY <1>1, <2>1, <3>1, ResultKept DEF InCustody
    <3>2. CASE result_queue'[c] = Append(result_queue[c], res)
      <4>1. Posted(c) \in SUBSET Numbers /\ ResultIs(c)
        BY <1>1, PostedNumbers DEF InCustody
      <4>2. \A n \in Posted(c) : at[n] = <<"result", c>>
        BY <4>1 DEF ResultIs
      <4>3. \A n \in Posted(c) : at'[n] = at[n]
        BY <2>1, <4>1, <4>2 DEF Same
      <4>4. {} \in OwnSets
        BY DEF OwnSets
      <4> QED BY <1>1, <1>7, <3>2, <4>1, <4>3, <4>4, ResultAppend
    <3> QED BY <1>8, <3>1, <3>2
  <2> QED BY <2>2, <2>3, <2>4 DEF InCustody
<1>11. Custody'
  BY <1>9, <1>10, CustodyParts
<1>12. Turns'
  <2>1. \A d \in Conns : wk'[d] \in {"held", "asleep"} => wk'[d] = wk[d]
    BY <1>8
  <2> QED BY <1>1, <1>2, <1>4, <2>1, TurnsQuiet
<1>13. \A d \in Conns \ {c} : Told(d)'
  BY <1>1, <1>2, <1>4, <1>8, ToldKept DEF Promised
<1>14. Told(c)'
  <2>1. Told(c) /\ result_queue[c] \in Seq(Result)
    BY <1>1 DEF Promised, TypeOK
  <2>2. wire'[c] \in Seq(Kept')
    BY <1>2, <1>4, <2>1, SeqMonotone DEF Told
  <2>3. \A i \in DOMAIN result_queue[c] :
          result_queue[c][i].type = "REQPDU" => result_queue[c][i].rsp \in Kept'
    BY <1>4, <2>1 DEF Told
  <2>4. \A i \in DOMAIN result_queue'[c] :
          result_queue'[c][i].type = "REQPDU" => result_queue'[c][i].rsp \in Kept'
    <3>1. CASE result_queue'[c] = result_queue[c]
      BY <2>3, <3>1
    <3>2. CASE result_queue'[c] = Append(result_queue[c], res)
      <4> DEFINE K == Kept'
      <4>1. res.type = "REQPDU" => res.rsp \in K
        BY <1>4, <1>7
      <4>2. \A i \in DOMAIN result_queue[c] :
              result_queue[c][i].type = "REQPDU" => result_queue[c][i].rsp \in K
        BY <2>3
      <4> HIDE DEF K
      <4>3. \A i \in DOMAIN result_queue'[c] :
              result_queue'[c][i].type = "REQPDU" => result_queue'[c][i].rsp \in K
        BY <1>7, <2>1, <3>2, <4>1, <4>2, PostTold
      <4> QED BY <4>3 DEF K
    <3> QED BY <1>8, <3>1, <3>2
  <2>5. wk'[c] = "write" => wout'[c] \in Kept'
    BY <1>4, <1>8
  <2>6. sout'[c] # None => sout'[c] \in Kept'
    BY <1>2, <1>4, <2>1 DEF Told
  <2> QED BY <2>2, <2>4, <2>5, <2>6 DEF Told
<1> QED BY <1>4, <1>11, <1>12, <1>13, <1>14 DEF Order, Promised

(* A task of the logical unit, and what remains of the others.             *)
LEMMA TaskEnds ==
  ASSUME OrderInv, NEW c \in Conns, NEW own \in OwnSets, TaskOf(c, own), EndTask(c, own)
  PROVE  /\ \A n \in own : at[n] = <<"queued", c>>
         /\ own \in SUBSET Numbers
         /\ \A d \in Conns \ {c} : queued'[d] = queued[d]
         /\ queued'[c].own = queued[c].own \ own
<1>1. TypeOK /\ UnitIs(c)
  BY OrderParts DEF InCustody
<1>2. queued \in [Conns -> [own: SUBSET Numbers, imm: Nat]]
  BY <1>1 DEF TypeOK
<1>3. own \subseteq queued[c].own
  BY DEF TaskOf
<1>4. /\ \A d \in Conns \ {c} : queued'[d] = queued[d]
      /\ queued'[c].own = queued[c].own \ own
  BY <1>2 DEF EndTask
<1> QED BY <1>1, <1>3, <1>4 DEF UnitIs, OwnSets

LEMMA UnitLeft ==
  ASSUME TypeOK, NEW c \in Conns, UnitIs(c), NEW own, NEW new, NEW x,
         Shift(own, "queued", c, new, x), queued'[c].own = queued[c].own \ own
  PROVE  UnitIs(c)'
<1>1. \A n \in queued[c].own : n \in Numbers
  BY DEF TypeOK
<1>2. \A n \in Numbers : at'[n] = IF n \in own THEN <<new, x>> ELSE at[n]
  BY DEF Shift, Move
<1> QED BY <1>1, <1>2 DEF UnitIs

LEMMA AnswerDoneOrder ==
  ASSUME OrderInv, NEW c \in Conns, NEW own \in OwnSets, AnswerDone(c, own)
  PROVE  Order'
<1> DEFINE r == NumberedRsp(c)
<1>1. /\ TypeOK /\ InHand /\ Turns /\ Promised /\ \A d \in Conns : InCustody(d)
  BY OrderParts
<1>2. /\ wk[c] = "idle" /\ TaskOf(c, own) /\ EndTask(c, own) /\ Number(c, own, FALSE)
      /\ wout' = [wout EXCEPT ![c] = r] /\ wk' = [wk EXCEPT ![c] = "write"]
      /\ UNCHANGED <<pdu, sout, result_queue, inbox, wire, cut, nextN, winSN>>
  BY DEF AnswerDone, WriteDirect, netVars, initVars
<1>3. /\ \A n \in own : at[n] = <<"queued", c>>
      /\ \A d \in Conns \ {c} : queued'[d] = queued[d]
      /\ queued'[c].own = queued[c].own \ own
  BY <1>2, TaskEnds
<1>4. /\ Shift(own, "queued", c, "answered", None)
      /\ Opened' /\ Allowed' /\ Kept \subseteq Kept' /\ r \in Kept'
      /\ ExpCmdSN' = ExpCmdSN /\ Delivered' = Delivered /\ Lost' = Lost /\ SentIs'
  BY <1>2, <1>3, NumberOrder
<1> HIDE DEF r
<1>5. /\ \A d \in Conns \ {c} : wk'[d] = wk[d] /\ wout'[d] = wout[d]
      /\ wk'[c] = "write" /\ wout'[c] = r
  BY <1>1, <1>2 DEF TypeOK
<1>6. ASSUME NEW d \in Conns \ {c} PROVE InCustody(d)'
  <2>1. Stays(d)
    BY <1>4, MoveStays DEF Spots
  <2> QED BY <1>1, <1>2, <1>3, <1>5, <2>1, CustodyKept
<1>7. InCustody(c)'
  <2>1. /\ Same("inbox", c) /\ Same("result", c) /\ Same("hand", c) /\ Same("now", c)
    BY <1>4, MoveElsewhere
  <2>2. InboxIs(c)' /\ ResultIs(c)'
    BY <1>1, <1>2, <1>5, <2>1, ResultKept, InboxKept DEF InCustody
  <2>3. HandIs(c)'
    <3>1. Grip(c) = {}
      BY <1>2 DEF Grip
    <3> QED BY <1>1, <1>2, <1>5, <2>1, <3>1, HandKept DEF InCustody
  <2>4. UnitIs(c)'
    BY <1>1, <1>3, <1>4, UnitLeft DEF InCustody
  <2> QED BY <2>2, <2>3, <2>4 DEF InCustody
<1>8. Custody'
  BY <1>6, <1>7, CustodyParts
<1>9. Turns'
  <2>1. \A d \in Conns : wk'[d] \in {"held", "asleep"} => wk'[d] = wk[d]
    BY <1>5
  <2> QED BY <1>1, <1>2, <1>4, <2>1, TurnsQuiet
<1>10. \A d \in Conns \ {c} : Told(d)'
  BY <1>1, <1>2, <1>4, <1>5, ToldKept DEF Promised
<1>11. Told(c)'
  <2>1. Told(c)
    BY <1>1 DEF Promised
  <2>2. wire'[c] \in Seq(Kept')
    BY <1>2, <1>4, <2>1, SeqMonotone DEF Told
  <2> QED BY <1>2, <1>4, <1>5, <2>1, <2>2 DEF Told
<1> QED BY <1>4, <1>8, <1>9, <1>10, <1>11 DEF Order, Promised

LEMMA TaskDoneOrder ==
  ASSUME OrderInv, NEW c \in Conns, NEW own \in OwnSets, TaskDone(c, own)
  PROVE  Order'
<1> DEFINE res == [type |-> "RESPONSE", own |-> own, rsp |-> None]
<1>1. /\ TypeOK /\ InHand /\ SentIs /\ Turns /\ Promised /\ \A d \in Conns : InCustody(d)
  BY OrderParts
<1>2. /\ TaskOf(c, own) /\ EndTask(c, own) /\ Move(own, "result", c)
      /\ result_queue' = [result_queue EXCEPT ![c] = Append(@, res)]
      /\ UNCHANGED <<ExpCmdSN, MaxCmdSN, wout, sout, wk, pdu, inbox, wire, cut, nextN, winSN>>
  BY DEF TaskDone, Post, sessVars, workVars, netVars, initVars
<1>3. /\ \A n \in own : at[n] = <<"queued", c>>
      /\ own \in SUBSET Numbers
      /\ \A d \in Conns \ {c} : queued'[d] = queued[d]
      /\ queued'[c].own = queued[c].own \ own
  BY <1>2, TaskEnds
<1>4. Shift(own, "queued", c, "result", c)
  BY <1>2, <1>3 DEF Shift
<1>5. res \in Result /\ res.type = "RESPONSE" /\ res.own = own
  BY <1>3 DEF Result
<1> HIDE DEF res
<1>6. /\ \A d \in Conns \ {c} : result_queue'[d] = result_queue[d]
      /\ result_queue'[c] = Append(result_queue[c], res)
  BY <1>1, <1>2 DEF TypeOK
<1>7. ASSUME NEW d \in Conns \ {c} PROVE InCustody(d)'
  <2>1. Stays(d)
    BY <1>4, MoveStays DEF Spots
  <2> QED BY <1>1, <1>2, <1>3, <1>6, <2>1, CustodyKept
<1>8. InCustody(c)'
  <2>1. /\ Same("inbox", c) /\ Same("hand", c) /\ Same("now", c)
    BY <1>4, MoveElsewhere
  <2>2. InboxIs(c)' /\ HandIs(c)'
    BY <1>1, <1>2, <2>1, HandKept, InboxKept DEF InCustody
  <2>3. UnitIs(c)'
    BY <1>1, <1>3, <1>4, UnitLeft DEF InCustody
  <2>4. ResultIs(c)'
    <3>1. Posted(c) \in SUBSET Numbers /\ ResultIs(c)
      BY <1>1, PostedNumbers DEF InCustody
    <3>2. \A n \in Posted(c) : at[n] = <<"result", c>>
      BY <3>1 DEF ResultIs
    <3>3. \A n \in Numbers : at'[n] = IF n \in own THEN <<"result", c>> ELSE at[n]
      BY <1>2 DEF Move
    <3>4. own \cap Posted(c) = {}
      <4>1. <<"queued", c>> # <<"result", c>>
        OBVIOUS
      <4> QED BY <1>3, <3>2, <4>1
    <3>5. \A n \in Posted(c) : at'[n] = at[n]
      BY <3>1, <3>2, <3>3
    <3>6. \A n \in res.own : at'[n] = <<"result", c>>
      BY <1>3, <1>5, <3>3
    <3>7. res.type # "REQUPDPDU" /\ res.own \in OwnSets /\ res.own \cap Posted(c) = {}
      BY <1>5, <3>4
    <3> QED BY <1>1, <1>5, <1>6, <3>1, <3>5, <3>6, <3>7, ResultAppend
  <2> QED BY <2>2, <2>3, <2>4 DEF InCustody
<1>9. Custody'
  BY <1>7, <1>8, CustodyParts
<1>10. SentIs' /\ Same("answered", None)
  <2>1. Same("unsent", None) /\ Same("answered", None)
    BY <1>4, MoveElsewhere
  <2> QED BY <1>1, <1>2, <2>1, SentKept
<1>11. Turns'
  <2>1. Delivered' = Delivered /\ Lost' = Lost
    BY <1>4, MoveCounts DEF After
  <2> QED BY <1>1, <1>2, <2>1, TurnsQuiet
<1>12. Opened' /\ Allowed'
  BY <1>1, <1>2, <1>10, AnsweredKept DEF Promised, Opened, Allowed
<1>13. Kept' = Kept
  BY <1>2 DEF Kept
<1>14. \A d \in Conns \ {c} : Told(d)'
  BY <1>1, <1>2, <1>6, <1>13, ToldKept DEF Promised
<1>15. Told(c)'
  <2>1. Told(c) /\ result_queue[c] \in Seq(Result)
    BY <1>1 DEF Promised, TypeOK
  <2>2. \A i \in DOMAIN result_queue'[c] :
          result_queue'[c][i].type = "REQPDU" => result_queue'[c][i].rsp \in Kept
    <3>1. res.type = "REQPDU" => res.rsp \in Kept
      BY <1>5
    <3>2. \A i \in DOMAIN result_queue[c] :
            result_queue[c][i].type = "REQPDU" => result_queue[c][i].rsp \in Kept
      BY <2>1 DEF Told
    <3> QED BY <1>5, <1>6, <2>1, <3>1, <3>2, PostTold
  <2> QED BY <1>2, <1>13, <2>1, <2>2 DEF Told
<1> QED BY <1>9, <1>10, <1>11, <1>12, <1>14, <1>15 DEF Order, Promised

LEMMA TakenTold ==
  ASSUME NEW s \in Seq(Result), s # <<>>, NEW K,
         \A i \in DOMAIN s : s[i].type = "REQPDU" => s[i].rsp \in K
  PROVE  /\ Head(s).type = "REQPDU" => Head(s).rsp \in K
         /\ \A i \in DOMAIN Tail(s) : Tail(s)[i].type = "REQPDU" => Tail(s)[i].rsp \in K
<1> DEFINE t == Tail(s)
<1>1. /\ Len(s) \in Nat \ {0} /\ DOMAIN s = 1 .. Len(s) /\ DOMAIN t = 1 .. (Len(s) - 1)
      /\ \A i \in 1 .. (Len(s) - 1) : t[i] = s[i + 1]
      /\ s[1] = Head(s)
  OBVIOUS
<1> HIDE DEF t
<1>2. \A i \in DOMAIN t : i + 1 \in DOMAIN s /\ t[i] = s[i + 1]
  BY <1>1
<1>3. \A i \in DOMAIN t : t[i].type = "REQPDU" => t[i].rsp \in K
  BY <1>2
<1>4. 1 \in DOMAIN s
  BY <1>1
<1> QED BY <1>1, <1>3, <1>4 DEF t

LEMMA SenderTakeOrder ==
  ASSUME OrderInv, NEW c \in Conns, SenderTake(c)
  PROVE  Order'
<1> DEFINE r == Head(result_queue[c])
<1>1. /\ TypeOK /\ InHand /\ SentIs /\ Turns /\ Promised /\ \A d \in Conns : InCustody(d)
  BY OrderParts
<1>2. /\ result_queue[c] # <<>> /\ result_queue[c] \in Seq(Result)
      /\ result_queue' = [result_queue EXCEPT ![c] = Tail(@)]
      /\ UNCHANGED <<wout, queued, wk, pdu, inbox, wire, cut, nextN, winSN>>
  BY <1>1 DEF SenderTake, TypeOK, workVars, netVars, initVars
<1>3. /\ result_queue'[c] = Tail(result_queue[c])
      /\ \A d \in Conns \ {c} : result_queue'[d] = result_queue[d]
  BY <1>1, <1>2 DEF TypeOK
<1>4. /\ r.type # "REQUPDPDU" /\ r.own \in OwnSets /\ Apart(result_queue'[c])
      /\ r.own \subseteq Posted(c) /\ Posted(c)' \subseteq Posted(c)
      /\ r.own \cap Posted(c)' = {}
      /\ Posted(c) \in SUBSET Numbers /\ \A n \in Posted(c) : at[n] = <<"result", c>>
  <2>1. ResultIs(c) /\ Apart(result_queue[c])
    BY <1>1 DEF InCustody, ResultIs
  <2>2. Posted(c) = OwnSetsIn(result_queue[c]) /\ Posted(c)' = OwnSetsIn(result_queue'[c])
        /\ Posted(c) \in SUBSET Numbers
    BY <1>1, PostedNumbers
  <2> QED BY <1>2, <1>3, <2>1, <2>2, ApartHead DEF ResultIs
<1> HIDE DEF r
<1>5. PICK own \in OwnSets, new \in Rsp \cup {None} :
        /\ own = {} \/ own = r.own
        /\ Shift(own, "result", c, "answered", None)
        /\ \A n \in Posted(c)' : at'[n] = at[n]
        /\ ExpCmdSN' = ExpCmdSN /\ Delivered' = Delivered /\ Lost' = Lost /\ SentIs'
        /\ Opened' /\ Allowed' /\ Kept \subseteq Kept'
        /\ sout' = [sout EXCEPT ![c] = new] /\ new \in Kept'
  <2>1. CASE r.type = "REQPDU"
    <3>1. sout' = [sout EXCEPT ![c] = r.rsp] /\ UNCHANGED <<MaxCmdSN, ExpCmdSN, at>>
      BY <2>1 DEF SenderTake, r
    <3>2. Kept' = Kept
      BY <3>1 DEF Kept
    <3>3. r.rsp \in Kept /\ r.rsp \in Rsp
      <4>1. \A i \in DOMAIN result_queue[c] :
              result_queue[c][i].type = "REQPDU" => result_queue[c][i].rsp \in Kept
        BY <1>1 DEF Promised, Told
      <4>2. r.rsp \in Kept
        BY <1>2, <2>1, <4>1, TakenTold DEF r
      <4> QED BY <4>2 DEF Kept
    <3>4. Move({}, "answered", None)
      BY <1>1, <3>1 DEF Move, TypeOK
    <3>5. Shift({}, "result", c, "answered", None)
      BY <3>4 DEF Shift
    <3>6. Delivered' = Delivered /\ Lost' = Lost /\ SentIs' /\ Opened' /\ Allowed'
      BY <1>1, <1>2, <3>1 DEF Delivered, Lost, SentIs, Promised, Opened, Allowed, Answered
    <3>7. {} \in OwnSets
      BY DEF OwnSets
    <3> QED BY <3>1, <3>2, <3>3, <3>5, <3>6, <3>7
  <2>2. CASE r.type # "REQPDU"
    <3> DEFINE s == NumberedRsp(c)
    <3>1. Number(c, r.own, FALSE) /\ sout' = [sout EXCEPT ![c] = s]
      BY <1>4, <2>2 DEF SenderTake, r
    <3>2. \A n \in r.own : at[n] = <<"result", c>>
      BY <1>4
    <3>3. /\ Shift(r.own, "result", c, "answered", None)
          /\ Opened' /\ Allowed' /\ Kept \subseteq Kept' /\ s \in Kept'
          /\ ExpCmdSN' = ExpCmdSN /\ Delivered' = Delivered /\ Lost' = Lost /\ SentIs'
      BY <1>2, <1>4, <3>1, <3>2, NumberOrder
    <3> HIDE DEF s
    <3>4. s \in Rsp
      BY <3>3 DEF Kept
    <3>5. \A n \in Posted(c)' : at'[n] = at[n]
      <4>1. \A n \in Numbers : at'[n] = IF n \in r.own THEN <<"answered", None>> ELSE at[n]
        BY <3>3 DEF Shift, Move
      <4> QED BY <1>4, <4>1
    <3> QED BY <1>4, <3>1, <3>3, <3>4, <3>5
  <2> QED BY <2>1, <2>2
<1>6. ASSUME NEW d \in Conns \ {c} PROVE InCustody(d)'
  <2>1. Stays(d)
    BY <1>5, MoveStays DEF Spots
  <2> QED BY <1>1, <1>2, <1>3, <2>1, CustodyKept
<1>7. InCustody(c)'
  <2>1. /\ Same("inbox", c) /\ Same("hand", c) /\ Same("now", c) /\ Same("queued", c)
    BY <1>5, MoveElsewhere
  <2>2. InboxIs(c)' /\ HandIs(c)' /\ UnitIs(c)'
    BY <1>1, <1>2, <2>1, HandKept, InboxKept, UnitKept DEF InCustody
  <2>3. ResultIs(c)'
    BY <1>4, <1>5 DEF ResultIs
  <2> QED BY <2>2, <2>3 DEF InCustody
<1>8. Custody'
  BY <1>6, <1>7, CustodyParts
<1>9. Turns'
  BY <1>1, <1>2, <1>5, TurnsQuiet
<1>10. \A d \in Conns : sout'[d] = IF d = c THEN new ELSE sout[d]
  BY <1>1, <1>5 DEF TypeOK
<1>11. \A d \in Conns \ {c} : Told(d)'
  BY <1>1, <1>2, <1>3, <1>5, <1>10, ToldKept DEF Promised
<1>12. Told(c)'
  <2>1. Told(c)
    BY <1>1 DEF Promised
  <2>2. wire'[c] \in Seq(Kept')
    BY <1>2, <1>5, <2>1, SeqMonotone DEF Told
  <2>3. \A i \in DOMAIN result_queue'[c] :
          result_queue'[c][i].type = "REQPDU" => result_queue'[c][i].rsp \in Kept'
    <3>1. \A i \in DOMAIN result_queue'[c] :
            result_queue'[c][i].type = "REQPDU" => result_queue'[c][i].rsp \in Kept
      BY <1>2, <1>3, <2>1, TakenTold DEF Told
    <3> QED BY <1>5, <3>1
  <2> QED BY <1>2, <1>5, <1>10, <2>1, <2>2, <2>3 DEF Told
<1> QED BY <1>5, <1>8, <1>9, <1>11, <1>12 DEF Order, Promised

(* A connection that leaves drops what it was to answer, and loses what    *)
(* was not read.                                                           *)
LEMMA LeaveOrder ==
  ASSUME OrderInv, NEW c \in Conns, Leave(c)
  PROVE  Order'
<1>1. /\ TypeOK /\ InHand /\ SentIs /\ Turns /\ Promised /\ \A d \in Conns : InCustody(d)
  BY OrderParts
<1>2. /\ wk[c] = "exit" /\ cut' = cut \cup {c}
      /\ \A d \in Conns : wk'[d] = IF d = c THEN "gone" ELSE wk[d]
      /\ \A d \in Conns : result_queue'[d] = IF d = c THEN <<>> ELSE result_queue[d]
      /\ \A d \in Conns : inbox'[d] = IF d = c THEN <<>> ELSE inbox[d]
      /\ \A d \in Conns : wire'[d] = IF d = c THEN <<>> ELSE wire[d]
      /\ \A d \in Conns : sout'[d] = IF d = c THEN None ELSE sout[d]
      /\ \A d \in Conns : wout'[d] = IF d = c THEN None ELSE wout[d]
      /\ UNCHANGED <<ExpCmdSN, MaxCmdSN, pdu, nextN, winSN>>
  BY <1>1 DEF Leave, TypeOK, sessVars, initVars
<1>3. \A d \in Conns : queued'[d].own \subseteq queued[d].own
  <2>1. PICK own, imm : queued' = Executed(c, own, imm)
    BY DEF Leave
  <2> QED BY <2>1 DEF Executed
<1>4. /\ \A n \in Numbers : n \in OwnIn(inbox[c]) => at[n] = <<"inbox", c>>
      /\ \A n \in Posted(c) : at[n] = <<"result", c>> /\ n \in Numbers
      /\ \A d \in Conns : \A n \in queued[d].own : at[n] = <<"queued", d>> /\ n \in Numbers
  <2>1. InboxIs(c) /\ ResultIs(c) /\ \A d \in Conns : UnitIs(d)
    BY <1>1 DEF InCustody
  <2>2. Posted(c) \in SUBSET Numbers
    BY <1>1, PostedNumbers
  <2>3. \A d \in Conns : queued[d].own \in SUBSET Numbers
    BY <1>1 DEF TypeOK
  <2> QED BY <2>1, <2>2, <2>3 DEF InboxIs, ResultIs, UnitIs
<1>5. \A n \in Numbers :
        at'[n] = IF n \in OwnIn(inbox[c]) THEN <<"lost", None>>
                 ELSE IF n \in Posted(c) \/ \E d \in Conns : n \in queued[d].own \ queued'[d].own
                   THEN <<"dropped", None>>
                 ELSE at[n]
  BY DEF Leave
<1>6. ASSUME NEW n \in Numbers
      PROVE  \/ at'[n] = at[n]
             \/ at[n] = <<"inbox", c>> /\ at'[n] = <<"lost", None>>
             \/ at[n] = <<"result", c>> /\ at'[n] = <<"dropped", None>>
             \/ /\ at'[n] = <<"dropped", None>>
                /\ \E d \in Conns : at[n] = <<"queued", d>> /\ n \notin queued'[d].own
  <2>1. CASE n \in OwnIn(inbox[c])
    BY <1>4, <1>5, <2>1
  <2>2. CASE n \notin OwnIn(inbox[c]) /\ n \in Posted(c)
    BY <1>4, <1>5, <2>2
  <2>3. CASE n \notin OwnIn(inbox[c]) /\ n \notin Posted(c)
    <3>1. CASE \E d \in Conns : n \in queued[d].own \ queued'[d].own
      <4>1. PICK d \in Conns : n \in queued[d].own /\ n \notin queued'[d].own
        BY <3>1
      <4>2. at'[n] = <<"dropped", None>>
        BY <1>5, <2>3, <3>1
      <4> QED BY <1>4, <4>1, <4>2
    <3>2. CASE ~ \E d \in Conns : n \in queued[d].own \ queued'[d].own
      BY <1>5, <2>3, <3>2
    <3> QED BY <3>1, <3>2
  <2> QED BY <2>1, <2>2, <2>3
<1>7. \A n \in OwnIn(inbox[c]) \cap Numbers : at'[n] = <<"lost", None>>
  BY <1>5
<1>8. /\ \A d : Same("hand", d) /\ Same("now", d)
      /\ Same("unsent", None) /\ Same("answered", None)
      /\ \A d \in Conns \ {c} : Same("inbox", d) /\ Same("result", d)
  BY <1>6 DEF Same
<1>9. ASSUME NEW d \in Conns PROVE InCustody(d)'
  <2>1. InboxIs(d)'
    <3>1. CASE d # c
      BY <1>1, <1>2, <1>8, <3>1, InboxKept DEF InCustody
    <3>2. CASE d = c
      <4>1. InboxIs(c)
        BY <1>1 DEF InCustody
      <4>2. \A n \in Numbers : at'[n] # <<"inbox", c>>
        <5> SUFFICES ASSUME NEW n \in Numbers PROVE at'[n] # <<"inbox", c>>
          OBVIOUS
        <5>1. CASE n \in OwnIn(inbox[c])
          BY <1>7, <5>1
        <5>2. CASE n \notin OwnIn(inbox[c])
          <6>1. at[n] # <<"inbox", c>>
            BY <4>1, <5>2 DEF InboxIs
          <6> QED BY <1>6, <6>1
        <5> QED BY <5>1, <5>2
      <4>3. inbox'[c] = <<>>
        BY <1>2
      <4>4. OwnIn(inbox'[c]) = {} /\ Line(inbox'[c])
        BY <4>3 DEF OwnIn, Line
      <4>5. c \in cut'
        BY <1>2
      <4> QED BY <3>2, <4>2, <4>3, <4>4, <4>5 DEF InboxIs
    <3> QED BY <3>1, <3>2
  <2>2. HandIs(d)'
    <3>1. d = c => Grip(c) = {}
      BY <1>2 DEF Grip
    <3> QED BY <1>1, <1>2, <1>8, <3>1, HandKept DEF InCustody
  <2>3. UnitIs(d)'
    <3> SUFFICES ASSUME NEW n \in queued'[d].own PROVE at'[n] = <<"queued", d>>
      BY DEF UnitIs
    <3>1. at[n] = <<"queued", d>> /\ n \in Numbers
      BY <1>3, <1>4
    <3>2. at[n] # <<"inbox", c>> /\ at[n] # <<"result", c>>
      BY <3>1
    <3>3. ASSUME NEW e \in Conns, at[n] = <<"queued", e>> PROVE n \in queued'[e].own
      <4>1. e = d
        BY <3>1, <3>3
      <4> QED BY <4>1
    <3> QED BY <1>6, <3>1, <3>2, <3>3
  <2>4. ResultIs(d)'
    <3>1. CASE d # c
      BY <1>1, <1>2, <1>8, <3>1, ResultKept DEF InCustody
    <3>2. CASE d = c
      <4>1. DOMAIN result_queue'[d] = {}
        BY <1>2, <3>2
      <4> QED BY <4>1 DEF ResultIs, Apart, Posted
    <3> QED BY <3>1, <3>2
  <2> QED BY <2>1, <2>2, <2>3, <2>4 DEF InCustody
<1>10. Custody'
  BY <1>9, CustodyParts
<1>11. SentIs'
  BY <1>1, <1>2, <1>8, SentKept
<1>12. Turns'
  <2>1. \A n \in Numbers : n \in Delivered' <=> n \in Delivered
    BY <1>6 DEF Delivered
  <2>2. \A n \in Numbers : n \in Lost => n \in Lost'
    BY <1>6 DEF Lost
  <2>3. Delivered' \subseteq Delivered /\ Delivered \cup Lost \subseteq Delivered' \cup Lost'
    BY <2>1, <2>2 DEF Delivered, Lost
  <2>4. \A d \in Conns : wk'[d] \in {"held", "asleep"} => wk'[d] = wk[d]
    BY <1>2
  <2> QED BY <1>1, <1>2, <2>3, <2>4, TurnsQuiet
<1>13. Promised'
  <2>1. Opened' /\ Allowed'
    BY <1>1, <1>2, <1>8, AnsweredKept DEF Promised, Opened, Allowed
  <2>2. Kept' = Kept
    BY <1>2 DEF Kept
  <2>3. \A d \in Conns \ {c} : Told(d)'
    BY <1>1, <1>2, <2>2, ToldKept DEF Promised
  <2>4. Told(c)'
    <3>1. /\ wk'[c] = "gone" /\ sout'[c] = None /\ wire'[c] = <<>> /\ result_queue'[c] = <<>>
      BY <1>2
    <3>2. wire'[c] \in Seq(Kept') /\ DOMAIN result_queue'[c] = {}
      BY <3>1, EmptySeq
    <3> QED BY <3>1, <3>2 DEF Told
  <2> QED BY <2>1, <2>3, <2>4 DEF Promised
<1> QED BY <1>10, <1>11, <1>12, <1>13 DEF Order

LEMMA StutterOrder ==
  ASSUME OrderInv, UNCHANGED vars
  PROVE  Order'
<1>1. TypeOK /\ InHand /\ Turns /\ Promised
  BY OrderParts
<1>2. UNCHANGED <<at, nextN, pdu, inbox, queued, result_queue, cut, wk, wout, sout, wire,
                  MaxCmdSN, ExpCmdSN, winSN>>
  BY DEF vars, sessVars, outVars, workVars, netVars, initVars, auxVars
<1>3. Custody' /\ SentIs'
  BY <1>2, CustodyQuiet
<1>4. Turns' /\ Promised'
  BY <1>1, <1>2, AtKept, TurnsQuiet, PromisedQuiet
<1> QED BY <1>3, <1>4 DEF Order

(* Only SCSI commands and pings are in hand.                               *)
LEMMA OtherKinds ==
  ASSUME OrderInv, NEW c \in Conns
  PROVE  /\ ~ReadText(c) /\ ~ReadTask(c) /\ ~AnswerNop(c) /\ ~AnswerText(c)
         /\ ~AnswerTask(c) /\ ~AbortTask(c)
<1>1. TypeOK /\ InCustody(c)
  BY OrderParts
<1>2. Take(c) => pdu'[c].kind \in {"scsi", "ping"}
  <2> SUFFICES ASSUME Take(c) PROVE pdu'[c].kind \in {"scsi", "ping"}
    OBVIOUS
  <2>1. inbox[c] \in Seq(Command) /\ inbox[c] # <<>> /\ pdu'[c] = Head(inbox[c])
    BY <1>1 DEF Take, TypeOK
  <2>2. Simple(Head(inbox[c]))
    BY <1>1, <2>1, LineHead DEF InCustody, InboxIs
  <2> QED BY <2>1, <2>2 DEF Simple
<1>3. wk[c] = "held" => pdu[c].kind \in {"scsi", "ping"}
  BY <1>1 DEF InCustody, HandIs, Simple
<1> QED BY <1>2, <1>3 DEF ReadText, ReadTask, AnswerNop, AnswerText, AnswerTask, AbortTask

LEMMA NextOrder ==
  ASSUME Kinds \subseteq {"scsi", "ping"}, OrderInv, [Next]_vars
  PROVE  OrderInv'
<1>1. CASE UNCHANGED vars
  <2>1. Order' /\ Basis'
    BY <1>1, StutterOrder, NextBasis DEF OrderInv, Order
  <2> QED BY <2>1 DEF OrderInv, Order
<1>2. ASSUME NEW c \in Conns, Worker(c)
      PROVE  Order'
  <2>1. CASE ReadCommand(c) \/ McsTest(c) \/ McsTimeOut(c)
    BY <2>1, ReadCommandOrder, McsTestOrder, McsTimeOutOrder
  <2>2. CASE Deliver(c) \/ AnswerNow(c) \/ EndPing(c)
    BY <2>2, DeliverOrder, AnswerNowOrder, EndPingOrder
  <2>3. CASE \E own \in OwnSets : AnswerDone(c, own)
    BY <2>3, AnswerDoneOrder
  <2>4. CASE WorkerWrite(c) \/ HangUp(c) \/ Leave(c)
    BY <2>4, WorkerWriteOrder, HangUpOrder, LeaveOrder
  <2> QED BY <1>2, <2>1, <2>2, <2>3, <2>4, OtherKinds DEF Worker
<1>3. ASSUME NEW c \in Conns, Sender(c)
      PROVE  Order'
  BY <1>3, SenderTakeOrder, SenderWriteOrder DEF Sender
<1>4. ASSUME NEW c \in Conns, Initiator(c)
      PROVE  Order'
  <2>1. ASSUME NEW k \in Kinds, NEW i \in BOOLEAN, Send(c, k, i)
        PROVE  Order'
    BY <2>1, SendOrder
  <2> QED BY <1>4, <2>1, ReceiveOrder, CutOrder DEF Initiator
<1>5. ASSUME NEW c \in Conns, NEW own \in OwnSets, TaskDone(c, own)
      PROVE  Order'
  BY <1>5, TaskDoneOrder
<1>6. Basis'
  BY NextBasis DEF OrderInv, Order
<1>7. Next => Order'
  BY <1>2, <1>3, <1>4, <1>5 DEF Next
<1> QED BY <1>1, <1>6, <1>7 DEF OrderInv, Order

(* For SCSI commands and pings, over any number of connections, with       *)
(* breaks, time-outs and senders: each number is where at says and nowhere *)
(* else; those below ExpCmdSN, and no others, were delivered or lost; none *)
(* that the initiator sent is beyond MaxCmdSN.                             *)
THEOREM OrderInvariance ==
  ASSUME Kinds \subseteq {"scsi", "ping"}
  PROVE  Spec => []OrderInv
<1>1. OrderInv /\ [Next]_vars => OrderInv'
  BY NextOrder
<1> QED BY <1>1, InitOrder, PTL DEF Spec

(* Two workers are never past the test of ExpCmdSN with the same turn,     *)
(* though the mutex is released between the test and the delivery; what is *)
(* delivered comes after all that was delivered before, and nothing that   *)
(* the initiator sent is passed over unless it is lost with a connection.  *)
THEOREM TakenInOrder ==
  ASSUME Kinds \subseteq {"scsi", "ping"}
  PROVE  Spec => []InOrder
<1>1. OrderInv => InOrder
  BY InvariantOrder
<1> QED BY <1>1, OrderInvariance, PTL

(* A worker asleep on mcs_cond waits for a turn that has not come: no      *)
(* delivery moves ExpCmdSN to its number without the broadcast that makes  *)
(* it look again, however many connections came, broke or timed out.       *)
THEOREM SleepersWait ==
  ASSUME Kinds \subseteq {"scsi", "ping"}
  PROVE  Spec => []NoLostWakeup
<1>1. OrderInv => NoLostWakeup
  BY InvariantOrder
<1> QED BY <1>1, OrderInvariance, PTL
-----------------------------------------------------------------------------
(* One connection without sender, aborts and Text, which are what upsets   *)
(* the window or the order of responses.  More immediate commands than     *)
(* QueueDepth + 1 without an acknowledgement may be refused (AckLags).     *)

Single(c) ==
  /\ Conns = {c} /\ ~UseSender /\ ~Abort /\ MaxCuts = 0
  /\ "text" \notin Kinds /\ MaxImms <= QueueDepth + 1

(* The worker never sleeps, nor leaves.                                    *)
Calm(c) ==
  /\ wk[c] \in {"idle", "held", "now", "write"} /\ sout[c] = None
  /\ result_queue[c] = <<>> /\ cut = {} /\ ~refused

(* The commands s are numbered from b on, and the next is e; each uses at  *)
(* most one number.                                                        *)
Passes(p) == IF p.imm THEN p.n ELSE p.n + 1
Chain(s, b, e) ==
  /\ s = <<>> => b = e
  /\ s # <<>> => s[1].n = b /\ Passes(s[Len(s)]) = e
  /\ \A i \in 1 .. Len(s) - 1 : s[i + 1].n = Passes(s[i])
  /\ \A i \in DOMAIN s : e <= Passes(s[i]) + (Len(s) - i)

Fit(p)  == p.kind # "text" /\ (p.kind = "ping" => p.imm)
Base(c) == IF wk[c] = "held" THEN Passes(pdu[c]) ELSE ExpCmdSN
InLine(c) ==
  /\ wk[c] = "held" => pdu[c].n = ExpCmdSN /\ Fit(pdu[c])
  /\ Chain(inbox[c], Base(c), nextN)

(* Each command was sent within the window known then.                     *)
Sound(p, stat, win) ==
  /\ Fit(p) /\ p.ack <= stat
  /\ Passes(p) <= p.ack + QueueDepth /\ Passes(p) <= win + 1
AllSound(c) == \A i \in DOMAIN inbox[c] : Sound(inbox[c][i], StatSN[c], winSN)

(* Each number that was let in is open or has opened the window again.     *)
Busy(c) == IF wk[c] = "now" THEN Own(pdu[c]) ELSE {}
OpenIs(c) ==
  /\ MaxCmdSN + Cardinality(queued[c].own) + Cardinality(Busy(c))
       = ExpCmdSN + (QueueDepth - 1)
  /\ \A n \in queued[c].own \cup Busy(c) : n < ExpCmdSN
  /\ queued[c].own \cap Busy(c) = {}

(* The responses under way end with the one that is written, and promise   *)
(* no more than QueueDepth commands beyond them.                           *)
Good(r, max) == r.max <= r.stat + QueueDepth /\ r.max <= max
Writing(c) == IF wk[c] = "write" THEN 1 ELSE 0
StatIs(c) ==
  /\ StatSN[c] = ack[c] + Len(wire[c]) + Writing(c)
  /\ \A i \in DOMAIN wire[c] : wire[c][i].stat = ack[c] + i - 1 /\ Good(wire[c][i], MaxCmdSN)
  /\ wk[c] = "write" => wout[c].stat = StatSN[c] - 1 /\ Good(wout[c], MaxCmdSN)
  /\ MaxCmdSN <= StatSN[c] + (QueueDepth - 1)
  /\ winSN <= ack[c] + (QueueDepth - 1) /\ winSN <= MaxCmdSN /\ nextN <= winSN + 1

(* A response that does not open the window is that of an immediate        *)
(* command; those not answered yet are in the logical unit, in hand, or    *)
(* in the inbox, where they are the ones that use no number.               *)
InLu(c)   == queued[c].imm
InHold(c) == IF wk[c] \in {"held", "now"} /\ pdu[c].imm THEN 1 ELSE 0
InBox(c)  == Len(inbox[c]) - (nextN - Base(c))
ImmsIs(c) ==
  /\ StatSN[c] + InLu(c) + InHold(c) + InBox(c) + QueueDepth <= imms + MaxCmdSN + 1
  /\ imms <= MaxImms

Steady(c) == Calm(c) /\ InLine(c) /\ AllSound(c) /\ OpenIs(c) /\ StatIs(c) /\ ImmsIs(c)

LEMMA ChainAppend ==
  ASSUME NEW s \in Seq(Command), NEW p \in Command, NEW b \in Nat, NEW e \in Nat,
         Chain(s, b, e), p.n = e
  PROVE  Chain(Append(s, p), b, Passes(p))
<1> DEFINE t == Append(s, p)
<1>1. /\ Len(s) \in Nat /\ DOMAIN s = 1 .. Len(s) /\ (s = <<>> <=> Len(s) = 0)
      /\ Len(t) = Len(s) + 1 /\ DOMAIN t = 1 .. (Len(s) + 1)
      /\ \A i \in 1 .. Len(s) : t[i] = s[i]
      /\ t[Len(s) + 1] = p /\ t # <<>>
  OBVIOUS
<1>2. \A i \in 1 .. Len(s) : s[i] \in Command
  OBVIOUS
<1>3. Passes(p) \in e .. (e + 1)
  BY CommandFields DEF Passes
<1>4. \A i \in 1 .. Len(s) : Passes(s[i]) \in Nat
  BY <1>2, CommandFields DEF Passes
<1> HIDE DEF t
<1>5. t[1].n = b
  <2>1. CASE Len(s) = 0
    BY <1>1, <2>1 DEF Chain
  <2>2. CASE Len(s) # 0
    BY <1>1, <2>2 DEF Chain
  <2> QED BY <2>1, <2>2
<1>6. ASSUME NEW i \in 1 .. Len(t) - 1
      PROVE  t[i + 1].n = Passes(t[i])
  <2>1. CASE i = Len(s)
    BY <1>1, <1>6, <2>1 DEF Chain
  <2>2. CASE i # Len(s)
    <3> DEFINE l == Len(s)
    <3>1. /\ l \in Nat /\ Len(t) = l + 1 /\ i \in 1 .. Len(t) - 1 /\ i # l
          /\ \A j \in 1 .. l : t[j] = s[j]
      BY <1>1, <2>2
    <3> HIDE DEF l
    <3>2. i \in 1 .. l - 1 /\ i + 1 \in 1 .. l
      BY <3>1
    <3>3. t[i] = s[i] /\ t[i + 1] = s[i + 1]
      BY <3>1, <3>2
    <3>4. s[i + 1].n = Passes(s[i])
      BY <3>2 DEF Chain, l
    <3> QED BY <3>3, <3>4
  <2> QED BY <2>1, <2>2
<1>7. ASSUME NEW i \in DOMAIN t
      PROVE  Passes(p) <= Passes(t[i]) + (Len(t) - i)
  <2>1. CASE i = Len(s) + 1
    BY <1>1, <1>3, <2>1
  <2>2. CASE i # Len(s) + 1
    <3>1. i \in 1 .. Len(s) /\ t[i] = s[i]
      BY <1>1, <1>7, <2>2
    <3>2. e <= Passes(s[i]) + (Len(s) - i)
      BY <1>1, <3>1 DEF Chain
    <3> QED BY <1>1, <1>3, <1>4, <3>1, <3>2
  <2> QED BY <2>1, <2>2
<1> QED BY <1>1, <1>5, <1>6, <1>7 DEF Chain, t

LEMMA ChainHead ==
  ASSUME NEW s \in Seq(Command), s # <<>>, NEW b \in Nat, NEW e \in Nat, Chain(s, b, e)
  PROVE  /\ Head(s).n = b
         /\ e <= Passes(Head(s)) + (Len(s) - 1)
         /\ Chain(Tail(s), Passes(Head(s)), e)
<1> DEFINE t == Tail(s)
           p == Head(s)
           l == Len(s)
<1>1. /\ l \in Nat \ {0} /\ DOMAIN s = 1 .. l
      /\ Len(t) = l - 1 /\ DOMAIN t = 1 .. (l - 1) /\ (t = <<>> <=> l = 1)
      /\ \A i \in 1 .. (l - 1) : t[i] = s[i + 1]
      /\ s[1] = p
  <2>1. l \in Nat \ {0} /\ DOMAIN s = 1 .. l /\ s[1] = p
    OBVIOUS
  <2>2. t \in Seq(Command) /\ Len(t) = l - 1 /\ \A i \in 1 .. (l - 1) : t[i] = s[i + 1]
    OBVIOUS
  <2>3. \A u \in Seq(Command) : DOMAIN u = 1 .. Len(u) /\ (u = <<>> <=> Len(u) = 0)
    OBVIOUS
  <2> HIDE DEF t, l
  <2>4. l - 1 = 0 <=> l = 1
    BY <2>1
  <2> QED BY <2>1, <2>2, <2>3, <2>4
<1>2. \A i \in 1 .. l : s[i] \in Command
  OBVIOUS
<1>3. \A i \in 1 .. l : Passes(s[i]) \in Nat
  BY <1>2, CommandFields DEF Passes
<1>4. /\ s[1].n = b /\ Passes(s[l]) = e
      /\ \A i \in 1 .. l - 1 : s[i + 1].n = Passes(s[i])
      /\ \A i \in 1 .. l : e <= Passes(s[i]) + (l - i)
  BY <1>1 DEF Chain
<1> HIDE DEF t, p, l
<1>5. t = <<>> => Passes(p) = e
  BY <1>1, <1>4
<1>6. t # <<>> => t[1].n = Passes(p) /\ Passes(t[Len(t)]) = e
  <2> SUFFICES ASSUME t # <<>> PROVE t[1].n = Passes(p) /\ Passes(t[Len(t)]) = e
    OBVIOUS
  <2>1. l > 1 /\ 1 \in 1 .. l - 1 /\ l - 1 \in 1 .. l - 1
    BY <1>1
  <2>2. t[1] = s[1 + 1] /\ t[l - 1] = s[(l - 1) + 1] /\ (l - 1) + 1 = l
    BY <1>1, <2>1
  <2> QED BY <1>1, <1>4, <2>1, <2>2
<1>7. ASSUME NEW i \in 1 .. Len(t) - 1
      PROVE  t[i + 1].n = Passes(t[i])
  <2>1. i \in 1 .. l - 1 /\ i + 1 \in 1 .. l - 1
    BY <1>1
  <2>2. t[i] = s[i + 1] /\ t[i + 1] = s[(i + 1) + 1]
    BY <1>1, <2>1
  <2> QED BY <1>4, <2>1, <2>2
<1>8. ASSUME NEW i \in DOMAIN t
      PROVE  e <= Passes(t[i]) + (Len(t) - i)
  <2>1. i \in 1 .. l - 1 /\ i + 1 \in 1 .. l /\ t[i] = s[i + 1]
    BY <1>1
  <2>2. e <= Passes(s[i + 1]) + (l - (i + 1))
    BY <1>4, <2>1
  <2> QED BY <1>1, <1>3, <2>1, <2>2
<1>9. Chain(t, Passes(p), e)
  BY <1>5, <1>6, <1>7, <1>8 DEF Chain
<1>10. p.n = b /\ e <= Passes(p) + (l - 1)
  BY <1>1, <1>4
<1> QED BY <1>9, <1>10 DEF t, p, l

(* The types of what belongs to a connection.                              *)
LEMMA SingleTypes ==
  ASSUME TypeOK, NEW c \in Conns
  PROVE  /\ ExpCmdSN \in Nat /\ MaxCmdSN \in Nat /\ StatSN[c] \in Nat
         /\ inbox[c] \in Seq(Command) /\ wire[c] \in Seq(Rsp)
         /\ nextN \in Nat /\ imms \in Nat /\ winSN \in Nat /\ ack[c] \in Nat
         /\ queued[c].own \in SUBSET Numbers /\ IsFiniteSet(queued[c].own)
         /\ Cardinality(queued[c].own) \in Nat /\ queued[c].imm \in Nat
         /\ QueueDepth \in Nat \ {0} /\ 2 * QueueDepth < Half /\ Half \in Nat
<1>1. queued[c].own \in SUBSET Numbers /\ queued[c].imm \in Nat
  <2>1. queued[c] \in [own: SUBSET Numbers, imm: Nat]
    BY DEF TypeOK
  <2> QED BY <2>1
<1>2. IsFiniteSet(queued[c].own) /\ Cardinality(queued[c].own) \in Nat
  <2>1. IsFiniteSet(Numbers)
    BY FS_Interval, BoundAssumption DEF Numbers
  <2> QED BY <1>1, <2>1, FS_Subset, FS_CardinalityType
<1> QED BY <1>1, <1>2, DepthAssumption, HalfAssumption DEF TypeOK

(* A number in hand and how far it moves the counters.                     *)
LEMMA OneOwn ==
  ASSUME NEW p \in Command
  PROVE  /\ IsFiniteSet(Own(p)) /\ Cardinality(Own(p)) = Opens(Own(p))
         /\ Passes(p) = p.n + Opens(Own(p))
         /\ Opens(Own(p)) = IF p.imm THEN 0 ELSE 1
         /\ Passes(p) \in Nat
<1>1. p.imm \in BOOLEAN /\ p.n \in Nat
  BY CommandFields
<1>2. CASE p.imm
  BY <1>1, <1>2, FS_EmptySet DEF Own, Opens, Passes
<1>3. CASE ~p.imm
  <2>1. Own(p) = {p.n} /\ Own(p) # {} /\ Opens(Own(p)) = 1 /\ Passes(p) = p.n + 1
    BY <1>3 DEF Own, Opens, Passes
  <2>2. IsFiniteSet({p.n}) /\ Cardinality({p.n}) = 1
    BY FS_Singleton
  <2> QED BY <1>1, <1>3, <2>1, <2>2
<1> QED BY <1>1, <1>2, <1>3

(* The next command is the expected one, and its numbers are near enough   *)
(* to the registers: no test of the target refuses it.                     *)
LEMMA HeadIsFine ==
  ASSUME NEW c \in Conns, Single(c), TypeOK, Steady(c), wk[c] = "idle", inbox[c] # <<>>,
         NEW p, p = Head(inbox[c])
  PROVE  /\ p \in Command /\ p.n = ExpCmdSN /\ Fit(p)
         /\ ~Early(p) /\ ~Outside(p) /\ Acked(c, p) = StatSN[c]
         /\ ~AckLags(c, p, ExpCmdSN)
<1> DEFINE e == ExpCmdSN
           m == MaxCmdSN
           st == StatSN[c]
           q == QueueDepth
<1>1. /\ e \in Nat /\ m \in Nat /\ st \in Nat /\ inbox[c] \in Seq(Command)
      /\ nextN \in Nat /\ imms \in Nat /\ winSN \in Nat
      /\ Cardinality(queued[c].own) \in Nat /\ queued[c].imm \in Nat
      /\ q \in Nat \ {0} /\ 2 * q < Half /\ Half \in Nat
  BY SingleTypes
<1>2. p \in Command /\ Len(inbox[c]) \in Nat /\ 1 \in DOMAIN inbox[c] /\ inbox[c][1] = p
  BY <1>1
<1>3. /\ p.n \in Nat /\ p.ack \in Nat /\ p.imm \in BOOLEAN
      /\ Passes(p) = IF p.imm THEN p.n ELSE p.n + 1
  BY <1>2, CommandFields DEF Passes
<1>4. Base(c) = e /\ Busy(c) = {} /\ InHold(c) = 0 /\ Cardinality(Busy(c)) = 0
  BY FS_EmptySet DEF Base, Busy, InHold
<1>5. p.n = e /\ nextN <= Passes(p) + (Len(inbox[c]) - 1)
  BY <1>1, <1>4, ChainHead DEF Steady, InLine
<1>6. /\ Fit(p) /\ p.ack <= st /\ Passes(p) <= p.ack + q /\ Passes(p) <= winSN + 1
  BY <1>2 DEF Steady, AllSound, Sound
<1>7. m <= e + (q - 1)
  BY <1>1, <1>4 DEF Steady, OpenIs
<1>8. winSN <= m
  BY DEF Steady, StatIs
<1>9. imms <= q + 1
  <2>1. imms <= MaxImms /\ MaxImms <= q + 1 /\ MaxImms \in Nat
    BY BoundAssumption DEF Steady, ImmsIs, Single
  <2> QED BY <1>1, <2>1
<1>10. st + queued[c].imm + (Len(inbox[c]) - (nextN - e)) + q <= imms + m + 1
  BY <1>1, <1>4 DEF Steady, ImmsIs, InLu, InBox
<1>11. ~p.imm => p.n <= m
  <2>1. m \in Nat /\ winSN \in Nat /\ p.n \in Nat
    BY <1>1, <1>3
  <2>2. ~p.imm => p.n + 1 <= winSN + 1
    BY <1>3, <1>6
  <2> HIDE DEF m
  <2> QED BY <1>8, <2>1, <2>2
<1>12. st <= m + (IF p.imm THEN 1 ELSE 2)
  <2> DEFINE l == Len(inbox[c])
             k == queued[c].imm
  <2>1. l \in Nat /\ k \in Nat
    BY <1>1, <1>2
  <2>2. st + k + (l - (nextN - e)) + q <= imms + m + 1
    BY <1>10
  <2>3. nextN <= Passes(p) + (l - 1)
    BY <1>5
  <2> HIDE DEF l, k, e, m, st, q
  <2> QED BY <1>1, <1>3, <1>5, <1>9, <2>1, <2>2, <2>3
<1> HIDE DEF e, m, st, q
<1> DEFINE x == p.ack + m - e + 1 + q
<1>13. /\ e \in Nat /\ m \in Nat /\ st \in Nat /\ q \in Nat /\ p.ack \in Nat
       /\ e <= p.ack + q /\ st <= m + 2 /\ m <= e + (q - 1) /\ p.ack <= st
       /\ st <= m + 1 \/ e + 1 <= p.ack + q
  <2>1. CASE p.imm
    BY <1>1, <1>3, <1>5, <1>6, <1>7, <1>12, <2>1
  <2>2. CASE ~p.imm
    <3>1. Passes(p) = e + 1 /\ st <= m + 2
      BY <1>3, <1>5, <1>12, <2>2
    <3>2. e + 1 <= p.ack + q
      BY <1>6, <3>1
    <3>3. e \in Nat /\ q \in Nat /\ p.ack \in Nat
      BY <1>1, <1>3
    <3>4. e <= p.ack + q
      BY <3>2, <3>3
    <3> QED BY <1>1, <1>3, <1>6, <1>7, <3>1, <3>2, <3>4
  <2> QED BY <2>1, <2>2
<1>14. x \in Nat /\ st <= x /\ x - st <= 2 * q /\ st - p.ack <= 2 * q
  <2> DEFINE a == p.ack
  <2> HIDE DEF a
  <2>1. /\ e \in Nat /\ m \in Nat /\ st \in Nat /\ q \in Nat /\ a \in Nat
        /\ e <= a + q /\ st <= m + 2 /\ m <= e + (q - 1) /\ a <= st
        /\ st <= m + 1 \/ e + 1 <= a + q
    BY <1>13 DEF a
  <2>2. /\ a + m - e + 1 + q \in Nat /\ st <= a + m - e + 1 + q
        /\ (a + m - e + 1 + q) - st <= 2 * q /\ st - a <= 2 * q
    BY <2>1
  <2> QED BY <2>2 DEF a
<1>15. ~GT(p.n, e)
  BY <1>1, <1>3, <1>5, SerialOrder
<1>16. ~Early(p)
  BY <1>15 DEF Early, e
<1>17. ~Outside(p)
  <2>1. CASE p.imm
    BY <1>5, <2>1 DEF Outside, OutsideWindow, e
  <2>2. CASE ~p.imm
    <3>1. e <= m
      BY <1>5, <1>11, <2>2
    <3>2. e - m < Half /\ m - e < Half
      BY <1>1, <1>7, <3>1
    <3>3. ~GT(e, m) /\ ~LT(e, e)
      BY <1>1, <3>1, <3>2, SerialOrder
    <3> QED BY <1>5, <2>2, <3>3 DEF Outside, OutsideWindow, e, m
  <2> QED BY <2>1, <2>2
<1>18. Acked(c, p) = StatSN[c]
  <2>1. ~GT(p.ack, st)
    <3> DEFINE a == p.ack
    <3>1. a \in Nat /\ a <= st /\ st - a <= 2 * q
      BY <1>13, <1>14
    <3> HIDE DEF a, x
    <3>2. a - st < Half /\ st - a < Half /\ ~(a > st)
      BY <1>1, <3>1
    <3>3. ~GT(a, st)
      BY <1>1, <3>1, <3>2, SerialOrder
    <3> QED BY <3>3 DEF a
  <2> QED BY <2>1 DEF Acked, st
<1>19. ~AckLags(c, p, ExpCmdSN)
  <2>1. ~LT(x, st)
    <3>1. x - st < Half /\ st - x < Half /\ ~(x < st)
      BY <1>1, <1>14
    <3> HIDE DEF x
    <3> QED BY <1>1, <1>14, <3>1, SerialOrder
  <2> QED BY <1>18, <2>1 DEF AckLags, st, x, e, m, q
<1> QED BY <1>2, <1>5, <1>6, <1>16, <1>17, <1>18, <1>19 DEF e

(* What a step of the worker does that takes no command out of the inbox.  *)
LEMMA LineStays ==
  ASSUME NEW c \in Conns, InLine(c), inbox'[c] = inbox[c], nextN' = nextN,
         wk'[c] # "held", ExpCmdSN' = Base(c)
  PROVE  InLine(c)' /\ Base(c)' = Base(c) /\ InBox(c)' = InBox(c)
<1>1. Base(c)' = Base(c)
  BY DEF Base
<1> QED BY <1>1 DEF InLine, InBox

LEMMA SoundStays ==
  ASSUME NEW c \in Conns, TypeOK, AllSound(c), inbox'[c] = inbox[c],
         StatSN'[c] \in Nat, winSN' \in Nat, StatSN[c] <= StatSN'[c], winSN <= winSN'
  PROVE  AllSound(c)'
<1> SUFFICES ASSUME NEW i \in DOMAIN inbox[c]
             PROVE  Sound(inbox[c][i], StatSN'[c], winSN')
  BY DEF AllSound
<1> DEFINE p == inbox[c][i]
<1>1. p \in Command /\ StatSN[c] \in Nat /\ winSN \in Nat
  BY DEF TypeOK
<1>2. Sound(p, StatSN[c], winSN)
  BY DEF AllSound
<1>3. p.ack \in Nat /\ Passes(p) \in Nat
  BY <1>1, CommandFields DEF Passes
<1> HIDE DEF p
<1>4. Sound(p, StatSN'[c], winSN')
  BY <1>1, <1>2, <1>3 DEF Sound
<1> QED BY <1>4 DEF p

(* The initiator sends within the window it knows.                         *)
LEMMA SendSteady ==
  ASSUME NEW c \in Conns, Single(c), TypeOK, InHand, Steady(c),
         NEW k \in Kinds, NEW imm \in BOOLEAN, k \in AllKinds, Send(c, k, imm)
  PROVE  Steady(c)'
<1> DEFINE p == [kind |-> k, imm |-> imm, n |-> nextN, ack |-> ack[c]]
           s == inbox[c]
<1>1. /\ ExpCmdSN \in Nat /\ MaxCmdSN \in Nat /\ StatSN[c] \in Nat /\ s \in Seq(Command)
      /\ nextN \in Nat /\ imms \in Nat /\ winSN \in Nat /\ ack[c] \in Nat
      /\ QueueDepth \in Nat \ {0} /\ queued[c].imm \in Nat
  BY SingleTypes
<1>2. /\ UNCHANGED <<sessVars, StatSN, outVars, workVars, wire, cut, winSN, ack, refused>>
      /\ inbox'[c] = Append(s, p)
      /\ nextN' = IF imm THEN nextN ELSE nextN + 1
      /\ imms' = IF imm THEN imms + 1 ELSE imms
      /\ imm => imms < MaxImms
      /\ ~imm => nextN <= winSN
      /\ k = "ping" => imm
  BY DEF Send, TypeOK
<1>3. p \in Command
  <2>1. ~imm => nextN \in Numbers
    BY <1>1, BoundAssumption DEF Send, Numbers
  <2> QED BY <1>1, <2>1 DEF Command, Own
<1>4. /\ Calm(c) /\ InLine(c) /\ AllSound(c) /\ OpenIs(c) /\ StatIs(c) /\ ImmsIs(c)
  BY DEF Steady
<1>5. /\ p.kind = k /\ p.imm = imm /\ p.n = nextN /\ p.ack = ack[c]
      /\ Passes(p) = nextN' /\ Fit(p)
  BY <1>2 DEF Passes, Fit, Single
<1>6. Base(c)' = Base(c) /\ Base(c) \in Nat
  <2>1. wk[c] = "held" => pdu[c] \in Command
    BY DEF InHand
  <2> QED BY <1>1, <1>2, <2>1, OneOwn DEF Base, workVars, sessVars
<1> HIDE DEF p
<1>7. InLine(c)'
  <2>1. Chain(Append(s, p), Base(c), Passes(p))
    BY <1>1, <1>3, <1>4, <1>5, <1>6, ChainAppend DEF InLine
  <2>2. Chain(inbox'[c], Base(c)', nextN')
    BY <1>2, <1>5, <1>6, <2>1
  <2> QED BY <1>2, <1>4, <2>2 DEF InLine, workVars, sessVars
<1>8. AllSound(c)'
  <2> SUFFICES ASSUME NEW i \in DOMAIN inbox'[c]
               PROVE  Sound(inbox'[c][i], StatSN[c], winSN)
    BY <1>2 DEF AllSound
  <2>1. /\ Len(s) \in Nat /\ DOMAIN s = 1 .. Len(s) /\ DOMAIN Append(s, p) = 1 .. (Len(s) + 1)
        /\ \A j \in 1 .. Len(s) : Append(s, p)[j] = s[j]
        /\ Append(s, p)[Len(s) + 1] = p
    BY <1>1, <1>3
  <2>2. CASE i = Len(s) + 1
    <3>1. /\ ack[c] <= StatSN[c] /\ winSN <= ack[c] + (QueueDepth - 1) /\ nextN <= winSN + 1
      <4> DEFINE l == Len(wire[c])
                 w == Writing(c)
                 st == StatSN[c]
                 a == ack[c]
      <4>1. l \in Nat /\ w \in Nat /\ st \in Nat /\ a \in Nat
        BY <1>1, SingleTypes DEF Writing
      <4>2. /\ st = a + l + w
            /\ winSN <= ack[c] + (QueueDepth - 1) /\ nextN <= winSN + 1
        BY <1>4 DEF StatIs
      <4> HIDE DEF l, w, st, a
      <4>3. a <= st
        BY <4>1, <4>2
      <4> QED BY <4>2, <4>3 DEF a, st
    <3>2. Passes(p) \in Nat /\ Passes(p) <= winSN + 1
      BY <1>1, <1>2, <1>5, <3>1
    <3>3. Passes(p) <= p.ack + QueueDepth /\ p.ack <= StatSN[c]
      BY <1>1, <1>5, <3>1, <3>2
    <3>4. inbox'[c][i] = p
      BY <1>2, <2>1, <2>2
    <3> QED BY <1>2, <1>5, <3>2, <3>3, <3>4 DEF Sound
  <2>3. CASE i # Len(s) + 1
    <3>1. i \in DOMAIN s /\ inbox'[c][i] = s[i]
      BY <1>2, <2>1, <2>3
    <3> QED BY <1>2, <1>4, <3>1 DEF AllSound, Sound
  <2> QED BY <2>2, <2>3
<1>9. Calm(c)' /\ OpenIs(c)'
  BY <1>2, <1>4 DEF Calm, OpenIs, Busy, sessVars, outVars, workVars
<1>10. StatIs(c)'
  <2>1. nextN' <= winSN + 1
    BY <1>1, <1>2, <1>4 DEF StatIs
  <2> QED BY <1>2, <1>4, <2>1 DEF StatIs, Writing, sessVars, outVars, workVars
<1>11. ImmsIs(c)'
  <2>1. Len(s) \in Nat /\ Len(inbox'[c]) = Len(s) + 1
    BY <1>1, <1>2, <1>3
  <2>2. InBox(c)' = IF imm THEN InBox(c) + 1 ELSE InBox(c)
    <3>1. InBox(c)' = Len(inbox'[c]) - (nextN' - Base(c)')
      BY DEF InBox
    <3>2. InBox(c)' = (Len(s) + 1) - (nextN' - Base(c)) /\ InBox(c) = Len(s) - (nextN - Base(c))
      BY <1>6, <2>1, <3>1 DEF InBox
    <3> DEFINE l == Len(s)
               b == Base(c)
    <3>3. l \in Nat /\ b \in Nat /\ nextN \in Nat
      BY <1>1, <1>6, <2>1
    <3> HIDE DEF l, b
    <3>4. CASE imm
      <4>1. (l + 1) - (nextN - b) = (l - (nextN - b)) + 1
        BY <3>3
      <4> QED BY <1>2, <3>2, <3>4, <4>1 DEF l, b
    <3>5. CASE ~imm
      <4>1. (l + 1) - ((nextN + 1) - b) = l - (nextN - b)
        BY <3>3
      <4> QED BY <1>2, <3>2, <3>5, <4>1 DEF l, b
    <3> QED BY <3>4, <3>5
  <2>3. InLu(c)' = InLu(c) /\ InHold(c)' = InHold(c) /\ StatSN' = StatSN /\ MaxCmdSN' = MaxCmdSN
    BY <1>2 DEF InLu, InHold, outVars, workVars, sessVars
  <2>4. InLu(c) \in Nat /\ InHold(c) \in Nat /\ InBox(c) \in Int
    BY <1>1, <1>6, <2>1 DEF InLu, InHold, InBox
  <2>5. imms' <= MaxImms
    BY <1>1, <1>2, <1>4, BoundAssumption DEF ImmsIs
  <2> DEFINE x == StatSN[c] + InLu(c) + InHold(c)
             b == InBox(c)
  <2>6. x \in Nat /\ b \in Int
    BY <1>1, <2>4
  <2>7. x + b + QueueDepth <= imms + MaxCmdSN + 1
    BY <1>4 DEF ImmsIs
  <2>8. StatSN'[c] + InLu(c)' + InHold(c)' = x
    BY <2>3
  <2> HIDE DEF x, b
  <2>9. x + (b + 1) + QueueDepth <= (imms + 1) + MaxCmdSN + 1
    BY <1>1, <2>6, <2>7
  <2>10. x + InBox(c)' + QueueDepth <= imms' + MaxCmdSN' + 1
    BY <1>2, <2>2, <2>3, <2>7, <2>9 DEF b
  <2> QED BY <2>5, <2>8, <2>10 DEF ImmsIs
<1> QED BY <1>7, <1>8, <1>9, <1>10, <1>11 DEF Steady

(* Each response acknowledged lets the window the initiator knows move on  *)
(* by one at most.                                                         *)
LEMMA ReceiveSteady ==
  ASSUME NEW c \in Conns, Single(c), TypeOK, InHand, Steady(c), Receive(c)
  PROVE  Steady(c)'
<1> DEFINE r == Head(wire[c])
           s == wire[c]
<1>1. /\ ExpCmdSN \in Nat /\ MaxCmdSN \in Nat /\ StatSN[c] \in Nat /\ s \in Seq(Rsp)
      /\ nextN \in Nat /\ imms \in Nat /\ winSN \in Nat /\ ack[c] \in Nat
      /\ QueueDepth \in Nat \ {0}
  BY SingleTypes
<1>2. /\ Calm(c) /\ InLine(c) /\ AllSound(c) /\ OpenIs(c) /\ StatIs(c) /\ ImmsIs(c)
  BY DEF Steady
<1>3. /\ UNCHANGED <<sessVars, StatSN, outVars, workVars, inbox, cut, nextN, imms, auxVars>>
      /\ s # <<>> /\ wire'[c] = Tail(s)
      /\ ack'[c] = IF r.stat = ack[c] THEN ack[c] + 1 ELSE ack[c]
      /\ winSN' = IF r.max > winSN THEN r.max ELSE winSN
  BY DEF Receive, TypeOK
<1>4. /\ Len(s) \in Nat \ {0} /\ DOMAIN s = 1 .. Len(s) /\ s[1] = r
      /\ Len(Tail(s)) = Len(s) - 1 /\ DOMAIN Tail(s) = 1 .. (Len(s) - 1)
      /\ \A i \in 1 .. (Len(s) - 1) : Tail(s)[i] = s[i + 1]
      /\ r \in Rsp
  BY <1>1, <1>3
<1>5. r.stat \in Nat /\ r.max \in Nat
  BY <1>4 DEF Rsp
<1> HIDE DEF r
<1>6. r.stat = ack[c] /\ Good(r, MaxCmdSN)
  <2>1. 1 \in DOMAIN s
    BY <1>4
  <2>2. s[1].stat = ack[c] + 1 - 1 /\ Good(s[1], MaxCmdSN)
    BY <1>2, <2>1 DEF StatIs
  <2> QED BY <1>1, <1>4, <2>2
<1>7. /\ ack'[c] = ack[c] + 1 /\ winSN' \in Nat /\ winSN <= winSN' /\ winSN' <= MaxCmdSN
      /\ winSN' <= ack'[c] + (QueueDepth - 1)
  <2>1. r.max <= ack[c] + QueueDepth /\ r.max <= MaxCmdSN
    BY <1>6 DEF Good
  <2>2. winSN <= ack[c] + (QueueDepth - 1) /\ winSN <= MaxCmdSN
    BY <1>2 DEF StatIs
  <2> DEFINE a == ack[c]
             x == r.max
  <2>3. a \in Nat /\ x \in Nat /\ winSN \in Nat /\ MaxCmdSN \in Nat /\ QueueDepth \in Nat
    BY <1>1, <1>5
  <2>4. /\ ack'[c] = a + 1 /\ winSN' = (IF x > winSN THEN x ELSE winSN)
        /\ x <= a + QueueDepth /\ x <= MaxCmdSN
        /\ winSN <= a + (QueueDepth - 1) /\ winSN <= MaxCmdSN
    BY <1>3, <1>6, <2>1, <2>2
  <2> HIDE DEF a, x
  <2>5. /\ winSN' \in Nat /\ winSN <= winSN' /\ winSN' <= MaxCmdSN
        /\ winSN' <= (a + 1) + (QueueDepth - 1)
    BY <2>3, <2>4
  <2> QED BY <2>4, <2>5 DEF a
<1>8. Calm(c)' /\ InLine(c)' /\ OpenIs(c)' /\ ImmsIs(c)'
  BY <1>2, <1>3 DEF Calm, InLine, Base, OpenIs, Busy, ImmsIs, InLu, InHold, InBox,
     sessVars, outVars, workVars, auxVars
<1>9. AllSound(c)'
  BY <1>1, <1>2, <1>3, <1>7, SoundStays
<1>10. StatIs(c)'
  <2>1. Writing(c)' = Writing(c) /\ Writing(c) \in Nat
    BY <1>3 DEF Writing, workVars
  <2>2. StatSN[c] = ack'[c] + Len(wire'[c]) + Writing(c)'
    <3> DEFINE l == Len(s)
               u == Writing(c)
    <3>1. Len(wire'[c]) = l - 1 /\ l \in Nat /\ u \in Nat
      BY <1>3, <1>4, <2>1
    <3>2. StatSN[c] = ack[c] + l + u
      BY <1>2 DEF StatIs
    <3> HIDE DEF l, u, s
    <3>3. ack[c] \in Nat
      BY <1>1
    <3> DEFINE a == ack[c]
    <3>4. a \in Nat
      BY <3>3
    <3> HIDE DEF a
    <3>5. a + l + u = (a + 1) + (l - 1) + u
      BY <3>1, <3>4
    <3>6. StatSN[c] = ack'[c] + (l - 1) + u
      BY <1>7, <3>2, <3>5 DEF a
    <3>7. Writing(c)' = u
      BY <2>1 DEF u
    <3> QED BY <3>1, <3>6, <3>7
  <2>3. ASSUME NEW i \in DOMAIN wire'[c]
        PROVE  wire'[c][i].stat = ack'[c] + i - 1 /\ Good(wire'[c][i], MaxCmdSN)
    <3>1. i \in 1 .. (Len(s) - 1)
      BY <1>3, <1>4
    <3>2. i + 1 \in DOMAIN s /\ wire'[c][i] = s[i + 1]
      BY <1>3, <1>4, <3>1
    <3>3. s[i + 1].stat = ack[c] + (i + 1) - 1 /\ Good(s[i + 1], MaxCmdSN)
      BY <1>2, <3>2 DEF StatIs
    <3>4. ack[c] + (i + 1) - 1 = ack'[c] + i - 1
      BY <1>1, <1>7, <3>1
    <3> QED BY <3>2, <3>3, <3>4
  <2>4. nextN <= winSN' + 1
    <3>1. nextN <= winSN + 1
      BY <1>2 DEF StatIs
    <3> HIDE DEF s
    <3> QED BY <1>1, <1>7, <3>1
  <2> QED BY <1>2, <1>3, <1>7, <2>2, <2>3, <2>4 DEF StatIs, sessVars, outVars, workVars
<1> QED BY <1>8, <1>9, <1>10 DEF Steady

(* The worker takes the next command in hand.                              *)
LEMMA TakeSteady ==
  ASSUME NEW c \in Conns, Single(c), TypeOK, InHand, Steady(c), Take(c),
         wk' = [wk EXCEPT ![c] = "held"], UNCHANGED <<ExpCmdSN, MaxCmdSN, StatSN, refused>>
  PROVE  Steady(c)'
<1> DEFINE p == Head(inbox[c])
           s == inbox[c]
<1>1. /\ ExpCmdSN \in Nat /\ MaxCmdSN \in Nat /\ StatSN[c] \in Nat /\ s \in Seq(Command)
      /\ nextN \in Nat /\ imms \in Nat /\ winSN \in Nat /\ QueueDepth \in Nat
      /\ queued[c].imm \in Nat
  BY SingleTypes
<1>2. /\ Calm(c) /\ InLine(c) /\ AllSound(c) /\ OpenIs(c) /\ StatIs(c) /\ ImmsIs(c)
  BY DEF Steady
<1>3. /\ wk[c] = "idle" /\ s # <<>> /\ pdu'[c] = p /\ inbox'[c] = Tail(s) /\ wk'[c] = "held"
      /\ UNCHANGED <<outVars, wire, cut, initVars>>
  BY DEF Take, TypeOK
<1>4. p \in Command /\ p.n = ExpCmdSN /\ Fit(p)
  BY <1>3, HeadIsFine
<1>5. Passes(p) = p.n + Opens(Own(p)) /\ Opens(Own(p)) = (IF p.imm THEN 1 - 1 ELSE 1)
      /\ Passes(p) \in Nat /\ Opens(Own(p)) \in {0, 1}
  BY <1>4, OneOwn
<1>6. Base(c) = ExpCmdSN /\ Base(c)' = Passes(p)
  BY <1>3 DEF Base
<1>7. Chain(s, ExpCmdSN, nextN)
  BY <1>2, <1>6 DEF InLine
<1>8. Chain(Tail(s), Passes(p), nextN)
  BY <1>1, <1>3, <1>7, ChainHead
<1>9. InLine(c)'
  BY <1>3, <1>4, <1>6, <1>8 DEF InLine, initVars
<1>10. /\ Len(s) \in Nat \ {0} /\ DOMAIN s = 1 .. Len(s)
       /\ Len(Tail(s)) = Len(s) - 1 /\ DOMAIN Tail(s) = 1 .. (Len(s) - 1)
       /\ \A i \in 1 .. (Len(s) - 1) : Tail(s)[i] = s[i + 1]
  BY <1>1, <1>3
<1>11. AllSound(c)'
  <2> SUFFICES ASSUME NEW i \in DOMAIN inbox'[c]
               PROVE  Sound(inbox'[c][i], StatSN[c], winSN)
    BY <1>3 DEF AllSound, initVars
  <2>1. i \in 1 .. (Len(s) - 1)
    BY <1>3, <1>10
  <2>2. i + 1 \in DOMAIN s /\ inbox'[c][i] = s[i + 1]
    BY <1>3, <1>10, <2>1
  <2> QED BY <1>2, <2>2 DEF AllSound
<1>12. Calm(c)' /\ OpenIs(c)' /\ StatIs(c)'
  <2>1. Busy(c)' = Busy(c) /\ Writing(c)' = Writing(c)
    BY <1>3 DEF Busy, Writing
  <2>2. Calm(c)'
    BY <1>2, <1>3 DEF Calm, outVars
  <2>3. OpenIs(c)'
    BY <1>2, <1>3, <2>1 DEF OpenIs, outVars
  <2>4. StatIs(c)'
    BY <1>2, <1>3, <2>1 DEF StatIs, initVars
  <2> QED BY <2>2, <2>3, <2>4
<1>13. ImmsIs(c)'
  <2> DEFINE l == Len(s)
             h == IF p.imm THEN 1 ELSE 0
  <2>1. /\ InHold(c) = 0 /\ InHold(c)' = h /\ InLu(c)' = InLu(c) /\ InLu(c) \in Nat
    BY <1>1, <1>3 DEF InHold, InLu, outVars
  <2>2. /\ InBox(c) = l - (nextN - ExpCmdSN) /\ InBox(c)' = (l - 1) - (nextN - Passes(p))
        /\ l \in Nat
    BY <1>3, <1>6, <1>10 DEF InBox, initVars
  <2>3. Passes(p) = ExpCmdSN + (1 - h) /\ h \in {0, 1}
    BY <1>4, <1>5
  <2>4. InBox(c)' + h = InBox(c) /\ InBox(c) \in Int /\ InBox(c)' \in Int
    <3> DEFINE e == ExpCmdSN
    <3>1. l \in Nat /\ e \in Nat /\ nextN \in Nat /\ h \in {0, 1}
      BY <1>1, <2>2, <2>3
    <3> HIDE DEF h, l, e
    <3>2. /\ ((l - 1) - (nextN - (e + (1 - h)))) + h = l - (nextN - e)
          /\ l - (nextN - e) \in Int /\ (l - 1) - (nextN - (e + (1 - h))) \in Int
      BY <3>1
    <3> QED BY <2>2, <2>3, <3>2 DEF e
  <2> HIDE DEF h, l, s, p
  <2>5. StatSN[c] + InLu(c) + 0 + InBox(c) + QueueDepth <= imms + MaxCmdSN + 1
    BY <1>2, <2>1 DEF ImmsIs
  <2>6. StatSN[c] + InLu(c) + h + InBox(c)' + QueueDepth <= imms + MaxCmdSN + 1
    BY <1>1, <2>1, <2>3, <2>4, <2>5
  <2>7. StatSN'[c] + InLu(c)' + InHold(c)' + InBox(c)' + QueueDepth <= imms + MaxCmdSN' + 1
    BY <2>1, <2>6
  <2> QED BY <1>2, <1>3, <2>7 DEF ImmsIs, initVars
<1> QED BY <1>9, <1>11, <1>12, <1>13 DEF Steady

LEMMA ReadCommandSteady ==
  ASSUME NEW c \in Conns, Single(c), TypeOK, InHand, Steady(c), ReadCommand(c)
  PROVE  Steady(c)'
<1> DEFINE p == Head(inbox[c])
<1>1. Take(c) /\ pdu'[c] = p /\ wk[c] = "idle" /\ inbox[c] # <<>>
  BY DEF ReadCommand, Take, TypeOK
<1>2. /\ p \in Command /\ p.n = ExpCmdSN /\ ~Early(p) /\ ~Outside(p)
      /\ Acked(c, p) = StatSN[c] /\ ~AckLags(c, p, ExpCmdSN)
  BY <1>1, HeadIsFine
<1>3. Check(c, p)
  BY <1>1, <1>2 DEF ReadCommand
<1> HIDE DEF p
<1>4. /\ wk' = [wk EXCEPT ![c] = "held"] /\ ExpCmdSN' = ExpCmdSN /\ MaxCmdSN' = MaxCmdSN
      /\ StatSN' = [StatSN EXCEPT ![c] = StatSN[c]] /\ refused' = refused
  BY <1>2, <1>3 DEF Check
<1>5. StatSN' = StatSN
  BY <1>4 DEF TypeOK
<1> QED BY <1>1, <1>4, <1>5, TakeSteady

LEMMA ReadTaskSteady ==
  ASSUME NEW c \in Conns, Single(c), TypeOK, InHand, Steady(c), ReadTask(c)
  PROVE  Steady(c)'
<1> DEFINE p == Head(inbox[c])
<1>1. Take(c) /\ pdu'[c] = p /\ wk[c] = "idle" /\ inbox[c] # <<>>
  BY DEF ReadTask, Take, TypeOK
<1>2. p.n = ExpCmdSN /\ Acked(c, p) = StatSN[c]
  BY <1>1, HeadIsFine
<1>3. /\ wk' = [wk EXCEPT ![c] = "held"] /\ ExpCmdSN' = ExpCmdSN /\ MaxCmdSN' = MaxCmdSN
      /\ StatSN' = [StatSN EXCEPT ![c] = StatSN[c]] /\ refused' = refused
  BY <1>1, <1>2 DEF ReadTask
<1>4. StatSN' = StatSN
  BY <1>3 DEF TypeOK
<1> QED BY <1>1, <1>3, <1>4, TakeSteady

LEMMA ReadTextNever ==
  ASSUME NEW c \in Conns, Single(c), TypeOK, Steady(c), ReadText(c)
  PROVE  FALSE
<1>1. Take(c) /\ pdu'[c] = Head(inbox[c]) /\ wk[c] = "idle" /\ inbox[c] # <<>>
  BY DEF ReadText, Take, TypeOK
<1>2. Head(inbox[c]).kind # "text"
  BY <1>1, HeadIsFine DEF Fit
<1> QED BY <1>1, <1>2 DEF ReadText

(* What the counts of open commands and of immediate ones make of a step   *)
(* that leaves the line as it is.                                          *)
LEMMA ImmsStay ==
  ASSUME NEW c \in Conns, TypeOK, InHand, ImmsIs(c), imms' = imms, InBox(c)' = InBox(c),
         StatSN'[c] \in Nat, MaxCmdSN' \in Nat, InLu(c)' \in Nat,
         StatSN'[c] + InLu(c)' + InHold(c)' + MaxCmdSN
           <= StatSN[c] + InLu(c) + InHold(c) + MaxCmdSN'
  PROVE  ImmsIs(c)'
<1>1. /\ MaxCmdSN \in Nat /\ StatSN[c] \in Nat /\ imms \in Nat /\ nextN \in Nat
      /\ ExpCmdSN \in Nat /\ inbox[c] \in Seq(Command) /\ QueueDepth \in Nat
      /\ queued[c].imm \in Nat
  BY SingleTypes
<1>2. InHold(c) \in Nat /\ InHold(c)' \in Nat /\ InLu(c) \in Nat
  BY <1>1 DEF InHold, InLu
<1>3. InBox(c) \in Int
  <2>1. Base(c) \in Nat
    BY <1>1, OneOwn DEF Base, InHand
  <2>2. Len(inbox[c]) \in Nat
    BY <1>1
  <2> QED BY <1>1, <2>1, <2>2 DEF InBox
<1>4. StatSN[c] + InLu(c) + InHold(c) + InBox(c) + QueueDepth <= imms + MaxCmdSN + 1
  BY DEF ImmsIs
<1>5. StatSN'[c] + InLu(c)' + InHold(c)' + InBox(c) + QueueDepth <= imms + MaxCmdSN' + 1
  <2> DEFINE st == StatSN[c]
             lu == InLu(c)
             ho == InHold(c)
             st1 == StatSN'[c]
             lu1 == InLu(c)'
             ho1 == InHold(c)'
             m1 == MaxCmdSN'
             b == InBox(c)
  <2>1. /\ st \in Nat /\ lu \in Nat /\ ho \in Nat /\ b \in Int
        /\ st1 \in Nat /\ lu1 \in Nat /\ ho1 \in Nat /\ m1 \in Nat
    BY <1>1, <1>2, <1>3
  <2>2. st1 + lu1 + ho1 + MaxCmdSN <= st + lu + ho + m1
    OBVIOUS
  <2>3. st + lu + ho + b + QueueDepth <= imms + MaxCmdSN + 1
    BY <1>4
  <2> HIDE DEF st, lu, ho, st1, lu1, ho1, m1, b
  <2>4. st1 + lu1 + ho1 + b + QueueDepth <= imms + m1 + 1
    BY <1>1, <2>1, <2>2, <2>3
  <2> QED BY <2>4 DEF st1, lu1, ho1, m1, b
<1> QED BY <1>5 DEF ImmsIs

(* The common part of all answers: the response has its number and is to   *)
(* be written, the window is open by one more if the command had a number. *)
LEMMA AnswerSteady ==
  ASSUME NEW c \in Conns, TypeOK, InHand, Steady(c), wk[c] # "write",
         NEW own, NEW advance \in BOOLEAN, Number(c, own, advance), WriteDirect(c),
         UNCHANGED <<sout, netVars, initVars, refused>>,
         ExpCmdSN' = Base(c), OpenIs(c)',
         InLu(c)' \in Nat, InLu(c)' + 1 <= InLu(c) + InHold(c) + Opens(own)
  PROVE  Steady(c)'
<1>1. /\ MaxCmdSN \in Nat /\ StatSN[c] \in Nat /\ winSN \in Nat /\ nextN \in Nat
      /\ wire[c] \in Seq(Rsp) /\ ack[c] \in Nat /\ QueueDepth \in Nat \ {0}
      /\ queued[c].imm \in Nat
  BY SingleTypes
<1>2. /\ Calm(c) /\ InLine(c) /\ AllSound(c) /\ StatIs(c) /\ ImmsIs(c)
  BY DEF Steady
<1>3. /\ StatSN'[c] = StatSN[c] + 1 /\ MaxCmdSN' = MaxCmdSN + Opens(own)
      /\ wk'[c] = "write" /\ wout'[c] = [stat |-> StatSN[c], max |-> MaxCmdSN']
      /\ UNCHANGED <<sout, result_queue, inbox, wire, cut, nextN, imms, winSN, ack, refused>>
  BY DEF Number, WriteDirect, NumberedRsp, TypeOK, netVars, initVars
<1>4. Opens(own) \in {0, 1}
  BY DEF Opens
<1>5. MaxCmdSN' \in Nat /\ StatSN'[c] \in Nat
  BY <1>1, <1>3, <1>4
<1>6. Calm(c)'
  BY <1>2, <1>3 DEF Calm
<1>7. InLine(c)' /\ InBox(c)' = InBox(c)
  BY <1>2, <1>3, LineStays
<1>8. AllSound(c)'
  <2>1. StatSN[c] <= StatSN'[c] /\ winSN <= winSN'
    BY <1>1, <1>3
  <2> QED BY <1>1, <1>2, <1>3, <1>5, <2>1, SoundStays
<1>9. StatIs(c)'
  <2>1. Len(wire[c]) \in Nat /\ Writing(c) = 0 /\ Writing(c)' = 1
    BY <1>1, <1>3 DEF Writing
  <2>2. /\ StatSN[c] = ack[c] + Len(wire[c]) + Writing(c)
        /\ MaxCmdSN <= StatSN[c] + (QueueDepth - 1)
        /\ winSN <= ack[c] + (QueueDepth - 1) /\ winSN <= MaxCmdSN /\ nextN <= winSN + 1
    BY <1>2 DEF StatIs
  <2>3. /\ StatSN'[c] = ack'[c] + Len(wire'[c]) + Writing(c)'
        /\ MaxCmdSN' <= StatSN'[c] + (QueueDepth - 1)
        /\ winSN' <= ack'[c] + (QueueDepth - 1) /\ winSN' <= MaxCmdSN' /\ nextN' <= winSN' + 1
    <3> DEFINE l == Len(wire[c])
               o == Opens(own)
    <3>1. StatSN[c] = ack[c] + l + 0 /\ l \in Nat /\ o \in {0, 1}
      BY <1>4, <2>1, <2>2
    <3> HIDE DEF l, o
    <3>2. StatSN[c] + 1 = ack[c] + l + 1
      BY <1>1, <3>1
    <3>3. /\ MaxCmdSN + o <= (StatSN[c] + 1) + (QueueDepth - 1) /\ winSN <= MaxCmdSN + o
      <4> DEFINE st == StatSN[c]
                 q == QueueDepth - 1
      <4>1. st \in Nat /\ q \in Nat /\ MaxCmdSN \in Nat /\ winSN \in Nat
        BY <1>1
      <4>2. MaxCmdSN <= st + q /\ winSN <= MaxCmdSN
        BY <2>2
      <4> HIDE DEF st, q
      <4>3. MaxCmdSN + o <= (st + 1) + q /\ winSN <= MaxCmdSN + o
        BY <3>1, <4>1, <4>2
      <4> QED BY <4>3 DEF st, q
    <3> QED BY <1>3, <2>1, <2>2, <3>2, <3>3 DEF l, o
  <2>4. wout'[c].stat = StatSN'[c] - 1 /\ Good(wout'[c], MaxCmdSN')
    <3>1. wout'[c].stat = StatSN[c] /\ wout'[c].max = MaxCmdSN'
      BY <1>3
    <3>2. MaxCmdSN' <= StatSN[c] + QueueDepth
      BY <1>1, <1>3, <1>4, <2>2
    <3> QED BY <1>1, <1>3, <1>5, <3>1, <3>2 DEF Good
  <2>5. ASSUME NEW i \in DOMAIN wire'[c]
        PROVE  wire'[c][i].stat = ack'[c] + i - 1 /\ Good(wire'[c][i], MaxCmdSN')
    <3>1. wire[c][i].stat = ack[c] + i - 1 /\ Good(wire[c][i], MaxCmdSN)
      BY <1>2, <1>3 DEF StatIs
    <3>2. wire[c][i] \in Rsp
      BY <1>1, <1>3
    <3>3. wire[c][i].max \in Nat
      BY <3>2 DEF Rsp
    <3> QED BY <1>1, <1>3, <1>4, <3>1, <3>3 DEF Good
  <2> QED BY <2>3, <2>4, <2>5 DEF StatIs
<1>10. ImmsIs(c)'
  <2>1. InHold(c)' = 0 /\ InHold(c) \in Nat /\ InLu(c) \in Nat
    BY <1>1, <1>3 DEF InHold, InLu
  <2>2. StatSN'[c] + InLu(c)' + InHold(c)' + MaxCmdSN
          <= StatSN[c] + InLu(c) + InHold(c) + MaxCmdSN'
    <3> DEFINE x == InLu(c)
               y == InLu(c)'
               h == InHold(c)
               o == Opens(own)
    <3>1. x \in Nat /\ y \in Nat /\ h \in Nat /\ o \in {0, 1} /\ y + 1 <= x + h + o
      BY <1>4, <2>1
    <3> DEFINE st == StatSN[c]
    <3>2. st \in Nat /\ MaxCmdSN \in Nat
      BY <1>1
    <3> HIDE DEF x, y, h, o, st
    <3>3. (st + 1) + y + 0 + MaxCmdSN <= st + x + h + (MaxCmdSN + o)
      BY <3>1, <3>2
    <3> QED BY <1>3, <2>1, <3>3 DEF x, y, h, o, st
  <2> QED BY <1>2, <1>3, <1>5, <1>7, <2>2, ImmsStay
<1> QED BY <1>6, <1>7, <1>8, <1>9, <1>10 DEF Steady

(* The facts about what is open that each answer starts from.              *)
LEMMA OpenFacts ==
  ASSUME NEW c \in Conns, TypeOK, InHand, Steady(c), wk[c] \in {"held", "now"}
  PROVE  /\ pdu[c] \in Command /\ IsFiniteSet(Own(pdu[c]))
         /\ Cardinality(Own(pdu[c])) = Opens(Own(pdu[c])) /\ Opens(Own(pdu[c])) \in {0, 1}
         /\ InHold(c) + Opens(Own(pdu[c])) = 1 /\ InHold(c) \in Nat
         /\ wk[c] = "held" => Base(c) = ExpCmdSN + Opens(Own(pdu[c])) /\ Busy(c) = {}
         /\ wk[c] = "now" => Base(c) = ExpCmdSN /\ Busy(c) = Own(pdu[c])
<1> DEFINE p == pdu[c]
<1>1. p \in Command
  BY DEF InHand
<1>2. /\ IsFiniteSet(Own(p)) /\ Cardinality(Own(p)) = Opens(Own(p))
      /\ Passes(p) = p.n + Opens(Own(p)) /\ Opens(Own(p)) = IF p.imm THEN 0 ELSE 1
  BY <1>1, OneOwn
<1>3. wk[c] = "held" => p.n = ExpCmdSN
  BY DEF Steady, InLine
<1>4. p.imm \in BOOLEAN
  BY <1>1, CommandFields
<1>5. InHold(c) = IF p.imm THEN 1 ELSE 0
  BY DEF InHold
<1>6. InHold(c) + Opens(Own(p)) = 1 /\ InHold(c) \in Nat /\ Opens(Own(p)) \in {0, 1}
  BY <1>2, <1>4, <1>5
<1> QED BY <1>1, <1>2, <1>3, <1>6 DEF Base, Busy

LEMMA AnswerNowSteady ==
  ASSUME NEW c \in Conns, Single(c), TypeOK, InHand, Steady(c), AnswerNow(c)
  PROVE  Steady(c)'
<1> DEFINE own == Own(pdu[c])
<1>1. /\ wk[c] = "now" /\ Number(c, own, FALSE) /\ WriteDirect(c)
      /\ UNCHANGED <<pdu, sout, queued, netVars, initVars, refused>>
  BY DEF AnswerNow, WritePdu, Single
<1>2. /\ Cardinality(own) = Opens(own) /\ Opens(own) \in {0, 1}
      /\ InHold(c) + Opens(own) = 1 /\ InHold(c) \in Nat /\ Base(c) = ExpCmdSN /\ Busy(c) = own
  BY <1>1, OpenFacts
<1> HIDE DEF own
<1>3. /\ MaxCmdSN \in Nat /\ ExpCmdSN \in Nat /\ QueueDepth \in Nat
      /\ Cardinality(queued[c].own) \in Nat /\ queued[c].imm \in Nat
  BY SingleTypes
<1>4. ExpCmdSN' = ExpCmdSN /\ MaxCmdSN' = MaxCmdSN + Opens(own)
  BY <1>1 DEF Number
<1>5. Busy(c)' = {} /\ Cardinality({}) = 0
  BY <1>1, FS_EmptySet DEF WriteDirect, Busy, TypeOK
<1>6. OpenIs(c)'
  <2>1. /\ MaxCmdSN + Cardinality(queued[c].own) + Opens(own) = ExpCmdSN + (QueueDepth - 1)
        /\ \A n \in queued[c].own : n < ExpCmdSN
    BY <1>2 DEF Steady, OpenIs
  <2>2. MaxCmdSN' + Cardinality(queued[c].own) + 0 = ExpCmdSN' + (QueueDepth - 1)
    BY <1>2, <1>3, <1>4, <2>1
  <2> QED BY <1>1, <1>4, <1>5, <2>1, <2>2 DEF OpenIs
<1>7. InLu(c)' = InLu(c) /\ InLu(c) \in Nat
  BY <1>1, <1>3 DEF InLu
<1>8. InLu(c)' + 1 <= InLu(c) + InHold(c) + Opens(own)
  BY <1>2, <1>7
<1> QED BY <1>1, <1>2, <1>4, <1>6, <1>7, <1>8, AnswerSteady

(* NOP-Out and task management take their turn with the answer.            *)
LEMMA NumberUpdSteady ==
  ASSUME NEW c \in Conns, Single(c), TypeOK, InHand, Steady(c), wk[c] = "held",
         NumberUpd(c, Own(pdu[c])), UNCHANGED <<pdu, sout, queued, netVars, initVars, refused>>
  PROVE  Steady(c)'
<1> DEFINE own == Own(pdu[c])
<1>1. Number(c, own, TRUE) /\ WriteDirect(c)
  BY DEF NumberUpd, Single
<1>2. /\ Opens(own) \in {0, 1} /\ InHold(c) + Opens(own) = 1 /\ InHold(c) \in Nat
      /\ Base(c) = ExpCmdSN + Opens(own) /\ Busy(c) = {}
  BY OpenFacts
<1> HIDE DEF own
<1>3. /\ MaxCmdSN \in Nat /\ ExpCmdSN \in Nat /\ QueueDepth \in Nat
      /\ Cardinality(queued[c].own) \in Nat /\ queued[c].imm \in Nat
      /\ queued[c].own \in SUBSET Numbers
  BY SingleTypes
<1>4. ExpCmdSN' = ExpCmdSN + Opens(own) /\ MaxCmdSN' = MaxCmdSN + Opens(own)
  BY <1>1, <1>3 DEF Number, Opens
<1>5. Busy(c)' = {} /\ Cardinality({}) = 0
  BY <1>1, FS_EmptySet DEF WriteDirect, Busy, TypeOK
<1>6. OpenIs(c)'
  <2>1. /\ MaxCmdSN + Cardinality(queued[c].own) + 0 = ExpCmdSN + (QueueDepth - 1)
        /\ \A n \in queued[c].own : n < ExpCmdSN
    BY <1>2, <1>5 DEF Steady, OpenIs
  <2>2. MaxCmdSN' + Cardinality(queued[c].own) + 0 = ExpCmdSN' + (QueueDepth - 1)
    BY <1>2, <1>3, <1>4, <2>1
  <2>3. \A n \in queued[c].own : n < ExpCmdSN'
    BY <1>2, <1>3, <1>4, <2>1 DEF Numbers
  <2> QED BY <1>5, <2>2, <2>3 DEF OpenIs
<1>7. InLu(c)' = InLu(c) /\ InLu(c) \in Nat
  BY <1>3 DEF InLu
<1>8. InLu(c)' + 1 <= InLu(c) + InHold(c) + Opens(own)
  BY <1>2, <1>7
<1> QED BY <1>1, <1>2, <1>4, <1>6, <1>7, <1>8, AnswerSteady

LEMMA EndPingSteady ==
  ASSUME NEW c \in Conns, Single(c), TypeOK, InHand, Steady(c), EndPing(c)
  PROVE  Steady(c)'
<1>1. /\ wk[c] = "held" /\ pdu[c].kind = "ping" /\ wk'[c] = "idle"
      /\ UNCHANGED <<sessVars, StatSN, outVars, pdu, netVars, initVars, auxVars>>
  BY DEF EndPing, TypeOK
<1>2. /\ Calm(c) /\ InLine(c) /\ AllSound(c) /\ OpenIs(c) /\ StatIs(c) /\ ImmsIs(c)
  BY DEF Steady
<1>3. /\ MaxCmdSN \in Nat /\ StatSN[c] \in Nat /\ winSN \in Nat /\ queued[c].imm \in Nat
  BY SingleTypes
<1>4. Base(c) = ExpCmdSN
  BY <1>1, <1>2 DEF InLine, Fit, Base, Passes
<1>5. InLine(c)' /\ InBox(c)' = InBox(c)
  BY <1>1, <1>2, <1>4, LineStays DEF sessVars, netVars, initVars
<1>6. Busy(c)' = Busy(c) /\ Writing(c)' = Writing(c)
  BY <1>1 DEF Busy, Writing
<1>7. Calm(c)' /\ AllSound(c)' /\ OpenIs(c)' /\ StatIs(c)'
  BY <1>1, <1>2, <1>6 DEF Calm, AllSound, OpenIs, StatIs, sessVars, outVars, netVars,
     initVars, auxVars
<1>8. ImmsIs(c)'
  <2>1. InLu(c)' = InLu(c) /\ InHold(c)' = 0 /\ InHold(c) \in Nat /\ InLu(c) \in Nat
    BY <1>1, <1>3 DEF InLu, InHold, outVars
  <2>2. StatSN'[c] + InLu(c)' + InHold(c)' + MaxCmdSN
          <= StatSN[c] + InLu(c) + InHold(c) + MaxCmdSN'
    BY <1>1, <1>3, <2>1 DEF sessVars
  <2> QED BY <1>1, <1>2, <1>3, <1>5, <2>1, <2>2, ImmsStay DEF sessVars, initVars
<1> QED BY <1>5, <1>7, <1>8 DEF Steady

(* A SCSI command is let in: ExpCmdSN moves past it, and it is open.       *)
LEMMA DeliverSteady ==
  ASSUME NEW c \in Conns, Single(c), TypeOK, InHand, Steady(c), Deliver(c)
  PROVE  Steady(c)'
<1> DEFINE p == pdu[c]
           own == Own(p)
           old == queued[c].own
<1>1. /\ wk[c] = "held" /\ ExpCmdSN' = IF p.imm THEN ExpCmdSN ELSE ExpCmdSN + 1
      /\ UNCHANGED <<MaxCmdSN, StatSN, wout, sout, result_queue, pdu, netVars, initVars, refused>>
  BY DEF Deliver
<1>2. /\ Calm(c) /\ InLine(c) /\ AllSound(c) /\ OpenIs(c) /\ StatIs(c) /\ ImmsIs(c)
  BY DEF Steady
<1>3. /\ MaxCmdSN \in Nat /\ StatSN[c] \in Nat /\ winSN \in Nat /\ ExpCmdSN \in Nat
      /\ queued[c].imm \in Nat /\ QueueDepth \in Nat
      /\ old \in SUBSET Numbers /\ IsFiniteSet(old) /\ Cardinality(old) \in Nat
  BY SingleTypes
<1>4. /\ p \in Command /\ Cardinality(own) = Opens(own) /\ Opens(own) \in {0, 1}
      /\ InHold(c) + Opens(own) = 1 /\ InHold(c) \in Nat
      /\ Base(c) = ExpCmdSN + Opens(own) /\ Busy(c) = {}
  BY <1>1, OpenFacts
<1>5. /\ p.n = ExpCmdSN /\ p.imm \in BOOLEAN /\ own = IF p.imm THEN {} ELSE {p.n}
      /\ Opens(own) = IF p.imm THEN 0 ELSE 1
  BY <1>1, <1>2, <1>4, CommandFields, OneOwn DEF InLine, Own
<1>6. ExpCmdSN' = ExpCmdSN + Opens(own) /\ ExpCmdSN' \in Nat
  BY <1>1, <1>3, <1>4, <1>5
<1>7. /\ MaxCmdSN + Cardinality(old) + 0 = ExpCmdSN + (QueueDepth - 1)
      /\ \A n \in old : n < ExpCmdSN
  BY <1>2, <1>4, FS_EmptySet DEF OpenIs
<1>8. \A n \in old \cup own : n < ExpCmdSN'
  <2>1. \A n \in old : n < ExpCmdSN'
    BY <1>3, <1>4, <1>6, <1>7 DEF Numbers
  <2>2. \A n \in own : n < ExpCmdSN'
    BY <1>3, <1>5, <1>6
  <2> QED BY <2>1, <2>2
<1>9. old \cap own = {}
  BY <1>3, <1>5, <1>7 DEF Numbers
<1>10. Cardinality(old \cup own) = Cardinality(old) + Opens(own)
  <2>1. CASE p.imm
    <3>1. old \cup own = old /\ Opens(own) = 0
      BY <1>5, <2>1
    <3>2. Cardinality(old \cup own) = Cardinality(old)
      BY <3>1, Zenon
    <3> DEFINE k == Cardinality(old)
    <3>3. k \in Nat /\ k = k + Opens(own)
      BY <1>3, <3>1
    <3> QED BY <3>2, <3>3
  <2>2. CASE ~p.imm
    <3>1. old \cup own = old \cup {p.n} /\ p.n \notin old /\ Opens(own) = 1
      BY <1>5, <1>9, <2>2
    <3>2. Cardinality(old \cup {p.n}) = Cardinality(old) + 1
      BY <1>3, <3>1, FS_AddElement
    <3> QED BY <3>1, <3>2
  <2> QED BY <1>5, <2>1, <2>2
<1>11. \/ /\ queued'[c] = [own |-> old \cup own,
                           imm |-> IF p.imm THEN queued[c].imm + 1 ELSE queued[c].imm]
          /\ wk'[c] = "idle"
       \/ wk'[c] = "now" /\ queued'[c] = queued[c]
  <2>1. Awake(p) \in [Conns -> Places]
    BY DEF Awake, TypeOK, Places
  <2> QED BY <2>1 DEF Deliver, TypeOK
<1> HIDE DEF own, old, p
<1>12. Calm(c)' /\ InLine(c)' /\ InBox(c)' = InBox(c)
  <2>1. wk'[c] \in {"idle", "now"}
    BY <1>11
  <2>2. Calm(c)'
    BY <1>1, <1>2, <2>1 DEF Calm, netVars
  <2>3. InLine(c)' /\ InBox(c)' = InBox(c)
    BY <1>1, <1>2, <1>4, <1>6, <2>1, LineStays DEF netVars, initVars
  <2> QED BY <2>2, <2>3
<1>13. AllSound(c)' /\ StatIs(c)'
  <2>1. Writing(c)' = Writing(c) /\ wk'[c] # "write"
    BY <1>1, <1>11 DEF Writing
  <2> QED BY <1>1, <1>2, <2>1 DEF AllSound, StatIs, netVars, initVars
<1>14. CASE wk'[c] = "idle"
  <2>1. /\ queued'[c].own = old \cup own
        /\ queued'[c].imm = IF p.imm THEN queued[c].imm + 1 ELSE queued[c].imm
    BY <1>11, <1>14
  <2>2. Busy(c)' = {} /\ Cardinality({}) = 0
    BY <1>14, FS_EmptySet DEF Busy
  <2>3. MaxCmdSN' + Cardinality(queued'[c].own) + 0 = ExpCmdSN' + (QueueDepth - 1)
    BY <1>1, <1>3, <1>4, <1>6, <1>7, <1>10, <2>1
  <2>4. OpenIs(c)'
    BY <1>8, <2>1, <2>2, <2>3 DEF OpenIs
  <2>5. InLu(c)' + InHold(c)' = InLu(c) + InHold(c) /\ InLu(c)' \in Nat /\ InHold(c)' = 0
    BY <1>3, <1>4, <1>5, <1>14, <2>1 DEF InLu, InHold
  <2>6. StatSN'[c] + InLu(c)' + InHold(c)' + MaxCmdSN
          <= StatSN[c] + InLu(c) + InHold(c) + MaxCmdSN'
    BY <1>1, <1>3, <1>4, <2>5 DEF InLu
  <2>7. ImmsIs(c)'
    BY <1>1, <1>2, <1>3, <1>12, <2>5, <2>6, ImmsStay DEF initVars
  <2> QED BY <1>12, <1>13, <2>4, <2>7 DEF Steady
<1>15. CASE wk'[c] = "now"
  <2>1. queued'[c].own = old /\ queued'[c].imm = queued[c].imm /\ pdu'[c] = p
    BY <1>1, <1>11, <1>15 DEF old, p
  <2>2. Busy(c)' = own
    BY <1>15, <2>1 DEF Busy, own
  <2>3. MaxCmdSN' + Cardinality(old) + Opens(own) = ExpCmdSN' + (QueueDepth - 1)
    BY <1>1, <1>3, <1>4, <1>6, <1>7
  <2>4. OpenIs(c)'
    BY <1>4, <1>8, <1>9, <2>1, <2>2, <2>3 DEF OpenIs
  <2>5. InLu(c)' = InLu(c) /\ InHold(c)' = InHold(c) /\ InLu(c) \in Nat
    BY <1>1, <1>3, <1>15, <2>1 DEF InLu, InHold, p
  <2>6. StatSN'[c] + InLu(c)' + InHold(c)' + MaxCmdSN
          <= StatSN[c] + InLu(c) + InHold(c) + MaxCmdSN'
    BY <1>1, <1>3, <1>4, <2>5
  <2>7. ImmsIs(c)'
    BY <1>1, <1>2, <1>3, <1>12, <2>5, <2>6, ImmsStay DEF initVars
  <2> QED BY <1>12, <1>13, <2>4, <2>7 DEF Steady
<1> QED BY <1>11, <1>14, <1>15

(* Without sender the worker answers for the logical unit.                 *)
LEMMA AnswerDoneSteady ==
  ASSUME NEW c \in Conns, Single(c), TypeOK, InHand, Steady(c),
         NEW own \in OwnSets, AnswerDone(c, own)
  PROVE  Steady(c)'
<1> DEFINE old == queued[c].own
           k == Cardinality(old)
           o == Opens(own)
<1>1. /\ wk[c] = "idle" /\ TaskOf(c, own) /\ Number(c, own, FALSE) /\ WriteDirect(c)
      /\ queued'[c] = [own |-> old \ own,
                       imm |-> IF own = {} THEN queued[c].imm - 1 ELSE queued[c].imm]
      /\ UNCHANGED <<pdu, sout, netVars, initVars, refused>>
  BY DEF AnswerDone, EndTask, TypeOK
<1>2. /\ MaxCmdSN \in Nat /\ ExpCmdSN \in Nat /\ QueueDepth \in Nat
      /\ IsFiniteSet(old) /\ k \in Nat /\ queued[c].imm \in Nat
  BY SingleTypes
<1>3. /\ Base(c) = ExpCmdSN /\ Busy(c) = {} /\ InHold(c) = 0
      /\ Busy(c)' = {} /\ Cardinality({}) = 0
  BY <1>1, FS_EmptySet DEF Base, Busy, InHold, WriteDirect, TypeOK
<1>4. /\ MaxCmdSN + k + 0 = ExpCmdSN + (QueueDepth - 1)
      /\ \A n \in old : n < ExpCmdSN
  BY <1>3 DEF Steady, OpenIs
<1>5. ExpCmdSN' = ExpCmdSN /\ MaxCmdSN' = MaxCmdSN + o
  BY <1>1 DEF Number
<1>6. /\ Cardinality(old \ own) + o = k /\ o \in {0, 1} /\ Cardinality(old \ own) \in Nat
      /\ own = {} <=> o = 0
  <2>1. CASE own = {}
    <3>1. old \ own = old /\ o = 0
      BY <2>1 DEF Opens
    <3>2. Cardinality(old \ own) = k
      BY <3>1, Zenon
    <3> HIDE DEF o, k
    <3> QED BY <1>2, <2>1, <3>1, <3>2
  <2>2. CASE own # {}
    <3>1. PICK n \in Numbers : own = {n}
      BY <2>2 DEF OwnSets
    <3>2. n \in old /\ o = 1
      BY <1>1, <2>2, <3>1 DEF TaskOf, Opens
    <3>3. Cardinality(old \ {n}) = k - 1 /\ IsFiniteSet(old \ {n})
      BY <1>2, <3>2, FS_RemoveElement
    <3>4. Cardinality(old \ own) = k - 1 /\ Cardinality(old \ own) \in Nat
      BY <3>1, <3>3, FS_CardinalityType
    <3> HIDE DEF o, k
    <3> QED BY <1>2, <2>2, <3>2, <3>4
  <2> QED BY <2>1, <2>2
<1>7. /\ queued'[c].own = old \ own
      /\ queued'[c].imm = IF own = {} THEN queued[c].imm - 1 ELSE queued[c].imm
  BY <1>1
<1>8. OpenIs(c)'
  <2>1. MaxCmdSN' + Cardinality(old \ own) + 0 = ExpCmdSN' + (QueueDepth - 1)
    <3> DEFINE j == Cardinality(old \ own)
    <3>1. j \in Nat /\ j + o = k
      BY <1>6
    <3> HIDE DEF j, k, o
    <3>2. MaxCmdSN' + j + 0 = ExpCmdSN' + (QueueDepth - 1)
      BY <1>2, <1>4, <1>5, <1>6, <3>1
    <3> QED BY <3>2 DEF j
  <2> QED BY <1>3, <1>4, <1>5, <1>7, <2>1 DEF OpenIs
<1>9. InLu(c)' \in Nat /\ InLu(c)' + 1 <= InLu(c) + InHold(c) + Opens(own)
  <2>1. own = {} => queued[c].imm > 0
    BY <1>1 DEF TaskOf
  <2>2. InLu(c) = queued[c].imm /\ InLu(c)' = queued'[c].imm
    BY DEF InLu
  <2> HIDE DEF old, k
  <2> QED BY <1>2, <1>3, <1>6, <1>7, <2>1, <2>2
<1> QED BY <1>1, <1>3, <1>5, <1>8, <1>9, AnswerSteady

(* The response goes to the end of those under way.                        *)
LEMMA WorkerWriteSteady ==
  ASSUME NEW c \in Conns, Single(c), TypeOK, InHand, Steady(c), WorkerWrite(c)
  PROVE  Steady(c)'
<1> DEFINE r == wout[c]
           s == wire[c]
<1>1. /\ Calm(c) /\ InLine(c) /\ AllSound(c) /\ OpenIs(c) /\ StatIs(c) /\ ImmsIs(c)
  BY DEF Steady
<1>2. /\ wk[c] = "write" /\ wk'[c] = "idle" /\ wire'[c] = Append(s, r)
      /\ UNCHANGED <<sessVars, StatSN, pdu, sout, queued, result_queue, inbox, cut, initVars,
                     auxVars>>
  BY <1>1 DEF WorkerWrite, ToWire, TypeOK, Calm
<1>3. /\ StatSN[c] \in Nat /\ s \in Seq(Rsp) /\ ack[c] \in Nat /\ MaxCmdSN \in Nat
      /\ queued[c].imm \in Nat
  BY SingleTypes
<1>4. r \in Rsp
  BY <1>2 DEF InHand
<1>5. /\ Len(s) \in Nat /\ DOMAIN s = 1 .. Len(s) /\ Len(Append(s, r)) = Len(s) + 1
      /\ DOMAIN Append(s, r) = 1 .. (Len(s) + 1)
      /\ \A i \in 1 .. Len(s) : Append(s, r)[i] = s[i]
      /\ Append(s, r)[Len(s) + 1] = r
  BY <1>3, <1>4
<1>6. Base(c)' = Base(c) /\ Busy(c)' = Busy(c) /\ InHold(c)' = InHold(c) /\ InLu(c)' = InLu(c)
  BY <1>2 DEF Base, Busy, InHold, InLu, sessVars
<1>7. /\ InBox(c)' = InBox(c)
  BY <1>2, <1>6 DEF InBox, initVars
<1>8. Calm(c)' /\ InLine(c)' /\ AllSound(c)' /\ OpenIs(c)'
  BY <1>1, <1>2, <1>6 DEF Calm, InLine, AllSound, OpenIs, sessVars, initVars, auxVars
<1>9. ImmsIs(c)'
  BY <1>1, <1>2, <1>6, <1>7 DEF ImmsIs, sessVars, initVars
<1>10. StatIs(c)'
  <2>1. Writing(c) = 1 /\ Writing(c)' = 0
    BY <1>2 DEF Writing
  <2>2. /\ StatSN[c] = ack[c] + Len(s) + 1
        /\ r.stat = StatSN[c] - 1 /\ Good(r, MaxCmdSN)
    BY <1>1, <1>2, <2>1 DEF StatIs
  <2> DEFINE l == Len(s)
  <2>3. l \in Nat /\ Len(wire'[c]) = l + 1
    BY <1>2, <1>5
  <2>4. StatSN[c] = ack[c] + (l + 1) + 0 /\ r.stat = ack[c] + (l + 1) - 1
    <3>1. StatSN[c] = ack[c] + l + 1 /\ r.stat = StatSN[c] - 1
      BY <2>2
    <3> HIDE DEF l
    <3> QED BY <1>3, <2>3, <3>1
  <2>5. ASSUME NEW i \in DOMAIN wire'[c]
        PROVE  wire'[c][i].stat = ack[c] + i - 1 /\ Good(wire'[c][i], MaxCmdSN)
    <3>1. CASE i = l + 1
      <4>1. wire'[c][i] = r
        BY <1>2, <1>5, <3>1
      <4> HIDE DEF l, r
      <4> QED BY <2>2, <2>4, <3>1, <4>1
    <3>2. CASE i # l + 1
      <4>1. i \in DOMAIN s /\ wire'[c][i] = s[i]
        BY <1>2, <1>5, <3>2
      <4> QED BY <1>1, <4>1 DEF StatIs
    <3> QED BY <3>1, <3>2
  <2>6. StatSN'[c] = ack'[c] + Len(wire'[c]) + Writing(c)'
    BY <1>2, <2>1, <2>3, <2>4 DEF initVars
  <2> HIDE DEF l, s, r
  <2> QED BY <1>1, <1>2, <2>5, <2>6 DEF StatIs, sessVars, initVars
<1> QED BY <1>8, <1>9, <1>10 DEF Steady

-----------------------------------------------------------------------------
SteadyInv(c) == Basis /\ Steady(c)

LEMMA InitSteady ==
  ASSUME NEW c \in Conns, Single(c), Init
  PROVE  SteadyInv(c)
<1>1. Basis /\ TypeOK
  BY InitBasis DEF Basis
<1>2. /\ ExpCmdSN = 0 /\ MaxCmdSN = QueueDepth - 1 /\ wk[c] = "idle" /\ wout[c] = None
      /\ sout[c] = None /\ queued[c].own = {} /\ queued[c].imm = 0 /\ result_queue[c] = <<>>
      /\ inbox[c] = <<>> /\ wire[c] = <<>> /\ cut = {} /\ StatSN[c] = 0 /\ ~refused
      /\ nextN = 0 /\ imms = 0 /\ winSN = QueueDepth - 1 /\ ack[c] = 0
  BY DEF Init
<1>3. QueueDepth \in Nat \ {0} /\ MaxImms \in Nat
  BY DepthAssumption, BoundAssumption
<1>4. /\ Base(c) = 0 /\ Busy(c) = {} /\ InHold(c) = 0 /\ InLu(c) = 0 /\ Writing(c) = 0
      /\ Cardinality({}) = 0
  BY <1>2, FS_EmptySet DEF Base, Busy, InHold, InLu, Writing
<1>5. Len(<<>>) = 0 /\ DOMAIN <<>> = {}
  OBVIOUS
<1>6. InBox(c) = 0
  BY <1>2, <1>4, <1>5 DEF InBox
<1>7. Calm(c) /\ AllSound(c)
  BY <1>2, <1>5 DEF Calm, AllSound
<1>8. InLine(c)
  BY <1>2, <1>4, <1>5 DEF InLine, Chain
<1>9. OpenIs(c)
  BY <1>2, <1>3, <1>4 DEF OpenIs
<1>10. StatIs(c)
  BY <1>2, <1>3, <1>4, <1>5 DEF StatIs
<1>11. ImmsIs(c)
  BY <1>2, <1>3, <1>4, <1>6 DEF ImmsIs
<1> QED BY <1>1, <1>7, <1>8, <1>9, <1>10, <1>11 DEF SteadyInv, Steady

LEMMA NextSteady ==
  ASSUME NEW c \in Conns, Single(c), SteadyInv(c), [Next]_vars
  PROVE  SteadyInv(c)'
<1>1. Basis /\ TypeOK /\ InHand /\ Steady(c) /\ Calm(c)
  BY DEF SteadyInv, Basis, Steady
<1>2. Basis'
  BY <1>1, NextBasis
<1> SUFFICES Steady(c)'
  BY <1>2 DEF SteadyInv
<1>3. CASE UNCHANGED vars
  BY <1>1, <1>3 DEF vars, sessVars, outVars, workVars, netVars, initVars, auxVars,
     Steady, Calm, InLine, Base, AllSound, OpenIs, Busy, StatIs, Writing, ImmsIs, InLu,
     InHold, InBox
<1>4. CASE Worker(c)
  <2>1. ~ReadText(c)
    BY <1>1, ReadTextNever
  <2>2. ~McsTest(c) /\ ~McsTimeOut(c) /\ ~Leave(c)
    BY <1>1 DEF Calm, McsTest, McsTimeOut, Leave
  <2>3. ~HangUp(c) /\ ~AbortTask(c)
    BY <1>1 DEF Calm, HangUp, AbortTask, Single
  <2>4. ~AnswerText(c)
    BY <1>1 DEF Steady, InLine, Fit, AnswerText
  <2>5. CASE AnswerNop(c) \/ AnswerTask(c)
    BY <1>1, <2>5, NumberUpdSteady DEF AnswerNop, AnswerTask
  <2>6. CASE \/ ReadCommand(c) \/ ReadTask(c) \/ Deliver(c) \/ AnswerNow(c) \/ EndPing(c)
             \/ WorkerWrite(c)
    BY <1>1, <2>6, ReadCommandSteady, ReadTaskSteady, DeliverSteady, AnswerNowSteady,
       EndPingSteady, WorkerWriteSteady
  <2>7. CASE \E own \in OwnSets : AnswerDone(c, own)
    BY <1>1, <2>7, AnswerDoneSteady
  <2> QED BY <1>4, <2>1, <2>2, <2>3, <2>4, <2>5, <2>6, <2>7 DEF Worker
<1>5. ~Sender(c) /\ \A own \in OwnSets : ~TaskDone(c, own)
  BY <1>1 DEF Calm, Sender, SenderTake, SenderWrite, TaskDone, Single
<1>6. CASE Initiator(c)
  <2>1. ~Cut(c)
    BY <1>1, FS_EmptySet DEF Calm, Cut, Single
  <2>2. CASE Receive(c)
    BY <1>1, <2>2, ReceiveSteady
  <2>3. ASSUME NEW k \in Kinds, NEW imm \in BOOLEAN, Send(c, k, imm)
        PROVE  Steady(c)'
    BY <1>1, <2>3, KindsAssumption, SendSteady
  <2> QED BY <1>6, <2>1, <2>2, <2>3 DEF Initiator
<1>7. Next => \/ Worker(c) \/ Sender(c) \/ Initiator(c)
              \/ \E own \in OwnSets : TaskDone(c, own)
  BY DEF Next, Single
<1> QED BY <1>3, <1>4, <1>5, <1>6, <1>7

(* One connection without sender threads, aborts and Text: commands are    *)
(* numbered without a gap from ExpCmdSN on, every number that was let in   *)
(* is open or has opened the window, and responses are numbered in the     *)
(* order they leave.                                                       *)
THEOREM SteadyInvariance ==
  ASSUME NEW c, Single(c)
  PROVE  Spec => []SteadyInv(c)
<1>1. c \in Conns
  BY DEF Single
<1>2. Init => SteadyInv(c)
  BY <1>1, InitSteady
<1>3. SteadyInv(c) /\ [Next]_vars => SteadyInv(c)'
  BY <1>1, NextSteady
<1> QED BY <1>2, <1>3, PTL DEF Spec

(* No command of an initiator that keeps to the rules is refused: none of  *)
(* the comparisons of serial numbers (CmdSN with ExpCmdSN and MaxCmdSN,    *)
(* ExpStatSN with StatSN) fails, wherever the registers wrap.              *)
THEOREM NoneRefused ==
  ASSUME NEW c, Single(c)
  PROVE  Spec => []NothingRefused
<1>1. SteadyInv(c) => NothingRefused
  BY DEF SteadyInv, Steady, Calm, NothingRefused
<1> QED BY <1>1, SteadyInvariance, PTL

(* Responses leave in the order of their StatSN, each number once, also    *)
(* those that were numbered in different handlers.                         *)
THEOREM StatInTurn ==
  ASSUME NEW c, Single(c)
  PROVE  Spec => []StatInOrder
<1>1. SteadyInv(c) => StatInOrder
  BY DEF SteadyInv, Steady, StatIs, StatInOrder, Single
<1> QED BY <1>1, SteadyInvariance, PTL

(* The window that a command took is given back with its answer: what is   *)
(* open and what the target still promises are QueueDepth together.        *)
THEOREM WindowGivenBack ==
  ASSUME NEW c, Single(c)
  PROVE  Spec => []WindowKept
<1>1. ASSUME SteadyInv(c)
      PROVE  WindowKept
  <2>1. /\ Conns = {c} /\ c \in Conns /\ TypeOK /\ InHand /\ Calm(c) /\ OpenIs(c)
    BY <1>1 DEF Single, SteadyInv, Basis, Steady
  <2> DEFINE old == queued[c].own
             busy == Busy(c)
  <2>2. /\ MaxCmdSN \in Nat /\ ExpCmdSN \in Nat /\ QueueDepth \in Nat
        /\ IsFiniteSet(old) /\ Cardinality(old) \in Nat
    BY <2>1, SingleTypes
  <2>3. IsFiniteSet(busy) /\ Cardinality(busy) \in Nat
    <3>1. wk[c] = "now" => IsFiniteSet(Own(pdu[c]))
      BY <2>1, OneOwn DEF InHand
    <3>2. IsFiniteSet(busy)
      BY <3>1, FS_EmptySet DEF Busy
    <3> QED BY <3>2, FS_CardinalityType
  <2>4. /\ MaxCmdSN + Cardinality(old) + Cardinality(busy) = ExpCmdSN + (QueueDepth - 1)
        /\ old \cap busy = {}
    BY <2>1 DEF OpenIs
  <2>5. UNION {Unanswered(d) : d \in Conns} = old \cup busy
    <3>1. {j \in DOMAIN result_queue[c] : result_queue[c][j].type = "RESPONSE"} = {}
      BY <2>1 DEF Calm
    <3>2. Unanswered(c) = old \cup busy
      BY <3>1 DEF Unanswered, Busy
    <3>3. {Unanswered(d) : d \in Conns} = {Unanswered(c)}
      BY <2>1
    <3> QED BY <3>2, <3>3
  <2> HIDE DEF old, busy
  <2>6. Cardinality(old \cup busy) = Cardinality(old) + Cardinality(busy)
    <3>1. /\ IsFiniteSet(old \cup busy)
          /\ Cardinality(old \cup busy)
               = Cardinality(old) + Cardinality(busy) - Cardinality(old \cap busy)
      BY <2>2, <2>3, FS_Union
    <3>2. Cardinality(old \cap busy) = 0
      BY <2>4, FS_EmptySet
    <3> QED BY <2>2, <2>3, <3>1, <3>2
  <2>7. Open = Cardinality(old) + Cardinality(busy)
    BY <2>5, <2>6 DEF Open
  <2> QED BY <2>2, <2>3, <2>4, <2>7 DEF WindowKept, Window
<1>2. SteadyInv(c) => WindowKept
  BY <1>1
<1> QED BY <1>2, SteadyInvariance, PTL
=============================================================================

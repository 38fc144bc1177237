------------------------- MODULE DataTransferProofs -------------------------
(***************************************************************************)
(* The proofs about DataTransfer, for every sequence of commands and every *)
(* value of the lengths and limits: the inductive invariant IInv, one      *)
(* lemma per action, and from it the properties that the runs check, but   *)
(* for the one about fairness.  IInv holds until a slot left behind by a   *)
(* refused write is met by the next command with its tag (reused).         *)
(***************************************************************************)
EXTENDS DataTransfer, FiniteSetTheorems, SequenceTheorems, WellFoundedInduction, TLAPS

(* The end of what the target has asked for.                               *)
End(c) == imm[c] + granted[c]

(* The Data-Out PDUs of command c among the PDUs q.                        *)
DataOf(q, c) == {i \in DOMAIN q : q[i].op = "data" /\ q[i].c = c}

(* What is on its way of c, in the PDUs q and the R2T r that the initiator *)
(* answers, goes on from DataSN sn and offset pos, where the target is, to *)
(* end without a gap, and only the last PDU has the F bit.                 *)
Chain(q, r, c, sn, pos, end) ==
  /\ \A i \in DataOf(q, c) :
       /\ q[i].sn >= sn /\ q[i].off >= pos /\ q[i].off + q[i].len <= end
       /\ q[i].len > 0 /\ (q[i].F <=> q[i].off + q[i].len = end)
       /\ \/ q[i].sn = sn /\ q[i].off = pos
          \/ \E j \in DataOf(q, c) :
               j < i /\ q[i].sn = q[j].sn + 1 /\ q[i].off = q[j].off + q[j].len
       /\ \A j \in DataOf(q, c) :
            i < j => q[i].sn < q[j].sn /\ q[i].off + q[i].len <= q[j].off
  /\ r # None =>
       /\ r.sn >= sn /\ r.off + r.sent >= pos /\ r.sent < r.len /\ r.off + r.len = end
       /\ \/ r.sn = sn /\ r.off + r.sent = pos
          \/ \E j \in DataOf(q, c) :
               r.sn = q[j].sn + 1 /\ r.off + r.sent = q[j].off + q[j].len
       /\ \A j \in DataOf(q, c) :
            q[j].sn < r.sn /\ q[j].off + q[j].len <= r.off + r.sent

(* The commands among the PDUs q are first .. last - 1, in order, with the *)
(* immediate data m.                                                       *)
CmdsOf(q) == {i \in DOMAIN q : q[i].op = "cmd"}
Stream(q, m, first, last) ==
  /\ \A i \in CmdsOf(q) : q[i].c \in first .. last - 1 /\ q[i].len = m[q[i].c]
  /\ \A i, j \in CmdsOf(q) : i < j => q[i].c < q[j].c
  /\ \A c \in first .. last - 1 : \E i \in CmdsOf(q) : q[i].c = c

(* Commands come in order, first those set aside.                          *)
InOrder ==
  /\ ExpCmdSN + Len(pending_pdus) <= nextC /\ nextC <= Len(Length) + 1 /\ ExpCmdSN >= 1
  /\ \A i \in DOMAIN pending_pdus :
       pending_pdus[i].c = ExpCmdSN + i - 1 /\ pending_pdus[i].len = imm[ExpCmdSN + i - 1]
  /\ Stream(net, imm, ExpCmdSN + Len(pending_pdus), nextC)
  /\ pc = "poll" => pending_pdus = <<>>
  /\ pc = "drain" => pending_pdus # <<>>

Immediate ==
  \A c \in Cmds : imm[c] <= FirstBurst /\ imm[c] <= Length[c] /\ (~Write[c] => imm[c] = 0)

(* A command is in one place: not executed yet, in the queue of the logical*)
(* unit, in execution, about to be answered, or answered.                  *)
Fresh(c) == r2ts[c] = 0 /\ granted[c] = 0
Unseen == \A c \in Cmds : c >= ExpCmdSN => status[c] = None /\ Fresh(c)
Queued ==
  \A i \in DOMAIN lu_queue :
    /\ lu_queue[i] < ExpCmdSN /\ status[lu_queue[i]] = None
    /\ lu # None => lu[2] # lu_queue[i]
    /\ \A j \in DOMAIN task_queue : task_queue[j][2] # lu_queue[i]
    /\ \A j \in DOMAIN lu_queue : lu_queue[i] = lu_queue[j] => i = j
Running ==
  lu # None => /\ lu[2] < ExpCmdSN /\ status[lu[2]] = None
               /\ lu[1] = "wait" => Write[lu[2]]
Asked ==
  \A i \in DOMAIN task_queue :
    /\ task_queue[i][2] < ExpCmdSN /\ status[task_queue[i][2]] = None
    /\ \A j \in DOMAIN task_queue : task_queue[i][2] = task_queue[j][2] => i = j
    /\ task_queue[i][1] = "out" => lu = <<"wait", task_queue[i][2]>> /\ x = None
    /\ task_queue[i][1] = "rsp" => lu = None \/ lu[2] # task_queue[i][2]
Places == Unseen /\ Queued /\ Running /\ Asked

(* Its tag stands for it: it is not answered, or its slot is left behind.  *)
Live(c) == status[c] = None \/ Leftover(c)
Tags == \A c, d \in 1 .. nextC - 1 : c < d /\ Tag[c] = Tag[d] => ~Live(c)

Holder(c) == (\E i \in DOMAIN r2t_tasks : r2t_tasks[i].c = c) \/ (x # None /\ x.c = c)
Waits(c)  == (\E i \in DOMAIN lu_queue : lu_queue[i] = c) \/ lu = <<"wait", c>>

(* A slot: what it holds, and what is on its way for it.                   *)
SlotFits(r) ==
  LET c == r.c  n == Len(r.iobuf) IN
  /\ c < ExpCmdSN /\ Write[c]
  /\ imm[c] = FirstBurst /\ granted[c] = Least(MaxBurst, Length[c] - FirstBurst)
  /\ FirstBurst < Length[c]
  /\ r.R2TSN = r2ts[c]
  /\ r.iobuf = Blocks(c, 0, n) /\ imm[c] <= n /\ n <= End(c) /\ (n = End(c) => r.F)
  /\ Chain(net, r2t[c], c, r.DataSN, n, End(c))
  /\ Waits(c) \/ status[c] = "refused"
SlotsFit ==
  /\ Len(r2t_tasks) <= MaxR2T
  /\ \A i \in DOMAIN r2t_tasks : SlotFits(r2t_tasks[i])
  /\ \A i, j \in DOMAIN r2t_tasks : r2t_tasks[i].c = r2t_tasks[j].c => i = j
  /\ x # None => \A i \in DOMAIN r2t_tasks : r2t_tasks[i].c # x.c

(* A transfer in progress, likewise.                                       *)
XferFit(t) ==
  LET c == t.c  n == Len(t.data) IN
  /\ lu = <<"wait", c>> /\ t.R2TSN = r2ts[c]
  /\ t.data = Blocks(c, 0, n) /\ imm[c] <= n /\ n <= End(c) /\ n < Length[c]
  /\ End(c) <= Length[c]
  /\ t.r2t_flag <=> n < End(c)
  /\ t.r2t_flag => t.len >= End(c) - n /\ (End(c) = Length[c] => t.len = End(c) - n)
  /\ Chain(net, r2t[c], c, t.DataSN, n, End(c))
XferFits == (pc = "xfer" <=> x # None) /\ (x # None => XferFit(x))

(* Nothing is on its way for a command that has neither.                   *)
Idle ==
  \A c \in Cmds : ~Holder(c) =>
    /\ DataOf(net, c) = {} /\ r2t[c] = None
    /\ Waits(c) => Fresh(c)

(* A read has got what its status says.                                    *)
Reads ==
  \A c \in Cmds :
    /\ ~Answered(c) => got[c] = <<>>
    /\ Answered(c) /\ ~Write[c] =>
         got[c] = IF status[c] = "conflict" THEN <<>> ELSE TransferIn(c, status[c])

Window == Cardinality({c \in 1 .. nextC - 1 : status[c] = None}) <= QueueDepth

IInv == /\ TypeOK /\ NotDropped /\ OwnData
        /\ InOrder /\ Immediate /\ Places /\ Tags /\ SlotsFit /\ XferFits /\ Idle /\ Reads
        /\ Window

-----------------------------------------------------------------------------
(* Data in flight.                                                         *)

Pdu == CmdPdu \cup DataPdu

LEMMA PduTypes ==
  ASSUME NEW q \in Seq(Pdu)
  PROVE  /\ DOMAIN q = 1 .. Len(q) /\ Len(q) \in Nat
         /\ \A i \in DOMAIN q : q[i] \in Pdu
         /\ \A i \in CmdsOf(q) : i \in DOMAIN q /\ q[i] \in CmdPdu
         /\ \A c : \A i \in DataOf(q, c) :
              /\ i \in 1 .. Len(q) /\ i \in Nat
              /\ q[i] \in DataPdu /\ q[i].op = "data" /\ q[i].c = c
              /\ q[i].sn \in Nat /\ q[i].off \in Nat /\ q[i].len \in Nat
BY DEF Pdu, CmdPdu, DataPdu, DataOf, CmdsOf

LEMMA AppendPdu ==
  ASSUME NEW q \in Seq(Pdu), NEW p \in Pdu
  PROVE  /\ Append(q, p) \in Seq(Pdu)
         /\ \A i \in 1 .. Len(q) : Append(q, p)[i] = q[i]
         /\ Append(q, p)[Len(q) + 1] = p
         /\ \A c : p.op = "data" /\ p.c = c =>
                 DataOf(Append(q, p), c) = DataOf(q, c) \cup {Len(q) + 1}
         /\ \A c : ~(p.op = "data" /\ p.c = c) => DataOf(Append(q, p), c) = DataOf(q, c)
         /\ p.op = "cmd" => CmdsOf(Append(q, p)) = CmdsOf(q) \cup {Len(q) + 1}
         /\ p.op # "cmd" => CmdsOf(Append(q, p)) = CmdsOf(q)
<1> DEFINE s == Append(q, p)
<1>1. /\ s \in Seq(Pdu) /\ DOMAIN s = 1 .. Len(q) + 1 /\ DOMAIN q = 1 .. Len(q)
      /\ Len(q) \in Nat /\ s[Len(q) + 1] = p
      /\ \A i \in 1 .. Len(q) : s[i] = q[i]
  OBVIOUS
<1>2. DOMAIN s = DOMAIN q \cup {Len(q) + 1} /\ Len(q) + 1 \notin DOMAIN q
  BY <1>1
<1> HIDE DEF s
<1>3. \A c : p.op = "data" /\ p.c = c => DataOf(s, c) = DataOf(q, c) \cup {Len(q) + 1}
  BY <1>1, <1>2 DEF DataOf
<1>4. \A c : ~(p.op = "data" /\ p.c = c) => DataOf(s, c) = DataOf(q, c)
  BY <1>1, <1>2 DEF DataOf
<1>5. p.op = "cmd" => CmdsOf(s) = CmdsOf(q) \cup {Len(q) + 1}
  BY <1>1, <1>2 DEF CmdsOf
<1>6. p.op # "cmd" => CmdsOf(s) = CmdsOf(q)
  BY <1>1, <1>2 DEF CmdsOf
<1> QED BY <1>1, <1>3, <1>4, <1>5, <1>6 DEF s

LEMMA TailPdu ==
  ASSUME NEW q \in Seq(Pdu), q # <<>>
  PROVE  /\ Tail(q) \in Seq(Pdu) /\ Head(q) \in Pdu /\ Head(q) = q[1] /\ 1 \in DOMAIN q
         /\ \A c : \A i \in Nat :
              i \in DataOf(Tail(q), c) <=> i # 0 /\ i + 1 \in DataOf(q, c)
         /\ \A i \in Nat : i \in CmdsOf(Tail(q)) <=> i # 0 /\ i + 1 \in CmdsOf(q)
         /\ \A i \in DOMAIN Tail(q) : Tail(q)[i] = q[i + 1] /\ i \in Nat /\ i # 0
<1> DEFINE s == Tail(q)
<1>1. /\ s \in Seq(Pdu) /\ DOMAIN s = 1 .. Len(q) - 1 /\ DOMAIN q = 1 .. Len(q)
      /\ Len(q) \in Nat \ {0} /\ Head(q) = q[1] /\ q[1] \in Pdu
      /\ \A i \in 1 .. Len(q) - 1 : s[i] = q[i + 1]
  OBVIOUS
<1>2. /\ 1 \in DOMAIN q
      /\ \A i \in Nat : i \in DOMAIN s <=> i # 0 /\ i + 1 \in DOMAIN q
      /\ \A i \in DOMAIN s : s[i] = q[i + 1] /\ i \in Nat /\ i # 0
  BY <1>1
<1> HIDE DEF s
<1>3. \A c : \A i \in Nat : i \in DataOf(s, c) <=> i # 0 /\ i + 1 \in DataOf(q, c)
  BY <1>2 DEF DataOf
<1>4. \A i \in Nat : i \in CmdsOf(s) <=> i # 0 /\ i + 1 \in CmdsOf(q)
  BY <1>2 DEF CmdsOf
<1> QED BY <1>1, <1>2, <1>3, <1>4 DEF s

(* A PDU that is none of its data changes nothing for a command.           *)
LEMMA ChainAppendOther ==
  ASSUME NEW q \in Seq(Pdu), NEW p \in Pdu, NEW r, NEW c, NEW sn, NEW pos, NEW end,
         ~(p.op = "data" /\ p.c = c), Chain(q, r, c, sn, pos, end)
  PROVE  Chain(Append(q, p), r, c, sn, pos, end)
<1> DEFINE s == Append(q, p)
<1>1. DataOf(s, c) = DataOf(q, c) /\ \A i \in DataOf(q, c) : s[i] = q[i]
  BY AppendPdu, PduTypes
<1> HIDE DEF s
<1>2. Chain(s, r, c, sn, pos, end)
  BY <1>1 DEF Chain
<1> QED BY <1>2 DEF s

LEMMA ChainTailOther ==
  ASSUME NEW q \in Seq(Pdu), q # <<>>, NEW r, NEW c, NEW sn \in Nat, NEW pos \in Nat,
         NEW end \in Nat, r # None => r \in R2T,
         ~(Head(q).op = "data" /\ Head(q).c = c), Chain(q, r, c, sn, pos, end)
  PROVE  Chain(Tail(q), r, c, sn, pos, end)
<1> DEFINE s == Tail(q)
           D == DataOf(s, c)
<1>1. /\ \A i \in D : i \in Nat /\ i # 0 /\ i + 1 \in DataOf(q, c) /\ s[i] = q[i + 1]
      /\ \A i \in DataOf(q, c) : i - 1 \in D /\ s[i - 1] = q[i] /\ i \in Nat
  <2>1. s \in Seq(Pdu) /\ 1 \notin DataOf(q, c)
    BY TailPdu DEF DataOf
  <2>2. \A i \in DataOf(q, c) : i \in Nat /\ i # 0 /\ i # 1
    BY PduTypes, <2>1
  <2>3. \A i \in D : i \in Nat /\ i \in DOMAIN s
    BY <2>1, PduTypes DEF DataOf
  <2>4. \A i \in D : i # 0 /\ i + 1 \in DataOf(q, c) /\ s[i] = q[i + 1]
    BY <2>3, TailPdu
  <2>5. \A i \in DataOf(q, c) : i - 1 \in D
    <3> SUFFICES ASSUME NEW i \in DataOf(q, c) PROVE i - 1 \in D
      OBVIOUS
    <3>1. i - 1 \in Nat /\ i - 1 # 0 /\ (i - 1) + 1 = i
      BY <2>2
    <3> QED BY <3>1, TailPdu
  <2>6. \A i \in DataOf(q, c) : (i - 1) + 1 = i
    BY <2>2
  <2> HIDE DEF s, D
  <2> QED BY <2>2, <2>3, <2>4, <2>5, <2>6
<1> HIDE DEF s, D
<1>2. \A i \in D :
        /\ s[i].sn >= sn /\ s[i].off >= pos /\ s[i].off + s[i].len <= end
        /\ s[i].len > 0 /\ (s[i].F <=> s[i].off + s[i].len = end)
  BY <1>1 DEF Chain
<1>3. \A i \in D :
        \/ s[i].sn = sn /\ s[i].off = pos
        \/ \E j \in D : j < i /\ s[i].sn = s[j].sn + 1 /\ s[i].off = s[j].off + s[j].len
  <2> SUFFICES ASSUME NEW i \in D, ~(s[i].sn = sn /\ s[i].off = pos)
               PROVE  \E j \in D :
                        j < i /\ s[i].sn = s[j].sn + 1 /\ s[i].off = s[j].off + s[j].len
    OBVIOUS
  <2>0. i + 1 \in DataOf(q, c) /\ s[i] = q[i + 1]
    BY <1>1
  <2>3. \/ q[i + 1].sn = sn /\ q[i + 1].off = pos
        \/ \E k \in DataOf(q, c) :
             k < i + 1 /\ q[i + 1].sn = q[k].sn + 1 /\ q[i + 1].off = q[k].off + q[k].len
    BY <2>0 DEF Chain
  <2>1. PICK k \in DataOf(q, c) :
          k < i + 1 /\ q[i + 1].sn = q[k].sn + 1 /\ q[i + 1].off = q[k].off + q[k].len
    BY <2>0, <2>3
  <2>2. k - 1 \in D /\ s[k - 1] = q[k] /\ k - 1 < i /\ s[i] = q[i + 1]
    BY <1>1, <2>1
  <2> QED BY <2>1, <2>2
<1>4. \A i, j \in D : i < j => s[i].sn < s[j].sn /\ s[i].off + s[i].len <= s[j].off
  <2> SUFFICES ASSUME NEW i \in D, NEW j \in D, i < j
               PROVE  s[i].sn < s[j].sn /\ s[i].off + s[i].len <= s[j].off
    OBVIOUS
  <2>1. \A k, l \in DataOf(q, c) :
          k < l => q[k].sn < q[l].sn /\ q[k].off + q[k].len <= q[l].off
    BY DEF Chain
  <2>2. i + 1 \in DataOf(q, c) /\ j + 1 \in DataOf(q, c) /\ i + 1 < j + 1
    BY <1>1
  <2> QED BY <1>1, <2>1, <2>2
<1>5. r # None =>
        /\ r.sn >= sn /\ r.off + r.sent >= pos /\ r.sent < r.len /\ r.off + r.len = end
        /\ \A j \in D : s[j].sn < r.sn /\ s[j].off + s[j].len <= r.off + r.sent
  BY <1>1 DEF Chain
<1>6. r # None =>
        \/ r.sn = sn /\ r.off + r.sent = pos
        \/ \E j \in D : r.sn = s[j].sn + 1 /\ r.off + r.sent = s[j].off + s[j].len
  BY <1>1 DEF Chain
<1> QED BY <1>2, <1>3, <1>4, <1>5, <1>6 DEF Chain, D, s

(* The first of its data is what the target waits for.                     *)
LEMMA ChainTailOwn ==
  ASSUME NEW q \in Seq(Pdu), q # <<>>, NEW r, NEW c, NEW sn \in Nat, NEW pos \in Nat,
         NEW end \in Nat, r # None => r \in R2T,
         Head(q).op = "data", Head(q).c = c, Chain(q, r, c, sn, pos, end)
  PROVE  LET p == Head(q) IN
         /\ p \in DataPdu /\ p.sn = sn /\ p.off = pos /\ p.len \in Nat \ {0}
         /\ pos + p.len <= end /\ (p.F <=> pos + p.len = end)
         /\ Chain(Tail(q), r, c, sn + 1, pos + p.len, end)
<1> DEFINE p == Head(q)
           s == Tail(q)
           D == DataOf(s, c)
           C == DataOf(q, c)
<1>1. /\ 1 \in C /\ q[1] = p /\ p \in DataPdu
      /\ p.sn \in Nat /\ p.off \in Nat /\ p.len \in Nat
      /\ \A i \in C : /\ i \in Nat /\ i >= 1
                      /\ q[i].sn \in Nat /\ q[i].off \in Nat /\ q[i].len \in Nat
  <2>1. 1 \in C /\ q[1] = p
    BY TailPdu DEF DataOf
  <2>2. \A i \in C : /\ i \in 1 .. Len(q) /\ i \in Nat
                     /\ q[i] \in DataPdu
                     /\ q[i].sn \in Nat /\ q[i].off \in Nat /\ q[i].len \in Nat
    BY PduTypes
  <2> HIDE DEF C
  <2> QED BY <2>1, <2>2
<1>2. /\ p.sn = sn /\ p.off = pos /\ p.len \in Nat \ {0}
      /\ pos + p.len <= end /\ (p.F <=> pos + p.len = end)
  <2>1. /\ p.off + p.len <= end /\ p.len > 0 /\ (p.F <=> p.off + p.len = end)
        /\ (p.sn = sn /\ p.off = pos) \/ (\E j \in C : j < 1)
    BY <1>1 DEF Chain
  <2>2. ~\E j \in C : j < 1
    BY <1>1
  <2> HIDE DEF p, C
  <2> QED BY <1>1, <2>1, <2>2
<1>3. /\ \A i \in D : i \in Nat /\ i # 0 /\ i + 1 \in C /\ s[i] = q[i + 1]
      /\ \A i \in C \ {1} : i - 1 \in D /\ s[i - 1] = q[i]
  <2>1. s \in Seq(Pdu)
    BY TailPdu
  <2>2. \A i \in D : i \in Nat /\ i \in DOMAIN s
    BY <2>1, PduTypes DEF DataOf
  <2>3. \A i \in D : i # 0 /\ i + 1 \in C /\ s[i] = q[i + 1]
    BY <2>2, TailPdu
  <2>4. \A i \in C \ {1} : i - 1 \in D
    <3> SUFFICES ASSUME NEW i \in C \ {1} PROVE i - 1 \in D
      OBVIOUS
    <3>1. i - 1 \in Nat /\ i - 1 # 0 /\ (i - 1) + 1 = i
      BY <1>1
    <3> QED BY <3>1, TailPdu
  <2>5. \A i \in C : (i - 1) + 1 = i
    BY <1>1
  <2> HIDE DEF s, D, C
  <2> QED BY <2>2, <2>3, <2>4, <2>5
<1>4. \A k, l \in C : k < l => q[k].sn < q[l].sn /\ q[k].off + q[k].len <= q[l].off
  BY DEF Chain
<1>5. \A i \in D : /\ i + 1 \in C /\ 1 < i + 1
                   /\ s[i].sn \in Nat /\ s[i].off \in Nat /\ s[i].len \in Nat
                   /\ sn < s[i].sn /\ pos + p.len <= s[i].off
  <2> SUFFICES ASSUME NEW i \in D
               PROVE  /\ i + 1 \in C /\ 1 < i + 1
                      /\ s[i].sn \in Nat /\ s[i].off \in Nat /\ s[i].len \in Nat
                      /\ sn < s[i].sn /\ pos + p.len <= s[i].off
    OBVIOUS
  <2> HIDE DEF s, D, C, p
  <2>1. i + 1 \in C /\ 1 < i + 1 /\ s[i] = q[i + 1]
    BY <1>3
  <2>2. q[1].sn < q[i + 1].sn /\ q[1].off + q[1].len <= q[i + 1].off
    BY <1>1, <1>4, <2>1
  <2> QED BY <1>1, <1>2, <2>1, <2>2
<1>6. \A i \in D : /\ s[i].off + s[i].len <= end /\ s[i].len > 0
                   /\ (s[i].F <=> s[i].off + s[i].len = end)
  <2>1. \A i \in C : /\ q[i].off + q[i].len <= end /\ q[i].len > 0
                     /\ (q[i].F <=> q[i].off + q[i].len = end)
    BY DEF Chain
  <2> SUFFICES ASSUME NEW i \in D
               PROVE  /\ s[i].off + s[i].len <= end /\ s[i].len > 0
                      /\ (s[i].F <=> s[i].off + s[i].len = end)
    OBVIOUS
  <2>2. i + 1 \in C /\ s[i] = q[i + 1]
    BY <1>3
  <2> HIDE DEF s, D, C
  <2>3. /\ q[i + 1].off + q[i + 1].len <= end /\ q[i + 1].len > 0
        /\ (q[i + 1].F <=> q[i + 1].off + q[i + 1].len = end)
    BY <2>1, <2>2
  <2> QED BY <2>2, <2>3
<1>7. \A i \in D :
        \/ s[i].sn = sn + 1 /\ s[i].off = pos + p.len
        \/ \E j \in D : j < i /\ s[i].sn = s[j].sn + 1 /\ s[i].off = s[j].off + s[j].len
  <2> SUFFICES ASSUME NEW i \in D
               PROVE  \/ s[i].sn = sn + 1 /\ s[i].off = pos + p.len
                      \/ \E j \in D : /\ j < i /\ s[i].sn = s[j].sn + 1
                                      /\ s[i].off = s[j].off + s[j].len
    OBVIOUS
  <2>1. i + 1 \in C /\ s[i] = q[i + 1]
    BY <1>3
  <2>2. \/ q[i + 1].sn = sn
        \/ \E k \in C : /\ k < i + 1 /\ q[i + 1].sn = q[k].sn + 1
                        /\ q[i + 1].off = q[k].off + q[k].len
    BY <2>1 DEF Chain
  <2>3. q[i + 1].sn # sn
    BY <1>1, <1>2, <1>4, <1>5
  <2>4. PICK k \in C : /\ k < i + 1 /\ q[i + 1].sn = q[k].sn + 1
                       /\ q[i + 1].off = q[k].off + q[k].len
    BY <2>2, <2>3
  <2>5. CASE k = 1
    BY <1>1, <1>2, <2>1, <2>4, <2>5
  <2>6. CASE k # 1
    <3> HIDE DEF s, D, C
    <3>1. k - 1 \in D /\ s[k - 1] = q[k] /\ k - 1 < i
      BY <1>1, <1>3, <2>4, <2>6
    <3> QED BY <2>1, <2>4, <3>1
  <2> QED BY <2>5, <2>6
<1>8. \A i, j \in D : i < j => s[i].sn < s[j].sn /\ s[i].off + s[i].len <= s[j].off
  <2> SUFFICES ASSUME NEW i \in D, NEW j \in D, i < j
               PROVE  s[i].sn < s[j].sn /\ s[i].off + s[i].len <= s[j].off
    OBVIOUS
  <2>1. i + 1 \in C /\ j + 1 \in C /\ i + 1 < j + 1
    BY <1>3
  <2> QED BY <1>3, <1>4, <2>1
<1>9. r # None =>
        /\ r.sn \in Nat /\ r.off + r.sent \in Nat
        /\ r.sn >= sn + 1 /\ r.off + r.sent >= pos + p.len
        /\ r.sent < r.len /\ r.off + r.len = end
        /\ \A j \in D : s[j].sn < r.sn /\ s[j].off + s[j].len <= r.off + r.sent
  <2> SUFFICES ASSUME r # None
               PROVE  /\ r.sn \in Nat /\ r.off + r.sent \in Nat
                      /\ r.sn >= sn + 1 /\ r.off + r.sent >= pos + p.len
                      /\ r.sent < r.len /\ r.off + r.len = end
                      /\ \A j \in D : s[j].sn < r.sn /\ s[j].off + s[j].len <= r.off + r.sent
    OBVIOUS
  <2>1. r.sn \in Nat /\ r.off \in Nat /\ r.sent \in Nat /\ r.off + r.sent \in Nat
    BY DEF R2T
  <2>2. /\ r.sent < r.len /\ r.off + r.len = end
        /\ \A j \in C : q[j].sn < r.sn /\ q[j].off + q[j].len <= r.off + r.sent
    BY DEF Chain
  <2>3. sn < r.sn /\ pos + p.len <= r.off + r.sent
    BY <1>1, <1>2, <2>2
  <2>4. r.sn >= sn + 1 /\ r.off + r.sent >= pos + p.len
    <3> DEFINE a == r.off + r.sent
               b == pos + p.len
               k == r.sn
    <3>1. a \in Nat /\ k \in Nat
      BY <2>1
    <3>2. b \in Nat
      BY <1>1
    <3>3. sn < k /\ b <= a
      BY <2>3
    <3> HIDE DEF a, b, k
    <3>4. k >= sn + 1 /\ a >= b
      BY <3>1, <3>2, <3>3
    <3> QED BY <3>4 DEF a, b, k
  <2>5. \A j \in D : s[j].sn < r.sn /\ s[j].off + s[j].len <= r.off + r.sent
    <3> HIDE DEF s, D, C, p
    <3> QED BY <1>3, <2>2
  <2> QED BY <2>1, <2>2, <2>4, <2>5
<1>10. r # None =>
         \/ r.sn = sn + 1 /\ r.off + r.sent = pos + p.len
         \/ \E j \in D : r.sn = s[j].sn + 1 /\ r.off + r.sent = s[j].off + s[j].len
  <2> SUFFICES ASSUME r # None
               PROVE  \/ r.sn = sn + 1 /\ r.off + r.sent = pos + p.len
                      \/ \E j \in D : /\ r.sn = s[j].sn + 1
                                      /\ r.off + r.sent = s[j].off + s[j].len
    OBVIOUS
  <2>1. \/ r.sn = sn
        \/ \E k \in C : r.sn = q[k].sn + 1 /\ r.off + r.sent = q[k].off + q[k].len
    BY DEF Chain
  <2>2. r.sn # sn
    BY <1>9
  <2>3. PICK k \in C : r.sn = q[k].sn + 1 /\ r.off + r.sent = q[k].off + q[k].len
    BY <2>1, <2>2
  <2>4. CASE k = 1
    BY <1>1, <1>2, <2>3, <2>4
  <2>5. CASE k # 1
    <3>1. k - 1 \in D /\ s[k - 1] = q[k]
      BY <1>3, <2>5
    <3> QED BY <2>3, <3>1
  <2> QED BY <2>4, <2>5
<1>11. Chain(s, r, c, sn + 1, pos + p.len, end)
  <2>1. \A i \in D : s[i].sn >= sn + 1 /\ s[i].off >= pos + p.len
    <3> HIDE DEF s, D, p
    <3> QED BY <1>5
  <2> HIDE DEF p, s
  <2> QED BY <1>6, <1>7, <1>8, <1>9, <1>10, <2>1 DEF Chain, D
<1> QED BY <1>1, <1>2, <1>11

(* The initiator sends the next blocks of an R2T in PDU p, r1 is left.     *)
NextOf(r, p, r1) ==
  /\ p.sn = r.sn /\ p.off = r.off + r.sent /\ p.len > 0 /\ r.sent + p.len <= r.len
  /\ p.F = (r.sent + p.len = r.len)
  /\ r1 # None => /\ r.sent + p.len # r.len /\ r1.off = r.off /\ r1.len = r.len
                  /\ r1.sent = r.sent + p.len /\ r1.sn = r.sn + 1

LEMMA NextArithmetic ==
  ASSUME NEW o \in Nat, NEW s \in Nat, NEW l \in Nat, NEW m \in Nat, NEW e \in Nat,
         o + l = e, s + m <= l
  PROVE  /\ o + s \in Nat /\ o + s + m <= e /\ o + (s + m) = o + s + m
         /\ (o + s + m = e) <=> (s + m = l)
         /\ s + m # l => s + m < l
OBVIOUS

LEMMA NextFacts ==
  ASSUME NEW p \in DataPdu, NEW r \in R2T, NEW end \in Nat, NEW r1, NextOf(r, p, r1),
         r.off + r.len = end
  PROVE  \E k, at, m \in Nat :
           /\ p.sn = k /\ p.off = at /\ p.len = m /\ m > 0 /\ at + m <= end
           /\ r.sn = k /\ r.off + r.sent = at /\ p.F = (at + m = end)
           /\ r1 # None => /\ r1.sn = k + 1 /\ r1.off + r1.sent = at + m
                           /\ r1.sent < r1.len /\ r1.off + r1.len = end
<1>1. /\ p.sn \in Nat /\ p.off \in Nat /\ p.len \in Nat
      /\ r.sn \in Nat /\ r.off \in Nat /\ r.sent \in Nat /\ r.len \in Nat
  BY DEF DataPdu, R2T
<1>2. /\ p.sn = r.sn /\ p.off = r.off + r.sent /\ p.len > 0 /\ r.sent + p.len <= r.len
      /\ p.F = (r.sent + p.len = r.len)
  BY DEF NextOf
<1> DEFINE o == r.off  s == r.sent  l == r.len  m == p.len  k == r.sn  at == r.off + r.sent
<1>3. /\ o \in Nat /\ s \in Nat /\ l \in Nat /\ m \in Nat /\ k \in Nat /\ o + l = end
      /\ s + m <= l /\ m > 0 /\ at = o + s /\ r.off + r.sent = at
      /\ p.sn = k /\ p.off = at /\ p.len = m /\ r.sn = k /\ p.F = (s + m = l)
  BY <1>1, <1>2
<1>4. r1 # None => /\ s + m # l /\ r1.off = o /\ r1.len = l
                   /\ r1.sent = s + m /\ r1.sn = k + 1
  BY DEF NextOf
<1> HIDE DEF o, s, l, m, k, at
<1>5. /\ o + s \in Nat /\ o + s + m <= end /\ o + (s + m) = o + s + m
      /\ (o + s + m = end) <=> (s + m = l)
      /\ s + m # l => s + m < l
  BY <1>3, NextArithmetic
<1>6. /\ at \in Nat /\ at + m <= end /\ o + (s + m) = at + m
      /\ (at + m = end) <=> (s + m = l)
  BY <1>3, <1>5
<1>7. p.F = (at + m = end)
  BY <1>3, <1>6, Zenon
<1>8. r1 # None => /\ r1.sn = k + 1 /\ r1.off + r1.sent = at + m
                   /\ r1.sent < r1.len /\ r1.off + r1.len = end
  <2> SUFFICES ASSUME r1 # None
               PROVE  /\ r1.sn = k + 1 /\ r1.off + r1.sent = at + m
                      /\ r1.sent < r1.len /\ r1.off + r1.len = end
    OBVIOUS
  <2>1. s + m # l /\ r1.off = o /\ r1.len = l /\ r1.sent = s + m /\ r1.sn = k + 1
    BY <1>4
  <2>2. s + m < l /\ o + (s + m) = at + m /\ o + l = end
    BY <1>3, <1>5, <1>6, <2>1
  <2> QED BY <2>1, <2>2
<1> QED BY <1>3, <1>6, <1>7, <1>8

LEMMA ChainAppendOwn ==
  ASSUME NEW q \in Seq(Pdu), NEW p \in DataPdu, NEW r \in R2T, NEW c, NEW sn \in Nat,
         NEW pos \in Nat, NEW end \in Nat, NEW r1, r # None, Chain(q, r, c, sn, pos, end),
         p.c = c, NextOf(r, p, r1)
  PROVE  Chain(Append(q, p), r1, c, sn, pos, end)
<1> DEFINE s == Append(q, p)
           D == DataOf(s, c)
           C == DataOf(q, c)
           n == Len(q) + 1
<1>1. /\ D = C \cup {n} /\ n \in Nat /\ s[n] = p
      /\ \A i \in C : /\ s[i] = q[i] /\ i \in Nat /\ i < n
                      /\ q[i].sn \in Nat /\ q[i].off \in Nat /\ q[i].len \in Nat
  <2>1. p \in Pdu /\ p.op = "data" /\ p.c = c
    BY DEF Pdu, DataPdu
  <2>2. Len(q) \in Nat /\ \A i \in C : /\ i \in 1 .. Len(q)
                                       /\ q[i].sn \in Nat /\ q[i].off \in Nat /\ q[i].len \in Nat
    BY PduTypes
  <2>3. D = C \cup {n}
    BY <2>1, AppendPdu, Zenon
  <2>4. s[n] = p /\ \A i \in 1 .. Len(q) : s[i] = q[i]
    BY <2>1, AppendPdu
  <2> HIDE DEF s, D, C
  <2> QED BY <2>2, <2>3, <2>4
<1>2. r.off + r.len = end
  BY DEF Chain
<1>3. PICK k, at, m \in Nat :
        /\ p.sn = k /\ p.off = at /\ p.len = m /\ m > 0 /\ at + m <= end
        /\ r.sn = k /\ r.off + r.sent = at /\ p.F = (at + m = end)
        /\ r1 # None => /\ r1.sn = k + 1 /\ r1.off + r1.sent = at + m
                        /\ r1.sent < r1.len /\ r1.off + r1.len = end
  BY <1>2, NextFacts
<1>4. /\ p.sn = k /\ p.off = at /\ p.len = m /\ m > 0 /\ at + m <= end
      /\ r.sn = k /\ r.off + r.sent = at
  BY <1>3
<1>5. /\ \A i \in C :
           /\ q[i].sn >= sn /\ q[i].off >= pos /\ q[i].off + q[i].len <= end
           /\ q[i].len > 0 /\ (q[i].F <=> q[i].off + q[i].len = end)
      /\ \A i \in C :
           \/ q[i].sn = sn /\ q[i].off = pos
           \/ \E j \in C : j < i /\ q[i].sn = q[j].sn + 1 /\ q[i].off = q[j].off + q[j].len
      /\ \A i, j \in C : i < j => q[i].sn < q[j].sn /\ q[i].off + q[i].len <= q[j].off
  BY DEF Chain
<1>6. /\ k >= sn /\ at >= pos
      /\ \/ k = sn /\ at = pos
         \/ \E j \in C : k = q[j].sn + 1 /\ at = q[j].off + q[j].len
      /\ \A j \in C : q[j].sn < k /\ q[j].off + q[j].len <= at
  BY <1>4 DEF Chain
<1> HIDE DEF s, D, C, n
<1>7. \A i \in D :
        /\ s[i].sn >= sn /\ s[i].off >= pos /\ s[i].off + s[i].len <= end
        /\ s[i].len > 0 /\ (s[i].F <=> s[i].off + s[i].len = end)
  <2>1. /\ p.sn >= sn /\ p.off >= pos /\ p.off + p.len <= end /\ p.len > 0
        /\ (p.F <=> p.off + p.len = end)
    BY <1>3, <1>6
  <2> QED BY <1>1, <1>5, <2>1
<1>8. \A i \in D :
        \/ s[i].sn = sn /\ s[i].off = pos
        \/ \E j \in D : j < i /\ s[i].sn = s[j].sn + 1 /\ s[i].off = s[j].off + s[j].len
  <2>1. \A i \in C :
          \/ s[i].sn = sn /\ s[i].off = pos
          \/ \E j \in D : j < i /\ s[i].sn = s[j].sn + 1 /\ s[i].off = s[j].off + s[j].len
    <3> SUFFICES ASSUME NEW i \in C, ~(s[i].sn = sn /\ s[i].off = pos)
                 PROVE  \E j \in D :
                          j < i /\ s[i].sn = s[j].sn + 1 /\ s[i].off = s[j].off + s[j].len
      OBVIOUS
    <3>1. PICK j \in C : j < i /\ q[i].sn = q[j].sn + 1 /\ q[i].off = q[j].off + q[j].len
      BY <1>1, <1>5
    <3>2. j \in D /\ s[j] = q[j] /\ s[i] = q[i]
      BY <1>1
    <3> QED BY <3>1, <3>2
  <2>2. \/ s[n].sn = sn /\ s[n].off = pos
        \/ \E j \in D : j < n /\ s[n].sn = s[j].sn + 1 /\ s[n].off = s[j].off + s[j].len
    <3>1. CASE k = sn /\ at = pos
      BY <1>1, <1>4, <3>1
    <3>2. CASE \E j \in C : k = q[j].sn + 1 /\ at = q[j].off + q[j].len
      <4>1. PICK j \in C : k = q[j].sn + 1 /\ at = q[j].off + q[j].len
        BY <3>2
      <4>2. j \in D /\ s[j] = q[j] /\ j < n /\ s[n].sn = k /\ s[n].off = at
        BY <1>1, <1>4
      <4> QED BY <4>1, <4>2
    <3> QED BY <1>6, <3>1, <3>2
  <2> QED BY <1>1, <2>1, <2>2
<1>9. \A i, j \in D : i < j => s[i].sn < s[j].sn /\ s[i].off + s[i].len <= s[j].off
  <2> SUFFICES ASSUME NEW i \in D, NEW j \in D, i < j
               PROVE  s[i].sn < s[j].sn /\ s[i].off + s[i].len <= s[j].off
    OBVIOUS
  <2>1. i \in C
    BY <1>1
  <2>2. CASE j \in C
    BY <1>1, <1>5, <2>1, <2>2
  <2>3. CASE j = n
    <3>1. s[j].sn = k /\ s[j].off = at /\ s[i] = q[i]
      BY <1>1, <1>4, <2>1, <2>3
    <3> QED BY <1>6, <2>1, <3>1
  <2> QED BY <1>1, <2>2, <2>3
<1>10. ASSUME r1 # None
       PROVE  /\ r1.sn >= sn /\ r1.off + r1.sent >= pos /\ r1.sent < r1.len
              /\ r1.off + r1.len = end
              /\ \E j \in D : r1.sn = s[j].sn + 1 /\ r1.off + r1.sent = s[j].off + s[j].len
              /\ \A j \in D : s[j].sn < r1.sn /\ s[j].off + s[j].len <= r1.off + r1.sent
  <2>1. /\ r1.sn = k + 1 /\ r1.off + r1.sent = at + m
        /\ r1.sent < r1.len /\ r1.off + r1.len = end
    BY <1>3, <1>10
  <2>2. k + 1 >= sn /\ at + m >= pos
    BY <1>4, <1>6
  <2>3. n \in D /\ s[n].sn = k /\ s[n].off = at /\ s[n].len = m
    BY <1>1, <1>4
  <2>4. ASSUME NEW j \in C
        PROVE  s[j].sn < k + 1 /\ s[j].off + s[j].len <= at + m
    <3> DEFINE a == q[j].sn
               b == q[j].off
               l == q[j].len
    <3>1. /\ a < k /\ b + l <= at /\ s[j] = q[j] /\ a \in Nat /\ b \in Nat /\ l \in Nat
      BY <1>1, <1>6
    <3> HIDE DEF a, b, l
    <3>2. a < k + 1 /\ b + l <= at + m
      BY <3>1
    <3> QED BY <3>1, <3>2 DEF a, b, l
  <2>5. \A j \in D : s[j].sn < k + 1 /\ s[j].off + s[j].len <= at + m
    <3>1. s[n].sn < k + 1 /\ s[n].off + s[n].len <= at + m
      BY <2>3
    <3> QED BY <1>1, <2>4, <3>1
  <2>6. \E j \in D : k + 1 = s[j].sn + 1 /\ at + m = s[j].off + s[j].len
    BY <2>3
  <2> QED BY <2>1, <2>2, <2>5, <2>6
<1> QED BY <1>7, <1>8, <1>9, <1>10 DEF Chain, D, s

(* Nothing is on its way once the target is at the end.                    *)
LEMMA ChainDone ==
  ASSUME NEW q \in Seq(Pdu), NEW r, NEW c, NEW sn \in Nat, NEW end \in Nat,
         r # None => r \in R2T, Chain(q, r, c, sn, end, end)
  PROVE  DataOf(q, c) = {} /\ r = None
<1>1. \A i \in DataOf(q, c) : FALSE
  <2> SUFFICES ASSUME NEW i \in DataOf(q, c) PROVE FALSE
    OBVIOUS
  <2>1. q[i].off \in Nat /\ q[i].len \in Nat
    BY PduTypes
  <2>2. q[i].off >= end /\ q[i].off + q[i].len <= end /\ q[i].len > 0
    BY DEF Chain
  <2> QED BY <2>1, <2>2
<1>2. ASSUME r # None PROVE FALSE
  <2>1. r.off \in Nat /\ r.len \in Nat /\ r.sent \in Nat
    BY <1>2 DEF R2T
  <2>2. r.off + r.sent >= end /\ r.sent < r.len /\ r.off + r.len = end
    BY <1>2 DEF Chain
  <2> QED BY <2>1, <2>2
<1> QED BY <1>1, <1>2

LEMMA ChainNone ==
  ASSUME NEW q, NEW c, NEW sn, NEW pos, NEW end, DataOf(q, c) = {}
  PROVE  Chain(q, None, c, sn, pos, end)
BY DEF Chain

(* A new R2T.                                                              *)
LEMMA ChainGrant ==
  ASSUME NEW q, NEW c, NEW pos \in Nat, NEW len \in Nat \ {0}, DataOf(q, c) = {}
  PROVE  Chain(q, [off |-> pos, len |-> len, sent |-> 0, sn |-> 0], c, 0, pos, pos + len)
<1> DEFINE r == [off |-> pos, len |-> len, sent |-> 0, sn |-> 0]
<1>1. r.off = pos /\ r.len = len /\ r.sent = 0 /\ r.sn = 0
  OBVIOUS
<1> HIDE DEF r
<1>2. Chain(q, r, c, 0, pos, pos + len)
  BY <1>1 DEF Chain
<1> QED BY <1>2 DEF r

-----------------------------------------------------------------------------
(* Commands on their way.                                                  *)

LEMMA StreamAppend ==
  ASSUME NEW q \in Seq(Pdu), NEW p \in CmdPdu, NEW m, NEW m1, NEW first \in Nat,
         NEW last \in Nat, first <= last, Stream(q, m, first, last), p.c = last,
         p.len = m1[last], \A c \in first .. last - 1 : m1[c] = m[c]
  PROVE  Stream(Append(q, p), m1, first, last + 1)
<1> DEFINE s == Append(q, p)
           C == CmdsOf(q)
           n == Len(q) + 1
<1>1. /\ CmdsOf(s) = C \cup {n} /\ n \in Nat /\ s[n] = p
      /\ \A i \in C : s[i] = q[i] /\ i \in Nat /\ i < n
  <2>1. p \in Pdu /\ p.op = "cmd"
    BY DEF Pdu, CmdPdu
  <2>2. Len(q) \in Nat /\ \A i \in C : i \in 1 .. Len(q)
    BY PduTypes
  <2>3. CmdsOf(s) = C \cup {n} /\ s[n] = p /\ \A i \in 1 .. Len(q) : s[i] = q[i]
    BY <2>1, AppendPdu
  <2> HIDE DEF s, C
  <2> QED BY <2>2, <2>3
<1>2. /\ \A i \in C : q[i].c \in first .. last - 1 /\ q[i].len = m[q[i].c]
      /\ \A i, j \in C : i < j => q[i].c < q[j].c
      /\ \A c \in first .. last - 1 : \E i \in C : q[i].c = c
  BY DEF Stream
<1> HIDE DEF s, C, n
<1>3. \A i \in C \cup {n} : s[i].c \in first .. last /\ s[i].len = m1[s[i].c]
  <2>1. \A i \in C : s[i].c \in first .. last - 1 /\ s[i].len = m[s[i].c]
    BY <1>1, <1>2
  <2>2. \A i \in C : s[i].c \in first .. last /\ s[i].len = m1[s[i].c]
    BY <2>1
  <2>3. s[n].c \in first .. last /\ s[n].len = m1[s[n].c]
    BY <1>1
  <2> QED BY <2>2, <2>3
<1>4. \A i, j \in C \cup {n} : i < j => s[i].c < s[j].c
  <2> SUFFICES ASSUME NEW i \in C \cup {n}, NEW j \in C \cup {n}, i < j
               PROVE  s[i].c < s[j].c
    OBVIOUS
  <2>1. i \in C
    BY <1>1
  <2>2. CASE j \in C
    BY <1>1, <1>2, <2>1, <2>2
  <2>3. CASE j = n
    BY <1>1, <1>2, <2>1, <2>3
  <2> QED BY <2>2, <2>3
<1>5. \A c \in first .. last : \E i \in C \cup {n} : s[i].c = c
  <2> SUFFICES ASSUME NEW c \in first .. last PROVE \E i \in C \cup {n} : s[i].c = c
    OBVIOUS
  <2>1. CASE c = last
    BY <1>1, <2>1
  <2>2. CASE c # last
    <3>1. PICK i \in C : q[i].c = c
      BY <1>2, <2>2
    <3> QED BY <1>1, <3>1
  <2> QED BY <2>1, <2>2
<1>6. (last + 1) - 1 = last
  OBVIOUS
<1>7. Stream(s, m1, first, last + 1)
  BY <1>1, <1>3, <1>4, <1>5, <1>6 DEF Stream
<1> QED BY <1>7 DEF s

LEMMA StreamAppendData ==
  ASSUME NEW q \in Seq(Pdu), NEW p \in DataPdu, NEW m, NEW first, NEW last,
         Stream(q, m, first, last)
  PROVE  Stream(Append(q, p), m, first, last)
<1> DEFINE s == Append(q, p)
<1>1. p \in Pdu /\ p.op # "cmd"
  BY DEF Pdu, DataPdu
<1>2. CmdsOf(s) = CmdsOf(q) /\ \A i \in CmdsOf(q) : s[i] = q[i]
  BY <1>1, AppendPdu, PduTypes
<1> HIDE DEF s
<1>3. Stream(s, m, first, last)
  BY <1>2 DEF Stream
<1> QED BY <1>3 DEF s

LEMMA StreamTail ==
  ASSUME NEW q \in Seq(Pdu), q # <<>>, NEW m, NEW first \in Nat, NEW last \in Nat,
         Stream(q, m, first, last)
  PROVE  /\ Head(q).op # "cmd" => Stream(Tail(q), m, first, last)
         /\ Head(q).op = "cmd" => /\ Head(q).c = first /\ Head(q).len = m[first]
                                  /\ first < last /\ Stream(Tail(q), m, first + 1, last)
<1> DEFINE s == Tail(q)
           C == CmdsOf(q)
           D == CmdsOf(s)
<1>1. s \in Seq(Pdu) /\ Head(q) = q[1] /\ (1 \in C <=> Head(q).op = "cmd")
  BY TailPdu DEF CmdsOf
<1>2. \A i \in C : i \in Nat /\ i >= 1 /\ (i - 1) + 1 = i
  BY PduTypes
<1>3. \A i \in D : i \in Nat /\ i # 0 /\ i + 1 \in C /\ i + 1 # 1 /\ s[i] = q[i + 1]
  <2>1. \A i \in D : i \in Nat /\ i \in DOMAIN s
    BY <1>1, PduTypes DEF CmdsOf
  <2>2. \A i \in D : i # 0 /\ i + 1 \in C /\ s[i] = q[i + 1]
    BY <2>1, TailPdu
  <2> HIDE DEF s, C, D
  <2> QED BY <2>1, <2>2
<1>4. \A i \in C \ {1} : i - 1 \in D /\ s[i - 1] = q[i]
  <2> SUFFICES ASSUME NEW i \in C \ {1} PROVE i - 1 \in D /\ s[i - 1] = q[i]
    OBVIOUS
  <2>1. i - 1 \in Nat /\ i - 1 # 0 /\ (i - 1) + 1 = i
    BY <1>2
  <2>2. i - 1 \in D
    BY <2>1, TailPdu
  <2> HIDE DEF s, C, D
  <2> QED BY <1>3, <2>1, <2>2
<1>5. /\ \A i \in C : q[i].c \in first .. last - 1 /\ q[i].len = m[q[i].c]
      /\ \A i, j \in C : i < j => q[i].c < q[j].c
      /\ \A c \in first .. last - 1 : \E i \in C : q[i].c = c
  BY DEF Stream
<1> HIDE DEF s, C, D
<1>6. /\ \A i \in D : s[i].c \in first .. last - 1 /\ s[i].len = m[s[i].c]
      /\ \A i, j \in D : i < j => s[i].c < s[j].c
  <2>1. \A i \in D : s[i].c \in first .. last - 1 /\ s[i].len = m[s[i].c]
    BY <1>3, <1>5
  <2>2. ASSUME NEW i \in D, NEW j \in D, i < j PROVE s[i].c < s[j].c
    <3>1. i + 1 < j + 1
      BY <1>3, <2>2
    <3> QED BY <1>3, <1>5, <3>1
  <2> QED BY <2>1, <2>2
<1>7. CASE Head(q).op # "cmd"
  <2>1. \A c \in first .. last - 1 : \E i \in D : s[i].c = c
    <3> SUFFICES ASSUME NEW c \in first .. last - 1 PROVE \E i \in D : s[i].c = c
      OBVIOUS
    <3>1. PICK i \in C : q[i].c = c
      BY <1>5
    <3>2. i - 1 \in D /\ s[i - 1] = q[i]
      BY <1>1, <1>4, <1>7, <3>1
    <3> QED BY <3>1, <3>2
  <2> QED BY <1>6, <1>7, <2>1 DEF Stream, s, D
<1>8. CASE Head(q).op = "cmd"
  <2>1. 1 \in C
    BY <1>1, <1>8
  <2>2. first < last
    BY <1>5, <2>1
  <2>3. q[1].c = first
    <3>1. PICK i \in C : q[i].c = first
      BY <1>5, <2>2
    <3>2. CASE i = 1
      BY <3>1, <3>2
    <3>3. CASE i # 1
      <4>1. 1 < i
        BY <1>2, <3>1, <3>3
      <4>2. q[1].c < first /\ q[1].c \in first .. last - 1
        BY <1>5, <2>1, <3>1, <4>1
      <4> QED BY <4>2
    <3> QED BY <3>2, <3>3
  <2>4. \A i \in D : s[i].c \in first + 1 .. last - 1
    <3> SUFFICES ASSUME NEW i \in D PROVE s[i].c \in first + 1 .. last - 1
      OBVIOUS
    <3>1. i + 1 \in C /\ 1 < i + 1 /\ s[i] = q[i + 1]
      BY <1>3
    <3>2. q[1].c < q[i + 1].c
      BY <1>5, <2>1, <3>1
    <3> QED BY <1>6, <2>3, <3>1, <3>2
  <2>5. \A c \in first + 1 .. last - 1 : \E i \in D : s[i].c = c
    <3> SUFFICES ASSUME NEW c \in first + 1 .. last - 1 PROVE \E i \in D : s[i].c = c
      OBVIOUS
    <3>1. PICK i \in C : q[i].c = c
      BY <1>5
    <3>2. i # 1
      BY <2>3, <3>1
    <3>3. i - 1 \in D /\ s[i - 1] = q[i]
      BY <1>4, <3>1, <3>2
    <3> QED BY <3>1, <3>3
  <2>6. q[1].len = m[first]
    BY <1>5, <2>1, <2>3
  <2>7. Stream(s, m, first + 1, last)
    BY <1>6, <2>4, <2>5 DEF Stream, D
  <2> QED BY <1>1, <1>8, <2>2, <2>3, <2>6, <2>7 DEF s
<1> QED BY <1>7, <1>8

-----------------------------------------------------------------------------
(* Buffers and slots.                                                      *)

LEMMA BlocksFacts ==
  ASSUME NEW c \in Cmds, NEW n \in Nat, NEW m \in Nat
  PROVE  /\ Blocks(c, 0, n) \in Buffer /\ Blocks(c, n, m) \in Buffer
         /\ Len(Blocks(c, 0, n)) = n
         /\ Blocks(c, 0, n) \o Blocks(c, n, m) = Blocks(c, 0, n + m)
         /\ n + m \in Nat
<1>1. /\ Blocks(c, 0, n) \in Seq(Cmds \X (Nat \ {0})) /\ Len(Blocks(c, 0, n)) = n
      /\ Blocks(c, n, m) \in Seq(Cmds \X (Nat \ {0})) /\ Len(Blocks(c, n, m)) = m
      /\ Blocks(c, 0, n + m) \in Seq(Cmds \X (Nat \ {0})) /\ Len(Blocks(c, 0, n + m)) = n + m
  BY DEF Blocks
<1>2. /\ \A i \in 1 .. n : Blocks(c, 0, n)[i] = <<c, 0 + i>>
      /\ \A i \in 1 .. m : Blocks(c, n, m)[i] = <<c, n + i>>
      /\ \A i \in 1 .. n + m : Blocks(c, 0, n + m)[i] = <<c, 0 + i>>
  BY DEF Blocks
<1> DEFINE a == Blocks(c, 0, n)  b == Blocks(c, n, m)  d == Blocks(c, 0, n + m)
<1> HIDE DEF a, b, d
<1>3. /\ a \in Seq(Cmds \X (Nat \ {0})) /\ Len(a) = n
      /\ b \in Seq(Cmds \X (Nat \ {0})) /\ Len(b) = m
      /\ d \in Seq(Cmds \X (Nat \ {0})) /\ Len(d) = n + m
      /\ \A i \in 1 .. n : a[i] = <<c, 0 + i>>
      /\ \A i \in 1 .. m : b[i] = <<c, n + i>>
      /\ \A i \in 1 .. n + m : d[i] = <<c, 0 + i>>
  BY <1>1, <1>2 DEF a, b, d
<1>4. a \o b = d
  <2>1. a \o b \in Seq(Cmds \X (Nat \ {0})) /\ Len(a \o b) = n + m
    BY <1>3
  <2>2. ASSUME NEW i \in 1 .. n + m PROVE (a \o b)[i] = d[i]
    <3>1. CASE i <= n
      <4>1. i \in 1 .. n /\ (a \o b)[i] = a[i]
        BY <1>3, <3>1
      <4> QED BY <1>3, <4>1
    <3>2. CASE i > n
      <4>1. (a \o b)[i] = b[i - n] /\ i - n \in 1 .. m /\ n + (i - n) = 0 + i
        BY <1>3, <3>2
      <4> QED BY <1>3, <4>1
    <3>3. i <= n \/ i > n
      OBVIOUS
    <3> QED BY <3>1, <3>2, <3>3, Zenon
  <2>3. d \in Seq(Cmds \X (Nat \ {0})) /\ Len(d) = n + m
    BY <1>3
  <2> QED BY <2>1, <2>2, <2>3, SeqEqual
<1> QED BY <1>1, <1>4 DEF a, b, d, Buffer

(* A set of numbers that is not empty has a least member, which is Min.    *)
LEMMA LeastMember ==
  ASSUME NEW D \in SUBSET Nat, D # {}
  PROVE  Min(D) \in D /\ \A j \in D : Min(D) <= j
<1> DEFINE R == {p \in Nat \X Nat : p[1] < p[2]}
<1>1. IsWellFoundedOn(R, Nat)
  BY NatLessThanWellFounded DEF OpToRel
<1>2. \E y \in D : \A z \in D : ~ (<<z, y>> \in R)
  <2> HIDE DEF R
  <2> QED BY <1>1, WFMin
<1>3. \A y, z \in Nat : ~(<<z, y>> \in R) => y <= z
  OBVIOUS
<1>4. \E y \in D : \A z \in D : y <= z
  BY <1>2, <1>3
<1> QED BY <1>4 DEF Min

(* The slot with the tag of a command, if there is one.                    *)
LEMMA SlotFacts ==
  ASSUME r2t_tasks \in Seq(R2TTask), NEW c
  PROVE  /\ SlotOf(c) \in 0 .. Len(r2t_tasks) /\ SlotOf(c) \in Nat
         /\ SlotOf(c) # 0 => Tag[r2t_tasks[SlotOf(c)].c] = Tag[c]
         /\ SlotOf(c) = 0 => \A i \in DOMAIN r2t_tasks : Tag[r2t_tasks[i].c] # Tag[c]
<1> DEFINE I == {i \in 1 .. Len(r2t_tasks) : Tag[r2t_tasks[i].c] = Tag[c]}
<1>1. Len(r2t_tasks) \in Nat /\ DOMAIN r2t_tasks = 1 .. Len(r2t_tasks) /\ I \in SUBSET Nat
  OBVIOUS
<1>2. SlotOf(c) = IF I # {} THEN Min(I) ELSE 0
  BY DEF SlotOf, SelectInSeq
<1>3. I # {} => Min(I) \in I
  <2> HIDE DEF I
  <2> QED BY <1>1, LeastMember
<1>4. CASE I = {}
  BY <1>1, <1>2, <1>4
<1>5. CASE I # {}
  <2>1. SlotOf(c) = Min(I) /\ Min(I) \in I
    BY <1>2, <1>3, <1>5
  <2>2. SlotOf(c) \in I
    <3> HIDE DEF I
    <3> QED BY <2>1
  <2> QED BY <1>1, <2>2
<1> QED BY <1>4, <1>5

(* The slots without slot i.                                               *)
LEMMA RemoveFacts ==
  ASSUME NEW S, NEW s \in Seq(S), NEW i \in 1 .. Len(s)
  PROVE  /\ RemoveAt(s, i) \in Seq(S) /\ Len(RemoveAt(s, i)) = Len(s) - 1
         /\ \A j \in DOMAIN RemoveAt(s, i) :
              \E k \in DOMAIN s : k # i /\ RemoveAt(s, i)[j] = s[k] /\ (j < i => k = j)
                                  /\ (~(j < i) => k = j + 1)
         /\ \A k \in DOMAIN s : k # i => \E j \in DOMAIN RemoveAt(s, i) : RemoveAt(s, i)[j] = s[k]
<1> DEFINE a == SubSeq(s, 1, i - 1)
           b == SubSeq(s, i + 1, Len(s))
           t == RemoveAt(s, i)
<1>1. /\ Len(s) \in Nat /\ i \in Nat /\ DOMAIN s = 1 .. Len(s)
      /\ a \in Seq(S) /\ Len(a) = i - 1 /\ \A j \in 1 .. i - 1 : a[j] = s[j]
      /\ b \in Seq(S) /\ Len(b) = Len(s) - i /\ \A j \in 1 .. Len(s) - i : b[j] = s[i + j]
      /\ i - 1 \in Nat /\ Len(s) - i \in Nat /\ (i - 1) + (Len(s) - i) = Len(s) - 1
  OBVIOUS
<1>2. t = a \o b
  BY DEF RemoveAt
<1> HIDE DEF a, b, t
<1>3. t \in Seq(S) /\ Len(t) = Len(s) - 1 /\ DOMAIN t = 1 .. Len(s) - 1
  <2>1. a \o b \in Seq(S) /\ Len(a \o b) = Len(a) + Len(b)
    BY <1>1, ConcatProperties
  <2>2. t \in Seq(S) /\ Len(t) = Len(s) - 1
    BY <1>1, <1>2, <2>1
  <2> QED BY <2>2
<1>4. ASSUME NEW j \in 1 .. Len(s) - 1
      PROVE  /\ j < i => j \in 1 .. Len(s) /\ t[j] = s[j]
             /\ ~(j < i) => j + 1 \in 1 .. Len(s) /\ j + 1 # i /\ t[j] = s[j + 1]
  <2>1. CASE j < i
    BY <1>1, <1>2, <2>1
  <2>2. CASE ~(j < i)
    <3>3. j - (i - 1) \in 1 .. Len(s) - i /\ j > i - 1 /\ j <= (i - 1) + (Len(s) - i)
      BY <1>1, <2>2
    <3>1. t[j] = b[j - (i - 1)] /\ j - (i - 1) \in 1 .. Len(s) - i
      BY <1>1, <1>2, <3>3
    <3>2. i + (j - (i - 1)) = j + 1
      BY <1>1
    <3> QED BY <1>1, <2>2, <3>1, <3>2
  <2> QED BY <2>1, <2>2
<1>5. \A j \in 1 .. Len(s) - 1 :
        \E k \in DOMAIN s : k # i /\ t[j] = s[k] /\ (j < i => k = j) /\ (~(j < i) => k = j + 1)
  <2> SUFFICES ASSUME NEW j \in 1 .. Len(s) - 1
               PROVE  \E k \in DOMAIN s : k # i /\ t[j] = s[k] /\ (j < i => k = j)
                                          /\ (~(j < i) => k = j + 1)
    OBVIOUS
  <2>1. CASE j < i
    BY <1>1, <1>4, <2>1
  <2>2. CASE ~(j < i)
    BY <1>1, <1>4, <2>2
  <2> QED BY <2>1, <2>2
<1>6. \A k \in DOMAIN s : k # i => \E j \in 1 .. Len(s) - 1 : t[j] = s[k]
  <2> SUFFICES ASSUME NEW k \in DOMAIN s, k # i PROVE \E j \in 1 .. Len(s) - 1 : t[j] = s[k]
    OBVIOUS
  <2>1. CASE k < i
    <3>1. k \in 1 .. Len(s) - 1
      BY <1>1, <2>1
    <3> QED BY <1>4, <2>1, <3>1
  <2>2. CASE k > i
    <3>1. k - 1 \in 1 .. Len(s) - 1 /\ ~(k - 1 < i) /\ (k - 1) + 1 = k
      BY <1>1, <2>2
    <3> QED BY <1>4, <3>1
  <2> QED BY <1>1, <2>1, <2>2
<1> QED BY <1>3, <1>5, <1>6 DEF t

-----------------------------------------------------------------------------
(* What the invariant says of one command, one PDU, one slot.              *)

LEMMA CmdFacts ==
  /\ Cmds = 1 .. Len(Length) /\ Len(Length) \in Nat
  /\ \A c \in Cmds : /\ c \in Nat /\ c >= 1 /\ Length[c] \in Nat
                     /\ Write[c] \in BOOLEAN /\ Provided[c] \in Nat
  /\ FirstBurst \in Nat /\ FirstBurst > 0 /\ MaxBurst \in Nat /\ MaxBurst > 0
  /\ Segment \in Nat /\ Segment > 0 /\ MaxR2T \in Nat /\ QueueDepth \in Nat
  /\ QueueDepth > 0
BY CommandAssumption, BurstAssumption, LimitAssumption DEF Cmds

LEMMA TypeFacts ==
  ASSUME TypeOK
  PROVE  /\ net \in Seq(Pdu) /\ pending_pdus \in Seq(CmdPdu)
         /\ ExpCmdSN \in Nat /\ nextC \in Nat /\ rejects \in Nat
         /\ \A c \in Cmds : /\ imm[c] \in Nat /\ granted[c] \in Nat /\ r2ts[c] \in Nat
                            /\ End(c) \in Nat /\ (r2t[c] # None => r2t[c] \in R2T)
                            /\ stored[c] \in Buffer /\ got[c] \in Seq(DataIn)
                            /\ status[c] \in Outcomes \cup {"refused", None}
BY DEF TypeOK, Pdu, End

LEMMA QueueFacts ==
  ASSUME TypeOK
  PROVE  /\ DOMAIN lu_queue = 1 .. Len(lu_queue) /\ Len(lu_queue) \in Nat
         /\ \A i \in DOMAIN lu_queue : lu_queue[i] \in Cmds
         /\ DOMAIN task_queue = 1 .. Len(task_queue) /\ Len(task_queue) \in Nat
         /\ \A i \in DOMAIN task_queue : /\ task_queue[i][1] \in {"out", "rsp"}
                                         /\ task_queue[i][2] \in Cmds
         /\ lu # None => /\ lu \in LuTask /\ lu[1] \in {"wait", "ready"} /\ lu[2] \in Cmds
                         /\ lu = <<lu[1], lu[2]>>
<1>1. /\ task_queue \in Seq({"out", "rsp"} \X Cmds) /\ lu_queue \in Seq(Cmds)
      /\ lu # None => lu \in LuTask
  BY DEF TypeOK
<1>2. /\ DOMAIN lu_queue = 1 .. Len(lu_queue) /\ Len(lu_queue) \in Nat
      /\ \A i \in DOMAIN lu_queue : lu_queue[i] \in Cmds
      /\ DOMAIN task_queue = 1 .. Len(task_queue) /\ Len(task_queue) \in Nat
      /\ \A i \in DOMAIN task_queue : task_queue[i] \in {"out", "rsp"} \X Cmds
  BY <1>1
<1>3. \A t \in {"out", "rsp"} \X Cmds : t[1] \in {"out", "rsp"} /\ t[2] \in Cmds
  OBVIOUS
<1>4. \A t \in LuTask : /\ t[1] \in {"wait", "ready"} /\ t[2] \in Cmds /\ t = <<t[1], t[2]>>
  BY DEF LuTask
<1> QED BY <1>1, <1>2, <1>3, <1>4

LEMMA R2TTaskFacts ==
  ASSUME NEW r \in R2TTask
  PROVE  /\ r.c \in Cmds /\ r.iobuf \in Buffer /\ Len(r.iobuf) \in Nat
         /\ r.R2TSN \in Nat /\ r.DataSN \in Nat /\ r.F \in BOOLEAN
BY DEF R2TTask, Buffer

LEMMA XferFacts ==
  ASSUME NEW t \in Xfer
  PROVE  /\ t.c \in Cmds /\ t.data \in Buffer /\ Len(t.data) \in Nat
         /\ t.R2TSN \in Nat /\ t.DataSN \in Nat /\ t.len \in Nat /\ t.r2t_flag \in BOOLEAN
BY DEF Xfer, Buffer

LEMMA SlotTypes ==
  ASSUME TypeOK
  PROVE  /\ r2t_tasks \in Seq(R2TTask) /\ x \in Xfer \cup {None}
         /\ DOMAIN r2t_tasks = 1 .. Len(r2t_tasks) /\ Len(r2t_tasks) \in Nat
         /\ \A i \in DOMAIN r2t_tasks : r2t_tasks[i] \in R2TTask /\ r2t_tasks[i].c \in Cmds
         /\ x # None => x \in Xfer /\ x.c \in Cmds
<1>1. r2t_tasks \in Seq(R2TTask) /\ x \in Xfer \cup {None}
  BY DEF TypeOK
<1>2. \A i \in DOMAIN r2t_tasks : r2t_tasks[i] \in R2TTask
  BY <1>1
<1>3. /\ DOMAIN r2t_tasks = 1 .. Len(r2t_tasks) /\ Len(r2t_tasks) \in Nat
  BY <1>1
<1> QED BY <1>1, <1>2, <1>3, R2TTaskFacts, XferFacts

(* Two commands that are live have different tags.                         *)
LEMMA TagsDiffer ==
  ASSUME InOrder, Tags, TypeOK, NEW c \in Cmds, NEW d \in Cmds, c < ExpCmdSN, d < ExpCmdSN,
         Live(c), Live(d), Tag[c] = Tag[d]
  PROVE  c = d
<1>1. ExpCmdSN <= nextC /\ ExpCmdSN \in Nat /\ nextC \in Nat
  <2>1. Len(pending_pdus) \in Nat /\ ExpCmdSN \in Nat /\ nextC \in Nat
    BY DEF TypeOK
  <2> QED BY <2>1 DEF InOrder
<1>2. c \in 1 .. nextC - 1 /\ d \in 1 .. nextC - 1 /\ c \in Nat /\ d \in Nat
  BY <1>1, CmdFacts
<1> QED BY <1>2 DEF Tags

(* No command becomes live, for they all are before they are answered.     *)
LEMMA TagsSame ==
  ASSUME TypeOK, InOrder, Tags, nextC' = nextC, \A c \in Cmds : Live(c)' => Live(c)
  PROVE  Tags'
<1>1. \A c \in 1 .. nextC - 1 : c \in Cmds
  <2>1. nextC <= Len(Length) + 1 /\ nextC \in Nat
    BY TypeFacts DEF InOrder
  <2> QED BY <2>1, CmdFacts
<1> QED BY <1>1 DEF Tags

LEMMA HolderFacts ==
  ASSUME IInv, NEW c, Holder(c)
  PROVE  c \in Cmds /\ c < ExpCmdSN /\ Write[c] /\ Live(c) /\ ~Answered(c)
<1>1. \A d \in Cmds : Waits(d) => d < ExpCmdSN /\ status[d] = None
  <2> SUFFICES ASSUME NEW d \in Cmds, Waits(d) PROVE d < ExpCmdSN /\ status[d] = None
    OBVIOUS
  <2>1. CASE \E i \in DOMAIN lu_queue : lu_queue[i] = d
    BY <2>1 DEF IInv, Places, Queued
  <2>2. CASE lu = <<"wait", d>>
    <3>1. lu # None /\ lu[2] = d
      BY <2>2, NoneAssumption DEF LuTask
    <3> QED BY <3>1 DEF IInv, Places, Running
  <2> QED BY <2>1, <2>2 DEF Waits
<1>2. CASE \E i \in DOMAIN r2t_tasks : r2t_tasks[i].c = c
  <2>1. PICK i \in DOMAIN r2t_tasks : r2t_tasks[i].c = c
    BY <1>2
  <2>2. SlotFits(r2t_tasks[i]) /\ c \in Cmds
    BY <2>1, SlotTypes DEF IInv, SlotsFit
  <2>3. c < ExpCmdSN /\ Write[c] /\ (Waits(c) \/ status[c] = "refused")
    BY <2>1, <2>2 DEF SlotFits
  <2>4. granted[c] > 0
    <3>1. /\ granted[c] = Least(MaxBurst, Length[c] - FirstBurst) /\ FirstBurst < Length[c]
          /\ MaxBurst \in Nat \ {0} /\ FirstBurst \in Nat /\ Length[c] \in Nat
      BY <2>1, <2>2, CmdFacts DEF SlotFits
    <3> QED BY <3>1 DEF Least
  <2> QED BY <1>1, <2>2, <2>3, <2>4 DEF Live, Leftover, Answered
<1>3. CASE x # None /\ x.c = c
  <2>1. lu = <<"wait", c>> /\ c \in Cmds
    BY <1>3, SlotTypes DEF IInv, XferFits, XferFit
  <2>2. lu # None /\ lu[1] = "wait" /\ lu[2] = c
    BY <2>1, NoneAssumption DEF LuTask
  <2> QED BY <2>1, <2>2 DEF IInv, Places, Running, Live, Answered
<1> QED BY <1>2, <1>3 DEF Holder

(* The slot of a command that is live.                                     *)
LEMMA SlotOfFacts ==
  ASSUME IInv, NEW c \in Cmds, c < ExpCmdSN, Live(c)
  PROVE  /\ SlotOf(c) \in 0 .. Len(r2t_tasks) /\ SlotOf(c) \in Nat
         /\ SlotOf(c) # 0 => SlotOf(c) \in DOMAIN r2t_tasks /\ r2t_tasks[SlotOf(c)].c = c
         /\ SlotOf(c) = 0 => \A i \in DOMAIN r2t_tasks : r2t_tasks[i].c # c
<1>1. TypeOK /\ InOrder /\ Tags
  BY DEF IInv
<1>2. /\ SlotOf(c) \in 0 .. Len(r2t_tasks) /\ SlotOf(c) \in Nat
      /\ SlotOf(c) # 0 => Tag[r2t_tasks[SlotOf(c)].c] = Tag[c]
      /\ SlotOf(c) = 0 => \A i \in DOMAIN r2t_tasks : Tag[r2t_tasks[i].c] # Tag[c]
  BY <1>1, SlotTypes, SlotFacts
<1>3. ASSUME SlotOf(c) # 0
      PROVE  SlotOf(c) \in DOMAIN r2t_tasks /\ r2t_tasks[SlotOf(c)].c = c
  <2>1. SlotOf(c) \in DOMAIN r2t_tasks
    BY <1>1, <1>2, <1>3, SlotTypes
  <2>2. Holder(r2t_tasks[SlotOf(c)].c)
    BY <2>1 DEF Holder
  <2> DEFINE d == r2t_tasks[SlotOf(c)].c
  <2>3. d \in Cmds /\ d < ExpCmdSN /\ Live(d) /\ Tag[d] = Tag[c]
    BY <1>2, <1>3, <2>2, HolderFacts
  <2> HIDE DEF d
  <2>4. d = c
    BY <1>1, <2>3, TagsDiffer
  <2> QED BY <2>1, <2>4 DEF d
<1> QED BY <1>2, <1>3

-----------------------------------------------------------------------------
(* What a step leaves alone.                                               *)

LEMMA SlotFrame ==
  ASSUME NEW r \in R2TTask, SlotFits(r), r.c < ExpCmdSN',
         imm'[r.c] = imm[r.c], granted'[r.c] = granted[r.c], r2ts'[r.c] = r2ts[r.c],
         Chain(net', r2t'[r.c], r.c, r.DataSN, Len(r.iobuf), End(r.c)),
         Waits(r.c)' \/ status'[r.c] = "refused"
  PROVE  SlotFits(r)'
BY DEF SlotFits, End

LEMMA XferFrame ==
  ASSUME NEW t \in Xfer, XferFit(t), lu' = lu,
         imm'[t.c] = imm[t.c], granted'[t.c] = granted[t.c], r2ts'[t.c] = r2ts[t.c],
         Chain(net', r2t'[t.c], t.c, t.DataSN, Len(t.data), End(t.c))
  PROVE  XferFit(t)'
BY DEF XferFit, End

LEMMA SlotsSame ==
  ASSUME TypeOK, SlotsFit, r2t_tasks' = r2t_tasks,
         x' # None => \A i \in DOMAIN r2t_tasks : r2t_tasks[i].c # x'.c,
         \A i \in DOMAIN r2t_tasks : \A r \in R2TTask :
           r = r2t_tasks[i] /\ SlotFits(r) => SlotFits(r)'
  PROVE  SlotsFit'
<1>1. \A i \in DOMAIN r2t_tasks' : SlotFits(r2t_tasks[i])'
  <2> SUFFICES ASSUME NEW i \in DOMAIN r2t_tasks PROVE SlotFits(r2t_tasks[i])'
    OBVIOUS
  <2>1. PICK r \in R2TTask : r = r2t_tasks[i]
    BY SlotTypes
  <2>2. SlotFits(r)
    BY <2>1 DEF SlotsFit
  <2>3. SlotFits(r)' /\ r = r2t_tasks'[i]
    BY <2>1, <2>2
  <2> QED BY <2>3
<1> QED BY <1>1 DEF SlotsFit

LEMMA XferSame ==
  ASSUME TypeOK, XferFits, x' = x, pc' = "xfer" <=> pc = "xfer",
         \A t \in Xfer : t = x /\ XferFit(t) => XferFit(t)'
  PROVE  XferFits'
<1>1. ASSUME x' # None PROVE XferFit(x)'
  <2>1. PICK t \in Xfer : t = x
    BY <1>1, SlotTypes
  <2>2. XferFit(t)' /\ t = x'
    BY <1>1, <2>1 DEF XferFits
  <2> QED BY <2>2
<1> QED BY <1>1 DEF XferFits

(* The window only grows with nextC.                                       *)
LEMMA WindowSame ==
  ASSUME TypeOK, Window, nextC' = nextC,
         \A c \in 1 .. nextC - 1 : status'[c] = None => status[c] = None
  PROVE  Window'
<1> DEFINE W == {c \in 1 .. nextC - 1 : status[c] = None}
           V == {c \in 1 .. nextC - 1 : status'[c] = None}
<1>1. nextC \in Nat /\ QueueDepth \in Nat
  BY TypeFacts, CmdFacts
<1>2. IsFiniteSet(W) /\ V \subseteq W
  <2>1. IsFiniteSet(1 .. nextC - 1)
    BY <1>1, FS_Interval
  <2> QED BY <2>1, FS_Subset
<1>3. Cardinality(V) <= Cardinality(W) /\ Cardinality(V) \in Nat /\ Cardinality(W) \in Nat
  BY <1>2, FS_Subset, FS_CardinalityType
<1>4. Cardinality(W) <= QueueDepth
  BY DEF Window
<1>5. Cardinality(V) <= QueueDepth
  <2> HIDE DEF W, V
  <2> QED BY <1>1, <1>3, <1>4
<1> QED BY <1>5 DEF Window

(* The initiator sends something: no command changes its place.            *)
LEMMA Sent ==
  ASSUME IInv,
         UNCHANGED <<pc, r2t_tasks, x, ExpCmdSN, task_queue, lu_queue, lu, status, r2ts, granted>>,
         \A c \in Cmds : c < ExpCmdSN => imm'[c] = imm[c],
         \A c \in Cmds : \A sn, pos \in Nat :
           c < ExpCmdSN /\ Chain(net, r2t[c], c, sn, pos, End(c))
             => Chain(net', r2t'[c], c, sn, pos, End(c)),
         \A c \in Cmds : ~Holder(c) /\ DataOf(net, c) = {} /\ r2t[c] = None
                           => DataOf(net', c) = {} /\ r2t'[c] = None
  PROVE  Places' /\ SlotsFit' /\ XferFits' /\ Idle'
<1>1. TypeOK /\ SlotsFit /\ XferFits /\ Idle /\ Places
  BY DEF IInv
<1>2. Places'
  BY <1>1 DEF Places, Unseen, Queued, Running, Asked, Fresh
<1>3. SlotsFit'
  <2>1. ASSUME NEW r \in R2TTask, SlotFits(r) PROVE SlotFits(r)'
    <3>1. /\ r.c \in Cmds /\ r.DataSN \in Nat /\ Len(r.iobuf) \in Nat
          /\ r.c < ExpCmdSN /\ Chain(net, r2t[r.c], r.c, r.DataSN, Len(r.iobuf), End(r.c))
          /\ Waits(r.c) \/ status[r.c] = "refused"
      BY <2>1, R2TTaskFacts DEF SlotFits
    <3>2. Waits(r.c)' \/ status'[r.c] = "refused"
      BY <3>1 DEF Waits
    <3>3. Chain(net', r2t'[r.c], r.c, r.DataSN, Len(r.iobuf), End(r.c))
      BY <3>1
    <3> QED BY <2>1, <3>1, <3>2, <3>3, SlotFrame
  <2>2. x' # None => \A i \in DOMAIN r2t_tasks : r2t_tasks[i].c # x'.c
    BY <1>1 DEF SlotsFit
  <2> QED BY <1>1, <2>1, <2>2, SlotsSame
<1>4. XferFits'
  <2>1. ASSUME NEW t \in Xfer, t = x, XferFit(t) PROVE XferFit(t)'
    <3>1. /\ t.c \in Cmds /\ t.DataSN \in Nat /\ Len(t.data) \in Nat
          /\ Chain(net, r2t[t.c], t.c, t.DataSN, Len(t.data), End(t.c))
      BY <2>1, XferFacts DEF XferFit
    <3>2. t.c < ExpCmdSN
      <4>1. t # None
        BY NoneAssumption
      <4> QED BY <2>1, <4>1, HolderFacts DEF Holder
    <3>3. Chain(net', r2t'[t.c], t.c, t.DataSN, Len(t.data), End(t.c))
      BY <3>1, <3>2
    <3> QED BY <2>1, <3>1, <3>2, <3>3, XferFrame
  <2> QED BY <1>1, <2>1, XferSame
<1>5. Idle'
  <2>1. \A c : (Holder(c)' <=> Holder(c)) /\ (Waits(c)' <=> Waits(c)) /\ (Fresh(c)' <=> Fresh(c))
    BY DEF Holder, Waits, Fresh
  <2> QED BY <1>1, <2>1 DEF Idle
<1> QED BY <1>2, <1>3, <1>4, <1>5

-----------------------------------------------------------------------------
(* The initiator.                                                          *)

LEMMA SendCommandStep ==
  ASSUME IInv, SendCommand, ~reused'
  PROVE  IInv'
<1>1. /\ TypeOK /\ NotDropped /\ OwnData /\ InOrder /\ Immediate /\ Places /\ Tags
      /\ Reads /\ Window
  BY DEF IInv
<1>2. PICK n \in 0 .. Least(Least(FirstBurst, Segment), Length[nextC]) :
        /\ ~Write[nextC] => n = 0
        /\ imm' = [imm EXCEPT ![nextC] = n]
        /\ net' = Append(net, [op |-> "cmd", c |-> nextC, len |-> n])
  BY DEF SendCommand
<1>3. /\ nextC \in Cmds /\ Outstanding < QueueDepth /\ TagFree(nextC) /\ nextC' = nextC + 1
      /\ UNCHANGED <<pc, pending_pdus, r2t_tasks, x, ExpCmdSN, rejects>>
      /\ UNCHANGED <<task_queue, lu_queue, lu, stored>>
      /\ UNCHANGED <<r2t, r2ts, granted, got, status>>
  BY DEF SendCommand, workVars, luVars, askVars
<1> DEFINE p == [op |-> "cmd", c |-> nextC, len |-> n]
<1>15. /\ reused' \in BOOLEAN
       /\ \A c \in 1 .. nextC - 1 : Tag[c] = Tag[nextC] => ~Leftover(c)
  BY DEF SendCommand
<1>4. n \in Nat /\ n <= FirstBurst /\ n <= Length[nextC]
  <2>1. FirstBurst \in Nat /\ Segment \in Nat /\ Length[nextC] \in Nat
    BY <1>3, CmdFacts
  <2>2. ~(Least(Least(FirstBurst, Segment), Length[nextC]) > FirstBurst)
        /\ ~(Least(Least(FirstBurst, Segment), Length[nextC]) > Length[nextC])
        /\ Least(Least(FirstBurst, Segment), Length[nextC]) \in Nat
    BY <2>1 DEF Least
  <2> QED BY <2>1, <2>2
<1>5. p \in CmdPdu /\ p \in Pdu /\ p.op = "cmd" /\ p.c = nextC /\ p.len = n /\ net' = Append(net, p)
  BY <1>2, <1>3, <1>4 DEF CmdPdu, Pdu
<1> HIDE DEF p
<1>6. /\ net \in Seq(Pdu) /\ ExpCmdSN \in Nat /\ nextC \in Nat /\ Len(pending_pdus) \in Nat
      /\ ExpCmdSN + Len(pending_pdus) <= nextC /\ nextC <= Len(Length) /\ nextC >= 1
      /\ ExpCmdSN >= 1
  <2>1. Len(pending_pdus) \in Nat
    BY <1>1, TypeFacts
  <2> QED BY <1>1, <1>3, <2>1, TypeFacts, CmdFacts DEF InOrder
<1>7. /\ \A c \in Cmds : c # nextC => imm'[c] = imm[c]
      /\ imm'[nextC] = n /\ imm' \in [Cmds -> Nat]
  BY <1>1, <1>2, <1>3, <1>4 DEF TypeOK
<1>8. TypeOK'
  <2>1. net' \in Seq(CmdPdu \cup DataPdu) /\ nextC' \in Nat
    BY <1>3, <1>5, <1>6, AppendPdu DEF Pdu
  <2> QED BY <1>1, <1>3, <1>7, <1>15, <2>1 DEF TypeOK
<1>9. NotDropped' /\ OwnData' /\ Reads'
  BY <1>1, <1>3 DEF NotDropped, OwnData, Reads, Answered, TransferIn
<1>10. InOrder'
  <2> DEFINE first == ExpCmdSN + Len(pending_pdus)
  <2>1. first \in Nat /\ first <= nextC
    BY <1>6
  <2>2. \A c \in first .. nextC - 1 : imm'[c] = imm[c]
    <3> SUFFICES ASSUME NEW c \in first .. nextC - 1 PROVE imm'[c] = imm[c]
      OBVIOUS
    <3>1. c \in 1 .. Len(Length) /\ c # nextC
      BY <1>6
    <3> QED BY <1>7, <3>1, CmdFacts
  <2>3. Stream(net, imm, first, nextC)
    BY <1>1 DEF InOrder
  <2>4. Stream(net', imm', first, nextC + 1)
    <3> HIDE DEF first
    <3> QED BY <1>5, <1>6, <1>7, <2>1, <2>2, <2>3, StreamAppend
  <2>5. ASSUME NEW i \in DOMAIN pending_pdus
        PROVE  /\ pending_pdus[i].c = ExpCmdSN + i - 1
               /\ pending_pdus[i].len = imm'[ExpCmdSN + i - 1]
    <3>1. pending_pdus[i].c = ExpCmdSN + i - 1 /\ pending_pdus[i].len = imm[ExpCmdSN + i - 1]
      BY <1>1 DEF InOrder
    <3>2. i \in 1 .. Len(pending_pdus)
      BY <1>1 DEF TypeOK
    <3>3. ExpCmdSN + i - 1 \in 1 .. Len(Length) /\ ExpCmdSN + i - 1 # nextC
      BY <1>6, <3>2
    <3> QED BY <1>7, <3>1, <3>3, CmdFacts
  <2>6. nextC' <= Len(Length) + 1 /\ first <= nextC'
    BY <1>3, <1>6, CmdFacts
  <2>7. (pc' = "poll" => pending_pdus' = <<>>) /\ (pc' = "drain" => pending_pdus' # <<>>)
    BY <1>1, <1>3 DEF InOrder
  <2> QED BY <1>3, <1>6, <2>4, <2>5, <2>6, <2>7 DEF InOrder
<1>11. Immediate'
  BY <1>1, <1>2, <1>3, <1>4, <1>7 DEF Immediate
<1>12. Places' /\ SlotsFit' /\ XferFits' /\ Idle'
  <2>1. \A c \in Cmds : c < ExpCmdSN => imm'[c] = imm[c]
    BY <1>6, <1>7, CmdFacts
  <2>2. \A c \in Cmds : \A sn, pos \in Nat :
          c < ExpCmdSN /\ Chain(net, r2t[c], c, sn, pos, End(c))
            => Chain(net', r2t'[c], c, sn, pos, End(c))
    BY <1>3, <1>5, <1>6, ChainAppendOther
  <2>3. \A c \in Cmds : ~Holder(c) /\ DataOf(net, c) = {} /\ r2t[c] = None
                          => DataOf(net', c) = {} /\ r2t'[c] = None
    BY <1>3, <1>5, <1>6, AppendPdu
  <2> QED BY <1>3, <2>1, <2>2, <2>3, Sent
<1>13. Tags'
  <2> SUFFICES ASSUME NEW c \in 1 .. nextC, NEW d \in 1 .. nextC, c < d, Tag[c] = Tag[d]
               PROVE  ~Live(c)
    BY <1>3, <1>6 DEF Tags, Live, Leftover
  <2>1. CASE d = nextC
    <3>1. c \in 1 .. d - 1
      BY <1>6, <2>1
    <3> QED BY <1>3, <1>15, <2>1, <3>1 DEF TagFree, Live
  <2>2. CASE d # nextC
    <3>1. c \in 1 .. nextC - 1 /\ d \in 1 .. nextC - 1
      BY <1>6, <2>2
    <3> QED BY <1>1, <3>1 DEF Tags
  <2> QED BY <2>1, <2>2
<1>14. Window'
  <2> DEFINE W == {c \in 1 .. nextC - 1 : status[c] = None}
             V == {c \in 1 .. nextC : status[c] = None}
  <2>1. IsFiniteSet(W)
    <3>1. IsFiniteSet(1 .. nextC - 1)
      BY <1>6, FS_Interval
    <3> QED BY <3>1, FS_Subset
  <2>2. V \subseteq W \cup {nextC}
    BY <1>6
  <2>3. /\ IsFiniteSet(W \cup {nextC}) /\ Cardinality(W) \in Nat
        /\ Cardinality(W \cup {nextC}) <= Cardinality(W) + 1
        /\ Cardinality(W \cup {nextC}) \in Nat
    <3> HIDE DEF W
    <3>1. /\ IsFiniteSet(W \cup {nextC})
          /\ Cardinality(W \cup {nextC}) = IF nextC \in W THEN Cardinality(W)
                                                         ELSE Cardinality(W) + 1
      BY <2>1, FS_AddElement
    <3>2. Cardinality(W) \in Nat /\ Cardinality(W \cup {nextC}) \in Nat
      BY <2>1, <3>1, FS_CardinalityType
    <3> QED BY <3>1, <3>2
  <2>4. Cardinality(V) \in Nat /\ Cardinality(V) <= Cardinality(W \cup {nextC})
    <3> HIDE DEF W, V
    <3>1. Cardinality(V) <= Cardinality(W \cup {nextC}) /\ IsFiniteSet(V)
      BY <2>2, <2>3, FS_Subset
    <3> QED BY <3>1, FS_CardinalityType
  <2>5. Cardinality(W) < QueueDepth /\ QueueDepth \in Nat
    BY <1>3, CmdFacts DEF Outstanding
  <2>6. Cardinality(V) <= QueueDepth
    <3> HIDE DEF W, V
    <3> QED BY <2>3, <2>4, <2>5
  <2>7. nextC' - 1 = nextC /\ status' = status
    BY <1>3, <1>6
  <2> QED BY <2>6, <2>7 DEF Window
<1> QED BY <1>8, <1>9, <1>10, <1>11, <1>12, <1>13, <1>14 DEF IInv

LEMMA SendDataStep ==
  ASSUME IInv, NEW d \in Cmds, SendData(d)
  PROVE  IInv'
<1>1. /\ TypeOK /\ NotDropped /\ OwnData /\ InOrder /\ Immediate /\ Places /\ Tags
      /\ Reads /\ Window /\ Idle
  BY DEF IInv
<1> DEFINE r == r2t[d]
           sent(n) == r.sent + n
           p(n) == [op |-> "data", c |-> d, sn |-> r.sn, off |-> r.off + r.sent,
                    len |-> n, F |-> sent(n) = r.len]
           r1(n) == IF sent(n) = r.len THEN None ELSE [r EXCEPT !.sent = sent(n), !.sn = @ + 1]
<1>2. PICK n \in 1 .. Least(Segment, r.len - r.sent) :
        net' = Append(net, p(n)) /\ r2t' = [r2t EXCEPT ![d] = r1(n)]
  BY DEF SendData
<1>3. /\ r # None
      /\ UNCHANGED <<pc, pending_pdus, r2t_tasks, x, ExpCmdSN, rejects>>
      /\ UNCHANGED <<task_queue, lu_queue, lu, stored>>
      /\ UNCHANGED <<nextC, imm, r2ts, granted, got, status, reused>>
  BY DEF SendData, workVars, luVars
<1>4. /\ r \in R2T /\ r.off \in Nat /\ r.len \in Nat /\ r.sent \in Nat /\ r.sn \in Nat
  <2>1. r \in R2T
    BY <1>1, <1>3, TypeFacts
  <2> QED BY <2>1 DEF R2T
<1>5. n \in Nat /\ n > 0 /\ r.sent + n <= r.len
  <2> DEFINE a == r.len  b == r.sent
  <2>1. a \in Nat /\ b \in Nat /\ Segment \in Nat /\ n \in 1 .. Least(Segment, a - b)
    BY <1>2, <1>4, CmdFacts
  <2> HIDE DEF a, b
  <2>2. n \in Nat /\ n > 0 /\ b + n <= a
    BY <2>1 DEF Least
  <2> QED BY <2>2 DEF a, b
<1> DEFINE pdu == p(n)  r2 == r1(n)
<1>6. /\ pdu \in DataPdu /\ pdu.c = d /\ net' = Append(net, pdu)
      /\ pdu.sn = r.sn /\ pdu.off = r.off + r.sent /\ pdu.len = n
      /\ pdu.F = (r.sent + n = r.len)
  <2>1. r.off + r.sent \in Nat /\ (sent(n) = r.len) \in BOOLEAN
    BY <1>4
  <2> QED BY <1>2, <1>4, <1>5, <2>1 DEF DataPdu
<1>7. /\ r2 # None => /\ r.sent + n # r.len /\ r2.off = r.off /\ r2.len = r.len
                      /\ r2.sent = r.sent + n /\ r2.sn = r.sn + 1
      /\ r2 \in R2T \cup {None}
  <2>1. CASE r.sent + n = r.len
    BY <2>1
  <2>2. CASE r.sent + n # r.len
    <3>1. r2 = [r EXCEPT !.sent = r.sent + n, !.sn = @ + 1] /\ r.sent + n \in Nat
          /\ r.sn + 1 \in Nat
      BY <1>4, <1>5, <2>2
    <3> HIDE DEF r2
    <3> QED BY <1>4, <2>2, <3>1 DEF R2T
  <2> QED BY <2>1, <2>2
<1>8. r2t'[d] = r2 /\ \A c \in Cmds : c # d => r2t'[c] = r2t[c]
  BY <1>1, <1>2 DEF TypeOK
<1>9. r2t' \in [Cmds -> R2T \cup {None}]
  BY <1>1, <1>2, <1>7 DEF TypeOK
<1>10. NextOf(r, pdu, r2)
  <2> HIDE DEF r2, pdu
  <2>1. /\ pdu.sn = r.sn /\ pdu.off = r.off + r.sent /\ pdu.len > 0 /\ r.sent + pdu.len <= r.len
        /\ pdu.F = (r.sent + pdu.len = r.len)
    BY <1>5, <1>6
  <2>2. r2 # None => /\ r.sent + pdu.len # r.len /\ r2.off = r.off /\ r2.len = r.len
                     /\ r2.sent = r.sent + pdu.len /\ r2.sn = r.sn + 1
    BY <1>6, <1>7
  <2> QED BY <2>1, <2>2 DEF NextOf
<1> HIDE DEF r2, pdu
<1>11. net \in Seq(Pdu) /\ pdu \in Pdu /\ pdu.op = "data"
  BY <1>1, <1>6, TypeFacts DEF Pdu, DataPdu
<1>12. TypeOK'
  <2>1. net' \in Seq(CmdPdu \cup DataPdu)
    BY <1>6, <1>11, AppendPdu DEF Pdu
  <2> QED BY <1>1, <1>3, <1>9, <2>1 DEF TypeOK
<1>13. NotDropped' /\ OwnData' /\ Reads' /\ Immediate' /\ Tags' /\ Window'
  <2>1. NotDropped' /\ OwnData' /\ Immediate' /\ Window'
    BY <1>1, <1>3 DEF NotDropped, OwnData, Immediate, Window
  <2>2. Reads' /\ Tags'
    BY <1>1, <1>3 DEF Reads, Answered, TransferIn, Tags, Live, Leftover
  <2> QED BY <2>1, <2>2
<1>14. InOrder'
  <2>1. Stream(net', imm, ExpCmdSN + Len(pending_pdus), nextC)
    BY <1>1, <1>6, <1>11, StreamAppendData DEF InOrder
  <2> QED BY <1>1, <1>3, <2>1 DEF InOrder
<1>15. Holder(d)
  BY <1>1, <1>3 DEF Idle
<1>16. Places' /\ SlotsFit' /\ XferFits' /\ Idle'
  <2>1. ASSUME NEW c \in Cmds, NEW sn \in Nat, NEW pos \in Nat,
               Chain(net, r2t[c], c, sn, pos, End(c))
        PROVE  Chain(net', r2t'[c], c, sn, pos, End(c))
    <3>1. End(c) \in Nat
      BY <1>1, TypeFacts
    <3>2. CASE c = d
      BY <1>3, <1>4, <1>6, <1>8, <1>10, <1>11, <2>1, <3>1, <3>2, ChainAppendOwn
    <3>3. CASE c # d
      BY <1>6, <1>8, <1>11, <2>1, <3>3, ChainAppendOther
    <3> QED BY <3>2, <3>3
  <2>2. \A c \in Cmds : ~Holder(c) /\ DataOf(net, c) = {} /\ r2t[c] = None
                          => DataOf(net', c) = {} /\ r2t'[c] = None
    BY <1>6, <1>8, <1>11, <1>15, AppendPdu
  <2> QED BY <1>3, <2>1, <2>2, Sent
<1> QED BY <1>12, <1>13, <1>14, <1>16 DEF IInv

-----------------------------------------------------------------------------
(* A command reaches the logical unit.                                     *)

LEMMA TailKeeps ==
  ASSUME TypeOK, net # <<>>
  PROVE  /\ Tail(net) \in Seq(Pdu) /\ Head(net) \in Pdu
         /\ \A c \in Cmds : \A sn, pos \in Nat :
              ~(Head(net).op = "data" /\ Head(net).c = c)
              /\ Chain(net, r2t[c], c, sn, pos, End(c))
                => Chain(Tail(net), r2t[c], c, sn, pos, End(c))
         /\ \A c : DataOf(net, c) = {} => DataOf(Tail(net), c) = {}
<1>1. net \in Seq(Pdu) /\ Tail(net) \in Seq(Pdu) /\ Head(net) \in Pdu
  BY TypeFacts, TailPdu
<1>2. \A c \in Cmds : End(c) \in Nat /\ (r2t[c] # None => r2t[c] \in R2T)
  BY TypeFacts
<1>3. ASSUME NEW c \in Cmds, NEW sn \in Nat, NEW pos \in Nat,
             ~(Head(net).op = "data" /\ Head(net).c = c),
             Chain(net, r2t[c], c, sn, pos, End(c))
      PROVE  Chain(Tail(net), r2t[c], c, sn, pos, End(c))
  BY <1>1, <1>2, <1>3, ChainTailOther
<1>4. ASSUME NEW c, DataOf(net, c) = {} PROVE DataOf(Tail(net), c) = {}
  <2> SUFFICES ASSUME NEW i \in DataOf(Tail(net), c) PROVE FALSE
    OBVIOUS
  <2>1. i \in Nat
    BY <1>1, PduTypes
  <2>2. i + 1 \in DataOf(net, c)
    BY <1>1, <2>1, TailPdu
  <2> QED BY <1>4, <2>2
<1> QED BY <1>1, <1>3, <1>4

(* A command that is not executed yet has no slot and nothing on its way.  *)
LEMMA UnseenFacts ==
  ASSUME IInv, NEW c \in Cmds, c >= ExpCmdSN
  PROVE  /\ status[c] = None /\ Fresh(c) /\ ~Holder(c) /\ ~Answered(c)
         /\ DataOf(net, c) = {} /\ r2t[c] = None /\ got[c] = <<>>
<1>1. status[c] = None /\ Fresh(c)
  BY DEF IInv, Places, Unseen
<1>2. ~Holder(c)
  <2>1. ExpCmdSN \in Nat /\ c \in Nat
    BY TypeFacts, CmdFacts DEF IInv
  <2> QED BY <2>1, HolderFacts
<1>3. DataOf(net, c) = {} /\ r2t[c] = None
  BY <1>2 DEF IInv, Idle
<1>4. ~Answered(c)
  BY <1>1 DEF Answered
<1>5. got[c] = <<>>
  BY <1>4 DEF IInv, Reads
<1> QED BY <1>1, <1>2, <1>3, <1>4, <1>5

(* The slot and the R2T that a command gets: only its own state changes.   *)
LEMMA AddTransferTask ==
  ASSUME IInv, NEW p \in CmdPdu, p.c = ExpCmdSN, p.len = imm[p.c], add_transfer_task(p)
  PROVE  /\ r2t' \in [Cmds -> R2T \cup {None}] /\ r2ts' \in [Cmds -> Nat]
         /\ granted' \in [Cmds -> Nat] /\ r2t_tasks' \in Seq(R2TTask)
         /\ \A c \in Cmds : c # p.c => /\ r2t'[c] = r2t[c] /\ r2ts'[c] = r2ts[c]
                                       /\ granted'[c] = granted[c]
         /\ \/ UNCHANGED <<r2t_tasks, r2t, r2ts, granted>>
            \/ \E s \in R2TTask :
                 /\ Len(r2t_tasks) < MaxR2T /\ r2t_tasks' = Append(r2t_tasks, s)
                 /\ s.c = p.c /\ s.iobuf = Blocks(p.c, 0, p.len) /\ s.R2TSN = r2ts'[p.c]
                 /\ s.DataSN = 0 /\ s.F /\ Write[p.c]
                 /\ p.len = FirstBurst /\ p.len < Length[p.c]
                 /\ granted'[p.c] = Least(MaxBurst, Length[p.c] - FirstBurst)
                 /\ r2t'[p.c] = [off |-> p.len, len |-> granted'[p.c], sent |-> 0, sn |-> 0]
<1>1. TypeOK /\ Immediate /\ p.c \in Cmds /\ p.len \in Nat
  BY DEF IInv, CmdPdu
<1>2. CASE ~NeedsSlot(p)
  <2>1. UNCHANGED <<r2t_tasks, r2t, r2ts, granted>>
    BY <1>2 DEF add_transfer_task, askVars
  <2> QED BY <1>1, <2>1 DEF TypeOK
<1>3. CASE NeedsSlot(p)
  <2> DEFINE s == [c |-> p.c, iobuf |-> Blocks(p.c, 0, p.len), R2TSN |-> 1, DataSN |-> 0,
                   F |-> TRUE]
             len == Least(MaxBurst, Length[p.c] - p.len)
             r == [off |-> p.len, len |-> len, sent |-> 0, sn |-> 0]
  <2>1. /\ r2t_tasks' = Append(r2t_tasks, s)
        /\ r2t' = [r2t EXCEPT ![p.c] = r]
        /\ r2ts' = [r2ts EXCEPT ![p.c] = @ + 1]
        /\ granted' = [granted EXCEPT ![p.c] = @ + len]
    BY <1>3 DEF add_transfer_task, SendR2T
  <2>2. /\ Write[p.c] /\ Len(r2t_tasks) < MaxR2T
        /\ p.len = FirstBurst /\ p.len < Length[p.c]
    <3>1. p.len <= FirstBurst /\ FirstBurst \in Nat
      BY <1>1, CmdFacts DEF Immediate
    <3> QED BY <1>1, <1>3, <3>1 DEF NeedsSlot
  <2>3. len \in Nat
    <3>1. Length[p.c] \in Nat /\ MaxBurst \in Nat
      BY <1>1, CmdFacts
    <3>2. Length[p.c] - p.len \in Nat
      BY <1>1, <2>2, <3>1
    <3> QED BY <3>1, <3>2 DEF Least
  <2>4. granted[p.c] = 0 /\ r2ts[p.c] = 0
    <3>1. ExpCmdSN \in Nat
      BY <1>1, TypeFacts
    <3> QED BY <1>1, <3>1, UnseenFacts DEF Fresh
  <2>5. /\ s \in R2TTask /\ s.c = p.c /\ s.iobuf = Blocks(p.c, 0, p.len) /\ s.R2TSN = 1
        /\ s.DataSN = 0 /\ s.F
    BY <1>1, BlocksFacts DEF R2TTask
  <2>6. r \in R2T
    BY <1>1, <2>3 DEF R2T
  <2> HIDE DEF s, len, r
  <2>7. /\ r2t' \in [Cmds -> R2T \cup {None}] /\ r2t'[p.c] = r
        /\ \A c \in Cmds : c # p.c => r2t'[c] = r2t[c]
    BY <1>1, <2>1, <2>6 DEF TypeOK
  <2>8. /\ r2ts' \in [Cmds -> Nat] /\ r2ts'[p.c] = 1
        /\ \A c \in Cmds : c # p.c => r2ts'[c] = r2ts[c]
    BY <1>1, <2>1, <2>4 DEF TypeOK
  <2>9. /\ granted' \in [Cmds -> Nat] /\ granted'[p.c] = len
        /\ \A c \in Cmds : c # p.c => granted'[c] = granted[c]
    BY <1>1, <2>1, <2>3, <2>4 DEF TypeOK
  <2>10. r2t_tasks' \in Seq(R2TTask)
    BY <1>1, <2>1, <2>5, SlotTypes
  <2>11. len = Least(MaxBurst, Length[p.c] - FirstBurst)
    BY <2>2 DEF len
  <2>12. r2t'[p.c] = [off |-> p.len, len |-> granted'[p.c], sent |-> 0, sn |-> 0]
    BY <2>7, <2>9 DEF r
  <2> QED BY <2>1, <2>2, <2>5, <2>7, <2>8, <2>9, <2>10, <2>11, <2>12
<1> QED BY <1>2, <1>3

(* Where the command goes.                                                 *)
ToUnit(c) ==
  \/ lu_queue' = Append(lu_queue, c) /\ UNCHANGED <<got, status>>
  \/ StatusSent(c, <<>>, "refused") /\ UNCHANGED lu_queue

LEMMA ToUnitFacts ==
  ASSUME IInv, NEW c \in Cmds, c = ExpCmdSN, ToUnit(c)
  PROVE  /\ lu_queue' \in Seq(Cmds) /\ got' = got
         /\ status' \in [Cmds -> Outcomes \cup {"refused", None}]
         /\ \A d \in Cmds : d # c => status'[d] = status[d]
         /\ \A d \in Cmds : Answered(d)' <=> Answered(d)
         /\ \A d \in Cmds : Waits(d)  /\ lu' = lu => Waits(d)'
         /\ \A d \in Cmds : Waits(d)' /\ lu' = lu /\ d # c => Waits(d)
         /\ lu' = lu => Waits(c)' \/ status'[c] = "refused"
         /\ \A i \in DOMAIN lu_queue' :
              \/ i \in DOMAIN lu_queue /\ lu_queue'[i] = lu_queue[i]
              \/ i \notin DOMAIN lu_queue /\ i = Len(lu_queue) + 1
                 /\ lu_queue'[i] = c /\ status'[c] = None
<1>1. TypeOK /\ ExpCmdSN \in Nat /\ c >= ExpCmdSN
  <2>1. TypeOK /\ c \in Nat
    BY CmdFacts DEF IInv
  <2> QED BY <2>1, TypeFacts
<1>2. status[c] = None /\ got[c] = <<>> /\ ~Answered(c)
  BY <1>1, UnseenFacts
<1>3. lu_queue \in Seq(Cmds) /\ DOMAIN lu_queue = 1 .. Len(lu_queue) /\ Len(lu_queue) \in Nat
  BY <1>1 DEF TypeOK
<1>4. CASE lu_queue' = Append(lu_queue, c) /\ UNCHANGED <<got, status>>
  <2>1. /\ lu_queue' \in Seq(Cmds) /\ DOMAIN lu_queue' = 1 .. Len(lu_queue) + 1
        /\ \A i \in DOMAIN lu_queue : lu_queue'[i] = lu_queue[i]
        /\ lu_queue'[Len(lu_queue) + 1] = c /\ Len(lu_queue) + 1 \notin DOMAIN lu_queue
        /\ DOMAIN lu_queue' = DOMAIN lu_queue \cup {Len(lu_queue) + 1}
    BY <1>3, <1>4
  <2>2. \A d \in Cmds : Waits(d) /\ lu' = lu => Waits(d)'
    BY <2>1 DEF Waits
  <2>3. \A d \in Cmds : Waits(d)' /\ lu' = lu /\ d # c => Waits(d)
    BY <2>1 DEF Waits
  <2>4. Waits(c)'
    BY <2>1 DEF Waits
  <2>5. \A i \in DOMAIN lu_queue' :
          \/ i \in DOMAIN lu_queue /\ lu_queue'[i] = lu_queue[i]
          \/ i \notin DOMAIN lu_queue /\ i = Len(lu_queue) + 1
             /\ lu_queue'[i] = c /\ status'[c] = None
    BY <1>2, <1>4, <2>1
  <2>6. status' \in [Cmds -> Outcomes \cup {"refused", None}]
    BY <1>1, <1>4 DEF TypeOK
  <2>7. \A d \in Cmds : (Answered(d)' <=> Answered(d)) /\ status'[d] = status[d]
    BY <1>4 DEF Answered
  <2> QED BY <1>4, <2>1, <2>2, <2>3, <2>4, <2>5, <2>6, <2>7
<1>5. CASE StatusSent(c, <<>>, "refused") /\ UNCHANGED lu_queue
  <2>1. got' = [got EXCEPT ![c] = @ \o <<>>] /\ status' = [status EXCEPT ![c] = "refused"]
    BY <1>5 DEF StatusSent
  <2>2. got' = got
    <3>1. got[c] \o <<>> = got[c]
      BY <1>2
    <3>2. got \in [Cmds -> Seq(DataIn)]
      BY <1>1 DEF TypeOK
    <3> QED BY <2>1, <3>1, <3>2
  <2>3. /\ status' \in [Cmds -> Outcomes \cup {"refused", None}] /\ status'[c] = "refused"
        /\ \A d \in Cmds : d # c => status'[d] = status[d]
    BY <1>1, <2>1 DEF TypeOK
  <2>4. \A d \in Cmds : Answered(d)' <=> Answered(d)
    BY <1>2, <2>3 DEF Answered
  <2>5. \A d \in Cmds : lu' = lu => (Waits(d)' <=> Waits(d))
    BY <1>5 DEF Waits
  <2> QED BY <1>3, <1>5, <2>2, <2>3, <2>4, <2>5
<1> QED BY <1>4, <1>5 DEF ToUnit

(* The next command, from the connection or from the PDUs set aside, of    *)
(* which one is gone, while no transfer is in progress.                    *)
LEMMA CommandStep ==
  ASSUME IInv, NEW p \in CmdPdu, p.c = ExpCmdSN, p.len = imm[p.c], x = None,
         add_transfer_task(p), ToUnit(p.c), ExpCmdSN' = p.c + 1,
         pc' \in {"poll", "drain"}, InOrder', net' \in Seq(Pdu), pending_pdus' \in Seq(CmdPdu),
         UNCHANGED <<x, rejects, task_queue, lu, stored, nextC, imm, reused>>,
         \A c \in Cmds : \A sn, pos \in Nat :
           Chain(net, r2t[c], c, sn, pos, End(c)) => Chain(net', r2t[c], c, sn, pos, End(c)),
         \A c : DataOf(net, c) = {} => DataOf(net', c) = {}
  PROVE  IInv'
<1>1. /\ TypeOK /\ NotDropped /\ OwnData /\ Immediate /\ Places /\ Tags /\ SlotsFit
      /\ Idle /\ Reads /\ Window /\ p.c \in Cmds /\ p.len \in Nat
  BY DEF IInv, CmdPdu
<1> DEFINE e == p.c
<1>2. ExpCmdSN \in Nat /\ e \in Nat /\ e = ExpCmdSN /\ ExpCmdSN' = e + 1 /\ e \in Cmds
  BY <1>1, TypeFacts
<1>3. /\ status[e] = None /\ Fresh(e) /\ ~Holder(e) /\ ~Answered(e)
      /\ DataOf(net, e) = {} /\ r2t[e] = None
  BY <1>2, UnseenFacts
<1> HIDE DEF e
<1>4. /\ lu_queue' \in Seq(Cmds) /\ got' = got
      /\ status' \in [Cmds -> Outcomes \cup {"refused", None}]
      /\ \A d \in Cmds : d # e => status'[d] = status[d]
      /\ \A d \in Cmds : Answered(d)' <=> Answered(d)
      /\ \A d \in Cmds : Waits(d) => Waits(d)'
      /\ \A d \in Cmds : Waits(d)' /\ d # e => Waits(d)
      /\ Waits(e)' \/ status'[e] = "refused"
      /\ \A i \in DOMAIN lu_queue' :
           \/ i \in DOMAIN lu_queue /\ lu_queue'[i] = lu_queue[i]
           \/ i \notin DOMAIN lu_queue /\ i = Len(lu_queue) + 1
              /\ lu_queue'[i] = e /\ status'[e] = None
  <2>1. ToUnit(e) /\ lu' = lu
    BY DEF e
  <2> QED BY <1>2, <2>1, ToUnitFacts
<1>5. /\ r2t' \in [Cmds -> R2T \cup {None}] /\ r2ts' \in [Cmds -> Nat]
      /\ granted' \in [Cmds -> Nat] /\ r2t_tasks' \in Seq(R2TTask)
      /\ \A c \in Cmds : c # e => /\ r2t'[c] = r2t[c] /\ r2ts'[c] = r2ts[c]
                                  /\ granted'[c] = granted[c]
      /\ \/ UNCHANGED <<r2t_tasks, r2t, r2ts, granted>>
         \/ \E s \in R2TTask :
              /\ Len(r2t_tasks) < MaxR2T /\ r2t_tasks' = Append(r2t_tasks, s)
              /\ s.c = e /\ s.iobuf = Blocks(e, 0, p.len) /\ s.R2TSN = r2ts'[e]
              /\ s.DataSN = 0 /\ s.F /\ Write[e]
              /\ p.len = FirstBurst /\ p.len < Length[e]
              /\ granted'[e] = Least(MaxBurst, Length[e] - FirstBurst)
              /\ r2t'[e] = [off |-> p.len, len |-> granted'[e], sent |-> 0, sn |-> 0]
  BY AddTransferTask DEF e
<1>6. TypeOK'
  <2>1. pc' \in {"poll", "drain", "xfer", "exit"} /\ net' \in Seq(CmdPdu \cup DataPdu)
    BY DEF Pdu
  <2>2. /\ x' \in Xfer \cup {None} /\ task_queue' \in Seq({"out", "rsp"} \X Cmds)
        /\ lu' \in LuTask \cup {None} /\ ExpCmdSN' \in Nat /\ rejects' \in Nat
        /\ stored' \in [Cmds -> Buffer] /\ nextC' \in Nat /\ imm' \in [Cmds -> Nat]
        /\ got' \in [Cmds -> Seq(DataIn)] /\ reused' \in BOOLEAN
    BY <1>1, <1>2, <1>4 DEF TypeOK
  <2> QED BY <1>4, <1>5, <2>1, <2>2 DEF TypeOK
<1>7. NotDropped' /\ OwnData' /\ Immediate'
  BY <1>1 DEF NotDropped, OwnData, Immediate
<1>8. Reads'
  <2>1. \A c \in Cmds : ~Answered(c)' => got'[c] = <<>>
    BY <1>1, <1>4 DEF Reads
  <2>2. ASSUME NEW c \in Cmds, Answered(c)', ~Write[c]
        PROVE  got'[c] = IF status'[c] = "conflict" THEN <<>> ELSE TransferIn(c, status'[c])
    <3>1. Answered(c) /\ c # e
      BY <1>3, <1>4, <2>2
    <3>2. status'[c] = status[c] /\ got'[c] = got[c]
      BY <1>4, <3>1
    <3> QED BY <1>1, <2>2, <3>1, <3>2 DEF Reads
  <2> QED BY <2>1, <2>2 DEF Reads, TransferIn
<1>9. Tags'
  <2>1. \A c \in Cmds : Live(c)' => Live(c)
    BY <1>3, <1>4, <1>5 DEF Live, Leftover
  <2> QED BY <1>1, <2>1, TagsSame DEF IInv
<1>10. Window'
  <2>1. \A c \in 1 .. nextC - 1 : status'[c] = None => status[c] = None
    <3> SUFFICES ASSUME NEW c \in 1 .. nextC - 1, status'[c] = None PROVE status[c] = None
      OBVIOUS
    <3>1. c \in Cmds
      <4>1. nextC' <= Len(Length) + 1 /\ nextC \in Nat /\ nextC' = nextC
        BY <1>1, TypeFacts DEF InOrder
      <4> QED BY <4>1, CmdFacts
    <3> QED BY <1>3, <1>4, <3>1
  <2> QED BY <1>1, <2>1, WindowSame
<1>11. Places'
  <2>1. Unseen'
    <3> SUFFICES ASSUME NEW c \in Cmds, c >= ExpCmdSN' PROVE status'[c] = None /\ Fresh(c)'
      BY DEF Unseen
    <3>1. c # e /\ c >= ExpCmdSN
      BY <1>2, CmdFacts
    <3>2. status[c] = None /\ Fresh(c)
      BY <1>1, <3>1 DEF Places, Unseen
    <3>3. status'[c] = status[c]
      BY <1>4, <3>1
    <3>4. r2ts'[c] = r2ts[c] /\ granted'[c] = granted[c]
      BY <1>5, <3>1
    <3> QED BY <3>2, <3>3, <3>4 DEF Fresh
  <2>2. \A c \in Cmds : c < ExpCmdSN => c < ExpCmdSN' /\ c # e /\ status'[c] = status[c]
    BY <1>2, <1>4, CmdFacts
  <2>3. Running'
    BY <1>1, <2>2, QueueFacts DEF Places, Running
  <2>4. Asked'
    BY <1>1, <2>2, QueueFacts DEF Places, Asked
  <2>5. Queued'
    <3> SUFFICES ASSUME NEW i \in DOMAIN lu_queue'
                 PROVE  /\ lu_queue'[i] < ExpCmdSN' /\ status'[lu_queue'[i]] = None
                        /\ lu # None => lu[2] # lu_queue'[i]
                        /\ \A j \in DOMAIN task_queue : task_queue[j][2] # lu_queue'[i]
                        /\ \A j \in DOMAIN lu_queue' : lu_queue'[i] = lu_queue'[j] => i = j
      BY DEF Queued
    <3>1. \A j \in DOMAIN lu_queue : lu_queue[j] < ExpCmdSN /\ lu_queue[j] \in Cmds /\ lu_queue[j] # e
      BY <1>1, <1>2, QueueFacts DEF Places, Queued
    <3>2. CASE i \in DOMAIN lu_queue /\ lu_queue'[i] = lu_queue[i]
      <4>1. \A j \in DOMAIN lu_queue' : lu_queue'[i] = lu_queue'[j] => i = j
        BY <1>1, <1>4, <3>1, <3>2 DEF Places, Queued
      <4>2. lu_queue[i] < ExpCmdSN' /\ status'[lu_queue[i]] = None
        BY <1>1, <2>2, <3>1, <3>2 DEF Places, Queued
      <4> QED BY <1>1, <3>2, <4>1, <4>2 DEF Places, Queued
    <3>3. CASE /\ i \notin DOMAIN lu_queue /\ i = Len(lu_queue) + 1
               /\ lu_queue'[i] = e /\ status'[e] = None
      <4>1. \A j \in DOMAIN lu_queue' : lu_queue'[i] = lu_queue'[j] => i = j
        BY <1>4, <3>1, <3>3
      <4>2. lu # None => lu[2] # e
        BY <1>1, <1>2, QueueFacts DEF Places, Running
      <4>3. \A j \in DOMAIN task_queue : task_queue[j][2] # e
        BY <1>1, <1>2, QueueFacts DEF Places, Asked
      <4> QED BY <1>2, <3>3, <4>1, <4>2, <4>3
    <3> QED BY <1>4, <3>2, <3>3
  <2> QED BY <2>1, <2>3, <2>4, <2>5 DEF Places
<1>12. \A r \in R2TTask : SlotFits(r) => SlotFits(r)'
  <2> SUFFICES ASSUME NEW r \in R2TTask, SlotFits(r) PROVE SlotFits(r)'
    OBVIOUS
  <2>1. /\ r.c \in Cmds /\ r.DataSN \in Nat /\ Len(r.iobuf) \in Nat
        /\ r.c < ExpCmdSN /\ Chain(net, r2t[r.c], r.c, r.DataSN, Len(r.iobuf), End(r.c))
        /\ Waits(r.c) \/ status[r.c] = "refused"
    BY R2TTaskFacts DEF SlotFits
  <2>2. r.c < ExpCmdSN' /\ r.c # e
    BY <1>2, <2>1, CmdFacts
  <2>3. Waits(r.c)' \/ status'[r.c] = "refused"
    BY <1>4, <2>1, <2>2
  <2>4. Chain(net', r2t[r.c], r.c, r.DataSN, Len(r.iobuf), End(r.c))
    BY <2>1
  <2>5. /\ imm'[r.c] = imm[r.c] /\ granted'[r.c] = granted[r.c] /\ r2ts'[r.c] = r2ts[r.c]
        /\ r2t'[r.c] = r2t[r.c]
    BY <1>5, <2>1, <2>2
  <2>6. Chain(net', r2t'[r.c], r.c, r.DataSN, Len(r.iobuf), End(r.c))
    BY <2>4, <2>5
  <2> QED BY <2>2, <2>3, <2>5, <2>6, SlotFrame
<1>13. XferFits'
  BY DEF XferFits
<1>14. CASE UNCHANGED <<r2t_tasks, r2t, r2ts, granted>>
  <2>1. SlotsFit'
    BY <1>1, <1>12, <1>14, SlotsSame
  <2>2. Idle'
    <3> SUFFICES ASSUME NEW c \in Cmds, ~Holder(c)'
                 PROVE  DataOf(net', c) = {} /\ r2t'[c] = None /\ (Waits(c)' => Fresh(c)')
      BY DEF Idle
    <3>1. ~Holder(c)
      BY <1>14 DEF Holder
    <3>2. DataOf(net, c) = {} /\ r2t[c] = None /\ (Waits(c) => Fresh(c))
      BY <1>1, <3>1 DEF Idle
    <3>3. Waits(c)' => Fresh(c)
      BY <1>3, <1>4, <3>2
    <3> QED BY <1>14, <3>2, <3>3 DEF Fresh
  <2> QED BY <1>6, <1>7, <1>8, <1>9, <1>10, <1>11, <1>13, <2>1, <2>2 DEF IInv
<1>15. ASSUME NEW s \in R2TTask,
              Len(r2t_tasks) < MaxR2T, r2t_tasks' = Append(r2t_tasks, s),
              s.c = e, s.iobuf = Blocks(e, 0, p.len), s.R2TSN = r2ts'[e],
              s.DataSN = 0, s.F, Write[e], p.len = FirstBurst, p.len < Length[e],
              granted'[e] = Least(MaxBurst, Length[e] - FirstBurst),
              r2t'[e] = [off |-> p.len, len |-> granted'[e], sent |-> 0, sn |-> 0]
       PROVE  IInv'
  <2>1. /\ r2t_tasks \in Seq(R2TTask) /\ DOMAIN r2t_tasks = 1 .. Len(r2t_tasks)
        /\ Len(r2t_tasks) \in Nat /\ \A i \in DOMAIN r2t_tasks : r2t_tasks[i] \in R2TTask
    BY <1>1, SlotTypes
  <2>2. /\ DOMAIN r2t_tasks' = DOMAIN r2t_tasks \cup {Len(r2t_tasks) + 1}
        /\ Len(r2t_tasks') = Len(r2t_tasks) + 1
        /\ \A i \in DOMAIN r2t_tasks : r2t_tasks'[i] = r2t_tasks[i]
        /\ r2t_tasks'[Len(r2t_tasks) + 1] = s
    BY <1>15, <2>1
  <2>3. \A i \in DOMAIN r2t_tasks : r2t_tasks[i].c # e
    BY <1>3 DEF Holder
  <2>4. SlotFits(s)'
    <3> DEFINE n == p.len  g == granted'[e]
    <3>1. /\ n \in Nat /\ Length[e] \in Nat /\ FirstBurst \in Nat /\ MaxBurst \in Nat
          /\ MaxBurst > 0 /\ n = FirstBurst /\ n < Length[e]
      BY <1>1, <1>2, <1>15, CmdFacts
    <3>2. g \in Nat \ {0}
      BY <1>15, <3>1 DEF Least
    <3>3. Len(s.iobuf) = n /\ s.iobuf = Blocks(e, 0, n)
      <4>1. \A m \in Nat : Len(Blocks(e, 0, m)) = m
        BY <1>2, BlocksFacts
      <4>2. s.iobuf = Blocks(e, 0, n)
        BY <1>15
      <4> HIDE DEF n
      <4> QED BY <3>1, <4>1, <4>2
    <3>4. Chain(net', r2t'[e], e, 0, n, n + g)
      <4>1. DataOf(net', e) = {}
        BY <1>3
      <4>2. r2t'[e] = [off |-> n, len |-> g, sent |-> 0, sn |-> 0]
        BY <1>15
      <4> HIDE DEF n, g
      <4>3. Chain(net', [off |-> n, len |-> g, sent |-> 0, sn |-> 0], e, 0, n, n + g)
        BY <3>1, <3>2, <4>1, ChainGrant
      <4> QED BY <4>2, <4>3
    <3>5. imm'[e] = n
      BY <1>15 DEF e
    <3>6. e < ExpCmdSN'
      BY <1>2
    <3> HIDE DEF n, g
    <3>7. End(e)' = n + g
      BY <3>5 DEF End, g
    <3>8. n + g \in Nat /\ n <= n + g /\ n # n + g
      BY <3>1, <3>2
    <3>9. g = Least(MaxBurst, Length[e] - FirstBurst) /\ g = granted'[e]
      BY <1>15 DEF g
    <3> QED
      BY <1>4, <1>15, <3>1, <3>3, <3>4, <3>5, <3>6, <3>7, <3>8, <3>9 DEF SlotFits
  <2>5. SlotsFit'
    <3>1. \A i \in DOMAIN r2t_tasks' : SlotFits(r2t_tasks[i])'
      <4> SUFFICES ASSUME NEW i \in DOMAIN r2t_tasks' PROVE SlotFits(r2t_tasks[i])'
        OBVIOUS
      <4>1. CASE i \in DOMAIN r2t_tasks
        <5>1. PICK r \in R2TTask : r = r2t_tasks[i]
          BY <2>1, <4>1
        <5>2. SlotFits(r)
          BY <1>1, <4>1, <5>1 DEF SlotsFit
        <5>3. SlotFits(r)' /\ r = r2t_tasks'[i]
          BY <1>12, <2>2, <4>1, <5>1, <5>2
        <5> QED BY <5>3
      <4>2. CASE i = Len(r2t_tasks) + 1
        <5>1. s = r2t_tasks'[i]
          BY <2>2, <4>2
        <5> QED BY <2>4, <5>1
      <4> QED BY <2>2, <4>1, <4>2
    <3>2. \A i, j \in DOMAIN r2t_tasks' : r2t_tasks'[i].c = r2t_tasks'[j].c => i = j
      BY <1>1, <1>15, <2>2, <2>3 DEF SlotsFit
    <3>3. Len(r2t_tasks') <= MaxR2T
      BY <1>15, <2>1, <2>2, CmdFacts
    <3> QED BY <3>1, <3>2, <3>3 DEF SlotsFit
  <2>6. Idle'
    <3> SUFFICES ASSUME NEW c \in Cmds, ~Holder(c)'
                 PROVE  DataOf(net', c) = {} /\ r2t'[c] = None /\ (Waits(c)' => Fresh(c)')
      BY DEF Idle
    <3>1. ~Holder(c) /\ c # e
      BY <1>15, <2>2 DEF Holder
    <3>2. DataOf(net, c) = {} /\ r2t[c] = None /\ (Waits(c) => Fresh(c))
      BY <1>1, <3>1 DEF Idle
    <3>3. Waits(c)' => Fresh(c)
      BY <1>4, <3>1, <3>2
    <3> QED BY <1>5, <3>1, <3>2, <3>3 DEF Fresh
  <2> QED BY <1>6, <1>7, <1>8, <1>9, <1>10, <1>11, <1>13, <2>5, <2>6 DEF IInv
<1> QED BY <1>5, <1>14, <1>15

-----------------------------------------------------------------------------
(* PDUs from the connection and those set aside.                           *)

LEMMA ExecutePendingStep ==
  ASSUME IInv, ExecutePending
  PROVE  IInv'
<1>1. TypeOK /\ InOrder /\ XferFits /\ NotDropped
  BY DEF IInv
<1>2. /\ pc = "drain" /\ pending_pdus' = Tail(pending_pdus)
      /\ op_scsi(Head(pending_pdus), pending_pdus')
      /\ UNCHANGED <<x, net, rejects, task_queue, lu, stored, nextC, imm, reused>>
  BY DEF ExecutePending
<1>3. /\ pending_pdus \in Seq(CmdPdu) /\ pending_pdus # <<>> /\ Len(pending_pdus) \in Nat
      /\ Len(pending_pdus) > 0 /\ ExpCmdSN \in Nat /\ nextC \in Nat /\ net \in Seq(Pdu)
  <2>1. pending_pdus \in Seq(CmdPdu) /\ pending_pdus # <<>>
    BY <1>1, <1>2, TypeFacts DEF InOrder
  <2> QED BY <1>1, <2>1, TypeFacts
<1>4. PICK p \in CmdPdu : p = Head(pending_pdus) /\ p = pending_pdus[1]
  BY <1>3
<1>5. p.c = ExpCmdSN /\ p.len = imm[p.c]
  <2>1. 1 \in DOMAIN pending_pdus
    BY <1>3
  <2>2. p.c = ExpCmdSN + 1 - 1 /\ p.len = imm[ExpCmdSN + 1 - 1] /\ ExpCmdSN + 1 - 1 = ExpCmdSN
    BY <1>1, <1>3, <1>4, <2>1 DEF InOrder
  <2> QED BY <2>2
<1>6. /\ ExpCmdSN' = p.c + 1 /\ add_transfer_task(p) /\ ToUnit(p.c)
      /\ pc' = AfterPdu(pending_pdus')
  <2>1. op_scsi(p, pending_pdus')
    BY <1>2, <1>4
  <2>2. ~(p.c < ExpCmdSN)
    BY <1>3, <1>5
  <2> QED BY <2>1, <2>2 DEF op_scsi, ToUnit
<1>7. x = None
  BY <1>1, <1>2 DEF XferFits
<1>8. /\ pending_pdus' \in Seq(CmdPdu) /\ Len(pending_pdus') = Len(pending_pdus) - 1
      /\ DOMAIN pending_pdus' = 1 .. Len(pending_pdus) - 1
      /\ \A i \in 1 .. Len(pending_pdus) - 1 : pending_pdus'[i] = pending_pdus[i + 1]
      /\ DOMAIN pending_pdus = 1 .. Len(pending_pdus)
  BY <1>2, <1>3
<1>9. InOrder'
  <2>1. ExpCmdSN' + Len(pending_pdus') = ExpCmdSN + Len(pending_pdus) /\ ExpCmdSN' = ExpCmdSN + 1
    BY <1>3, <1>5, <1>6, <1>8
  <2>2. /\ ExpCmdSN + Len(pending_pdus) <= nextC /\ nextC <= Len(Length) + 1
        /\ ExpCmdSN >= 1 /\ Stream(net, imm, ExpCmdSN + Len(pending_pdus), nextC)
    BY <1>1 DEF InOrder
  <2>3. ASSUME NEW i \in DOMAIN pending_pdus'
        PROVE  /\ pending_pdus'[i].c = ExpCmdSN' + i - 1
               /\ pending_pdus'[i].len = imm[ExpCmdSN' + i - 1]
    <3>1. i \in Nat /\ i + 1 \in DOMAIN pending_pdus /\ pending_pdus'[i] = pending_pdus[i + 1]
      BY <1>3, <1>8
    <3>2. /\ pending_pdus[i + 1].c = ExpCmdSN + (i + 1) - 1
          /\ pending_pdus[i + 1].len = imm[ExpCmdSN + (i + 1) - 1]
      BY <1>1, <3>1 DEF InOrder
    <3>3. ExpCmdSN + (i + 1) - 1 = ExpCmdSN' + i - 1
      BY <1>3, <2>1, <3>1
    <3> QED BY <3>1, <3>2, <3>3
  <2>4. (pc' = "poll" => pending_pdus' = <<>>) /\ (pc' = "drain" => pending_pdus' # <<>>)
    BY <1>6 DEF AfterPdu
  <2>5. ExpCmdSN' >= 1
    BY <1>3, <2>1
  <2> QED BY <1>2, <2>1, <2>2, <2>3, <2>4, <2>5 DEF InOrder
<1>10. pc' \in {"poll", "drain"}
  BY <1>6 DEF AfterPdu
<1>11. /\ \A c \in Cmds : \A sn, pos \in Nat :
            Chain(net, r2t[c], c, sn, pos, End(c)) => Chain(net', r2t[c], c, sn, pos, End(c))
       /\ \A c : DataOf(net, c) = {} => DataOf(net', c) = {}
  BY <1>2
<1> QED BY <1>2, <1>3, <1>5, <1>6, <1>7, <1>8, <1>9, <1>10, <1>11, CommandStep

(* A Data-Out that is not for the transfer in progress goes to the slot of *)
(* its command, at the place it has reached.                               *)
LEMMA OpDataStep ==
  ASSUME IInv, net # <<>>, net' = Tail(net), Head(net).op = "data",
         x = None \/ Tag[Head(net).c] # Tag[x.c], op_data(Head(net)),
         UNCHANGED <<askVars, ExpCmdSN, lu_queue, got, status, x, pending_pdus,
                     task_queue, lu, stored, nextC, imm, reused>>
  PROVE  IInv'
<1>1. /\ TypeOK /\ NotDropped /\ OwnData /\ InOrder /\ Immediate /\ Places /\ Tags
      /\ SlotsFit /\ XferFits /\ Idle /\ Reads /\ Window
  BY DEF IInv
<1>2. UNCHANGED <<r2t, r2ts, granted>>
  BY DEF askVars
<1>3. net \in Seq(Pdu) /\ Tail(net) \in Seq(Pdu) /\ Head(net) \in Pdu
  BY <1>1, TypeFacts, TailPdu
<1>4. PICK p \in DataPdu : p = Head(net) /\ p.op = "data"
  BY <1>3 DEF Pdu, CmdPdu
<1>5. p.c \in Cmds /\ p.sn \in Nat /\ p.off \in Nat /\ p.len \in Nat /\ p.F \in BOOLEAN
  BY DEF DataPdu
<1> DEFINE e == p.c
<1> HIDE DEF e
<1>6. Holder(e)
  <2>1. 1 \in DataOf(net, e)
    BY <1>3, <1>4, TailPdu DEF DataOf, e
  <2> QED BY <1>1, <1>5, <2>1 DEF Idle, e
<1>7. e \in Cmds /\ e < ExpCmdSN /\ Live(e)
  BY <1>6, HolderFacts
<1>8. ~(x # None /\ x.c = e)
  BY <1>4 DEF e
<1>9. PICK i \in DOMAIN r2t_tasks : i = SlotOf(e) /\ i # 0 /\ r2t_tasks[i].c = e
  <2>1. SlotOf(e) # 0
    BY <1>6, <1>7, <1>8, SlotOfFacts DEF Holder
  <2> QED BY <1>7, <2>1, SlotOfFacts
<1>10. PICK r \in R2TTask : r = r2t_tasks[i] /\ r.c = e
  BY <1>1, <1>9, SlotTypes
<1> DEFINE n == Len(r.iobuf)
<1>11. /\ SlotFits(r) /\ r.iobuf \in Buffer /\ n \in Nat /\ r.DataSN \in Nat
       /\ Chain(net, r2t[e], e, r.DataSN, n, End(e)) /\ End(e) \in Nat
       /\ (r2t[e] # None => r2t[e] \in R2T) /\ r.iobuf = Blocks(e, 0, n)
  <2>1. SlotFits(r)
    BY <1>1, <1>10 DEF SlotsFit
  <2> QED BY <1>1, <1>7, <1>10, <2>1, R2TTaskFacts, TypeFacts DEF SlotFits
<1>12. /\ p.sn = r.DataSN /\ p.off = n /\ p.len \in Nat \ {0} /\ n + p.len <= End(e)
       /\ (p.F <=> n + p.len = End(e))
       /\ Chain(net', r2t[e], e, r.DataSN + 1, n + p.len, End(e))
  <2>1. Head(net).op = "data" /\ Head(net).c = e
    BY <1>4 DEF e
  <2> HIDE DEF n
  <2>2. LET h == Head(net) IN
        /\ h \in DataPdu /\ h.sn = r.DataSN /\ h.off = n /\ h.len \in Nat \ {0}
        /\ n + h.len <= End(e) /\ (h.F <=> n + h.len = End(e))
        /\ Chain(Tail(net), r2t[e], e, r.DataSN + 1, n + h.len, End(e))
    BY <1>3, <1>11, <2>1, ChainTailOwn
  <2> QED BY <1>4, <2>2
<1> DEFINE s == [r EXCEPT !.iobuf = @ \o Blocks(p.c, p.off, p.len), !.DataSN = @ + 1, !.F = p.F]
<1>13. /\ s \in R2TTask /\ s.c = e /\ s.R2TSN = r.R2TSN /\ s.DataSN = r.DataSN + 1
       /\ s.F = p.F /\ s.iobuf = Blocks(e, 0, n + p.len) /\ Len(s.iobuf) = n + p.len
  <2> HIDE DEF n
  <2>1. r.iobuf \o Blocks(p.c, p.off, p.len) = Blocks(e, 0, n + p.len)
    <3>1. Blocks(e, 0, n) \o Blocks(e, n, p.len) = Blocks(e, 0, n + p.len)
      BY <1>5, <1>7, <1>11, BlocksFacts
    <3>2. p.c = e /\ p.off = n /\ r.iobuf = Blocks(e, 0, n)
      BY <1>11, <1>12 DEF e
    <3> QED BY <3>1, <3>2
  <2>2. n + p.len \in Nat
    BY <1>5, <1>11
  <2>3. Blocks(e, 0, n + p.len) \in Buffer /\ Len(Blocks(e, 0, n + p.len)) = n + p.len
    BY <1>7, <2>2, BlocksFacts
  <2>4. s = [r EXCEPT !.iobuf = Blocks(e, 0, n + p.len), !.DataSN = @ + 1, !.F = p.F]
    BY <2>1
  <2>5. r.DataSN + 1 \in Nat
    BY <1>11
  <2> HIDE DEF s
  <2> QED BY <1>5, <1>10, <2>3, <2>4, <2>5 DEF R2TTask
<1> HIDE DEF s
<1>14. Filed(p) = [r2t_tasks EXCEPT ![i] = s] /\ Filed(p) # None /\ Filed(p) \in Seq(R2TTask)
  <2>1. SlotOf(p.c) = i /\ p.sn = r.DataSN /\ p.off = Len(r.iobuf)
    BY <1>9, <1>12 DEF e
  <2>2. Filed(p) = [r2t_tasks EXCEPT ![i] = s]
    BY <1>10, <2>1 DEF Filed, s
  <2>3. [r2t_tasks EXCEPT ![i] = s] \in Seq(R2TTask)
    BY <1>1, <1>9, <1>13, SlotTypes
  <2> QED BY <2>2, <2>3, NoneAssumption
<1>15. r2t_tasks' = [r2t_tasks EXCEPT ![i] = s] /\ UNCHANGED <<pc, rejects>>
  <2>1. op_data(p) /\ SlotOf(p.c) # 0
    BY <1>4, <1>9 DEF e
  <2> QED BY <1>14, <2>1 DEF op_data
<1>16. /\ r2t_tasks' \in Seq(R2TTask) /\ DOMAIN r2t_tasks' = DOMAIN r2t_tasks
       /\ Len(r2t_tasks') = Len(r2t_tasks) /\ r2t_tasks'[i] = s
       /\ \A j \in DOMAIN r2t_tasks : j # i => r2t_tasks'[j] = r2t_tasks[j]
       /\ \A j \in DOMAIN r2t_tasks : r2t_tasks'[j].c = r2t_tasks[j].c
  <2>1. /\ r2t_tasks \in Seq(R2TTask) /\ DOMAIN r2t_tasks = 1 .. Len(r2t_tasks)
    BY <1>1, SlotTypes
  <2> QED BY <1>9, <1>10, <1>13, <1>14, <1>15, <2>1
<1>17. TypeOK'
  <2>1. net' \in Seq(CmdPdu \cup DataPdu)
    BY <1>3 DEF Pdu
  <2> QED BY <1>1, <1>2, <1>15, <1>16, <2>1 DEF TypeOK
<1>18. NotDropped' /\ OwnData' /\ Reads' /\ Immediate' /\ Tags' /\ Window'
  <2>1. NotDropped' /\ OwnData' /\ Immediate' /\ Window'
    BY <1>1, <1>15 DEF NotDropped, OwnData, Immediate, Window
  <2>2. Reads'
    BY <1>1, <1>15 DEF Reads, Answered, TransferIn
  <2>3. Tags'
    BY <1>1, <1>2, <1>15 DEF Tags, Live, Leftover
  <2> QED BY <2>1, <2>2, <2>3
<1>19. InOrder'
  <2>1. ExpCmdSN + Len(pending_pdus) \in Nat /\ nextC \in Nat
    <3>1. Len(pending_pdus) \in Nat /\ ExpCmdSN \in Nat /\ nextC \in Nat
      BY <1>1, TypeFacts
    <3> QED BY <3>1
  <2>2. Stream(net', imm, ExpCmdSN + Len(pending_pdus), nextC)
    BY <1>1, <1>3, <2>1, StreamTail DEF InOrder
  <2> QED BY <1>1, <1>15, <2>2 DEF InOrder
<1>20. Places'
  BY <1>1, <1>2 DEF Places, Unseen, Queued, Running, Asked, Fresh
<1>21. \A c \in Cmds : \A sn, pos \in Nat :
         c # e /\ Chain(net, r2t[c], c, sn, pos, End(c)) => Chain(net', r2t'[c], c, sn, pos, End(c))
  BY <1>1, <1>2, <1>4, TailKeeps DEF e
<1>22. \A c \in Cmds : Waits(c)' <=> Waits(c)
  BY DEF Waits
<1>23. ASSUME NEW q \in R2TTask, SlotFits(q), q.c # e PROVE SlotFits(q)'
  <2>1. /\ q.c \in Cmds /\ q.DataSN \in Nat /\ Len(q.iobuf) \in Nat
        /\ q.c < ExpCmdSN /\ Chain(net, r2t[q.c], q.c, q.DataSN, Len(q.iobuf), End(q.c))
        /\ Waits(q.c) \/ status[q.c] = "refused"
    BY <1>23, R2TTaskFacts DEF SlotFits
  <2>2. Waits(q.c)' \/ status'[q.c] = "refused"
    BY <1>22, <2>1
  <2>3. Chain(net', r2t'[q.c], q.c, q.DataSN, Len(q.iobuf), End(q.c))
    BY <1>21, <1>23, <2>1
  <2> QED BY <1>2, <1>23, <2>1, <2>2, <2>3, SlotFrame
<1>24. SlotFits(s)'
  <2> DEFINE m == n + p.len
  <2>1. m \in Nat /\ n <= m /\ m <= End(e) /\ (p.F <=> m = End(e))
    <3> HIDE DEF n
    <3> QED BY <1>5, <1>11, <1>12
  <2>2. /\ e < ExpCmdSN /\ Write[e]
        /\ imm[e] = FirstBurst /\ granted[e] = Least(MaxBurst, Length[e] - FirstBurst)
        /\ FirstBurst < Length[e] /\ r.R2TSN = r2ts[e] /\ imm[e] <= n
        /\ Waits(e) \/ status[e] = "refused"
    BY <1>10, <1>11 DEF SlotFits
  <2>3. imm[e] <= m
    <3>1. imm[e] \in Nat
      BY <1>1, <1>7, TypeFacts
    <3> HIDE DEF n, m
    <3> QED BY <1>11, <2>1, <2>2, <3>1
  <2>4. /\ s.R2TSN = r2ts'[e] /\ s.iobuf = Blocks(e, 0, m) /\ Len(s.iobuf) = m
        /\ (m = End(e) => s.F)
    BY <1>2, <1>13, <2>1, <2>2
  <2>5. Chain(net', r2t'[e], e, s.DataSN, m, End(e))
    BY <1>2, <1>12, <1>13
  <2>6. End(e)' = End(e) /\ (Waits(e)' \/ status'[e] = "refused")
    BY <1>2, <1>7, <1>22, <2>2 DEF End
  <2> HIDE DEF m, n
  <2> QED BY <1>2, <1>13, <2>1, <2>2, <2>3, <2>4, <2>5, <2>6 DEF SlotFits
<1>25. SlotsFit'
  <2>1. ASSUME NEW j \in DOMAIN r2t_tasks' PROVE SlotFits(r2t_tasks[j])'
    <3>1. CASE j = i
      BY <1>16, <1>24, <3>1
    <3>2. CASE j # i
      <4>1. PICK q \in R2TTask : q = r2t_tasks[j]
        BY <1>1, <1>16, <2>1, SlotTypes
      <4>2. SlotFits(q) /\ q.c # e
        BY <1>1, <1>9, <1>16, <3>2, <4>1 DEF SlotsFit
      <4>3. SlotFits(q)' /\ q = r2t_tasks'[j]
        BY <1>16, <1>23, <3>2, <4>1, <4>2
      <4> QED BY <4>3
    <3> QED BY <3>1, <3>2
  <2>2. \A j, k \in DOMAIN r2t_tasks' : r2t_tasks'[j].c = r2t_tasks'[k].c => j = k
    BY <1>1, <1>16 DEF SlotsFit
  <2>3. x' # None => \A j \in DOMAIN r2t_tasks' : r2t_tasks'[j].c # x'.c
    BY <1>1, <1>16 DEF SlotsFit
  <2>4. Len(r2t_tasks') <= MaxR2T
    BY <1>1, <1>16 DEF SlotsFit
  <2> QED BY <2>1, <2>2, <2>3, <2>4 DEF SlotsFit
<1>26. XferFits'
  <2>1. ASSUME NEW t \in Xfer, t = x, XferFit(t) PROVE XferFit(t)'
    <3>1. /\ t.c \in Cmds /\ t.DataSN \in Nat /\ Len(t.data) \in Nat
          /\ Chain(net, r2t[t.c], t.c, t.DataSN, Len(t.data), End(t.c))
      BY <2>1, XferFacts DEF XferFit
    <3>2. t.c # e
      <4>1. t # None
        BY NoneAssumption
      <4> QED BY <1>8, <2>1, <4>1
    <3>3. Chain(net', r2t'[t.c], t.c, t.DataSN, Len(t.data), End(t.c))
      BY <1>21, <3>1, <3>2
    <3> QED BY <1>2, <2>1, <3>1, <3>3, XferFrame
  <2> QED BY <1>1, <1>15, <2>1, XferSame
<1>27. Idle'
  <2>1. \A c : Holder(c)' <=> Holder(c)
    BY <1>16 DEF Holder
  <2>2. \A c : DataOf(net, c) = {} => DataOf(net', c) = {}
    BY <1>1, TailKeeps
  <2> QED BY <1>1, <1>2, <1>22, <2>1, <2>2 DEF Idle, Fresh
<1> QED BY <1>17, <1>18, <1>19, <1>20, <1>25, <1>26, <1>27 DEF IInv

LEMMA ReadPduStep ==
  ASSUME IInv, ReadPdu
  PROVE  IInv'
<1>1. TypeOK /\ InOrder /\ XferFits /\ NotDropped
  BY DEF IInv
<1>2. /\ pc = "poll" /\ net # <<>> /\ net' = Tail(net)
      /\ IF Head(net).op = "cmd"
           THEN op_scsi(Head(net), pending_pdus) /\ UNCHANGED rejects
           ELSE op_data(Head(net)) /\ UNCHANGED <<askVars, ExpCmdSN, lu_queue, got, status>>
      /\ UNCHANGED <<x, pending_pdus, task_queue, lu, stored, nextC, imm, reused>>
  BY DEF ReadPdu
<1>3. x = None /\ pending_pdus = <<>>
  BY <1>1, <1>2 DEF XferFits, InOrder
<1>4. net \in Seq(Pdu) /\ Tail(net) \in Seq(Pdu) /\ Head(net) \in Pdu
  BY <1>1, <1>2, TypeFacts, TailPdu
<1>5. CASE Head(net).op = "cmd"
  <2>1. PICK p \in CmdPdu : p = Head(net)
    BY <1>4, <1>5 DEF Pdu, DataPdu
  <2>2. /\ ExpCmdSN \in Nat /\ nextC \in Nat /\ Len(pending_pdus) = 0
        /\ ExpCmdSN + Len(pending_pdus) = ExpCmdSN
    BY <1>1, <1>3, TypeFacts
  <2>3. Stream(net, imm, ExpCmdSN, nextC) /\ ExpCmdSN >= 1 /\ nextC <= Len(Length) + 1
    BY <1>1, <2>2 DEF InOrder
  <2>4. /\ p.c = ExpCmdSN /\ p.len = imm[p.c] /\ ExpCmdSN < nextC
        /\ Stream(net', imm, ExpCmdSN + 1, nextC)
    BY <1>2, <1>4, <1>5, <2>1, <2>2, <2>3, StreamTail
  <2>5. /\ ExpCmdSN' = p.c + 1 /\ add_transfer_task(p) /\ ToUnit(p.c)
        /\ pc' = AfterPdu(pending_pdus) /\ UNCHANGED rejects
    <3>1. op_scsi(p, pending_pdus) /\ UNCHANGED rejects
      BY <1>2, <1>5, <2>1
    <3>2. ~(p.c < ExpCmdSN)
      BY <2>2, <2>4
    <3> QED BY <3>1, <3>2 DEF op_scsi, ToUnit
  <2>6. pc' = "poll"
    BY <1>3, <2>5 DEF AfterPdu
  <2>7. InOrder'
    <3>1. /\ ExpCmdSN' + Len(pending_pdus') = ExpCmdSN + 1 /\ ExpCmdSN + 1 <= nextC
          /\ ExpCmdSN' >= 1
      BY <1>2, <2>2, <2>4, <2>5
    <3>2. DOMAIN pending_pdus' = {}
      BY <1>2, <1>3
    <3> QED BY <1>2, <1>3, <2>3, <2>4, <2>6, <3>1, <3>2 DEF InOrder
  <2>8. /\ \A c \in Cmds : \A sn, pos \in Nat :
             Chain(net, r2t[c], c, sn, pos, End(c)) => Chain(net', r2t[c], c, sn, pos, End(c))
        /\ \A c : DataOf(net, c) = {} => DataOf(net', c) = {}
    BY <1>1, <1>2, <1>5, TailKeeps
  <2>9. pending_pdus' \in Seq(CmdPdu) /\ net' \in Seq(Pdu)
    BY <1>1, <1>2, <1>4, TypeFacts
  <2> QED BY <1>2, <1>3, <2>4, <2>5, <2>6, <2>7, <2>8, <2>9, CommandStep
<1>6. CASE Head(net).op # "cmd"
  <2>1. Head(net).op = "data"
    BY <1>4, <1>6 DEF Pdu, CmdPdu, DataPdu
  <2> QED BY <1>2, <1>3, <1>6, <2>1, OpDataStep
<1> QED BY <1>5, <1>6

-----------------------------------------------------------------------------
(* The data of a read.                                                     *)

LEMMA ProductOrder ==
  ASSUME NEW a \in Nat, NEW b \in Nat, NEW s \in Nat, a <= b
  PROVE  a * s \in Nat /\ b * s \in Nat /\ a * s <= b * s
OBVIOUS

(* The segments that len blocks need.                                      *)
LEMMA SegmentCount ==
  ASSUME NEW len \in Nat, NEW s \in Nat, s > 0
  PROVE  LET n == (len + s - 1) \div s IN
         /\ n \in Nat /\ len <= n * s
         /\ n = 0 <=> len = 0
         /\ \A i \in 1 .. n : /\ (i - 1) * s \in Nat /\ (i - 1) * s < len
                              /\ (i - 1) * s + s >= len <=> i = n
<1> DEFINE m == len + s - 1
           n == m \div s
<1>1. m \in Nat /\ s \in Nat /\ s > 0
  OBVIOUS
<1>2. n \in Nat /\ n * s <= m /\ m < n * s + s /\ n * s \in Nat
  <2> HIDE DEF m
  <2>1. n \in Int /\ m = s * n + (m % s) /\ m % s \in 0 .. s - 1
    BY <1>1
  <2> HIDE DEF n
  <2>2. n \in Nat
    BY <1>1, <2>1
  <2> QED BY <1>1, <2>1, <2>2
<1> HIDE DEF n
<1>3. len <= n * s /\ (len > 0 => n * s - s < len)
  <2> DEFINE k == n * s
  <2>1. k \in Nat /\ k <= m /\ m < k + s
    BY <1>2
  <2> HIDE DEF k
  <2> QED BY <2>1 DEF k
<1>4. n = 0 <=> len = 0
  <2>1. n = 0 => len = 0
    BY <1>3
  <2>2. len = 0 => n = 0
    <3> SUFFICES ASSUME len = 0, n # 0 PROVE FALSE
      OBVIOUS
    <3>1. 1 * s <= n * s /\ 1 * s = s
      BY <1>2, ProductOrder
    <3> DEFINE k == n * s
    <3>2. k \in Nat /\ k <= s - 1 /\ s <= k
      BY <1>2, <3>1
    <3> HIDE DEF k
    <3> QED BY <3>2
  <2> QED BY <2>1, <2>2
<1>5. ASSUME NEW i \in 1 .. n
      PROVE  /\ (i - 1) * s \in Nat /\ (i - 1) * s < len
             /\ (i - 1) * s + s >= len <=> i = n
  <2>1. i \in Nat /\ i - 1 \in Nat /\ n - 1 \in Nat /\ i - 1 <= n - 1 /\ i <= n /\ len > 0
    BY <1>2, <1>4
  <2> DEFINE a == (i - 1) * s  b == (n - 1) * s  k == n * s
  <2>2. a \in Nat /\ b \in Nat /\ a <= b
    BY <2>1, ProductOrder
  <2>3. b = k - s /\ k \in Nat
    <3>1. (n - 1) * s = n * s - s
      BY <1>2
    <3> QED BY <1>2, <3>1
  <2>4. i # n => a + s <= b
    <3> SUFFICES ASSUME i # n PROVE a + s <= b
      OBVIOUS
    <3>1. i <= n - 1
      BY <1>2, <2>1
    <3>2. i * s <= (n - 1) * s /\ i * s \in Nat
      BY <2>1, <3>1, ProductOrder
    <3>3. i * s = (i - 1) * s + s
      BY <2>1
    <3> QED BY <3>2, <3>3
  <2>5. i = n => a = b
    OBVIOUS
  <2>6. len <= k /\ k - s < len
    BY <1>3, <2>1
  <2> HIDE DEF a, b, k
  <2>7. a \in Nat /\ a < len /\ (a + s >= len <=> i = n)
    <3>1. a < len
      BY <2>2, <2>3, <2>6
    <3>2. i = n => a + s >= len
      BY <2>3, <2>5, <2>6
    <3>3. i # n => ~(a + s >= len)
      BY <2>2, <2>3, <2>4, <2>6
    <3> QED BY <2>2, <3>1, <3>2, <3>3
  <2> QED BY <2>7 DEF a
<1> QED BY <1>2, <1>3, <1>4, <1>5 DEF n

LEMMA TransferInFacts ==
  ASSUME NEW c \in Cmds, NEW st
  PROVE  LET len == Least(Provided[c], Length[c])
             n == (len + Segment - 1) \div Segment
             g == TransferIn(c, st)
         IN  /\ g \in Seq(DataIn) /\ Len(g) = n /\ n \in Nat /\ len \in Nat
             /\ \A i \in 1 .. n :
                  /\ g[i].sn = i - 1 /\ g[i].len \in 1 .. Segment
                  /\ g[i].off = IF i = 1 THEN 0 ELSE g[i - 1].off + g[i - 1].len
                  /\ g[i].F <=> i = n
                  /\ g[i].S <=> i = n /\ st = "good"
             /\ IF n = 0 THEN len = 0 ELSE g[n].off + g[n].len = len
<1> DEFINE len == Least(Provided[c], Length[c])
           off(i) == (i - 1) * Segment
           n == (len + Segment - 1) \div Segment
           rec(i) == [off |-> off(i), len |-> Least(Segment, len - off(i)), sn |-> i - 1,
                      F |-> off(i) + Segment >= len,
                      S |-> off(i) + Segment >= len /\ st = "good"]
           g == TransferIn(c, st)
<1>1. len \in Nat /\ Segment \in Nat /\ Segment > 0
  <2>1. Provided[c] \in Nat /\ Length[c] \in Nat /\ Segment \in Nat /\ Segment > 0
    BY CmdFacts
  <2> QED BY <2>1 DEF Least
<1>2. g = [i \in 1 .. n |-> rec(i)]
  BY DEF TransferIn
<1> HIDE DEF len, g
<1>3. /\ n \in Nat /\ len <= n * Segment /\ (n = 0 <=> len = 0)
      /\ \A i \in 1 .. n : /\ off(i) \in Nat /\ off(i) < len
                           /\ off(i) + Segment >= len <=> i = n
  BY <1>1, SegmentCount
<1> HIDE DEF n
<1>4. \A i \in 1 .. n : /\ g[i].off = off(i) /\ g[i].len = Least(Segment, len - off(i))
                        /\ g[i].sn = i - 1
                        /\ g[i].F = (off(i) + Segment >= len)
                        /\ g[i].S = (off(i) + Segment >= len /\ st = "good")
  BY <1>2
<1>5. \A i \in 1 .. n : i \in Nat /\ i - 1 \in Nat /\ i <= n /\ i >= 1
  BY <1>3
<1>6. ASSUME NEW i \in 1 .. n
      PROVE  /\ rec(i) \in DataIn /\ g[i].len \in 1 .. Segment
             /\ g[i].off + g[i].len <= len
             /\ i # n => g[i].off + g[i].len = off(i) + Segment
             /\ i = n => g[i].off + g[i].len = len
  <2> DEFINE a == off(i)
  <2>1. a \in Nat /\ a < len /\ (a + Segment >= len <=> i = n)
    BY <1>3
  <2>2. g[i].off = a /\ g[i].len = Least(Segment, len - a)
    BY <1>4
  <2>3. rec(i) = [off |-> a, len |-> Least(Segment, len - a), sn |-> i - 1,
                  F |-> a + Segment >= len, S |-> a + Segment >= len /\ st = "good"]
    OBVIOUS
  <2> HIDE DEF a
  <2>4. /\ Least(Segment, len - a) \in 1 .. Segment /\ a + Least(Segment, len - a) <= len
        /\ ~(a + Segment >= len) => a + Least(Segment, len - a) = a + Segment
        /\ a + Segment >= len => a + Least(Segment, len - a) = len
    BY <1>1, <2>1 DEF Least
  <2>5. rec(i) \in DataIn
    <3>1. /\ a \in Nat /\ Least(Segment, len - a) \in Nat /\ i - 1 \in Nat
          /\ (a + Segment >= len) \in BOOLEAN
          /\ (a + Segment >= len /\ st = "good") \in BOOLEAN
      BY <1>5, <2>1, <2>4
    <3> HIDE DEF rec
    <3> QED BY <2>3, <3>1 DEF DataIn
  <2> QED BY <2>1, <2>2, <2>4, <2>5 DEF a
<1>7. g \in Seq(DataIn) /\ Len(g) = n
  <2> HIDE DEF rec, off
  <2> QED BY <1>2, <1>3, <1>6
<1>8. \A i \in 1 .. n : g[i].off = IF i = 1 THEN 0 ELSE g[i - 1].off + g[i - 1].len
  <2> SUFFICES ASSUME NEW i \in 1 .. n
               PROVE  g[i].off = IF i = 1 THEN 0 ELSE g[i - 1].off + g[i - 1].len
    OBVIOUS
  <2>1. g[i].off = (i - 1) * Segment
    BY <1>4
  <2>2. CASE i = 1
    BY <1>1, <2>1, <2>2
  <2>3. CASE i # 1
    <3>1. i - 1 \in 1 .. n /\ i - 1 # n /\ i \in Nat
      BY <1>3, <2>3
    <3>2. g[i - 1].off + g[i - 1].len = ((i - 1) - 1) * Segment + Segment
      BY <1>6, <3>1
    <3>3. ((i - 1) - 1) * Segment + Segment = (i - 1) * Segment
      BY <1>1, <3>1
    <3> QED BY <2>1, <2>3, <3>2, <3>3
  <2> QED BY <2>2, <2>3
<1>9. \A i \in 1 .. n : (g[i].F <=> i = n) /\ (g[i].S <=> i = n /\ st = "good")
  BY <1>3, <1>4
<1>10. IF n = 0 THEN len = 0 ELSE g[n].off + g[n].len = len
  <2>1. n # 0 => n \in 1 .. n
    BY <1>3
  <2> QED BY <1>3, <1>6, <2>1
<1> QED BY <1>1, <1>3, <1>4, <1>6, <1>7, <1>8, <1>9, <1>10 DEF n, len, g

-----------------------------------------------------------------------------
(* The logical unit, and the response of the worker.                       *)

LEMMA TakeTaskStep ==
  ASSUME IInv, TakeTask
  PROVE  IInv'
<1>1. /\ TypeOK /\ NotDropped /\ OwnData /\ InOrder /\ Immediate /\ Places /\ Tags
      /\ SlotsFit /\ XferFits /\ Idle /\ Reads /\ Window
  BY DEF IInv
<1>2. /\ lu_queue \in Seq(Cmds) /\ DOMAIN lu_queue = 1 .. Len(lu_queue) /\ Len(lu_queue) \in Nat
      /\ \A i \in DOMAIN lu_queue : lu_queue[i] \in Cmds
      /\ task_queue \in Seq({"out", "rsp"} \X Cmds) /\ DOMAIN task_queue = 1 .. Len(task_queue)
      /\ Len(task_queue) \in Nat
  BY <1>1, QueueFacts DEF TypeOK
<1>3. lu = None /\ lu_queue # <<>> /\ lu_queue' = Tail(lu_queue)
  BY DEF TakeTask
<1>4. PICK e \in Cmds : e = Head(lu_queue) /\ e = lu_queue[1] /\ 1 \in DOMAIN lu_queue
  BY <1>2, <1>3
<1> DEFINE out == Write[e] /\ imm[e] < Length[e]
<1>5. /\ out => /\ lu' = <<"wait", e>> /\ task_queue' = Append(task_queue, <<"out", e>>)
                /\ UNCHANGED stored
      /\ ~out => /\ lu' = <<"ready", e>> /\ UNCHANGED task_queue
                 /\ stored' = [stored EXCEPT ![e] = IF Write[e] THEN Blocks(e, 0, imm[e]) ELSE @]
      /\ Write[e] \in BOOLEAN /\ out \in BOOLEAN
  BY <1>4, CmdFacts DEF TakeTask
<1>6. /\ UNCHANGED <<pc, pending_pdus, r2t_tasks, x, ExpCmdSN, rejects>>
      /\ UNCHANGED <<net, nextC, imm, r2t, r2ts, granted, got, status, reused>>
  BY DEF TakeTask, workVars, askVars
<1>7. x = None
  <2>1. x # None => lu # None
    BY <1>1, NoneAssumption, SlotTypes DEF XferFits, XferFit, LuTask
  <2> QED BY <1>3, <2>1
<1>8. /\ e < ExpCmdSN /\ status[e] = None
      /\ \A j \in DOMAIN task_queue : task_queue[j][2] # e
      /\ \A j \in DOMAIN lu_queue : lu_queue[j] = e => j = 1
  BY <1>1, <1>4 DEF Places, Queued
<1>9. /\ lu' \in LuTask /\ lu' # None /\ lu'[2] = e /\ lu'[1] \in {"wait", "ready"}
      /\ lu'[1] = "wait" <=> out
  <2>1. CASE out
    BY <1>5, <2>1, NoneAssumption DEF LuTask
  <2>2. CASE ~out
    BY <1>5, <2>2, NoneAssumption DEF LuTask
  <2> QED BY <2>1, <2>2
<1>10. /\ lu_queue' \in Seq(Cmds) /\ DOMAIN lu_queue' = 1 .. Len(lu_queue) - 1
       /\ \A i \in DOMAIN lu_queue' : /\ lu_queue'[i] = lu_queue[i + 1]
                                      /\ i + 1 \in DOMAIN lu_queue /\ i + 1 # 1 /\ i \in Nat
       /\ \A i \in DOMAIN lu_queue : i # 1 => i - 1 \in DOMAIN lu_queue'
                                              /\ lu_queue'[i - 1] = lu_queue[i]
  <2>1. /\ lu_queue' \in Seq(Cmds) /\ DOMAIN lu_queue' = 1 .. Len(lu_queue) - 1
        /\ \A i \in 1 .. Len(lu_queue) - 1 : lu_queue'[i] = lu_queue[i + 1]
    BY <1>2, <1>3
  <2>2. \A i \in 1 .. Len(lu_queue) - 1 : i + 1 \in DOMAIN lu_queue /\ i + 1 # 1 /\ i \in Nat
    BY <1>2
  <2>3. \A i \in DOMAIN lu_queue : i # 1 => i - 1 \in 1 .. Len(lu_queue) - 1 /\ (i - 1) + 1 = i
    BY <1>2
  <2> QED BY <2>1, <2>2, <2>3
<1>11. /\ task_queue' \in Seq({"out", "rsp"} \X Cmds)
       /\ \A j \in DOMAIN task_queue' :
            \/ j \in DOMAIN task_queue /\ task_queue'[j] = task_queue[j]
            \/ j = Len(task_queue) + 1 /\ task_queue'[j] = <<"out", e>> /\ out
  <2>1. CASE out
    <3>1. task_queue' = Append(task_queue, <<"out", e>>) /\ <<"out", e>> \in {"out", "rsp"} \X Cmds
      BY <1>5, <2>1
    <3> DEFINE t == <<"out", e>>
    <3> HIDE DEF t
    <3>2. task_queue' = Append(task_queue, t) /\ t \in {"out", "rsp"} \X Cmds
      BY <3>1 DEF t
    <3>3. /\ task_queue' \in Seq({"out", "rsp"} \X Cmds)
          /\ \A j \in DOMAIN task_queue' :
               \/ j \in DOMAIN task_queue /\ task_queue'[j] = task_queue[j]
               \/ j = Len(task_queue) + 1 /\ task_queue'[j] = t
      BY <1>2, <3>2
    <3> QED BY <2>1, <3>3 DEF t
  <2>2. CASE ~out
    BY <1>2, <1>5, <2>2
  <2> QED BY <2>1, <2>2
<1>20. imm[e] \in Nat /\ Length[e] \in Nat /\ imm[e] <= Length[e]
  BY <1>1, CmdFacts DEF TypeOK, Immediate
<1>21. /\ stored' \in [Cmds -> Buffer] /\ \A c \in Cmds : c # e => stored'[c] = stored[c]
       /\ ~out /\ Write[e] => stored'[e] = Blocks(e, 0, Length[e])
  <2>1. stored \in [Cmds -> Buffer]
    BY <1>1 DEF TypeOK
  <2>2. Blocks(e, 0, imm[e]) \in Buffer
    BY <1>20, BlocksFacts
  <2>3. CASE out
    BY <1>5, <2>1, <2>3
  <2>4. CASE ~out
    <3>1. Write[e] => imm[e] = Length[e]
      BY <1>20, <2>4
    <3> QED BY <1>5, <2>1, <2>2, <2>4, <3>1
  <2> QED BY <2>3, <2>4
<1> HIDE DEF out
<1>12. TypeOK'
  BY <1>1, <1>6, <1>9, <1>10, <1>11, <1>21 DEF TypeOK
<1>13. NotDropped' /\ InOrder' /\ Immediate' /\ Tags' /\ Reads' /\ Window'
  BY <1>1, <1>6
     DEF NotDropped, InOrder, Immediate, Tags, Live, Leftover, Reads, Answered, TransferIn,
         Window
<1>14. OwnData'
  <2> SUFFICES ASSUME NEW c \in Cmds, Write[c], lu' = <<"ready", c>>
               PROVE  stored'[c] = Blocks(c, 0, Length[c])
    BY DEF OwnData
  <2>1. c = e /\ ~out
    BY <1>9
  <2> QED BY <1>21, <2>1
<1>15. Places'
  <2>1. Unseen'
    BY <1>1, <1>6 DEF Places, Unseen, Fresh
  <2>2. Running'
    BY <1>6, <1>8, <1>9 DEF Running, out
  <2>3. Queued'
    <3> SUFFICES ASSUME NEW i \in DOMAIN lu_queue'
                 PROVE  /\ lu_queue'[i] < ExpCmdSN /\ status[lu_queue'[i]] = None
                        /\ lu'[2] # lu_queue'[i]
                        /\ \A j \in DOMAIN task_queue' : task_queue'[j][2] # lu_queue'[i]
                        /\ \A j \in DOMAIN lu_queue' : lu_queue'[i] = lu_queue'[j] => i = j
      BY <1>6 DEF Queued
    <3>1. i + 1 \in DOMAIN lu_queue /\ i + 1 # 1 /\ lu_queue'[i] = lu_queue[i + 1] /\ i \in Nat
      BY <1>10
    <3>2. /\ lu_queue[i + 1] < ExpCmdSN /\ status[lu_queue[i + 1]] = None
          /\ \A j \in DOMAIN task_queue : task_queue[j][2] # lu_queue[i + 1]
          /\ \A j \in DOMAIN lu_queue : lu_queue[i + 1] = lu_queue[j] => i + 1 = j
          /\ lu_queue[i + 1] # e
      BY <1>1, <1>8, <3>1 DEF Places, Queued
    <3>3. \A j \in DOMAIN task_queue' : task_queue'[j][2] # lu_queue[i + 1]
      BY <1>11, <3>2
    <3>4. \A j \in DOMAIN lu_queue' : lu_queue'[i] = lu_queue'[j] => i = j
      BY <1>10, <3>1, <3>2
    <3> QED BY <1>9, <3>1, <3>2, <3>3, <3>4
  <2>4. Asked'
    <3> SUFFICES ASSUME NEW i \in DOMAIN task_queue'
                 PROVE  /\ task_queue'[i][2] < ExpCmdSN /\ status[task_queue'[i][2]] = None
                        /\ \A j \in DOMAIN task_queue' :
                             task_queue'[i][2] = task_queue'[j][2] => i = j
                        /\ task_queue'[i][1] = "out" =>
                             lu' = <<"wait", task_queue'[i][2]>> /\ x' = None
                        /\ task_queue'[i][1] = "rsp" => lu' = None \/ lu'[2] # task_queue'[i][2]
      BY <1>6 DEF Asked
    <3>1. \A j \in DOMAIN task_queue : task_queue[j][1] # "out" /\ task_queue[j][2] # e
      <4>1. \A c : lu # <<"wait", c>> \/ c \notin Cmds
        BY <1>3, NoneAssumption DEF LuTask
      <4> QED BY <1>1, <1>8, <4>1, QueueFacts DEF Places, Asked
    <3>2. CASE i \in DOMAIN task_queue /\ task_queue'[i] = task_queue[i]
      <4>1. \A j \in DOMAIN task_queue' : task_queue'[i][2] = task_queue'[j][2] => i = j
        BY <1>1, <1>11, <3>1, <3>2 DEF Places, Asked
      <4>2. task_queue[i][2] < ExpCmdSN /\ status[task_queue[i][2]] = None
        BY <1>1, <3>2 DEF Places, Asked
      <4> QED BY <1>9, <3>1, <3>2, <4>1, <4>2
    <3>3. CASE i = Len(task_queue) + 1 /\ task_queue'[i] = <<"out", e>> /\ out
      <4>1. \A j \in DOMAIN task_queue' : task_queue'[i][2] = task_queue'[j][2] => i = j
        BY <1>11, <3>1, <3>3
      <4> QED BY <1>5, <1>6, <1>7, <1>8, <3>3, <4>1
    <3> QED BY <1>11, <3>2, <3>3
  <2> QED BY <2>1, <2>2, <2>3, <2>4 DEF Places
<1>16. \A c \in Cmds : /\ Waits(c)' => Waits(c)
                       /\ Waits(c) /\ Write[c] /\ imm[c] < Length[c] => Waits(c)'
  <2> SUFFICES ASSUME NEW c \in Cmds
               PROVE  /\ Waits(c)' => Waits(c)
                      /\ Waits(c) /\ Write[c] /\ imm[c] < Length[c] => Waits(c)'
    OBVIOUS
  <2>1. lu # <<"wait", c>>
    BY <1>3, NoneAssumption DEF LuTask
  <2>2. lu' = <<"wait", c>> <=> c = e /\ out
    BY <1>5, <1>9
  <2>3. ASSUME Waits(c)' PROVE Waits(c)
    BY <1>4, <1>10, <2>2, <2>3 DEF Waits
  <2>4. ASSUME Waits(c), Write[c], imm[c] < Length[c] PROVE Waits(c)'
    <3>1. PICK i \in DOMAIN lu_queue : lu_queue[i] = c
      BY <2>1, <2>4 DEF Waits
    <3>2. CASE i = 1
      BY <1>4, <2>2, <2>4, <3>1, <3>2 DEF Waits, out
    <3>3. CASE i # 1
      BY <1>10, <3>1, <3>3 DEF Waits
    <3> QED BY <3>2, <3>3
  <2> QED BY <2>3, <2>4
<1>17. SlotsFit'
  <2>1. ASSUME NEW r \in R2TTask, SlotFits(r) PROVE SlotFits(r)'
    <3>1. /\ r.c \in Cmds /\ r.c < ExpCmdSN /\ Write[r.c]
          /\ Chain(net, r2t[r.c], r.c, r.DataSN, Len(r.iobuf), End(r.c))
          /\ Waits(r.c) \/ status[r.c] = "refused"
          /\ imm[r.c] < Length[r.c]
      BY <2>1, R2TTaskFacts DEF SlotFits
    <3>2. Waits(r.c)' \/ status'[r.c] = "refused"
      BY <1>6, <1>16, <3>1
    <3> QED BY <1>6, <2>1, <3>1, <3>2, SlotFrame
  <2> QED BY <1>1, <1>6, <1>7, <2>1, SlotsSame
<1>18. XferFits'
  BY <1>1, <1>6, <1>7 DEF XferFits
<1>19. Idle'
  <2>1. \A c : Holder(c)' <=> Holder(c)
    BY <1>6 DEF Holder
  <2> QED BY <1>1, <1>6, <1>16, <2>1 DEF Idle, Fresh
<1> QED BY <1>12, <1>13, <1>14, <1>15, <1>17, <1>18, <1>19 DEF IInv

LEMMA ExecuteStep ==
  ASSUME IInv, Execute
  PROVE  IInv'
<1>1. /\ TypeOK /\ NotDropped /\ OwnData /\ InOrder /\ Immediate /\ Places /\ Tags
      /\ SlotsFit /\ XferFits /\ Idle /\ Reads /\ Window
  BY DEF IInv
<1>2. /\ lu # None /\ lu[1] = "ready" /\ lu' = None
      /\ task_queue' = Append(task_queue, <<"rsp", lu[2]>>)
  BY DEF Execute
<1>3. PICK e \in Cmds : e = lu[2]
  BY <1>1, <1>2, QueueFacts
<1>4. /\ UNCHANGED <<pc, pending_pdus, r2t_tasks, x, ExpCmdSN, rejects>>
      /\ UNCHANGED <<lu_queue, stored, net, nextC, imm, r2t, r2ts, granted, got, status, reused>>
  BY DEF Execute, workVars, askVars
<1>5. \A c : lu # <<"wait", c>>
  BY <1>2
<1>6. x = None
  BY <1>1, <1>5 DEF XferFits, XferFit
<1>7. /\ task_queue \in Seq({"out", "rsp"} \X Cmds)
      /\ task_queue' \in Seq({"out", "rsp"} \X Cmds)
      /\ \A j \in DOMAIN task_queue' :
           \/ j \in DOMAIN task_queue /\ task_queue'[j] = task_queue[j]
           \/ j = Len(task_queue) + 1 /\ task_queue'[j] = <<"rsp", e>>
  <2> DEFINE t == <<"rsp", e>>
  <2>1. t \in {"out", "rsp"} \X Cmds
    OBVIOUS
  <2>2. task_queue \in Seq({"out", "rsp"} \X Cmds)
    BY <1>1 DEF TypeOK
  <2> HIDE DEF t
  <2>3. task_queue' = Append(task_queue, t)
    BY <1>2, <1>3 DEF t
  <2>4. /\ task_queue' \in Seq({"out", "rsp"} \X Cmds)
        /\ \A j \in DOMAIN task_queue' :
             \/ j \in DOMAIN task_queue /\ task_queue'[j] = task_queue[j]
             \/ j = Len(task_queue) + 1 /\ task_queue'[j] = t
    BY <2>1, <2>2, <2>3
  <2> QED BY <2>2, <2>4 DEF t
<1>8. \A j \in DOMAIN task_queue : task_queue[j][1] # "out" /\ task_queue[j][2] # e
  BY <1>1, <1>2, <1>3, <1>5, QueueFacts DEF Places, Asked
<1>9. TypeOK'
  BY <1>1, <1>2, <1>4, <1>7 DEF TypeOK
<1>10. NotDropped' /\ InOrder' /\ Immediate' /\ Tags' /\ Reads' /\ Window'
  BY <1>1, <1>4
     DEF NotDropped, InOrder, Immediate, Tags, Live, Leftover, Reads, Answered, TransferIn,
         Window
<1>11. OwnData'
  <2>1. \A c \in Cmds : lu' # <<"ready", c>>
    BY <1>2, NoneAssumption DEF LuTask
  <2> QED BY <2>1 DEF OwnData
<1>12. Places'
  <2>1. Unseen' /\ Running'
    BY <1>1, <1>2, <1>4 DEF Places, Unseen, Fresh, Running
  <2>2. Queued'
    <3> SUFFICES ASSUME NEW i \in DOMAIN lu_queue
                 PROVE  /\ lu_queue[i] < ExpCmdSN /\ status[lu_queue[i]] = None
                        /\ \A j \in DOMAIN task_queue' : task_queue'[j][2] # lu_queue[i]
                        /\ \A j \in DOMAIN lu_queue : lu_queue[i] = lu_queue[j] => i = j
      BY <1>2, <1>4 DEF Queued
    <3>1. /\ lu_queue[i] < ExpCmdSN /\ status[lu_queue[i]] = None
          /\ \A j \in DOMAIN task_queue : task_queue[j][2] # lu_queue[i]
          /\ \A j \in DOMAIN lu_queue : lu_queue[i] = lu_queue[j] => i = j
          /\ lu_queue[i] # e
      BY <1>1, <1>2, <1>3 DEF Places, Queued
    <3> QED BY <1>7, <3>1
  <2>3. Asked'
    <3> SUFFICES ASSUME NEW i \in DOMAIN task_queue'
                 PROVE  /\ task_queue'[i][2] < ExpCmdSN /\ status[task_queue'[i][2]] = None
                        /\ \A j \in DOMAIN task_queue' :
                             task_queue'[i][2] = task_queue'[j][2] => i = j
                        /\ task_queue'[i][1] # "out"
      BY <1>2, <1>4 DEF Asked
    <3>1. CASE i \in DOMAIN task_queue /\ task_queue'[i] = task_queue[i]
      <4>1. \A j \in DOMAIN task_queue' : task_queue'[i][2] = task_queue'[j][2] => i = j
        BY <1>1, <1>7, <1>8, <3>1 DEF Places, Asked
      <4> QED BY <1>1, <1>8, <3>1, <4>1 DEF Places, Asked
    <3>2. CASE i = Len(task_queue) + 1 /\ task_queue'[i] = <<"rsp", e>>
      <4>1. \A j \in DOMAIN task_queue' : task_queue'[i][2] = task_queue'[j][2] => i = j
        BY <1>7, <1>8, <3>2
      <4>2. e < ExpCmdSN /\ status[e] = None
        BY <1>1, <1>2, <1>3 DEF Places, Running
      <4> QED BY <3>2, <4>1, <4>2
    <3> QED BY <1>7, <3>1, <3>2
  <2> QED BY <2>1, <2>2, <2>3 DEF Places
<1>13. \A c \in Cmds : Waits(c)' <=> Waits(c)
  <2>1. \A c \in Cmds : lu' # <<"wait", c>>
    BY <1>2, NoneAssumption DEF LuTask
  <2> QED BY <1>4, <1>5, <2>1 DEF Waits
<1>14. SlotsFit'
  <2>1. ASSUME NEW r \in R2TTask, SlotFits(r) PROVE SlotFits(r)'
    <3>1. /\ r.c \in Cmds /\ r.c < ExpCmdSN
          /\ Chain(net, r2t[r.c], r.c, r.DataSN, Len(r.iobuf), End(r.c))
          /\ Waits(r.c) \/ status[r.c] = "refused"
      BY <2>1, R2TTaskFacts DEF SlotFits
    <3>2. Waits(r.c)' \/ status'[r.c] = "refused"
      BY <1>4, <1>13, <3>1
    <3> QED BY <1>4, <2>1, <3>1, <3>2, SlotFrame
  <2> QED BY <1>1, <1>4, <1>6, <2>1, SlotsSame
<1>15. XferFits'
  BY <1>1, <1>4, <1>6 DEF XferFits
<1>16. Idle'
  <2>1. \A c : Holder(c)' <=> Holder(c)
    BY <1>4 DEF Holder
  <2> QED BY <1>1, <1>4, <1>13, <2>1 DEF Idle, Fresh
<1> QED BY <1>9, <1>10, <1>11, <1>12, <1>14, <1>15, <1>16 DEF IInv

LEMMA TaskResponseStep ==
  ASSUME IInv, TaskResponse
  PROVE  IInv'
<1>1. /\ TypeOK /\ NotDropped /\ OwnData /\ InOrder /\ Immediate /\ Places /\ Tags
      /\ SlotsFit /\ XferFits /\ Idle /\ Reads /\ Window
  BY DEF IInv
<1>2. /\ task_queue \in Seq({"out", "rsp"} \X Cmds) /\ DOMAIN task_queue = 1 .. Len(task_queue)
      /\ Len(task_queue) \in Nat
  BY <1>1, QueueFacts DEF TypeOK
<1>3. /\ pc = "poll" /\ task_queue # <<>> /\ Head(task_queue)[1] = "rsp"
      /\ task_queue' = Tail(task_queue) /\ pc' = AfterPdu(pending_pdus)
      /\ UNCHANGED <<pending_pdus, r2t_tasks, x, ExpCmdSN, rejects, lu_queue, lu, stored, net,
                     nextC, imm, reused>>
      /\ UNCHANGED <<r2t, r2ts, granted>>
  BY DEF TaskResponse, askVars
<1>4. PICK e \in Cmds : /\ e = Head(task_queue)[2] /\ 1 \in DOMAIN task_queue
                        /\ task_queue[1][2] = e /\ task_queue[1][1] = "rsp"
  BY <1>2, <1>3, QueueFacts, <1>1
<1>5. PICK st \in Outcomes :
        StatusSent(e, IF Write[e] \/ st = "conflict" THEN <<>> ELSE TransferIn(e, st), st)
  BY <1>4 DEF TaskResponse
<1> DEFINE data == IF Write[e] \/ st = "conflict" THEN <<>> ELSE TransferIn(e, st)
<1>6. x = None /\ pending_pdus = <<>> /\ pc' = "poll"
  BY <1>1, <1>3 DEF XferFits, InOrder, AfterPdu
<1>7. /\ e < ExpCmdSN /\ status[e] = None /\ ~Answered(e) /\ got[e] = <<>>
      /\ \A j \in DOMAIN task_queue : task_queue[j][2] = e => j = 1
      /\ lu = None \/ lu[2] # e
      /\ \A j \in DOMAIN lu_queue : lu_queue[j] # e
      /\ ~Waits(e)
  <2>1. /\ e < ExpCmdSN /\ status[e] = None
        /\ \A j \in DOMAIN task_queue : task_queue[j][2] = e => j = 1
        /\ lu = None \/ lu[2] # e
    BY <1>1, <1>4 DEF Places, Asked
  <2>2. \A j \in DOMAIN lu_queue : lu_queue[j] # e
    BY <1>1, <1>4 DEF Places, Queued
  <2>3. ~Answered(e)
    BY <2>1 DEF Answered
  <2>4. lu # <<"wait", e>>
    <3>1. <<"wait", e>> # None
      BY NoneAssumption DEF LuTask
    <3> QED BY <2>1, <3>1
  <2> QED BY <1>1, <2>1, <2>2, <2>3, <2>4 DEF Reads, Waits
<1>8. data \in Seq(DataIn) /\ <<>> \o data = data
  <2>1. data \in Seq(DataIn)
    BY TransferInFacts
  <2> HIDE DEF data
  <2> QED BY <2>1, ConcatEmptySeq
<1>9. /\ got' \in [Cmds -> Seq(DataIn)] /\ got'[e] = data
      /\ \A c \in Cmds : c # e => got'[c] = got[c]
      /\ status' \in [Cmds -> Outcomes \cup {"refused", None}] /\ status'[e] = st
      /\ \A c \in Cmds : c # e => status'[c] = status[c]
  <2> HIDE DEF data
  <2>1. got' = [got EXCEPT ![e] = @ \o data] /\ status' = [status EXCEPT ![e] = st]
    BY <1>5 DEF StatusSent, data
  <2>2. got \in [Cmds -> Seq(DataIn)] /\ status \in [Cmds -> Outcomes \cup {"refused", None}]
    BY <1>1 DEF TypeOK
  <2>3. got' = [got EXCEPT ![e] = data]
    BY <1>7, <1>8, <2>1, <2>2
  <2> QED BY <1>8, <2>1, <2>2, <2>3
<1>10. st # None /\ st # "refused" /\ Answered(e)'
  <2>1. st # None /\ st # "refused"
    BY NoneAssumption DEF Outcomes
  <2> QED BY <1>9, <2>1 DEF Answered
<1>11. \A c \in Cmds : c # e => (Answered(c)' <=> Answered(c))
  BY <1>9 DEF Answered
<1>12. /\ task_queue' \in Seq({"out", "rsp"} \X Cmds)
       /\ \A i \in DOMAIN task_queue' : /\ task_queue'[i] = task_queue[i + 1] /\ i \in Nat
                                        /\ i + 1 \in DOMAIN task_queue /\ i + 1 # 1
  <2>1. /\ task_queue' \in Seq({"out", "rsp"} \X Cmds)
        /\ DOMAIN task_queue' = 1 .. Len(task_queue) - 1
        /\ \A i \in 1 .. Len(task_queue) - 1 : task_queue'[i] = task_queue[i + 1]
    BY <1>2, <1>3
  <2>2. \A i \in 1 .. Len(task_queue) - 1 : i + 1 \in DOMAIN task_queue /\ i + 1 # 1 /\ i \in Nat
    BY <1>2
  <2> QED BY <2>1, <2>2
<1> HIDE DEF data
<1>13. TypeOK'
  BY <1>1, <1>3, <1>6, <1>9, <1>12 DEF TypeOK
<1>14. NotDropped' /\ InOrder' /\ Immediate' /\ OwnData'
  BY <1>1, <1>3, <1>6 DEF NotDropped, InOrder, Immediate, OwnData
<1>15. Tags'
  <2>1. \A c \in Cmds : Live(c)' => Live(c)
    BY <1>3, <1>7, <1>9 DEF Live, Leftover
  <2> QED BY <1>1, <1>3, <2>1, TagsSame
<1>16. Reads'
  <2> SUFFICES ASSUME NEW c \in Cmds
               PROVE  /\ ~Answered(c)' => got'[c] = <<>>
                      /\ Answered(c)' /\ ~Write[c] =>
                           got'[c] = IF status'[c] = "conflict" THEN <<>>
                                     ELSE TransferIn(c, status'[c])
    BY DEF Reads, TransferIn
  <2>1. CASE c = e
    BY <1>9, <1>10, <2>1 DEF data
  <2>2. CASE c # e
    BY <1>1, <1>9, <1>11, <2>2 DEF Reads
  <2> QED BY <2>1, <2>2
<1>17. Window'
  <2>1. \A c \in 1 .. nextC - 1 : status'[c] = None => status[c] = None
    <3> SUFFICES ASSUME NEW c \in 1 .. nextC - 1, status'[c] = None PROVE status[c] = None
      OBVIOUS
    <3>1. c \in Cmds
      <4>1. nextC <= Len(Length) + 1 /\ nextC \in Nat
        BY <1>1, TypeFacts DEF InOrder
      <4> QED BY <4>1, CmdFacts
    <3> QED BY <1>7, <1>9, <3>1
  <2> QED BY <1>1, <1>3, <2>1, WindowSame
<1>18. Places'
  <2>1. ExpCmdSN \in Nat
    BY <1>1, TypeFacts
  <2>2. Unseen'
    <3>1. \A c \in Cmds : c >= ExpCmdSN => c # e
      BY <1>7, <2>1, CmdFacts
    <3> QED BY <1>1, <1>3, <1>9, <3>1 DEF Places, Unseen, Fresh
  <2>3. Running'
    BY <1>1, <1>3, <1>7, <1>9, QueueFacts DEF Places, Running
  <2>4. Queued'
    <3> SUFFICES ASSUME NEW i \in DOMAIN lu_queue
                 PROVE  /\ lu_queue[i] < ExpCmdSN /\ status'[lu_queue[i]] = None
                        /\ lu # None => lu[2] # lu_queue[i]
                        /\ \A j \in DOMAIN task_queue' : task_queue'[j][2] # lu_queue[i]
                        /\ \A j \in DOMAIN lu_queue : lu_queue[i] = lu_queue[j] => i = j
      BY <1>3 DEF Queued
    <3>1. lu_queue[i] # e /\ lu_queue[i] \in Cmds
      BY <1>1, <1>7, QueueFacts
    <3>2. /\ lu_queue[i] < ExpCmdSN /\ status[lu_queue[i]] = None
          /\ lu # None => lu[2] # lu_queue[i]
          /\ \A j \in DOMAIN task_queue : task_queue[j][2] # lu_queue[i]
          /\ \A j \in DOMAIN lu_queue : lu_queue[i] = lu_queue[j] => i = j
      BY <1>1 DEF Places, Queued
    <3> QED BY <1>9, <1>12, <3>1, <3>2
  <2>5. Asked'
    <3> SUFFICES ASSUME NEW i \in DOMAIN task_queue'
                 PROVE  /\ task_queue'[i][2] < ExpCmdSN /\ status'[task_queue'[i][2]] = None
                        /\ \A j \in DOMAIN task_queue' :
                             task_queue'[i][2] = task_queue'[j][2] => i = j
                        /\ task_queue'[i][1] = "out" =>
                             lu = <<"wait", task_queue'[i][2]>> /\ x = None
                        /\ task_queue'[i][1] = "rsp" => lu = None \/ lu[2] # task_queue'[i][2]
      BY <1>3 DEF Asked
    <3>1. /\ i \in Nat /\ i + 1 \in DOMAIN task_queue /\ i + 1 # 1
          /\ task_queue'[i] = task_queue[i + 1]
      BY <1>12
    <3> DEFINE t == task_queue[i + 1]
    <3>2. t[2] # e /\ t[2] \in Cmds
      BY <1>1, <1>7, <3>1, QueueFacts
    <3>3. /\ t[2] < ExpCmdSN /\ status[t[2]] = None
          /\ \A j \in DOMAIN task_queue : t[2] = task_queue[j][2] => i + 1 = j
          /\ t[1] = "out" => lu = <<"wait", t[2]>> /\ x = None
          /\ t[1] = "rsp" => lu = None \/ lu[2] # t[2]
      BY <1>1, <3>1 DEF Places, Asked
    <3> HIDE DEF t
    <3>4. \A j \in DOMAIN task_queue' : t[2] = task_queue'[j][2] => i = j
      BY <1>12, <3>1, <3>3
    <3>5. task_queue'[i] = t
      BY <3>1 DEF t
    <3> QED BY <1>9, <3>2, <3>3, <3>4, <3>5
  <2> QED BY <2>2, <2>3, <2>4, <2>5 DEF Places
<1>19. \A c \in Cmds : Waits(c)' <=> Waits(c)
  BY <1>3 DEF Waits
<1>20. SlotsFit'
  <2>1. ASSUME NEW r \in R2TTask, SlotFits(r) PROVE SlotFits(r)'
    <3>1. /\ r.c \in Cmds /\ r.c < ExpCmdSN
          /\ Chain(net, r2t[r.c], r.c, r.DataSN, Len(r.iobuf), End(r.c))
          /\ Waits(r.c) \/ status[r.c] = "refused"
      BY <2>1, R2TTaskFacts DEF SlotFits
    <3>2. r.c # e
      BY <1>7, <3>1, NoneAssumption
    <3>3. Waits(r.c)' \/ status'[r.c] = "refused"
      BY <1>9, <1>19, <3>1, <3>2
    <3> QED BY <1>3, <2>1, <3>1, <3>3, SlotFrame
  <2> QED BY <1>1, <1>3, <1>6, <2>1, SlotsSame
<1>21. XferFits'
  BY <1>3, <1>6 DEF XferFits
<1>22. Idle'
  <2>1. \A c : Holder(c)' <=> Holder(c)
    BY <1>3 DEF Holder
  <2> QED BY <1>1, <1>3, <1>19, <2>1 DEF Idle, Fresh
<1> QED BY <1>13, <1>14, <1>15, <1>16, <1>17, <1>18, <1>20, <1>21, <1>22 DEF IInv

-----------------------------------------------------------------------------
(* The transfer.                                                           *)

(* The slots that are left.                                                *)
Freed(e) ==
  \/ r2t_tasks' = r2t_tasks /\ \A i \in DOMAIN r2t_tasks : r2t_tasks[i].c # e
  \/ \E i \in DOMAIN r2t_tasks : r2t_tasks[i].c = e /\ r2t_tasks' = RemoveAt(r2t_tasks, i)

LEMMA FreedFacts ==
  ASSUME TypeOK, SlotsFit, NEW e \in Cmds, Freed(e)
  PROVE  /\ r2t_tasks' \in Seq(R2TTask) /\ Len(r2t_tasks') <= MaxR2T
         /\ \A j \in DOMAIN r2t_tasks' :
              \E k \in DOMAIN r2t_tasks : r2t_tasks'[j] = r2t_tasks[k] /\ r2t_tasks[k].c # e
         /\ \A k \in DOMAIN r2t_tasks : r2t_tasks[k].c # e =>
              \E j \in DOMAIN r2t_tasks' : r2t_tasks'[j] = r2t_tasks[k]
         /\ \A i, j \in DOMAIN r2t_tasks' : r2t_tasks'[i].c = r2t_tasks'[j].c => i = j
<1>1. /\ r2t_tasks \in Seq(R2TTask) /\ DOMAIN r2t_tasks = 1 .. Len(r2t_tasks)
      /\ Len(r2t_tasks) \in Nat /\ Len(r2t_tasks) <= MaxR2T /\ MaxR2T \in Nat
      /\ \A i, j \in DOMAIN r2t_tasks : r2t_tasks[i].c = r2t_tasks[j].c => i = j
  BY SlotTypes, CmdFacts DEF SlotsFit
<1>2. CASE r2t_tasks' = r2t_tasks /\ \A i \in DOMAIN r2t_tasks : r2t_tasks[i].c # e
  BY <1>1, <1>2
<1>3. CASE \E i \in DOMAIN r2t_tasks :
             r2t_tasks[i].c = e /\ r2t_tasks' = RemoveAt(r2t_tasks, i)
  <2>1. PICK i \in 1 .. Len(r2t_tasks) :
          r2t_tasks[i].c = e /\ r2t_tasks' = RemoveAt(r2t_tasks, i)
    BY <1>1, <1>3
  <2>2. /\ r2t_tasks' \in Seq(R2TTask) /\ Len(r2t_tasks') = Len(r2t_tasks) - 1
        /\ \A j \in DOMAIN r2t_tasks' :
             \E k \in DOMAIN r2t_tasks : /\ k # i /\ r2t_tasks'[j] = r2t_tasks[k]
                                         /\ (j < i => k = j) /\ (~(j < i) => k = j + 1)
        /\ \A k \in DOMAIN r2t_tasks :
             k # i => \E j \in DOMAIN r2t_tasks' : r2t_tasks'[j] = r2t_tasks[k]
    <3> DEFINE s == RemoveAt(r2t_tasks, i)
    <3>1. r2t_tasks \in Seq(R2TTask)
      BY <1>1
    <3>2. /\ s \in Seq(R2TTask) /\ Len(s) = Len(r2t_tasks) - 1
          /\ \A j \in DOMAIN s :
               \E k \in DOMAIN r2t_tasks : /\ k # i /\ s[j] = r2t_tasks[k]
                                           /\ (j < i => k = j) /\ (~(j < i) => k = j + 1)
          /\ \A k \in DOMAIN r2t_tasks : k # i => \E j \in DOMAIN s : s[j] = r2t_tasks[k]
      BY <3>1, RemoveFacts
    <3> HIDE DEF s
    <3>3. r2t_tasks' = s
      BY <2>1 DEF s
    <3> QED BY <3>2, <3>3
  <2>3. Len(r2t_tasks') <= MaxR2T
    BY <1>1, <2>2
  <2>4. \A k \in DOMAIN r2t_tasks : k # i => r2t_tasks[k].c # e
    BY <1>1, <2>1
  <2>5. \A k \in DOMAIN r2t_tasks : r2t_tasks[k].c # e => k # i
    BY <2>1
  <2>6. ASSUME NEW j \in DOMAIN r2t_tasks', NEW l \in DOMAIN r2t_tasks',
               r2t_tasks'[j].c = r2t_tasks'[l].c
        PROVE  j = l
    <3>1. PICK k \in DOMAIN r2t_tasks : /\ r2t_tasks'[j] = r2t_tasks[k]
                                        /\ (j < i => k = j) /\ (~(j < i) => k = j + 1)
      BY <2>2
    <3>2. PICK m \in DOMAIN r2t_tasks : /\ r2t_tasks'[l] = r2t_tasks[m]
                                        /\ (l < i => m = l) /\ (~(l < i) => m = l + 1)
      BY <2>2
    <3>3. k = m
      BY <1>1, <2>6, <3>1, <3>2
    <3>4. j \in Nat /\ l \in Nat /\ i \in Nat
      <4>1. DOMAIN r2t_tasks' = 1 .. Len(r2t_tasks')
        BY <2>2
      <4> QED BY <2>1, <4>1
    <3> QED BY <3>1, <3>2, <3>3, <3>4
  <2> QED BY <2>2, <2>3, <2>4, <2>5, <2>6
<1> QED BY <1>2, <1>3 DEF Freed

(* A step of the transfer of command e: it goes on, or hands the data to   *)
(* the logical unit when nothing of e is on its way.                       *)
LEMMA MoveOn ==
  ASSUME IInv, NEW e \in Cmds, lu = <<"wait", e>>, x = None \/ x.c = e, TypeOK', Freed(e),
         UNCHANGED <<ExpCmdSN, rejects, pending_pdus, lu_queue, nextC, imm, got, status>>,
         \/ x # None /\ UNCHANGED task_queue
         \/ task_queue # <<>> /\ Head(task_queue)[1] = "out" /\ task_queue' = Tail(task_queue),
         Stream(net', imm, ExpCmdSN + Len(pending_pdus), nextC),
         \A c \in Cmds : c # e => /\ r2t'[c] = r2t[c] /\ r2ts'[c] = r2ts[c]
                                  /\ granted'[c] = granted[c],
         \A c \in Cmds : \A sn, pos \in Nat :
           c # e /\ Chain(net, r2t[c], c, sn, pos, End(c)) => Chain(net', r2t[c], c, sn, pos, End(c)),
         \A c : DataOf(net, c) = {} => DataOf(net', c) = {},
         \/ \E t \in Xfer : /\ t.c = e /\ x' = t /\ XferFit(t)' /\ pc' = "xfer"
                            /\ UNCHANGED <<lu, stored>>
         \/ /\ x' = None /\ pc' = AfterPdu(pending_pdus) /\ lu' = <<"ready", e>>
            /\ stored'[e] = Blocks(e, 0, Length[e])
            /\ DataOf(net', e) = {} /\ r2t'[e] = None
  PROVE  IInv'
<1>1. /\ TypeOK /\ NotDropped /\ OwnData /\ InOrder /\ Immediate /\ Places /\ Tags
      /\ SlotsFit /\ XferFits /\ Idle /\ Reads /\ Window
  BY DEF IInv
<1> DEFINE Going == \E t \in Xfer : /\ t.c = e /\ x' = t /\ XferFit(t)' /\ pc' = "xfer"
                                    /\ UNCHANGED <<lu, stored>>
           Ready == /\ x' = None /\ pc' = AfterPdu(pending_pdus) /\ lu' = <<"ready", e>>
                    /\ stored'[e] = Blocks(e, 0, Length[e])
                    /\ DataOf(net', e) = {} /\ r2t'[e] = None
<1>2. Going \/ Ready
  OBVIOUS
<1>3. /\ Going => /\ lu' = <<"wait", e>> /\ pc' = "xfer" /\ x' # None /\ x'.c = e
      /\ Ready => /\ lu' = <<"ready", e>> /\ x' = None
                  /\ pc' \in {"poll", "drain"} /\ (pc' = "poll" => pending_pdus = <<>>)
                  /\ (pc' = "drain" => pending_pdus # <<>>)
  BY NoneAssumption DEF AfterPdu
<1>4. e < ExpCmdSN /\ status[e] = None /\ Write[e] /\ lu # None
  <2>1. lu # None
    BY NoneAssumption DEF LuTask
  <2> QED BY <1>1, <2>1 DEF Places, Running
<1>5. /\ \A i \in DOMAIN lu_queue : lu_queue[i] # e
      /\ \A c \in Cmds : c # e => (Waits(c)' <=> Waits(c))
      /\ lu' = <<"ready", e>> => ~Waits(e)'
  <2>1. \A i \in DOMAIN lu_queue : lu_queue[i] # e
    BY <1>1, <1>4 DEF Places, Queued
  <2>2. \A c \in Cmds : c # e => lu # <<"wait", c>> /\ lu' # <<"wait", c>>
    BY <1>2, <1>3
  <2>3. <<"ready", e>> # <<"wait", e>>
    OBVIOUS
  <2> HIDE DEF Going, Ready
  <2> QED BY <2>1, <2>2, <2>3 DEF Waits
<1>6. /\ \A i \in DOMAIN task_queue' : /\ task_queue'[i][1] = "rsp" /\ task_queue'[i][2] # e
                                       /\ \E j \in DOMAIN task_queue : task_queue'[i] = task_queue[j]
      /\ \A i, j \in DOMAIN task_queue' : task_queue'[i][2] = task_queue'[j][2] => i = j
  <2>1. /\ \A i \in DOMAIN task_queue :
             /\ task_queue[i][1] \in {"out", "rsp"}
             /\ \A j \in DOMAIN task_queue : task_queue[i][2] = task_queue[j][2] => i = j
             /\ task_queue[i][1] = "out" => task_queue[i][2] = e /\ x = None
             /\ task_queue[i][1] = "rsp" => task_queue[i][2] # e
        /\ task_queue \in Seq({"out", "rsp"} \X Cmds)
        /\ DOMAIN task_queue = 1 .. Len(task_queue) /\ Len(task_queue) \in Nat
    BY <1>1, <1>4, QueueFacts DEF Places, Asked, TypeOK
  <2>2. CASE x # None /\ UNCHANGED task_queue
    BY <2>1, <2>2
  <2>3. CASE /\ task_queue # <<>> /\ Head(task_queue)[1] = "out"
             /\ task_queue' = Tail(task_queue)
    <3>1. /\ 1 \in DOMAIN task_queue /\ task_queue[1][1] = "out" /\ task_queue[1][2] = e
          /\ \A i \in DOMAIN task_queue' : /\ task_queue'[i] = task_queue[i + 1] /\ i \in Nat
                                           /\ i + 1 \in DOMAIN task_queue /\ i + 1 # 1
      <4> HIDE DEF Going, Ready
      <4>0. task_queue \in Seq({"out", "rsp"} \X Cmds) /\ Len(task_queue) \in Nat
        BY <2>1
      <4>1. /\ DOMAIN task_queue' = 1 .. Len(task_queue) - 1
            /\ \A i \in 1 .. Len(task_queue) - 1 : task_queue'[i] = task_queue[i + 1]
        BY <2>3, <4>0
      <4>2. \A i \in 1 .. Len(task_queue) - 1 :
              i + 1 \in DOMAIN task_queue /\ i + 1 # 1 /\ i \in Nat
        BY <2>1
      <4>3. 1 \in DOMAIN task_queue /\ task_queue[1][1] = "out"
        BY <2>3, <4>0
      <4> QED BY <2>1, <4>1, <4>2, <4>3
    <3>2. \A i \in DOMAIN task_queue' : task_queue[i + 1][2] # e
      BY <2>1, <3>1
    <3>3. \A i \in DOMAIN task_queue' : task_queue[i + 1][1] = "rsp"
      BY <2>1, <3>1, <3>2
    <3>4. \A i, j \in DOMAIN task_queue' : task_queue'[i][2] = task_queue'[j][2] => i + 1 = j + 1
      BY <2>1, <3>1
    <3>5. \A i, j \in DOMAIN task_queue' : i + 1 = j + 1 => i = j
      BY <3>1
    <3> QED BY <3>1, <3>2, <3>3, <3>4, <3>5
  <2> QED BY <2>2, <2>3
<1>7. /\ \A j \in DOMAIN r2t_tasks' :
           \E k \in DOMAIN r2t_tasks : r2t_tasks'[j] = r2t_tasks[k] /\ r2t_tasks[k].c # e
      /\ \A k \in DOMAIN r2t_tasks : r2t_tasks[k].c # e =>
           \E j \in DOMAIN r2t_tasks' : r2t_tasks'[j] = r2t_tasks[k]
      /\ \A i, j \in DOMAIN r2t_tasks' : r2t_tasks'[i].c = r2t_tasks'[j].c => i = j
      /\ Len(r2t_tasks') <= MaxR2T
  BY <1>1, FreedFacts
<1>8. NotDropped' /\ Reads' /\ Immediate' /\ Tags' /\ Window'
  <2>1. NotDropped'
    BY <1>1, <1>2, <1>3 DEF NotDropped
  <2>2. Tags'
    <3>1. status[e] = None
      <4>1. lu # None /\ lu[2] = e
        BY NoneAssumption DEF LuTask
      <4> QED BY <1>1, <4>1 DEF Places, Running
    <3>2. \A c \in Cmds : Live(c)' => Live(c)
      BY <3>1 DEF Live, Leftover
    <3> QED BY <1>1, <3>2, TagsSame
  <2> HIDE DEF Going, Ready
  <2> QED BY <1>1, <2>1, <2>2 DEF Reads, Answered, TransferIn, Immediate, Window
<1>9. OwnData'
  <2>1. CASE Going
    <3>1. lu' = <<"wait", e>>
      BY <1>3, <2>1
    <3>2. \A c : <<"wait", e>> # <<"ready", c>>
      OBVIOUS
    <3> QED BY <3>1, <3>2 DEF OwnData
  <2>2. CASE Ready
    <3>1. \A c : lu' = <<"ready", c>> => c = e
      BY <1>3, <2>2
    <3>2. stored'[e] = Blocks(e, 0, Length[e])
      BY <2>2
    <3> HIDE DEF Going, Ready
    <3>3. \A c \in Cmds : lu' = <<"ready", c>> => stored'[c] = Blocks(c, 0, Length[c])
      BY <3>1, <3>2
    <3> QED BY <3>3 DEF OwnData
  <2> QED BY <1>2, <2>1, <2>2
<1>10. InOrder'
  <2>1. pc' = "poll" => pending_pdus = <<>>
    BY <1>2, <1>3
  <2>2. pc' = "drain" => pending_pdus # <<>>
    BY <1>2, <1>3
  <2> HIDE DEF Going, Ready
  <2> QED BY <1>1, <2>1, <2>2 DEF InOrder
<1>11. Places'
  <2>1. Unseen'
    <3>1. ExpCmdSN \in Nat
      BY <1>1, TypeFacts
    <3>2. \A c \in Cmds : c >= ExpCmdSN => c # e
      BY <1>4, <3>1, CmdFacts
    <3> HIDE DEF Going, Ready
    <3> QED BY <1>1, <3>2 DEF Places, Unseen, Fresh
  <2>2. lu'[2] = e
    BY <1>2, <1>3
  <2> HIDE DEF Going, Ready
  <2>3. Running'
    BY <1>4, <2>2 DEF Running
  <2>4. Queued'
    <3>1. ASSUME NEW i \in DOMAIN lu_queue, NEW j \in DOMAIN task_queue'
          PROVE  task_queue'[j][2] # lu_queue[i]
      BY <1>1, <1>6 DEF Places, Queued
    <3> QED BY <1>1, <1>5, <2>2, <3>1 DEF Places, Queued
  <2>5. Asked'
    <3> SUFFICES ASSUME NEW i \in DOMAIN task_queue'
                 PROVE  /\ task_queue'[i][2] < ExpCmdSN /\ status[task_queue'[i][2]] = None
                        /\ task_queue'[i][1] # "out" /\ lu'[2] # task_queue'[i][2]
      BY <1>6 DEF Asked
    <3>1. PICK j \in DOMAIN task_queue : task_queue'[i] = task_queue[j]
      BY <1>6
    <3>2. task_queue[j][2] < ExpCmdSN /\ status[task_queue[j][2]] = None
      BY <1>1 DEF Places, Asked
    <3>3. task_queue'[i][1] = "rsp" /\ task_queue'[i][2] # e
      BY <1>6
    <3>4. "rsp" # "out"
      OBVIOUS
    <3> QED BY <2>2, <3>1, <3>2, <3>3, <3>4
  <2> QED BY <2>1, <2>3, <2>4, <2>5 DEF Places
<1>12. ASSUME NEW q \in R2TTask, SlotFits(q), q.c # e PROVE SlotFits(q)'
  <2>1. /\ q.c \in Cmds /\ q.DataSN \in Nat /\ Len(q.iobuf) \in Nat
        /\ q.c < ExpCmdSN /\ Chain(net, r2t[q.c], q.c, q.DataSN, Len(q.iobuf), End(q.c))
        /\ Waits(q.c) \/ status[q.c] = "refused"
    BY <1>12, R2TTaskFacts DEF SlotFits
  <2> HIDE DEF Going, Ready
  <2>2. Waits(q.c)' \/ status'[q.c] = "refused"
    BY <1>5, <1>12, <2>1
  <2>3. Chain(net', r2t'[q.c], q.c, q.DataSN, Len(q.iobuf), End(q.c))
    BY <1>12, <2>1
  <2>4. r2ts'[q.c] = r2ts[q.c] /\ granted'[q.c] = granted[q.c]
    BY <1>12, <2>1
  <2> QED BY <1>12, <2>1, <2>2, <2>3, <2>4, SlotFrame
<1>13. SlotsFit'
  <2>1. ASSUME NEW j \in DOMAIN r2t_tasks' PROVE SlotFits(r2t_tasks[j])' /\ r2t_tasks'[j].c # e
    <3>1. PICK k \in DOMAIN r2t_tasks : r2t_tasks'[j] = r2t_tasks[k] /\ r2t_tasks[k].c # e
      BY <1>7
    <3>2. PICK q \in R2TTask : q = r2t_tasks[k]
      BY <1>1, SlotTypes
    <3>3. SlotFits(q) /\ q.c # e
      BY <1>1, <3>1, <3>2 DEF SlotsFit
    <3>4. SlotFits(q)' /\ q = r2t_tasks'[j]
      BY <1>12, <3>1, <3>2, <3>3
    <3> QED BY <3>3, <3>4
  <2>2. x' # None => x'.c = e
    BY <1>2, <1>3
  <2> HIDE DEF Going, Ready
  <2> QED BY <1>7, <2>1, <2>2 DEF SlotsFit
<1>14. XferFits'
  <2>1. CASE Going
    <3>1. PICK t \in Xfer : x' = t /\ XferFit(t)'
      BY <2>1
    <3>2. XferFit(x)'
      BY <3>1
    <3> HIDE DEF Going, Ready
    <3> QED BY <1>3, <2>1, <3>2 DEF XferFits
  <2>2. CASE Ready
    <3>1. x' = None /\ pc' # "xfer"
      BY <1>3, <2>2
    <3> QED BY <3>1 DEF XferFits
  <2> QED BY <1>2, <2>1, <2>2
<1>15. Idle'
  <2> SUFFICES ASSUME NEW c \in Cmds, ~Holder(c)'
               PROVE  /\ DataOf(net', c) = {} /\ r2t'[c] = None
                      /\ Waits(c)' => Fresh(c)'
    BY DEF Idle
  <2>1. CASE c = e
    <3>1. ~Going
      BY <1>3, <2>1 DEF Holder
    <3> QED BY <1>2, <1>5, <2>1, <3>1
  <2>2. CASE c # e
    <3> HIDE DEF Going, Ready
    <3>1. ~Holder(c)
      <4>1. ~(x # None /\ x.c = c)
        BY <2>2
      <4>2. \A k \in DOMAIN r2t_tasks : r2t_tasks[k].c # c
        BY <1>7, <2>2 DEF Holder
      <4> QED BY <4>1, <4>2 DEF Holder
    <3>2. DataOf(net, c) = {} /\ r2t[c] = None /\ (Waits(c) => Fresh(c))
      BY <1>1, <3>1 DEF Idle
    <3> QED BY <1>5, <2>2, <3>2 DEF Fresh
  <2> QED BY <2>1, <2>2
<1> QED BY <1>8, <1>9, <1>10, <1>11, <1>13, <1>14, <1>15 DEF IInv

(* The command whose transfer the logical unit asks for.                   *)
LEMMA StartTransferStep ==
  ASSUME IInv, StartTransfer
  PROVE  IInv'
<1>1. /\ TypeOK /\ NotDropped /\ OwnData /\ InOrder /\ Immediate /\ Places /\ Tags
      /\ SlotsFit /\ XferFits /\ Idle /\ Reads /\ Window
  BY DEF IInv
<1>2. /\ pc = "poll" /\ task_queue # <<>> /\ Head(task_queue)[1] = "out"
      /\ task_queue' = Tail(task_queue)
      /\ UNCHANGED <<pending_pdus, ExpCmdSN, rejects, lu_queue, net, nextC, imm, got, status,
                     reused>>
      /\ UNCHANGED <<r2t, r2ts, granted>>
  BY DEF StartTransfer, askVars
<1>3. PICK e \in Cmds : /\ e = Head(task_queue)[2] /\ 1 \in DOMAIN task_queue
                        /\ task_queue[1][2] = e /\ task_queue[1][1] = "out"
  <2>1. /\ task_queue \in Seq({"out", "rsp"} \X Cmds) /\ DOMAIN task_queue = 1 .. Len(task_queue)
        /\ Len(task_queue) \in Nat /\ \A i \in DOMAIN task_queue : task_queue[i][2] \in Cmds
    BY <1>1, QueueFacts DEF TypeOK
  <2>2. 1 \in DOMAIN task_queue /\ Head(task_queue) = task_queue[1]
    BY <1>2, <2>1
  <2> QED BY <1>2, <2>1, <2>2
<1>4. /\ e < ExpCmdSN /\ status[e] = None /\ lu = <<"wait", e>> /\ x = None /\ Live(e)
      /\ Waits(e)
  <2>1. e < ExpCmdSN /\ status[e] = None /\ lu = <<"wait", e>> /\ x = None
    BY <1>1, <1>3 DEF Places, Asked
  <2> QED BY <2>1 DEF Live, Waits
<1>5. /\ imm[e] \in Nat /\ imm[e] <= FirstBurst /\ imm[e] <= Length[e] /\ Length[e] \in Nat
      /\ FirstBurst \in Nat /\ MaxBurst \in Nat /\ MaxBurst > 0 /\ FirstBurst > 0
      /\ r2ts[e] \in Nat /\ granted[e] \in Nat /\ End(e) \in Nat
      /\ (r2t[e] # None => r2t[e] \in R2T) /\ net \in Seq(Pdu)
  BY <1>1, TypeFacts, CmdFacts DEF Immediate
<1>6. task_queue' \in Seq({"out", "rsp"} \X Cmds)
  <2>1. task_queue \in Seq({"out", "rsp"} \X Cmds)
    BY <1>1 DEF TypeOK
  <2> QED BY <1>2, <2>1
<1>7. Stream(net', imm, ExpCmdSN + Len(pending_pdus), nextC)
  BY <1>1, <1>2 DEF InOrder
<1>8. \A c : End(c)' = End(c)
  BY <1>2 DEF End
<1> DEFINE Going(t) == /\ t.c = e /\ x' = t /\ XferFit(t)' /\ pc' = "xfer"
                       /\ UNCHANGED <<lu, stored>>
           Ready == /\ x' = None /\ pc' = AfterPdu(pending_pdus) /\ lu' = <<"ready", e>>
                    /\ stored'[e] = Blocks(e, 0, Length[e])
                    /\ DataOf(net', e) = {} /\ r2t'[e] = None
<1>9. ASSUME Freed(e),
             \/ \E t \in Xfer : Going(t)
             \/ Ready /\ stored' \in [Cmds -> Buffer]
      PROVE  IInv'
  <2>1. TypeOK'
    <3>1. r2t_tasks' \in Seq(R2TTask)
      BY <1>1, <1>9, FreedFacts
    <3>2. /\ x' \in Xfer \cup {None} /\ lu' \in LuTask \cup {None}
          /\ stored' \in [Cmds -> Buffer] /\ pc' \in {"poll", "drain", "xfer", "exit"}
      <4>1. lu \in LuTask \cup {None} /\ stored \in [Cmds -> Buffer]
        BY <1>1 DEF TypeOK
      <4>2. <<"ready", e>> \in LuTask
        BY DEF LuTask
      <4> QED BY <1>9, <4>1, <4>2 DEF AfterPdu
    <3> HIDE DEF Going, Ready
    <3> QED BY <1>1, <1>2, <1>6, <3>1, <3>2 DEF TypeOK
  <2>2. (\E t \in Xfer : Going(t)) \/ Ready
    BY <1>9
  <2> QED BY <1>2, <1>4, <1>7, <1>9, <2>1, <2>2, MoveOn
<1> HIDE DEF Going, Ready
<1>10. CASE SlotOf(e) # 0
  <2>1. PICK i \in DOMAIN r2t_tasks : i = SlotOf(e) /\ r2t_tasks[i].c = e /\ SlotOf(e) > 0
    <3>1. SlotOf(e) \in Nat /\ SlotOf(e) > 0
      BY <1>4, <1>10, SlotOfFacts
    <3> QED BY <1>4, <1>10, <3>1, SlotOfFacts
  <2>2. PICK r \in R2TTask : r = r2t_tasks[i] /\ r.c = e
    BY <1>1, <2>1, SlotTypes
  <2> DEFINE off == Len(r.iobuf)
  <2>3. /\ r2t_tasks' = RemoveAt(r2t_tasks, i)
        /\ IF off < Length[e] THEN Goes(Resumed(e, r))
           ELSE IF off = Length[e] /\ ~r.F THEN Failed ELSE Transferred(e, r.iobuf)
    BY <1>3, <2>1, <2>2 DEF StartTransfer, TakeOver
  <2>4. Freed(e)
    BY <2>1, <2>3 DEF Freed
  <2>5. SlotFits(r)
    BY <1>1, <2>2 DEF SlotsFit
  <2>6. /\ imm[e] = FirstBurst /\ granted[e] = Least(MaxBurst, Length[e] - FirstBurst)
        /\ FirstBurst < Length[e] /\ r.R2TSN = r2ts[e] /\ r.iobuf = Blocks(e, 0, off)
        /\ imm[e] <= off /\ off <= End(e) /\ (off = End(e) => r.F)
        /\ Chain(net, r2t[e], e, r.DataSN, off, End(e))
        /\ off \in Nat /\ r.iobuf \in Buffer /\ r.R2TSN \in Nat /\ r.DataSN \in Nat
    BY <2>2, <2>5, R2TTaskFacts DEF SlotFits
  <2>7. End(e) = FirstBurst + Least(MaxBurst, Length[e] - FirstBurst)
    BY <2>6 DEF End
  <2> HIDE DEF off
  <2>8. /\ End(e) <= Length[e]
        /\ off < Length[e] =>
             /\ (off < FirstBurst + MaxBurst) = (off < End(e))
             /\ Least(MaxBurst, Length[e] - off) \in Nat
             /\ Least(MaxBurst, Length[e] - off) >= End(e) - off
             /\ End(e) = Length[e] => Least(MaxBurst, Length[e] - off) = End(e) - off
    <3> DEFINE end == End(e)
               l == Length[e]
    <3>1. /\ FirstBurst \in Nat /\ MaxBurst \in Nat /\ MaxBurst > 0 /\ l \in Nat
          /\ off \in Nat /\ end \in Nat /\ FirstBurst < l
          /\ end = FirstBurst + Least(MaxBurst, l - FirstBurst)
          /\ FirstBurst <= off /\ off <= end
      BY <1>5, <2>6, <2>7
    <3> HIDE DEF end, l
    <3>2. /\ end <= l
          /\ off < l => /\ (off < FirstBurst + MaxBurst) = (off < end)
                        /\ Least(MaxBurst, l - off) \in Nat
                        /\ Least(MaxBurst, l - off) >= end - off
                        /\ end = l => Least(MaxBurst, l - off) = end - off
      BY <3>1 DEF Least
    <3> QED BY <3>2 DEF end, l
  <2>9. CASE off < Length[e]
    <3> DEFINE t == Resumed(e, r)
    <3>1. /\ t.c = e /\ t.data = r.iobuf /\ t.R2TSN = r.R2TSN /\ t.DataSN = r.DataSN
          /\ t.len = Least(MaxBurst, Length[e] - off)
          /\ t.r2t_flag = (off < FirstBurst + MaxBurst)
          /\ t \in Xfer
      <4>1. (off < FirstBurst + MaxBurst) \in BOOLEAN
        OBVIOUS
      <4> QED BY <2>6, <2>8, <2>9, <4>1 DEF Resumed, Local, Xfer, off
    <3>2. x' = t /\ pc' = "xfer" /\ UNCHANGED <<lu, stored>>
      BY <2>3, <2>9 DEF Goes
    <3> HIDE DEF t
    <3>3. XferFit(t)'
      <4>1. t.r2t_flag <=> off < End(e)
        BY <2>8, <2>9, <3>1
      <4>2. t.len >= End(e) - off /\ (End(e) = Length[e] => t.len = End(e) - off)
        BY <2>8, <2>9, <3>1
      <4>3. Len(t.data) = off
        BY <3>1 DEF off
      <4>4. lu' = <<"wait", e>> /\ t.R2TSN = r2ts'[e] /\ t.data = Blocks(e, 0, off) /\ imm'[e] <= off
        BY <1>2, <1>4, <2>6, <3>1, <3>2
      <4>5. Chain(net', r2t'[e], e, t.DataSN, off, End(e))
        BY <1>2, <2>6, <3>1
      <4> QED BY <1>8, <2>6, <2>8, <2>9, <3>1, <4>1, <4>2, <4>3, <4>4, <4>5 DEF XferFit
    <3>4. Going(t)
      BY <3>1, <3>2, <3>3 DEF Going
    <3> QED BY <1>9, <2>4, <3>1, <3>4
  <2>10. CASE ~(off < Length[e])
    <3>1. off = Length[e] /\ off = End(e) /\ r.F
      BY <1>5, <2>6, <2>8, <2>10
    <3>2. Transferred(e, r.iobuf)
      BY <2>3, <2>10, <3>1
    <3>3. DataOf(net', e) = {} /\ r2t'[e] = None
      BY <1>2, <1>5, <2>6, <3>1, ChainDone
    <3>4. stored' \in [Cmds -> Buffer] /\ stored'[e] = r.iobuf
      <4>1. stored \in [Cmds -> Buffer]
        BY <1>1 DEF TypeOK
      <4> QED BY <2>6, <3>2, <4>1 DEF Transferred
    <3>5. Ready
      BY <2>6, <3>1, <3>2, <3>3, <3>4 DEF Transferred, Ready
    <3> QED BY <1>9, <2>4, <3>4, <3>5
  <2> QED BY <2>9, <2>10
<1>11. CASE SlotOf(e) = 0
  <2>1. \A i \in DOMAIN r2t_tasks : r2t_tasks[i].c # e
    BY <1>4, <1>11, SlotOfFacts
  <2>2. DataOf(net, e) = {} /\ r2t[e] = None /\ Fresh(e)
    <3>1. ~Holder(e)
      BY <1>4, <2>1 DEF Holder
    <3> QED BY <1>1, <1>4, <3>1 DEF Idle
  <2>3. PICK n \in Nat : n = imm[e]
    BY <1>5
  <2>4. /\ UNCHANGED r2t_tasks
        /\ CASE n > FirstBurst -> Failed
             [] n < Length[e]  -> Goes(Local(e, Blocks(e, 0, n), 0, 0,
                                             Least(FirstBurst, Length[e] - n), FALSE))
             [] OTHER -> Transferred(e, Blocks(e, 0, n))
    <3>1. ~(SlotOf(e) > 0)
      BY <1>11
    <3> QED BY <1>3, <2>3, <3>1 DEF StartTransfer
  <2>5. Freed(e)
    BY <2>1, <2>4 DEF Freed
  <2>6. ~(n > FirstBurst) /\ End(e) = n
    BY <1>5, <2>2, <2>3 DEF End, Fresh
  <2>7. Blocks(e, 0, n) \in Buffer /\ Len(Blocks(e, 0, n)) = n
    BY BlocksFacts
  <2>8. CASE n < Length[e]
    <3> DEFINE l == Least(FirstBurst, Length[e] - n)
               t == Local(e, Blocks(e, 0, n), 0, 0, l, FALSE)
    <3>1. l \in Nat
      BY <1>5, <2>8 DEF Least
    <3> HIDE DEF l
    <3>2. /\ t.c = e /\ t.data = Blocks(e, 0, n) /\ t.R2TSN = 0 /\ t.DataSN = 0
          /\ t.r2t_flag = FALSE /\ t \in Xfer
      BY <2>7, <3>1 DEF Local, Xfer
    <3>3. x' = t /\ pc' = "xfer" /\ UNCHANGED <<lu, stored>>
      BY <2>4, <2>6, <2>8 DEF Goes, l
    <3> HIDE DEF t
    <3>4. XferFit(t)'
      <4>1. Len(t.data) = n /\ n \in Nat
        BY <2>7, <3>2
      <4>2. Chain(net', r2t'[e], e, 0, n, End(e))
        BY <1>2, <2>2, ChainNone
      <4>3. lu' = <<"wait", e>> /\ t.R2TSN = r2ts'[e] /\ imm'[e] = n
        BY <1>2, <1>4, <2>2, <2>3, <3>2, <3>3 DEF Fresh
      <4>4. End(e)' = n /\ ~(n < n) /\ n <= n /\ n <= Length[e]
        BY <1>5, <1>8, <2>6, <2>8, <4>1
      <4>5. t.c = e /\ t.data = Blocks(e, 0, n) /\ t.r2t_flag = FALSE /\ t.DataSN = 0
        BY <3>2
      <4>6. /\ (t.r2t_flag <=> n < End(e)) /\ End(e) <= Length[e] /\ n <= End(e)
            /\ imm'[e] <= n /\ n < Length[e]
        BY <2>6, <2>8, <4>3, <4>4, <4>5
      <4>7. Len(t.data) = n /\ t.data = Blocks(e, 0, n)
        BY <4>1, <4>5
      <4>8. ~t.r2t_flag
        BY <4>5
      <4>9. End(e)' = End(e) /\ Chain(net', r2t'[e], e, t.DataSN, n, End(e))
        BY <1>8, <4>2, <4>5
      <4>10. t.c = e
        BY <4>5
      <4> HIDE DEF Local
      <4> QED BY <4>3, <4>6, <4>7, <4>8, <4>9, <4>10 DEF XferFit
    <3>5. Going(t)
      BY <3>2, <3>3, <3>4 DEF Going
    <3> QED BY <1>9, <2>5, <3>2, <3>5
  <2>9. CASE ~(n < Length[e])
    <3>1. n = Length[e]
      BY <1>5, <2>9, <2>3
    <3>2. Transferred(e, Blocks(e, 0, n))
      BY <2>4, <2>6, <2>9
    <3>3. stored' \in [Cmds -> Buffer] /\ stored'[e] = Blocks(e, 0, n)
      <4>1. stored \in [Cmds -> Buffer]
        BY <1>1 DEF TypeOK
      <4> QED BY <2>7, <3>2, <4>1 DEF Transferred
    <3>4. Ready
      BY <1>2, <2>2, <3>1, <3>2, <3>3 DEF Transferred, Ready
    <3> QED BY <1>9, <2>5, <3>3, <3>4
  <2> QED BY <2>8, <2>9
<1> QED BY <1>10, <1>11

(* What is known of the transfer in progress.                              *)
LEMMA InTransfer ==
  ASSUME IInv, pc = "xfer"
  PROVE  \E t \in Xfer : \E n \in Nat :
           /\ x = t /\ x # None /\ t.c \in Cmds /\ n = Len(t.data) /\ XferFit(t)
           /\ lu = <<"wait", t.c>> /\ t.R2TSN = r2ts[t.c] /\ t.data = Blocks(t.c, 0, n)
           /\ imm[t.c] <= n /\ n <= End(t.c) /\ n < Length[t.c] /\ End(t.c) <= Length[t.c]
           /\ t.r2t_flag = (n < End(t.c))
           /\ n < End(t.c) => /\ t.len >= End(t.c) - n
                              /\ End(t.c) = Length[t.c] => t.len = End(t.c) - n
           /\ Chain(net, r2t[t.c], t.c, t.DataSN, n, End(t.c))
           /\ Freed(t.c) \/ r2t_tasks' # r2t_tasks
           /\ Holder(t.c)
<1>1. TypeOK /\ SlotsFit /\ XferFits
  BY DEF IInv
<1>2. x # None /\ x \in Xfer /\ XferFit(x)
  BY <1>1, SlotTypes DEF XferFits
<1>3. PICK t \in Xfer : t = x /\ XferFit(t)
  BY <1>2
<1>4. /\ t.c \in Cmds /\ Len(t.data) \in Nat /\ t.r2t_flag \in BOOLEAN
  BY XferFacts
<1>5. t.r2t_flag = (Len(t.data) < End(t.c))
  <2>1. t.r2t_flag <=> Len(t.data) < End(t.c)
    BY <1>3 DEF XferFit
  <2> QED BY <1>4, <2>1
<1>6. Len(t.data) < End(t.c) =>
        /\ t.len >= End(t.c) - Len(t.data)
        /\ End(t.c) = Length[t.c] => t.len = End(t.c) - Len(t.data)
  BY <1>3 DEF XferFit
<1>7. Freed(t.c) \/ r2t_tasks' # r2t_tasks
  BY <1>1, <1>2, <1>3 DEF SlotsFit, Freed
<1>8. Holder(t.c)
  BY <1>2, <1>3 DEF Holder
<1>9. /\ lu = <<"wait", t.c>> /\ t.R2TSN = r2ts[t.c] /\ t.data = Blocks(t.c, 0, Len(t.data))
      /\ imm[t.c] <= Len(t.data) /\ Len(t.data) <= End(t.c) /\ Len(t.data) < Length[t.c]
      /\ End(t.c) <= Length[t.c]
      /\ Chain(net, r2t[t.c], t.c, t.DataSN, Len(t.data), End(t.c))
  BY <1>3 DEF XferFit
<1> QED BY <1>2, <1>3, <1>4, <1>5, <1>6, <1>7, <1>8, <1>9

(* The R2T that transfer_out sends asks for what follows all that was      *)
(* asked for, when nothing of it is on its way.                            *)
LEMMA NextR2T ==
  ASSUME IInv, TransferR2T
  PROVE  \E t \in Xfer : \E n, len \in Nat :
           /\ x = t /\ x # None /\ t.c \in Cmds /\ n = Len(t.data) /\ n = End(t.c)
           /\ DataOf(net, t.c) = {} /\ r2t[t.c] = None
           /\ len \in 1 .. MaxBurst /\ n + len <= Length[t.c]
           /\ SendR2T(t.c, n, len)
           /\ x' = [t EXCEPT !.R2TSN = @ + 1, !.r2t_flag = TRUE, !.DataSN = 0, !.len = len]
<1>1. pc = "xfer" /\ ~x.r2t_flag /\ TypeOK
  BY DEF TransferR2T, NeedsR2T, IInv
<1>2. PICK t \in Xfer, n \in Nat :
        /\ x = t /\ x # None /\ t.c \in Cmds /\ n = Len(t.data)
        /\ n <= End(t.c) /\ n < Length[t.c] /\ t.r2t_flag = (n < End(t.c))
        /\ Chain(net, r2t[t.c], t.c, t.DataSN, n, End(t.c))
  BY <1>1, InTransfer
<1>3. /\ End(t.c) \in Nat /\ (r2t[t.c] # None => r2t[t.c] \in R2T) /\ net \in Seq(Pdu)
      /\ t.DataSN \in Nat
  BY <1>1, <1>2, TypeFacts, XferFacts
<1>4. n = End(t.c)
  <2>1. ~(n < End(t.c))
    BY <1>1, <1>2
  <2> QED BY <1>2, <1>3, <2>1
<1>5. DataOf(net, t.c) = {} /\ r2t[t.c] = None
  BY <1>2, <1>3, <1>4, ChainDone
<1>6. PICK len \in Nat : len = Least(MaxBurst, Length[t.c] - n) /\ len \in 1 .. MaxBurst
                         /\ n + len <= Length[t.c]
  <2>1. Length[t.c] \in Nat /\ MaxBurst \in Nat /\ MaxBurst > 0
    BY <1>2, CmdFacts
  <2> DEFINE l == Length[t.c]
             k == Least(MaxBurst, l - n)
  <2>2. l \in Nat /\ n < l
    BY <1>2, <2>1
  <2> HIDE DEF l
  <2>3. k \in Nat /\ k \in 1 .. MaxBurst /\ n + k <= l
    BY <2>1, <2>2 DEF Least
  <2> QED BY <2>3 DEF l
<1>7. /\ SendR2T(t.c, n, len)
      /\ x' = [t EXCEPT !.R2TSN = @ + 1, !.r2t_flag = TRUE, !.DataSN = 0, !.len = len]
  BY <1>2, <1>6 DEF TransferR2T
<1> QED BY <1>2, <1>4, <1>5, <1>6, <1>7

LEMMA TransferR2TStep ==
  ASSUME IInv, TransferR2T
  PROVE  IInv'
<1>1. /\ TypeOK /\ InOrder
  BY DEF IInv
<1>2. /\ pc = "xfer" /\ pc' = pc
      /\ UNCHANGED <<pending_pdus, r2t_tasks, ExpCmdSN, rejects, task_queue, lu_queue, lu, stored,
                     net, nextC, imm, got, status, reused>>
  BY DEF TransferR2T, luVars
<1>3. PICK t \in Xfer, n \in Nat, len \in Nat :
        /\ x = t /\ x # None /\ t.c \in Cmds /\ n = Len(t.data) /\ n = End(t.c)
        /\ DataOf(net, t.c) = {} /\ r2t[t.c] = None
        /\ len \in 1 .. MaxBurst /\ n + len <= Length[t.c]
        /\ SendR2T(t.c, n, len)
        /\ x' = [t EXCEPT !.R2TSN = @ + 1, !.r2t_flag = TRUE, !.DataSN = 0, !.len = len]
  BY NextR2T
<1>4. PICK e \in Cmds : e = t.c
  BY <1>3
<1>5. /\ lu = <<"wait", e>> /\ Freed(e) /\ t.R2TSN = r2ts[e] /\ t.data = Blocks(e, 0, n)
      /\ imm[e] <= n /\ n < Length[e] /\ len \in 1 .. MaxBurst /\ MaxBurst \in Nat
  <2>1. \E s \in Xfer : \E m \in Nat :
          /\ x = s /\ m = Len(s.data) /\ lu = <<"wait", s.c>> /\ s.R2TSN = r2ts[s.c]
          /\ s.data = Blocks(s.c, 0, m) /\ imm[s.c] <= m /\ m < Length[s.c]
          /\ (Freed(s.c) \/ r2t_tasks' # r2t_tasks)
    BY <1>2, InTransfer
  <2> QED BY <1>2, <1>3, <1>4, <2>1, CmdFacts
<1>6. /\ r2t' \in [Cmds -> R2T \cup {None}] /\ r2ts' \in [Cmds -> Nat]
      /\ granted' \in [Cmds -> Nat] /\ granted'[e] = granted[e] + len /\ r2ts'[e] = r2ts[e] + 1
      /\ r2t'[e] = [off |-> n, len |-> len, sent |-> 0, sn |-> 0]
      /\ \A c \in Cmds : c # e => /\ r2t'[c] = r2t[c] /\ r2ts'[c] = r2ts[c]
                                  /\ granted'[c] = granted[c]
  <2>1. /\ r2t' = [r2t EXCEPT ![e] = [off |-> n, len |-> len, sent |-> 0, sn |-> 0]]
        /\ r2ts' = [r2ts EXCEPT ![e] = @ + 1] /\ granted' = [granted EXCEPT ![e] = @ + len]
    BY <1>3, <1>4 DEF SendR2T
  <2>2. /\ r2t \in [Cmds -> R2T \cup {None}] /\ r2ts \in [Cmds -> Nat]
        /\ granted \in [Cmds -> Nat]
    BY <1>1 DEF TypeOK
  <2>3. [off |-> n, len |-> len, sent |-> 0, sn |-> 0] \in R2T
    BY DEF R2T
  <2>4. r2t' \in [Cmds -> R2T \cup {None}]
    BY <2>1, <2>2, <2>3
  <2>5. r2ts' \in [Cmds -> Nat] /\ granted' \in [Cmds -> Nat]
    BY <2>1, <2>2
  <2> QED BY <2>1, <2>2, <2>4, <2>5
<1>7. PICK u \in Xfer : /\ x' = u /\ u.c = e /\ u.data = t.data /\ u.R2TSN = t.R2TSN + 1
                        /\ u.DataSN = 0 /\ u.len = len /\ u.r2t_flag = TRUE
  <2> DEFINE u == [t EXCEPT !.R2TSN = @ + 1, !.r2t_flag = TRUE, !.DataSN = 0, !.len = len]
  <2>1. t.R2TSN + 1 \in Nat /\ t.c \in Cmds /\ t.data \in Buffer
    BY XferFacts
  <2>2. /\ u.c = t.c /\ u.data = t.data /\ u.R2TSN = t.R2TSN + 1
        /\ u.DataSN = 0 /\ u.len = len /\ u.r2t_flag = TRUE
    BY DEF Xfer
  <2>3. u \in Xfer
    BY <2>1 DEF Xfer
  <2> HIDE DEF u
  <2>4. x' = u
    BY <1>3 DEF u
  <2> QED BY <1>4, <2>2, <2>3, <2>4
<1>8. TypeOK'
  BY <1>1, <1>2, <1>6, <1>7 DEF TypeOK
<1>9. XferFit(u)'
  <2>1. /\ imm[e] \in Nat /\ granted[e] \in Nat /\ len \in Nat /\ len > 0 /\ n = imm[e] + granted[e]
        /\ Length[e] \in Nat /\ n + len <= Length[e]
    <3>1. imm[e] \in Nat /\ granted[e] \in Nat /\ Length[e] \in Nat
      BY <1>1, TypeFacts, CmdFacts
    <3>2. n = imm[e] + granted[e] /\ n + len <= Length[e]
      BY <1>3, <1>4 DEF End
    <3>3. len \in Nat /\ len > 0
      BY <1>5
    <3> QED BY <3>1, <3>2, <3>3
  <2>2. End(e)' = n + len
    <3>1. End(e)' = imm[e] + (granted[e] + len)
      BY <1>2, <1>6 DEF End
    <3> QED BY <2>1, <3>1
  <2>3. Chain(net', r2t'[e], e, 0, n, n + len)
    <3>1. len \in Nat \ {0} /\ DataOf(net, e) = {}
      BY <1>3, <1>4, <2>1
    <3>2. Chain(net, [off |-> n, len |-> len, sent |-> 0, sn |-> 0], e, 0, n, n + len)
      BY <3>1, ChainGrant
    <3> QED BY <1>2, <1>6, <3>2
  <2>4. /\ imm'[e] <= n /\ n <= n + len /\ n < n + len /\ (n + len) - n = len /\ n < Length[e]
    BY <1>2, <1>5, <2>1
  <2>5. lu' = <<"wait", e>> /\ u.R2TSN = r2ts'[e] /\ Len(u.data) = n /\ u.data = Blocks(e, 0, n)
    <3>1. lu' = <<"wait", e>>
      BY <1>2, <1>5
    <3>2. u.R2TSN = r2ts'[e]
      BY <1>5, <1>6, <1>7
    <3>3. Len(u.data) = n
      BY <1>3, <1>7
    <3>4. u.data = Blocks(e, 0, n)
      BY <1>5, <1>7
    <3> QED BY <3>1, <3>2, <3>3, <3>4
  <2>6. u.len >= (n + len) - n /\ u.len = (n + len) - n
    BY <1>7, <2>1, <2>4
  <2> QED BY <1>7, <2>1, <2>2, <2>3, <2>4, <2>5, <2>6 DEF XferFit
<1>10. Stream(net', imm, ExpCmdSN + Len(pending_pdus), nextC)
  BY <1>1, <1>2 DEF InOrder
<1>11. \E s \in Xfer : /\ s.c = e /\ x' = s /\ XferFit(s)' /\ pc' = "xfer"
                       /\ UNCHANGED <<lu, stored>>
  BY <1>2, <1>7, <1>9
<1>12. x.c = e
  BY <1>3, <1>4
<1> QED BY <1>2, <1>3, <1>5, <1>6, <1>8, <1>10, <1>11, <1>12, MoveOn

(* The commands set aside are not answered: they fit the window of the     *)
(* initiator.                                                              *)
LEMMA FewPending ==
  ASSUME IInv
  PROVE  Len(pending_pdus) \in Nat /\ ~(Len(pending_pdus) > MaxPending)
<1>1. /\ ExpCmdSN \in Nat /\ Len(pending_pdus) \in Nat /\ nextC \in Nat
      /\ ExpCmdSN + Len(pending_pdus) <= nextC /\ nextC <= Len(Length) + 1 /\ ExpCmdSN >= 1
      /\ QueueDepth \in Nat
  BY TypeFacts, CmdFacts DEF IInv, InOrder
<1> DEFINE a == ExpCmdSN
           b == ExpCmdSN + Len(pending_pdus) - 1
           W == {c \in 1 .. nextC - 1 : status[c] = None}
<1>2. \A c \in a .. b : c \in 1 .. nextC - 1 /\ c \in Cmds /\ c >= ExpCmdSN
  BY <1>1, CmdFacts
<1>3. a .. b \in SUBSET W
  <2> HIDE DEF a, b
  <2> QED BY <1>2 DEF IInv, Places, Unseen
<1>4. IsFiniteSet(W) /\ Cardinality(W) \in Nat /\ Cardinality(W) <= QueueDepth
  <2>1. 1 \in Int /\ nextC - 1 \in Int
    BY <1>1
  <2>2. IsFiniteSet(1 .. nextC - 1)
    BY <2>1, FS_Interval
  <2>3. W \in SUBSET (1 .. nextC - 1)
    OBVIOUS
  <2>4. IsFiniteSet(W)
    BY <2>2, <2>3, FS_Subset
  <2> QED BY <2>4, FS_CardinalityType DEF IInv, Window
<1> HIDE DEF W
<1>5. Cardinality(a .. b) <= Cardinality(W)
  BY <1>3, <1>4, FS_Subset
<1>6. Cardinality(a .. b) = IF a > b THEN 0 ELSE b - a + 1
  <2>1. a \in Int /\ b \in Int
    BY <1>1
  <2> HIDE DEF a, b
  <2> QED BY <2>1, FS_Interval
<1>7. Len(pending_pdus) = IF a > b THEN 0 ELSE b - a + 1
  BY <1>1
<1>8. Len(pending_pdus) <= QueueDepth
  <2>1. Cardinality(a .. b) = Len(pending_pdus)
    BY <1>6, <1>7
  <2> HIDE DEF a, b
  <2> QED BY <1>1, <1>4, <1>5, <2>1
<1> QED BY <1>1, <1>8 DEF MaxPending

LEMMA SetAsideStep ==
  ASSUME IInv, pc = "xfer", net # <<>>, net' = Tail(net), Head(net).op = "cmd",
         SetAside(Head(net)),
         UNCHANGED <<r2t_tasks, x, rejects, lu, stored, ExpCmdSN, task_queue, lu_queue, nextC,
                     imm, askVars, got, status, reused>>
  PROVE  IInv'
<1>1. /\ TypeOK /\ NotDropped /\ OwnData /\ InOrder /\ Immediate /\ Places /\ Tags
      /\ SlotsFit /\ XferFits /\ Idle /\ Reads /\ Window
  BY DEF IInv
<1>2. UNCHANGED <<r2t, r2ts, granted>>
  BY DEF askVars
<1>3. net \in Seq(Pdu) /\ Tail(net) \in Seq(Pdu) /\ Head(net) \in Pdu
  BY <1>1, TypeFacts, TailPdu
<1>4. PICK p \in CmdPdu : p = Head(net)
  BY <1>3 DEF Pdu, DataPdu
<1>5. pending_pdus' = Append(pending_pdus, p) /\ pc' = pc
  <2>1. ~(Len(pending_pdus) > MaxPending)
    BY FewPending
  <2> QED BY <1>4, <2>1 DEF SetAside
<1> DEFINE first == ExpCmdSN + Len(pending_pdus)
<1>6. /\ first \in Nat /\ nextC \in Nat /\ ExpCmdSN \in Nat /\ Len(pending_pdus) \in Nat
      /\ pending_pdus \in Seq(CmdPdu) /\ Stream(net, imm, first, nextC)
  <2>1. /\ nextC \in Nat /\ ExpCmdSN \in Nat /\ Len(pending_pdus) \in Nat
        /\ pending_pdus \in Seq(CmdPdu)
    BY <1>1, TypeFacts
  <2> QED BY <1>1, <2>1 DEF InOrder
<1>7. /\ p.c = first /\ p.len = imm[first] /\ first < nextC
      /\ Stream(net', imm, first + 1, nextC)
  <2> HIDE DEF first
  <2> QED BY <1>3, <1>4, <1>6, StreamTail
<1>8. /\ pending_pdus' \in Seq(CmdPdu) /\ Len(pending_pdus') = Len(pending_pdus) + 1
      /\ DOMAIN pending_pdus = 1 .. Len(pending_pdus)
      /\ DOMAIN pending_pdus' = 1 .. Len(pending_pdus) + 1
      /\ \A i \in 1 .. Len(pending_pdus) : pending_pdus'[i] = pending_pdus[i]
      /\ pending_pdus'[Len(pending_pdus) + 1] = p
  <2> HIDE DEF first
  <2> QED BY <1>5, <1>6
<1>9. InOrder'
  <2>1. ExpCmdSN' + Len(pending_pdus') = first + 1 /\ first + 1 <= nextC
    BY <1>6, <1>7, <1>8
  <2>2. ASSUME NEW i \in DOMAIN pending_pdus'
        PROVE  /\ pending_pdus'[i].c = ExpCmdSN + i - 1
               /\ pending_pdus'[i].len = imm[ExpCmdSN + i - 1]
    <3>1. CASE i \in DOMAIN pending_pdus
      BY <1>1, <1>8, <3>1 DEF InOrder
    <3>2. CASE i \notin DOMAIN pending_pdus
      <4>1. i = Len(pending_pdus) + 1
        BY <1>6, <1>8, <3>2
      <4>2. ExpCmdSN + i - 1 = first
        BY <1>6, <4>1
      <4> HIDE DEF first
      <4> QED BY <1>7, <1>8, <4>1, <4>2
    <3> QED BY <3>1, <3>2
  <2>3. pc' # "poll" /\ pc' # "drain"
    BY <1>5
  <2> HIDE DEF first
  <2> QED BY <1>1, <1>7, <2>1, <2>2, <2>3 DEF InOrder
<1>10. TypeOK'
  <2>1. net' \in Seq(CmdPdu \cup DataPdu)
    BY <1>3 DEF Pdu
  <2> HIDE DEF first
  <2> QED BY <1>1, <1>2, <1>5, <1>8, <2>1 DEF TypeOK
<1>11. NotDropped' /\ OwnData' /\ Reads' /\ Immediate' /\ Tags' /\ Window'
  <2>1. NotDropped' /\ OwnData' /\ Immediate' /\ Window'
    BY <1>1, <1>5 DEF NotDropped, OwnData, Immediate, Window
  <2>2. Reads'
    BY <1>1, <1>5 DEF Reads, Answered, TransferIn
  <2>3. Tags'
    BY <1>1, <1>2, <1>5 DEF Tags, Live, Leftover
  <2> QED BY <2>1, <2>2, <2>3
<1>12. Places' /\ SlotsFit' /\ XferFits' /\ Idle'
  <2>1. \A c \in Cmds : \A sn, pos \in Nat :
          Chain(net, r2t[c], c, sn, pos, End(c)) => Chain(net', r2t'[c], c, sn, pos, End(c))
    <3>1. Head(net).op # "data"
      BY <1>3
    <3> QED BY <1>1, <1>2, <3>1, TailKeeps
  <2>2. \A c : DataOf(net, c) = {} => DataOf(net', c) = {}
    BY <1>1, TailKeeps
  <2> HIDE DEF first
  <2> QED BY <1>2, <1>5, <2>1, <2>2, Sent
<1> QED BY <1>9, <1>10, <1>11, <1>12 DEF IInv

LEMMA CurrentArithmetic ==
  ASSUME NEW n \in Nat, NEW m \in Nat, NEW end \in Nat, NEW l \in Nat, NEW tl \in Nat,
         m > 0, n + m <= end, end <= l, tl >= end - n, end = l => tl = end - n
  PROVE  /\ tl - m \in Nat /\ n + m \in Nat /\ tl - m >= end - (n + m)
         /\ end = l => tl - m = end - (n + m)
         /\ n + m < end => tl - m # 0 /\ n + m < l
         /\ ~(n + m < l) => n + m = end /\ n + m = l /\ tl - m = 0
         /\ ~(n + m < end) => n + m = end
OBVIOUS

(* The next Data-Out of the transfer.                                      *)
LEMMA CurrentDataStep ==
  ASSUME IInv, pc = "xfer", net # <<>>, net' = Tail(net), Head(net).op = "data",
         Tag[Head(net).c] = Tag[x.c], CurrentData(Head(net)),
         UNCHANGED <<pending_pdus, r2t_tasks, rejects, ExpCmdSN, task_queue, lu_queue, nextC,
                     imm, askVars, got, status, reused>>
  PROVE  IInv'
<1>1. TypeOK /\ InOrder /\ Tags /\ Idle
  BY DEF IInv
<1>2. UNCHANGED <<r2t, r2ts, granted>>
  BY DEF askVars
<1>3. net \in Seq(Pdu) /\ Tail(net) \in Seq(Pdu) /\ Head(net) \in Pdu
  BY <1>1, TypeFacts, TailPdu
<1>4. PICK p \in DataPdu : p = Head(net) /\ p.op = "data"
  BY <1>3 DEF Pdu, CmdPdu
<1>5. p.c \in Cmds /\ p.sn \in Nat /\ p.off \in Nat /\ p.len \in Nat /\ p.F \in BOOLEAN
  BY DEF DataPdu
<1>6. PICK t \in Xfer, n \in Nat :
        /\ x = t /\ x # None /\ t.c \in Cmds /\ n = Len(t.data)
        /\ lu = <<"wait", t.c>> /\ t.R2TSN = r2ts[t.c] /\ t.data = Blocks(t.c, 0, n)
        /\ imm[t.c] <= n /\ n <= End(t.c) /\ n < Length[t.c] /\ End(t.c) <= Length[t.c]
        /\ t.r2t_flag = (n < End(t.c))
        /\ n < End(t.c) => /\ t.len >= End(t.c) - n
                           /\ End(t.c) = Length[t.c] => t.len = End(t.c) - n
        /\ Chain(net, r2t[t.c], t.c, t.DataSN, n, End(t.c))
        /\ Freed(t.c) /\ Holder(t.c)
  BY InTransfer
<1>7. PICK e \in Cmds : e = t.c
  BY <1>6
<1>8. p.c = e
  <2>1. Holder(p.c)
    <3>1. 1 \in DataOf(net, p.c)
      BY <1>3, <1>4, TailPdu DEF DataOf
    <3> QED BY <1>1, <1>5, <3>1 DEF Idle
  <2>2. p.c < ExpCmdSN /\ Live(p.c) /\ e < ExpCmdSN /\ Live(e)
    BY <1>6, <1>7, <2>1, HolderFacts
  <2> QED BY <1>1, <1>4, <1>5, <1>6, <1>7, <2>2, TagsDiffer
<1>9. /\ End(e) \in Nat /\ (r2t[e] # None => r2t[e] \in R2T) /\ t.DataSN \in Nat
      /\ Length[e] \in Nat /\ t.len \in Nat /\ imm[e] \in Nat /\ r2ts[e] \in Nat
  BY <1>1, TypeFacts, CmdFacts, XferFacts
<1>10. PICK m \in Nat :
         /\ m = p.len /\ m > 0 /\ p.sn = t.DataSN /\ p.off = n /\ n + m <= End(e)
         /\ (p.F <=> n + m = End(e)) /\ Chain(net', r2t[e], e, t.DataSN + 1, n + m, End(e))
  <2>1. LET h == Head(net) IN
        /\ h \in DataPdu /\ h.sn = t.DataSN /\ h.off = n /\ h.len \in Nat \ {0}
        /\ n + h.len <= End(e) /\ (h.F <=> n + h.len = End(e))
        /\ Chain(Tail(net), r2t[e], e, t.DataSN + 1, n + h.len, End(e))
    <3>1. Chain(net, r2t[e], e, t.DataSN, n, End(e)) /\ Head(net).c = e
      BY <1>4, <1>6, <1>7, <1>8
    <3> DEFINE h == Head(net)
               k == r2t[e]
               end == End(e)
    <3>2. /\ end \in Nat /\ (k # None => k \in R2T) /\ t.DataSN \in Nat /\ n \in Nat
          /\ h.op = "data" /\ h.c = e /\ Chain(net, k, e, t.DataSN, n, end)
          /\ net \in Seq(Pdu) /\ net # <<>>
      BY <1>3, <1>9, <3>1
    <3> HIDE DEF k, end
    <3> QED BY <3>2, ChainTailOwn DEF k, end
  <2>2. p.len > 0
    BY <1>4, <1>5, <2>1
  <2> QED BY <1>4, <1>5, <2>1, <2>2
<1>11. n < End(e) /\ t.r2t_flag = TRUE
  <2>1. n < End(e)
    BY <1>9, <1>10
  <2> QED BY <1>6, <1>7, <2>1
<1>12. /\ t.len - m \in Nat /\ n + m \in Nat /\ t.len - m >= End(e) - (n + m)
       /\ End(e) = Length[e] => t.len - m = End(e) - (n + m)
       /\ n + m < End(e) => t.len - m # 0 /\ n + m < Length[e]
       /\ ~(n + m < Length[e]) => n + m = End(e) /\ n + m = Length[e] /\ t.len - m = 0
       /\ ~(n + m < End(e)) => n + m = End(e)
  <2>1. /\ End(e) <= Length[e] /\ t.len >= End(e) - n
        /\ End(e) = Length[e] => t.len = End(e) - n
    BY <1>6, <1>7, <1>11
  <2> DEFINE end == End(e)
             l == Length[e]
             tl == t.len
  <2>2. /\ end \in Nat /\ l \in Nat /\ tl \in Nat /\ m > 0 /\ n + m <= end /\ end <= l
        /\ tl >= end - n /\ (end = l => tl = end - n)
    BY <1>9, <1>10, <2>1
  <2> HIDE DEF end, l, tl
  <2>3. /\ tl - m \in Nat /\ n + m \in Nat /\ tl - m >= end - (n + m)
        /\ end = l => tl - m = end - (n + m)
        /\ n + m < end => tl - m # 0 /\ n + m < l
        /\ ~(n + m < l) => n + m = end /\ n + m = l /\ tl - m = 0
        /\ ~(n + m < end) => n + m = end
    BY <2>2, CurrentArithmetic
  <2> QED BY <2>3 DEF end, l, tl
<1>13. /\ Blocks(e, 0, n + m) \in Buffer /\ Len(Blocks(e, 0, n + m)) = n + m
       /\ t.data \o Blocks(p.c, p.off, p.len) = Blocks(e, 0, n + m)
  <2>1. /\ Blocks(e, 0, n) \o Blocks(e, n, m) = Blocks(e, 0, n + m)
        /\ Blocks(e, 0, n + m) \in Buffer /\ Len(Blocks(e, 0, n + m)) = n + m
    BY <1>12, BlocksFacts
  <2> QED BY <1>6, <1>7, <1>8, <1>10, <2>1
<1> DEFINE len == t.len - m
           data == Blocks(e, 0, n + m)
           u == [t EXCEPT !.data = data, !.DataSN = @ + 1, !.len = len,
                          !.r2t_flag = @ /\ ~p.F /\ len # 0]
<1>14. IF n + m < Length[e] THEN Goes(u)
       ELSE IF p.F THEN Transferred(e, data) ELSE Failed
  <2>1. CurrentData(p) /\ x.c = e /\ Len(x.data) = n /\ x.len = t.len /\ p.len = m
    BY <1>4, <1>6, <1>7, <1>10
  <2>2. ~(\/ p.sn # x.DataSN \/ p.off # Len(x.data)
          \/ ~x.r2t_flag /\ n + m > FirstBurst
          \/ p.F /\ len # 0 /\ n + m >= Length[e]
          \/ ~p.F /\ len = 0)
    <3>1. p.sn = x.DataSN /\ p.off = Len(x.data) /\ x.r2t_flag
      BY <1>6, <1>10, <1>11
    <3>2. ~(len # 0 /\ n + m >= Length[e])
      BY <1>9, <1>12
    <3>3. p.F \/ len # 0
      BY <1>9, <1>10, <1>12
    <3> HIDE DEF len
    <3> QED BY <3>1, <3>2, <3>3
  <2> HIDE DEF len, data
  <2>3. IF n + m < Length[e] THEN Goes([x EXCEPT !.data = data, !.DataSN = @ + 1, !.len = len,
                                                 !.r2t_flag = @ /\ ~p.F /\ len # 0])
        ELSE IF p.F THEN Transferred(e, data) ELSE Failed
    BY <1>6, <1>13, <2>1, <2>2 DEF CurrentData, len, data
  <2> QED BY <1>6, <2>3
<1>15. Stream(net', imm, ExpCmdSN + Len(pending_pdus), nextC)
  <2>1. ExpCmdSN + Len(pending_pdus) \in Nat /\ nextC \in Nat
    <3>1. Len(pending_pdus) \in Nat /\ ExpCmdSN \in Nat /\ nextC \in Nat
      BY <1>1, TypeFacts
    <3> QED BY <3>1
  <2> HIDE DEF len, data, u
  <2> QED BY <1>1, <1>3, <1>4, <2>1, StreamTail DEF InOrder
<1>16. /\ \A c \in Cmds : \A sn, pos \in Nat :
            c # e /\ Chain(net, r2t[c], c, sn, pos, End(c)) => Chain(net', r2t[c], c, sn, pos, End(c))
       /\ \A c : DataOf(net, c) = {} => DataOf(net', c) = {}
  BY <1>1, <1>4, <1>8, TailKeeps
<1>17. Freed(e) /\ lu = <<"wait", e>> /\ x # None /\ x.c = e
  BY <1>6, <1>7
<1> DEFINE Going(v) == /\ v.c = e /\ x' = v /\ XferFit(v)' /\ pc' = "xfer"
                       /\ UNCHANGED <<lu, stored>>
           Ready == /\ x' = None /\ pc' = AfterPdu(pending_pdus) /\ lu' = <<"ready", e>>
                    /\ stored'[e] = Blocks(e, 0, Length[e])
                    /\ DataOf(net', e) = {} /\ r2t'[e] = None
<1> HIDE DEF u, len, data
<1>18. ASSUME \/ \E v \in Xfer : Going(v)
              \/ Ready /\ stored' \in [Cmds -> Buffer]
       PROVE  IInv'
  <2>1. TypeOK'
    <3>1. /\ x' \in Xfer \cup {None} /\ lu' \in LuTask \cup {None}
          /\ stored' \in [Cmds -> Buffer] /\ pc' \in {"poll", "drain", "xfer", "exit"}
      <4>1. lu \in LuTask \cup {None} /\ stored \in [Cmds -> Buffer]
        BY <1>1 DEF TypeOK
      <4>2. <<"ready", e>> \in LuTask
        BY DEF LuTask
      <4> QED BY <1>18, <4>1, <4>2 DEF AfterPdu
    <3>2. net' \in Seq(CmdPdu \cup DataPdu)
      BY <1>3 DEF Pdu
    <3> HIDE DEF Going, Ready
    <3> QED BY <1>1, <1>2, <3>1, <3>2 DEF TypeOK
  <2>2. (\E v \in Xfer : Going(v)) \/ Ready
    BY <1>18
  <2> QED BY <1>2, <1>15, <1>16, <1>17, <2>1, <2>2, MoveOn
<1> HIDE DEF Going, Ready
<1>19. CASE n + m < Length[e]
  <2>1. PICK v \in Xfer : /\ v = u /\ v.c = e /\ v.data = data /\ v.R2TSN = t.R2TSN
                          /\ v.DataSN = t.DataSN + 1 /\ v.len = len
                          /\ v.r2t_flag = (~p.F /\ len # 0)
    <3> DEFINE f == ~p.F /\ len # 0
    <3>1. f \in BOOLEAN /\ t.DataSN + 1 \in Nat /\ len \in Nat /\ data \in Buffer
      BY <1>9, <1>12, <1>13 DEF len, data
    <3>2. (t.r2t_flag /\ ~p.F /\ len # 0) = f
      BY <1>11
    <3> HIDE DEF f
    <3>3. u = [t EXCEPT !.data = data, !.DataSN = @ + 1, !.len = len, !.r2t_flag = f]
      BY <3>2 DEF u, Xfer
    <3>4. /\ u \in Xfer /\ u.c = t.c /\ u.data = data /\ u.R2TSN = t.R2TSN
          /\ u.DataSN = t.DataSN + 1 /\ u.len = len /\ u.r2t_flag = f
      BY <3>1, <3>3 DEF Xfer
    <3> QED BY <1>7, <3>4 DEF f
  <2>2. x' = v /\ pc' = "xfer" /\ UNCHANGED <<lu, stored>>
    BY <1>14, <1>19, <2>1 DEF Goes
  <2>3. XferFit(v)'
    <3>1. End(e)' = End(e)
      BY <1>2 DEF End
    <3>2. lu' = <<"wait", e>> /\ v.R2TSN = r2ts'[e] /\ v.data = Blocks(e, 0, n + m) /\ v.c = e
      BY <1>2, <1>6, <1>7, <2>1, <2>2 DEF data
    <3>3. Len(v.data) = n + m
      BY <1>13, <2>1 DEF data
    <3>4. imm'[e] <= n + m /\ n + m <= End(e) /\ End(e) <= Length[e]
      <4> DEFINE i == imm[e]
                 end == End(e)
      <4>1. imm'[e] = i /\ end <= Length[e]
        BY <1>6, <1>7
      <4>2. i <= n /\ n + m <= end /\ i \in Nat
        BY <1>6, <1>7, <1>9, <1>10
      <4> HIDE DEF i, end
      <4>3. i <= n + m
        BY <4>2
      <4> QED BY <4>1, <4>2, <4>3 DEF i, end
    <3>5. v.r2t_flag <=> n + m < End(e)
      <4>1. ~p.F <=> n + m < End(e)
        <5> DEFINE end == End(e)
        <5>1. (p.F <=> n + m = end) /\ (~(n + m < end) => n + m = end)
          BY <1>10, <1>12
        <5>2. n \in Nat /\ m \in Nat /\ end \in Nat
          BY <1>9
        <5> HIDE DEF end
        <5>3. n + m < end => n + m # end
          BY <5>2
        <5>4. ~p.F <=> n + m < end
          BY <5>1, <5>3
        <5> QED BY <5>4 DEF end
      <4>2. n + m < End(e) => len # 0
        BY <1>12 DEF len
      <4> QED BY <2>1, <4>1, <4>2
    <3>6. v.len >= End(e) - (n + m) /\ (End(e) = Length[e] => v.len = End(e) - (n + m))
      BY <1>12, <2>1 DEF len
    <3>7. Chain(net', r2t'[e], e, v.DataSN, n + m, End(e))
      BY <1>2, <1>10, <2>1
    <3> QED BY <1>19, <3>1, <3>2, <3>3, <3>4, <3>5, <3>6, <3>7 DEF XferFit
  <2>4. Going(v)
    BY <2>1, <2>2, <2>3 DEF Going
  <2> QED BY <1>18, <2>4
<1>20. CASE ~(n + m < Length[e])
  <2>1. n + m = End(e) /\ n + m = Length[e] /\ p.F
    BY <1>10, <1>12, <1>20
  <2>2. Transferred(e, data)
    BY <1>14, <1>20, <2>1
  <2>3. DataOf(net', e) = {} /\ r2t'[e] = None
    <3>1. Chain(net', r2t[e], e, t.DataSN + 1, End(e), End(e)) /\ t.DataSN + 1 \in Nat
      BY <1>9, <1>10, <2>1
    <3> QED BY <1>2, <1>3, <1>9, <3>1, ChainDone
  <2>4. stored' \in [Cmds -> Buffer] /\ stored'[e] = data
    <3>1. stored \in [Cmds -> Buffer] /\ data \in Buffer
      BY <1>1, <1>13 DEF TypeOK, data
    <3> QED BY <2>2, <3>1 DEF Transferred
  <2>5. Ready
    BY <2>1, <2>2, <2>3, <2>4 DEF Transferred, Ready, data
  <2> QED BY <1>18, <2>4, <2>5
<1> QED BY <1>19, <1>20

LEMMA TransferReadStep ==
  ASSUME IInv, TransferRead
  PROVE  IInv'
<1>1. /\ pc = "xfer" /\ net # <<>> /\ net' = Tail(net)
      /\ UNCHANGED <<ExpCmdSN, task_queue, lu_queue, nextC, imm, askVars, got, status, reused>>
  BY DEF TransferRead
<1>2. Head(net) \in Pdu
  BY <1>1, TypeFacts, TailPdu DEF IInv
<1>3. CASE Head(net).op = "cmd"
  <2>1. SetAside(Head(net)) /\ UNCHANGED <<r2t_tasks, x, rejects, lu, stored>>
    BY <1>3 DEF TransferRead
  <2> QED BY <1>1, <1>3, <2>1, SetAsideStep
<1>4. CASE Head(net).op = "data" /\ Tag[Head(net).c] = Tag[x.c]
  <2>1. CurrentData(Head(net)) /\ UNCHANGED <<pending_pdus, r2t_tasks, rejects>>
    BY <1>4 DEF TransferRead
  <2> QED BY <1>1, <1>4, <2>1, CurrentDataStep
<1>5. CASE Head(net).op = "data" /\ Tag[Head(net).c] # Tag[x.c]
  <2>1. op_data(Head(net)) /\ UNCHANGED <<pending_pdus, x, lu, stored>>
    BY <1>5 DEF TransferRead
  <2> QED BY <1>1, <1>5, <2>1, OpDataStep
<1> QED BY <1>2, <1>3, <1>4, <1>5 DEF Pdu, CmdPdu, DataPdu

-----------------------------------------------------------------------------
(* Every step.                                                             *)

LEMMA Start ==
  Init => IInv
<1> SUFFICES ASSUME Init PROVE IInv
  OBVIOUS
<1> USE DEF Init
<1>1. TypeOK
  <2>1. reused \in BOOLEAN
    OBVIOUS
  <2> QED BY <2>1 DEF TypeOK, Buffer
<1>2. NotDropped /\ Places /\ Tags
  BY DEF NotDropped, Places, Unseen, Fresh, Queued, Running, Asked, Tags
<1>3. OwnData
  BY NoneAssumption DEF OwnData, LuTask
<1>4. DOMAIN net = {} /\ DOMAIN pending_pdus = {} /\ DOMAIN r2t_tasks = {} /\ DOMAIN lu_queue = {}
  OBVIOUS
<1>5. InOrder
  <2>1. 1 + 0 <= nextC /\ nextC <= Len(Length) + 1 /\ Len(pending_pdus) = 0
    BY CmdFacts
  <2>2. 1 .. nextC - 1 = {}
    OBVIOUS
  <2>3. Stream(net, imm, 1, nextC)
    BY <1>4, <2>2 DEF Stream, CmdsOf
  <2> QED BY <1>4, <2>1, <2>3 DEF InOrder
<1>6. Immediate
  BY CmdFacts DEF Immediate
<1>7. SlotsFit /\ XferFits
  BY <1>4, CmdFacts DEF SlotsFit, XferFits
<1>8. Idle
  BY <1>4 DEF Idle, DataOf, Fresh
<1>9. Reads
  BY DEF Reads, Answered
<1>10. Window
  <2>1. {c \in 1 .. nextC - 1 : status[c] = None} = {}
    OBVIOUS
  <2> QED BY <2>1, FS_EmptySet, CmdFacts DEF Window
<1> QED BY <1>1, <1>2, <1>3, <1>5, <1>6, <1>7, <1>8, <1>9, <1>10 DEF IInv

LEMMA Stutter ==
  ASSUME IInv, UNCHANGED vars
  PROVE  IInv'
<1>1. /\ UNCHANGED <<pc, pending_pdus, r2t_tasks, x, ExpCmdSN, rejects, task_queue, lu_queue, lu>>
      /\ UNCHANGED <<stored, net, nextC, imm, r2t, r2ts, granted, got, status, reused>>
  BY DEF vars, workVars, luVars, askVars
<1>2. TypeOK' /\ NotDropped' /\ OwnData' /\ InOrder' /\ Immediate'
  BY <1>1 DEF IInv, TypeOK, NotDropped, OwnData, InOrder, Immediate
<1>3. Places' /\ Tags' /\ Reads' /\ Window'
  BY <1>1 DEF IInv, Places, Unseen, Fresh, Queued, Running, Asked, Tags, Live, Leftover,
              Answered, Reads, TransferIn, Window
<1>4. SlotsFit' /\ XferFits' /\ Idle'
  BY <1>1, Sent
<1> QED BY <1>2, <1>3, <1>4 DEF IInv

LEMMA Step ==
  IInv /\ [Next]_vars /\ ~reused' => IInv'
<1> SUFFICES ASSUME IInv, [Next]_vars, ~reused' PROVE IInv'
  OBVIOUS
<1>1. CASE ReadPdu
  BY <1>1, ReadPduStep
<1>2. CASE ExecutePending
  BY <1>2, ExecutePendingStep
<1>3. CASE TaskResponse
  BY <1>3, TaskResponseStep
<1>4. CASE StartTransfer
  BY <1>4, StartTransferStep
<1>5. CASE TransferR2T
  BY <1>5, TransferR2TStep
<1>6. CASE TransferRead
  BY <1>6, TransferReadStep
<1>7. CASE TakeTask
  BY <1>7, TakeTaskStep
<1>8. CASE Execute
  BY <1>8, ExecuteStep
<1>9. CASE SendCommand
  BY <1>9, SendCommandStep
<1>10. ASSUME NEW c \in Cmds, SendData(c) PROVE IInv'
  BY <1>10, SendDataStep
<1>11. CASE UNCHANGED vars
  BY <1>11, Stutter
<1> QED BY <1>1, <1>2, <1>3, <1>4, <1>5, <1>6, <1>7, <1>8, <1>9, <1>10, <1>11
        DEF Next, Worker, Transfer, LuWorker, Initiator

(* It holds until a slot left behind is met; this is never forgotten.      *)
Guarded == reused \/ IInv

LEMMA ReusedStays ==
  reused /\ [Next]_vars => reused'
<1> SUFFICES ASSUME reused, [Next]_vars PROVE reused'
  OBVIOUS
<1>1. CASE SendCommand
  BY <1>1 DEF SendCommand
<1>2. CASE ~SendCommand
  BY <1>2 DEF Next, Worker, Transfer, LuWorker, Initiator, vars, ReadPdu, ExecutePending,
              TaskResponse, StartTransfer, TransferR2T, TransferRead, TakeTask, Execute, SendData
<1> QED BY <1>1, <1>2

(* The invariant holds in every reachable state until the tag of a refused *)
(* write whose slot is left behind is used again.                          *)
THEOREM DataInvariance ==
  Spec => []Guarded
<1>1. Init => Guarded
  BY Start DEF Guarded
<1>2. Guarded /\ [Next]_vars => Guarded'
  BY Step, ReusedStays DEF Guarded
<1> QED BY <1>1, <1>2, PTL DEF Spec

(* RightData: the logical unit executes a write with all its data, each    *)
(* block at its place and none of another command, whichever of op_data and*)
(* transfer_out stored it and in whatever order the PDUs of several        *)
(* commands came, as long as no command meets a slot left behind by a      *)
(* refused write with its tag.                                             *)
THEOREM DataIsRight ==
  Spec => []RightData
<1>1. Guarded => RightData
  BY DEF Guarded, IInv, RightData
<1> QED BY <1>1, DataInvariance, PTL

(* Conforms: no initiator that keeps to the protocol, and does not use the *)
(* tag of a refused write again that had been asked for data, is dropped or*)
(* gets a Reject, neither by the checks of DataSN, offset and F bit in     *)
(* op_data and transfer_out nor for the limit of the PDUs set aside.       *)
THEOREM NobodyIsDropped ==
  Spec => []Conforms
<1>1. Guarded => Conforms
  BY DEF Guarded, IInv, Conforms
<1> QED BY <1>1, DataInvariance, PTL

(* Bookkeeping: the PDUs set aside are executed before the worker polls,   *)
(* no slot is lost or used twice but for those left behind by refused      *)
(* writes, R2Ts are numbered without a gap, until such a slot is met.      *)
THEOREM BooksAreKept ==
  Spec => []Bookkeeping
<1>1. Guarded => Bookkeeping
  <2> SUFFICES ASSUME IInv PROVE TypeOK /\ PendingDrained /\ SlotsInUse /\ R2TsNumbered
    BY DEF Guarded, Bookkeeping
  <2>1. TypeOK /\ InOrder /\ SlotsFit /\ XferFits /\ Tags
    BY DEF IInv
  <2>2. PendingDrained
    BY <2>1 DEF PendingDrained, InOrder
  <2>3. SlotsInUse
    <3> SUFFICES ASSUME NEW i \in DOMAIN r2t_tasks, NEW j \in DOMAIN r2t_tasks
                 PROVE  /\ Tag[r2t_tasks[i].c] = Tag[r2t_tasks[j].c] => i = j
                        /\ \/ Contains(lu_queue, r2t_tasks[i].c)
                           \/ lu = <<"wait", r2t_tasks[i].c>>
                           \/ status[r2t_tasks[i].c] = "refused"
      BY <2>1 DEF SlotsInUse, SlotsFit
    <3>1. PICK c \in Cmds, d \in Cmds : c = r2t_tasks[i].c /\ d = r2t_tasks[j].c
      BY <2>1, SlotTypes
    <3>2. c < ExpCmdSN /\ Live(c) /\ d < ExpCmdSN /\ Live(d)
      BY <3>1, HolderFacts DEF Holder
    <3>3. Tag[c] = Tag[d] => c = d
      BY <2>1, <3>2, TagsDiffer
    <3>4. Waits(c) \/ status[c] = "refused"
      BY <2>1, <3>1 DEF SlotsFit, SlotFits
    <3>5. (\E k \in DOMAIN lu_queue : lu_queue[k] = c) => Contains(lu_queue, c)
      BY <2>1, QueueFacts DEF Contains
    <3> QED BY <2>1, <3>1, <3>3, <3>4, <3>5 DEF SlotsFit, Waits
  <2>4. R2TsNumbered
    <3>1. pc = "xfer" => x.R2TSN = r2ts[x.c]
      BY <2>1 DEF XferFits, XferFit
    <3>2. \A i \in DOMAIN r2t_tasks : r2t_tasks[i].R2TSN = r2ts[r2t_tasks[i].c]
      BY <2>1 DEF SlotsFit, SlotFits
    <3> QED BY <3>1, <3>2 DEF R2TsNumbered
  <2> QED BY <2>1, <2>2, <2>3, <2>4
<1> QED BY <1>1, DataInvariance, PTL

(* ReadWhole: transfer_in sends what there is for a read, in order, in     *)
(* PDUs of at most a segment, and the status once, until a slot left behind*)
(* is met.                                                                 *)
THEOREM ReadsGetAll ==
  Spec => []ReadWhole
<1>1. Guarded => ReadWhole
  <2> SUFFICES ASSUME IInv, NEW c \in Cmds, Answered(c), ~Write[c]
               PROVE  LET g == got[c]  n == Len(g)
                          total == IF status[c] = "conflict" THEN 0
                                   ELSE Least(Provided[c], Length[c])
                          end(i) == g[i].off + g[i].len
                      IN  /\ \A i \in 1 .. n :
                               /\ g[i].sn = i - 1 /\ g[i].len \in 1 .. Segment
                               /\ g[i].off = IF i = 1 THEN 0 ELSE end(i - 1)
                               /\ g[i].F <=> i = n
                               /\ g[i].S <=> i = n /\ status[c] = "good"
                          /\ IF n = 0 THEN total = 0 ELSE end(n) = total
    BY DEF Guarded, ReadWhole
  <2>1. got[c] = IF status[c] = "conflict" THEN <<>> ELSE TransferIn(c, status[c])
    BY DEF IInv, Reads
  <2>2. CASE status[c] = "conflict"
    BY <2>1, <2>2
  <2>3. CASE status[c] # "conflict"
    <3> DEFINE g == TransferIn(c, status[c])
               n == Len(g)
               total == Least(Provided[c], Length[c])
    <3>1. /\ \A i \in 1 .. n :
               /\ g[i].sn = i - 1 /\ g[i].len \in 1 .. Segment
               /\ g[i].off = IF i = 1 THEN 0 ELSE g[i - 1].off + g[i - 1].len
               /\ g[i].F <=> i = n
               /\ g[i].S <=> i = n /\ status[c] = "good"
          /\ IF n = 0 THEN total = 0 ELSE g[n].off + g[n].len = total
      BY TransferInFacts
    <3> HIDE DEF g, total
    <3>2. got[c] = g
      BY <2>1, <2>3 DEF g
    <3> QED BY <2>3, <3>1, <3>2 DEF total
  <2> QED BY <2>2, <2>3
<1> QED BY <1>1, DataInvariance, PTL

(* R2TsFollow: an R2T is sent when no data of its command is on its way,   *)
(* goes on where the one before ended and stays within burst and transfer, *)
(* until a slot left behind is met.                                        *)
THEOREM R2TsInTurn ==
  Spec => R2TsFollow
<1> DEFINE A == \A c \in Cmds : r2ts'[c] # r2ts[c] =>
                  /\ r2t[c] = None
                  /\ \A i \in DOMAIN net' : net'[i].op = "data" => net'[i].c # c
                  /\ LET r == r2t'[c] IN
                     r.off = imm[c] + granted[c] /\ r.len \in 1 .. MaxBurst /\ r.off + r.len <= Length[c]
<1>1. IInv /\ [Next]_vars => [A]_vars
  <2> SUFFICES ASSUME IInv, Next PROVE A
    OBVIOUS
  <2>1. ASSUME NEW c \in Cmds, NEW off, NEW len \in 1 .. MaxBurst,
               r2ts' = [r2ts EXCEPT ![c] = @ + 1],
               r2t' = [r2t EXCEPT ![c] = [off |-> off, len |-> len, sent |-> 0, sn |-> 0]],
               r2t[c] = None, DataOf(net', c) = {}, off = imm[c] + granted[c],
               off + len <= Length[c]
        PROVE  A
    <3>1. r2ts \in [Cmds -> Nat] /\ r2t \in [Cmds -> R2T \cup {None}]
      BY DEF IInv, TypeOK
    <3>2. \A d \in Cmds : r2ts'[d] # r2ts[d] => d = c
      BY <2>1, <3>1
    <3>3. r2t'[c] = [off |-> off, len |-> len, sent |-> 0, sn |-> 0]
      BY <2>1, <3>1
    <3>4. \A i \in DOMAIN net' : net'[i].op = "data" => net'[i].c # c
      BY <2>1 DEF DataOf
    <3> QED BY <2>1, <3>2, <3>3, <3>4
  <2>2. CASE r2ts' = r2ts
    BY <2>2
  <2> HIDE DEF A
  <2>3. CASE TransferR2T
    <3>1. PICK t \in Xfer, n \in Nat, len \in Nat :
            /\ t.c \in Cmds /\ n = End(t.c)
            /\ DataOf(net, t.c) = {} /\ r2t[t.c] = None
            /\ len \in 1 .. MaxBurst /\ n + len <= Length[t.c]
            /\ SendR2T(t.c, n, len)
      BY <2>3, NextR2T
    <3>2. net' = net
      BY <2>3 DEF TransferR2T
    <3> QED BY <2>1, <3>1, <3>2 DEF SendR2T, End
  <2>4. ASSUME NEW p \in CmdPdu, p.c = ExpCmdSN, p.len = imm[p.c], add_transfer_task(p),
               \A c : DataOf(net, c) = {} => DataOf(net', c) = {}
        PROVE  A
    <3>1. CASE NeedsSlot(p)
      <4>1. /\ p.c \in Cmds /\ p.len \in Nat /\ Length[p.c] \in Nat /\ p.len < Length[p.c]
            /\ MaxBurst \in Nat /\ MaxBurst > 0 /\ ExpCmdSN \in Nat
        BY <3>1, CmdFacts, TypeFacts DEF CmdPdu, NeedsSlot, IInv
      <4>2. Fresh(p.c) /\ DataOf(net, p.c) = {} /\ r2t[p.c] = None
        BY <2>4, <4>1, UnseenFacts
      <4> DEFINE len == Least(MaxBurst, Length[p.c] - p.len)
      <4>3. len \in 1 .. MaxBurst /\ p.len + len <= Length[p.c]
        BY <4>1 DEF Least
      <4> HIDE DEF len
      <4>4. SendR2T(p.c, p.len, len)
        BY <2>4, <3>1 DEF add_transfer_task, len
      <4>5. p.len = imm[p.c] + granted[p.c] /\ DataOf(net', p.c) = {}
        BY <2>4, <4>1, <4>2 DEF Fresh
      <4> QED BY <2>1, <4>1, <4>2, <4>3, <4>4, <4>5 DEF SendR2T
    <3>2. CASE ~NeedsSlot(p)
      BY <2>2, <2>4, <3>2 DEF add_transfer_task, askVars
    <3> QED BY <3>1, <3>2
  <2>5. CASE ReadPdu
    <3>1. TypeOK /\ InOrder /\ pc = "poll" /\ net # <<>> /\ net' = Tail(net)
      BY <2>5 DEF ReadPdu, IInv
    <3>2. CASE Head(net).op = "cmd"
      <4>1. net \in Seq(Pdu) /\ Head(net) \in Pdu
        BY <3>1, TypeFacts, TailPdu
      <4>2. PICK p \in CmdPdu : p = Head(net)
        BY <3>2, <4>1 DEF Pdu, DataPdu
      <4>3. ExpCmdSN \in Nat /\ nextC \in Nat /\ Stream(net, imm, ExpCmdSN, nextC)
        <5>1. ExpCmdSN \in Nat /\ nextC \in Nat /\ pending_pdus = <<>>
          BY <3>1, TypeFacts DEF InOrder
        <5>2. ExpCmdSN + Len(pending_pdus) = ExpCmdSN
          BY <5>1
        <5> QED BY <3>1, <5>1, <5>2 DEF InOrder
      <4>4. p.c = ExpCmdSN /\ p.len = imm[p.c]
        <5>1. Head(net).c = ExpCmdSN /\ Head(net).len = imm[ExpCmdSN]
          BY <3>1, <3>2, <4>1, <4>3, StreamTail
        <5> QED BY <4>2, <5>1
      <4>5. add_transfer_task(p) \/ r2ts' = r2ts
        BY <2>5, <3>2, <4>2 DEF ReadPdu, op_scsi, askVars
      <4> QED BY <2>2, <2>4, <3>1, <4>4, <4>5, TailKeeps
    <3>3. CASE Head(net).op # "cmd"
      BY <2>2, <2>5, <3>3 DEF ReadPdu, askVars
    <3> QED BY <3>2, <3>3
  <2>6. CASE ExecutePending
    <3>1. TypeOK /\ InOrder /\ pc = "drain" /\ net' = net
      BY <2>6 DEF ExecutePending, IInv
    <3>2. pending_pdus \in Seq(CmdPdu) /\ pending_pdus # <<>> /\ ExpCmdSN \in Nat
      BY <3>1, TypeFacts DEF InOrder
    <3>3. 1 \in DOMAIN pending_pdus
      BY <3>2
    <3>4. PICK p \in CmdPdu : p = Head(pending_pdus) /\ p = pending_pdus[1]
      BY <3>2
    <3>5. p.c = ExpCmdSN /\ p.len = imm[p.c]
      <4>1. p.c = ExpCmdSN + 1 - 1 /\ p.len = imm[ExpCmdSN + 1 - 1] /\ ExpCmdSN + 1 - 1 = ExpCmdSN
        BY <3>1, <3>2, <3>3, <3>4 DEF InOrder
      <4> QED BY <4>1
    <3>6. add_transfer_task(p) \/ r2ts' = r2ts
      BY <2>6, <3>4 DEF ExecutePending, op_scsi, askVars
    <3> QED BY <2>2, <2>4, <3>1, <3>5, <3>6
  <2>7. CASE TaskResponse \/ StartTransfer \/ TransferRead \/ TakeTask \/ Execute \/ SendCommand
    BY <2>2, <2>7
       DEF TaskResponse, StartTransfer, TransferRead, TakeTask, Execute, SendCommand, askVars
  <2>8. CASE \E c \in Cmds : SendData(c)
    BY <2>2, <2>8 DEF SendData
  <2> QED BY <2>3, <2>5, <2>6, <2>7, <2>8 DEF Next, Worker, Transfer, LuWorker, Initiator
<1>2. Guarded /\ [Next]_vars => [reused \/ A]_vars
  <2> HIDE DEF A
  <2> QED BY <1>1 DEF Guarded
<1>3. Spec => [][reused \/ A]_vars
  BY <1>2, DataInvariance, PTL DEF Spec
<1> QED BY <1>3 DEF R2TsFollow
=============================================================================

---------------------------- MODULE DataTransfer ----------------------------
(***************************************************************************)
(* The data of SCSI commands on one connection.  The data of a write comes *)
(* with the command (immediate data) and in Data-Out PDUs, which the       *)
(* target asks for with R2Ts: the first R2T when the command is received,  *)
(* if one of the max_r2t slots is free, the others from transfer_out, when *)
(* the logical unit is about to execute the command.  The Data-Out PDUs of *)
(* several commands and new commands arrive in any order: those of another *)
(* command are filed in its slot, commands are set aside in pending_pdus.  *)
(* The data of a read leaves in Data-In PDUs.                              *)
(*                                                                         *)
(* A command is its place in the sequence of commands, which is also its   *)
(* CmdSN; lengths are in blocks, <<c, i>> is block i of command c and a    *)
(* buffer is the sequence of the blocks written to it, as every memcpy is  *)
(* at the offset that was reached.  The initiator is external and keeps to *)
(* the protocol; PDUs to it are part of the step that sends them.  One     *)
(* logical unit executes one task at a time (LunTasks has the details,     *)
(* aborts too), the sender thread is off.  Every command has its F bit:    *)
(* the initiator sends no unsolicited Data-Out (the code rejects it).      *)
(*                                                                         *)
(* A write that was asked for data and is then refused leaves its slot     *)
(* behind.  The next command with its tag, which is free, meets that slot  *)
(* and goes on from the data and the numbers of the refused one.  reused   *)
(* records that this began: the properties claim nothing from then on.     *)
(***************************************************************************)
EXTENDS Integers, Sequences, SequencesExt, FiniteSets

CONSTANTS
  Write,        \* for each command: a write, else a read
  Length,       \* its expected transfer length
  Tag,          \* its initiator task tag; commands in turn may share one
  Provided,     \* the length of what the logical unit has for a read
  FirstBurst, MaxBurst, Segment,  \* FirstBurstLength, MaxBurstLength,
                                  \* MaxRecvDataSegmentLength
  InitialR2T,   \* sess->initial_r2t
  MaxR2T,       \* conn->max_r2t
  QueueDepth,   \* conn->queue_depth
  None

Cmds == DOMAIN Length

ASSUME CommandAssumption ==
  /\ Length \in Seq(Nat)
  /\ DOMAIN Write = Cmds /\ DOMAIN Tag = Cmds /\ DOMAIN Provided = Cmds
  /\ \A c \in Cmds : Write[c] \in BOOLEAN /\ Provided[c] \in Nat
ASSUME BurstAssumption ==
  FirstBurst \in Nat \ {0} /\ MaxBurst \in Nat \ {0} /\ Segment \in Nat \ {0}
ASSUME LimitAssumption == MaxR2T \in Nat /\ QueueDepth \in Nat \ {0}
ASSUME FlagAssumption == InitialR2T \in BOOLEAN

VARIABLES
  pc,            \* of the worker: poll, drain, xfer, exit
  net,           \* PDUs on their way to the target
  pending_pdus,  \* PDUs set aside during a transfer
  r2t_tasks,     \* the slots in use
  x,             \* the local state of transfer_out
  task_queue,    \* what the logical unit asks of the worker
  lu_queue,      \* commands waiting for the logical unit
  lu,            \* the task in execution
  ExpCmdSN,
  stored,        \* what the logical unit wrote for each command
  rejects,       \* Reject PDUs sent
  nextC,         \* the initiator: its next command,
  imm,           \* the length of the immediate data of each,
  r2t,           \* the R2T that it answers,
  r2ts,          \* how many R2Ts it got,
  granted,       \* how much they asked for,
  got,           \* the Data-In PDUs of each read,
  status,        \* the status of each command
  reused         \* history: the tag of a refused write whose slot is left
                 \* behind was used again; no guard reads it

workVars == <<pc, pending_pdus, r2t_tasks, x, ExpCmdSN, rejects>>
luVars   == <<task_queue, lu_queue, lu, stored>>
askVars  == <<r2t, r2ts, granted>>
vars == <<workVars, luVars, net, nextC, imm, askVars, got, status, reused>>

-----------------------------------------------------------------------------
Least(a, b) == IF a < b THEN a ELSE b
MaxPending  == (QueueDepth + 1) * 2

(* Executed with good status, with sense data, or with another status and  *)
(* no sense data (a reservation conflict).                                 *)
Outcomes == {"good", "check", "conflict"}

CmdPdu  == [op: {"cmd"}, c: Cmds, len: Nat]
DataPdu == [op: {"data"}, c: Cmds, sn: Nat, off: Nat, len: Nat, F: BOOLEAN]
Blocks(c, off, len) == [i \in 1 .. len |-> <<c, off + i>>]
Buffer  == Seq(Cmds \X (Nat \ {0}))
R2TTask == [c: Cmds, iobuf: Buffer, R2TSN: Nat, DataSN: Nat, F: BOOLEAN]
Xfer    == [c: Cmds, data: Buffer, R2TSN: Nat, DataSN: Nat, len: Nat, r2t_flag: BOOLEAN]
DataIn  == [off: Nat, len: Nat, sn: Nat, F: BOOLEAN, S: BOOLEAN]
R2T     == [off: Nat, len: Nat, sent: Nat, sn: Nat]
LuTask  == {"wait", "ready"} \X Cmds

ASSUME NoneAssumption ==
  None \notin Seq(R2TTask) \cup Xfer \cup R2T \cup LuTask \cup Outcomes \cup {"refused"}

TypeOK ==
  /\ pc \in {"poll", "drain", "xfer", "exit"}
  /\ net \in Seq(CmdPdu \cup DataPdu) /\ pending_pdus \in Seq(CmdPdu)
  /\ r2t_tasks \in Seq(R2TTask) /\ x \in Xfer \cup {None}
  /\ task_queue \in Seq({"out", "rsp"} \X Cmds) /\ lu_queue \in Seq(Cmds)
  /\ lu \in LuTask \cup {None}
  /\ ExpCmdSN \in Nat /\ rejects \in Nat
  /\ stored \in [Cmds -> Buffer]
  /\ nextC \in Nat /\ imm \in [Cmds -> Nat]
  /\ r2t \in [Cmds -> R2T \cup {None}]
  /\ r2ts \in [Cmds -> Nat] /\ granted \in [Cmds -> Nat]
  /\ got \in [Cmds -> Seq(DataIn)]
  /\ status \in [Cmds -> Outcomes \cup {"refused", None}]
  /\ reused \in BOOLEAN

Init ==
  /\ pc = "poll" /\ net = <<>> /\ pending_pdus = <<>> /\ r2t_tasks = <<>> /\ x = None
  /\ task_queue = <<>> /\ lu_queue = <<>> /\ lu = None
  /\ ExpCmdSN = 1 /\ rejects = 0
  /\ stored = [c \in Cmds |-> <<>>]
  /\ nextC = 1 /\ imm = [c \in Cmds |-> 0] /\ r2t = [c \in Cmds |-> None]
  /\ r2ts = [c \in Cmds |-> 0] /\ granted = [c \in Cmds |-> 0]
  /\ got = [c \in Cmds |-> <<>>] /\ status = [c \in Cmds |-> None]
  /\ reused = FALSE

-----------------------------------------------------------------------------
(* The initiator.                                                          *)

Outstanding == Cardinality({c \in 1 .. nextC - 1 : status[c] = None})
TagFree(c)  == \A d \in 1 .. c - 1 : Tag[d] = Tag[c] => status[d] # None
Leftover(c) == status[c] = "refused" /\ granted[c] > 0

(* Its window is the queue depth.  The immediate data of a write fits the  *)
(* first burst and a segment.                                              *)
SendCommand ==
  /\ pc # "exit" /\ nextC \in Cmds /\ Outstanding < QueueDepth /\ TagFree(nextC)
  /\ \E n \in 0 .. Least(Least(FirstBurst, Segment), Length[nextC]) :
       /\ ~Write[nextC] => n = 0
       /\ imm' = [imm EXCEPT ![nextC] = n]
       /\ net' = Append(net, [op |-> "cmd", c |-> nextC, len |-> n])
  /\ nextC' = nextC + 1
  /\ reused' = (reused \/ \E d \in 1 .. nextC - 1 : Tag[d] = Tag[nextC] /\ Leftover(d))
  /\ UNCHANGED <<workVars, luVars, askVars, got, status>>

(* The next Data-Out of the R2T of command c; the last has the F bit.  The *)
(* R2T of a command that is refused may be answered before its status gets *)
(* to the initiator, hence before its tag is used again.                   *)
SendData(c) ==
  /\ pc # "exit" /\ r2t[c] # None
  /\ status[c] # None => \A d \in c + 1 .. nextC - 1 : Tag[d] # Tag[c]
  /\ \E n \in 1 .. Least(Segment, r2t[c].len - r2t[c].sent) :
       LET r == r2t[c]  sent == r.sent + n IN
       /\ net' = Append(net, [op |-> "data", c |-> c, sn |-> r.sn, off |-> r.off + r.sent,
                              len |-> n, F |-> sent = r.len])
       /\ r2t' = [r2t EXCEPT ![c] =
                    IF sent = r.len THEN None ELSE [r EXCEPT !.sent = sent, !.sn = @ + 1]]
  /\ UNCHANGED <<workVars, luVars, nextC, imm, r2ts, granted, got, status, reused>>

-----------------------------------------------------------------------------
(* PDUs the worker sends.                                                  *)

SendR2T(c, off, len) ==
  /\ r2t' = [r2t EXCEPT ![c] = [off |-> off, len |-> len, sent |-> 0, sn |-> 0]]
  /\ r2ts' = [r2ts EXCEPT ![c] = @ + 1]
  /\ granted' = [granted EXCEPT ![c] = @ + len]

FaultyTransferIn(c, st) ==
  LET len == Length[c]
      off(i) == (i - 1) * Segment
  IN  [i \in 1 .. (len + Segment - 1) \div Segment |->
         [off |-> off(i), len |-> Least(Segment, len - off(i)), sn |-> i - 1,
          F |-> off(i) + Segment >= len, S |-> off(i) + Segment >= len /\ st = "good"]]

(* Data-In PDUs of at most a segment; the last one carries the status when *)
(* there is no sense data and the status is good.                          *)
TransferIn(c, st) ==
  LET len == Least(Provided[c], Length[c])
      off(i) == (i - 1) * Segment
  IN  [i \in 1 .. (len + Segment - 1) \div Segment |->
         [off |-> off(i), len |-> Least(Segment, len - off(i)), sn |-> i - 1,
          F |-> off(i) + Segment >= len, S |-> off(i) + Segment >= len /\ st = "good"]]

(* The status is in the last Data-In or in a SCSI Response of its own.     *)
StatusSent(c, data, st) ==
  /\ got' = [got EXCEPT ![c] = @ \o data]
  /\ status' = [status EXCEPT ![c] = st]

-----------------------------------------------------------------------------
(* The slots.                                                              *)

SlotOf(c) == SelectInSeq(r2t_tasks, LAMBDA r : Tag[r.c] = Tag[c])

(* Filing a Data-Out of another command: the slots after it, or None for a *)
(* protocol error, or r2t_tasks itself and a Reject when there is no slot. *)
Filed(p) ==
  LET i == SlotOf(p.c)  r == r2t_tasks[i] IN
  IF p.sn = r.DataSN /\ p.off = Len(r.iobuf)
    THEN [r2t_tasks EXCEPT ![i] =
            [r EXCEPT !.iobuf = @ \o Blocks(p.c, p.off, p.len), !.DataSN = @ + 1, !.F = p.F]]
    ELSE None

op_data(p) ==
  IF SlotOf(p.c) = 0
    THEN rejects' = rejects + 1 /\ UNCHANGED <<pc, r2t_tasks>>
    ELSE /\ UNCHANGED rejects
         /\ IF Filed(p) = None THEN pc' = "exit" /\ UNCHANGED r2t_tasks
                               ELSE r2t_tasks' = Filed(p) /\ UNCHANGED pc

FaultyNeedsSlot(p) ==
  Write[p.c] /\ MaxR2T > 0 /\ p.len < Length[p.c] /\ p.len >= FirstBurst

(* A write whose immediate data fills the first burst and that needs more  *)
(* gets a slot and its first R2T at once.                                  *)
NeedsSlot(p) ==
  /\ Write[p.c] /\ MaxR2T > 0 /\ p.len < Length[p.c]
  /\ Len(r2t_tasks) < MaxR2T /\ p.len >= FirstBurst

add_transfer_task(p) ==
  IF NeedsSlot(p)
    THEN /\ r2t_tasks' = Append(r2t_tasks,
              [c |-> p.c, iobuf |-> Blocks(p.c, 0, p.len), R2TSN |-> 1, DataSN |-> 0,
               F |-> TRUE])
         /\ SendR2T(p.c, p.len, Least(MaxBurst, Length[p.c] - p.len))
    ELSE UNCHANGED <<r2t_tasks, askVars>>

-----------------------------------------------------------------------------
(* The worker: its loop.                                                   *)

AfterPdu(rest) == IF rest = <<>> THEN "poll" ELSE "drain"

(* op_scsi for the next command, from the connection or, until there are   *)
(* none left, from the PDUs set aside.  One out of order ends the          *)
(* connection.  The logical unit queues it or refuses it with a status     *)
(* (queue full, ...); its slot, if it got one, stays.                      *)
op_scsi(p, rest) ==
  IF p.c < ExpCmdSN
    THEN pc' = "exit" /\ UNCHANGED <<r2t_tasks, askVars, ExpCmdSN, lu_queue, got, status>>
    ELSE /\ ExpCmdSN' = p.c + 1
         /\ add_transfer_task(p)
         /\ pc' = AfterPdu(rest)
         /\ \/ lu_queue' = Append(lu_queue, p.c) /\ UNCHANGED <<got, status>>
            \/ StatusSent(p.c, <<>>, "refused") /\ UNCHANGED lu_queue

ReadPdu ==
  /\ pc = "poll" /\ net # <<>>
  /\ net' = Tail(net)
  /\ LET p == Head(net) IN
     IF p.op = "cmd"
       THEN op_scsi(p, pending_pdus) /\ UNCHANGED rejects
       ELSE op_data(p) /\ UNCHANGED <<askVars, ExpCmdSN, lu_queue, got, status>>
  /\ UNCHANGED <<x, pending_pdus, task_queue, lu, stored, nextC, imm, reused>>

ExecutePending ==
  /\ pc = "drain"
  /\ pending_pdus' = Tail(pending_pdus)
  /\ op_scsi(Head(pending_pdus), pending_pdus')
  /\ UNCHANGED <<x, net, rejects, task_queue, lu, stored, nextC, imm, reused>>

(* The response of an executed task, for a read after its data.            *)
TaskResponse ==
  /\ pc = "poll" /\ task_queue # <<>> /\ Head(task_queue)[1] = "rsp"
  /\ LET c == Head(task_queue)[2] IN
     \E st \in Outcomes :
       StatusSent(c, IF Write[c] \/ st = "conflict" THEN <<>> ELSE TransferIn(c, st), st)
  /\ task_queue' = Tail(task_queue)
  /\ pc' = AfterPdu(pending_pdus)
  /\ UNCHANGED <<pending_pdus, r2t_tasks, x, ExpCmdSN, rejects, lu_queue, lu, stored,
                 net, nextC, imm, askVars, reused>>

-----------------------------------------------------------------------------
(* The worker: transfer_out.                                               *)

(* All the data is there: the worker hands it to the logical unit, which   *)
(* waits on trans_cond.                                                    *)
Transferred(c, data) ==
  /\ x' = None /\ pc' = AfterPdu(pending_pdus)
  /\ lu' = <<"ready", c>>
  /\ stored' = [stored EXCEPT ![c] = data]
Failed == pc' = "exit" /\ UNCHANGED <<x, lu, stored>>
Goes(xfer) == pc' = "xfer" /\ x' = xfer /\ UNCHANGED <<lu, stored>>

Local(c, data, R2TSN, DataSN, len, r2t_flag) ==
  [c |-> c, data |-> data, R2TSN |-> R2TSN, DataSN |-> DataSN, len |-> len,
   r2t_flag |-> r2t_flag]

FaultyResumed_asks(c, r) ==
  Local(c, r.iobuf, r.R2TSN, r.DataSN, Least(MaxBurst, Length[c] - Len(r.iobuf)), FALSE)
FaultyResumed_waits(c, r) ==
  Local(c, r.iobuf, r.R2TSN, r.DataSN, Least(MaxBurst, Length[c] - Len(r.iobuf)), TRUE)
(* A slot keeps the R2T it has until the first burst and the burst of that *)
(* R2T are in.                                                             *)
Resumed(c, r) ==
  Local(c, r.iobuf, r.R2TSN, r.DataSN, Least(MaxBurst, Length[c] - Len(r.iobuf)),
        Len(r.iobuf) < FirstBurst + MaxBurst)

FaultyTakeOver(c, i) ==
  LET r == r2t_tasks[i]  off == Len(r.iobuf) IN
  /\ UNCHANGED r2t_tasks
  /\ IF off < Length[c] THEN Goes(Resumed(c, r))
     ELSE IF off = Length[c] /\ ~r.F THEN Failed ELSE Transferred(c, r.iobuf)

(* transfer_out takes over what the slot of the command has, and frees it. *)
TakeOver(c, i) ==
  LET r == r2t_tasks[i]  off == Len(r.iobuf) IN
  /\ r2t_tasks' = RemoveAt(r2t_tasks, i)
  /\ IF off < Length[c] THEN Goes(Resumed(c, r))
     ELSE IF off = Length[c] /\ ~r.F THEN Failed ELSE Transferred(c, r.iobuf)

(* Without a slot it starts from the immediate data.                       *)
StartTransfer ==
  /\ pc = "poll" /\ task_queue # <<>> /\ Head(task_queue)[1] = "out"
  /\ task_queue' = Tail(task_queue)
  /\ LET c == Head(task_queue)[2]  n == imm[c] IN
     IF SlotOf(c) > 0
       THEN TakeOver(c, SlotOf(c))
       ELSE /\ UNCHANGED r2t_tasks
            /\ CASE n > FirstBurst -> Failed
                 [] n < Length[c]  ->
                      Goes(Local(c, Blocks(c, 0, n), 0, 0,
                                 Least(FirstBurst, Length[c] - n), FALSE))
                 [] OTHER -> Transferred(c, Blocks(c, 0, n))
  /\ UNCHANGED <<pending_pdus, ExpCmdSN, rejects, lu_queue, net, nextC, imm, askVars,
                 got, status, reused>>

NeedsR2T == ~x.r2t_flag /\ (InitialR2T \/ Len(x.data) >= FirstBurst)

FaultyTransferR2T ==
  /\ pc = "xfer" /\ NeedsR2T
  /\ LET len == Least(MaxBurst, Length[x.c] - Len(x.data)) IN
     /\ SendR2T(x.c, Len(x.data), len)
     /\ x' = [x EXCEPT !.R2TSN = @ + 1, !.r2t_flag = TRUE, !.len = len]
  /\ UNCHANGED <<pc, pending_pdus, r2t_tasks, ExpCmdSN, rejects, luVars, net, nextC, imm,
                 got, status, reused>>

TransferR2T ==
  /\ pc = "xfer" /\ NeedsR2T
  /\ LET len == Least(MaxBurst, Length[x.c] - Len(x.data)) IN
     /\ SendR2T(x.c, Len(x.data), len)
     /\ x' = [x EXCEPT !.R2TSN = @ + 1, !.r2t_flag = TRUE, !.DataSN = 0, !.len = len]
  /\ UNCHANGED <<pc, pending_pdus, r2t_tasks, ExpCmdSN, rejects, luVars, net, nextC, imm,
                 got, status, reused>>

(* A Data-Out of the command in transfer.                                  *)
CurrentData(p) ==
  LET c == x.c  off == Len(x.data) + p.len  len == x.len - p.len IN
  IF \/ p.sn # x.DataSN \/ p.off # Len(x.data)
     \/ ~x.r2t_flag /\ off > FirstBurst
     \/ p.F /\ len # 0 /\ off >= Length[c]
     \/ ~p.F /\ len = 0
    THEN Failed
    ELSE LET data == x.data \o Blocks(p.c, p.off, p.len) IN
         IF off < Length[c]
           THEN Goes([x EXCEPT !.data = data, !.DataSN = @ + 1, !.len = len,
                               !.r2t_flag = @ /\ ~p.F /\ len # 0])
           ELSE IF p.F THEN Transferred(c, data) ELSE Failed

SetAside(p) ==
  IF Len(pending_pdus) > MaxPending
    THEN pc' = "exit" /\ UNCHANGED pending_pdus
    ELSE pending_pdus' = Append(pending_pdus, p) /\ UNCHANGED pc

TransferRead ==
  /\ pc = "xfer" /\ ~NeedsR2T /\ net # <<>>
  /\ net' = Tail(net)
  /\ LET p == Head(net) IN
     CASE p.op = "cmd" ->
            SetAside(p) /\ UNCHANGED <<r2t_tasks, x, rejects, lu, stored>>
       [] p.op = "data" /\ Tag[p.c] = Tag[x.c] ->
            CurrentData(p) /\ UNCHANGED <<pending_pdus, r2t_tasks, rejects>>
       [] OTHER ->
            op_data(p) /\ UNCHANGED <<pending_pdus, x, lu, stored>>
  /\ UNCHANGED <<ExpCmdSN, task_queue, lu_queue, nextC, imm, askVars, got, status, reused>>

-----------------------------------------------------------------------------
(* The logical unit.                                                       *)

(* The next task: a write whose data did not all come with its command     *)
(* asks the worker for it and waits.                                       *)
TakeTask ==
  /\ lu = None /\ lu_queue # <<>> /\ pc # "exit"
  /\ LET c == Head(lu_queue) IN
     IF Write[c] /\ imm[c] < Length[c]
       THEN /\ lu' = <<"wait", c>> /\ task_queue' = Append(task_queue, <<"out", c>>)
            /\ UNCHANGED stored
       ELSE /\ lu' = <<"ready", c>> /\ UNCHANGED task_queue
            /\ stored' = [stored EXCEPT ![c] = IF Write[c] THEN Blocks(c, 0, imm[c]) ELSE @]
  /\ lu_queue' = Tail(lu_queue)
  /\ UNCHANGED <<workVars, net, nextC, imm, askVars, got, status, reused>>

Execute ==
  /\ lu # None /\ lu[1] = "ready"
  /\ task_queue' = Append(task_queue, <<"rsp", lu[2]>>)
  /\ lu' = None
  /\ UNCHANGED <<workVars, lu_queue, stored, net, nextC, imm, askVars, got, status, reused>>

-----------------------------------------------------------------------------
Transfer  == StartTransfer \/ TransferR2T \/ TransferRead
Worker    == ReadPdu \/ ExecutePending \/ TaskResponse \/ Transfer
LuWorker  == TakeTask \/ Execute
Initiator == SendCommand \/ \E c \in Cmds : SendData(c)
Next == Worker \/ LuWorker \/ Initiator
Spec == Init /\ [][Next]_vars

(* The threads run and the initiator answers its R2Ts.  Which of socket and *)
(* pipe the worker serves first does not matter, as commands are finitely  *)
(* many.  Nothing is assumed of new commands.                              *)
Fairness ==
  WF_vars(Worker) /\ WF_vars(LuWorker) /\ WF_vars(\E c \in Cmds : SendData(c))
FairSpec == Spec /\ Fairness

-----------------------------------------------------------------------------
Answered(c) == status[c] \notin {None, "refused"}

(* A write that is executed has all its data, each block at its place and  *)
(* none of another command, in whatever order PDUs arrived and through     *)
(* whichever of the two paths (op_data, transfer_out) each block came;     *)
(* claimed until the tag of a write with a slot left behind is used again  *)
(* (the slot is then found at istgt_iscsi.c:3985).                         *)
OwnData ==
  \A c \in Cmds : Write[c] /\ lu = <<"ready", c>> => stored[c] = Blocks(c, 0, Length[c])
RightData == reused \/ OwnData

(* An initiator that keeps to the protocol is not dropped and gets no      *)
(* Reject: no Data-Out misses its slot, none is out of order for DataSN,   *)
(* offset or F bit, the PDUs set aside fit, commands stay in order; claimed*)
(* for an initiator that does not use the tag of a refused write again     *)
(* which had been asked for data.  With such a reuse, which the protocol   *)
(* allows, the numbers of the slot left behind do not fit.                 *)
NotDropped == pc # "exit" /\ rejects = 0
Conforms == reused \/ NotDropped

(* PDUs that were set aside during a transfer are executed before the      *)
(* worker polls again: it would not poll for them.                         *)
PendingDrained == pc = "poll" => pending_pdus = <<>>

(* A slot is in use, once, for a command that waits for its data, or is    *)
(* left behind by one that was refused: no other slot is lost.             *)
SlotsInUse ==
  /\ Len(r2t_tasks) <= MaxR2T
  /\ \A i, j \in DOMAIN r2t_tasks :
       LET c == r2t_tasks[i].c IN
       /\ Tag[c] = Tag[r2t_tasks[j].c] => i = j
       /\ Contains(lu_queue, c) \/ lu = <<"wait", c>> \/ status[c] = "refused"

(* A command has one R2T at a time: the next one comes when the initiator  *)
(* has sent and the target received all that the one before asked for; it  *)
(* goes on where that ended and stays within the burst and the transfer    *)
(* (until a slot left behind is met, as above).                            *)
R2TsFollow ==
  [][reused \/ \A c \in Cmds : r2ts'[c] # r2ts[c] =>
       /\ r2t[c] = None
       /\ \A i \in DOMAIN net' : net'[i].op = "data" => net'[i].c # c
       /\ LET r == r2t'[c] IN
          r.off = imm[c] + granted[c] /\ r.len \in 1 .. MaxBurst /\ r.off + r.len <= Length[c]
    ]_vars

(* R2Ts are numbered without a gap, whichever path sends them.             *)
R2TsNumbered ==
  /\ pc = "xfer" => x.R2TSN = r2ts[x.c]
  /\ \A i \in DOMAIN r2t_tasks : r2t_tasks[i].R2TSN = r2ts[r2t_tasks[i].c]

(* What the worker keeps from PDU to PDU, the PDUs set aside, the slots and*)
(* the numbers of transfers, is right while transfers take turns,          *)
(* until a slot left behind is met: what its numbers and lengths then come *)
(* to is not followed, not even their types.                               *)
Bookkeeping == reused \/ (TypeOK /\ PendingDrained /\ SlotsInUse /\ R2TsNumbered)

(* A read gets what there is, no more than it expects, in order, cut into  *)
(* segments, and its status once: with the last Data-In or after it (until *)
(* a slot left behind is met).                                             *)
ReadWhole ==
  reused \/ \A c \in Cmds : Answered(c) /\ ~Write[c] =>
    LET g == got[c]  n == Len(g)
        total == IF status[c] = "conflict" THEN 0 ELSE Least(Provided[c], Length[c])
        end(i) == g[i].off + g[i].len
    IN  /\ \A i \in 1 .. n :
             /\ g[i].sn = i - 1 /\ g[i].len \in 1 .. Segment
             /\ g[i].off = IF i = 1 THEN 0 ELSE end(i - 1)
             /\ g[i].F <=> i = n
             /\ g[i].S <=> i = n /\ status[c] = "good"
        /\ IF n = 0 THEN total = 0 ELSE end(n) = total

(* Every command is answered, although slots are fewer than writes, or a   *)
(* slot left behind is met: the connection may then end or wait for ever.  *)
EveryCommandAnswered == \A c \in Cmds : (nextC > c) ~> (status[c] # None \/ reused)
=============================================================================

--------------------------- MODULE LunTasksSteps ----------------------------
(* Lemmas for the proofs about LunTasks: the sequence operators of its       *)
(* queues, the types of what its helpers assign, what the inductive          *)
(* invariant says of a task that somebody holds; and that every step of a    *)
(* connection, by its worker, its sender or whoever asks it to exit, keeps   *)
(* that invariant.                                                           *)
EXTENDS LunTasks, QueueSelectFacts

-----------------------------------------------------------------------------
(* The queues.                                                             *)

LEMMA TailFacts ==
  ASSUME NEW S, NEW q \in Seq(S), q # <<>>
  PROVE  /\ Head(q) \in S /\ Tail(q) \in Seq(S)
         /\ \A t : InSeq(t, q) <=> t = Head(q) \/ InSeq(t, Tail(q))
         /\ Distinct(q) => Distinct(Tail(q)) /\ ~InSeq(Head(q), Tail(q))
<1>1. Len(q) \in Nat /\ Len(q) > 0 /\ DOMAIN q = 1 .. Len(q)
  OBVIOUS
<1>2. /\ Tail(q) \in Seq(S) /\ Len(Tail(q)) = Len(q) - 1
      /\ DOMAIN Tail(q) = 1 .. (Len(q) - 1)
      /\ \A i \in 1 .. (Len(q) - 1) : Tail(q)[i] = q[i + 1]
  OBVIOUS
<1>3. Head(q) = q[1] /\ Head(q) \in S
  OBVIOUS
<1>4. ASSUME NEW t PROVE InSeq(t, q) <=> t = Head(q) \/ InSeq(t, Tail(q))
  <2>1. ASSUME NEW i \in DOMAIN q, i # 1 PROVE i - 1 \in DOMAIN Tail(q) /\ Tail(q)[i - 1] = q[i]
    BY <1>1, <1>2, <2>1
  <2>2. ASSUME NEW i \in DOMAIN Tail(q) PROVE i + 1 \in DOMAIN q /\ Tail(q)[i] = q[i + 1]
    BY <1>1, <1>2
  <2>3. 1 \in DOMAIN q
    BY <1>1
  <2>4. ASSUME NEW i \in DOMAIN q, q[i] = t PROVE t = Head(q) \/ InSeq(t, Tail(q))
    <3>1. CASE i = 1
      BY <2>4, <3>1, <1>3
    <3>2. CASE i # 1
      BY <2>1, <2>4, <3>2 DEF InSeq
    <3> QED BY <3>1, <3>2
  <2>5. InSeq(t, q) => t = Head(q) \/ InSeq(t, Tail(q))
    BY <2>4 DEF InSeq
  <2>6. t = Head(q) => InSeq(t, q)
    BY <2>3, <1>3 DEF InSeq
  <2>7. InSeq(t, Tail(q)) => InSeq(t, q)
    BY <2>2 DEF InSeq
  <2> QED BY <2>5, <2>6, <2>7
<1>5. ASSUME Distinct(q) PROVE Distinct(Tail(q)) /\ ~InSeq(Head(q), Tail(q))
  <2>1. ASSUME NEW i \in DOMAIN Tail(q)
        PROVE  i + 1 \in DOMAIN q /\ i + 1 # 1 /\ Tail(q)[i] = q[i + 1] /\ i \in Int
    BY <1>1, <1>2
  <2>2. 1 \in DOMAIN q
    BY <1>1
  <2> QED BY <2>1, <2>2, <1>3, <1>5 DEF Distinct, InSeq
<1> QED BY <1>2, <1>3, <1>4, <1>5

LEMMA AppendFacts ==
  ASSUME NEW S, NEW q \in Seq(S), NEW x \in S
  PROVE  /\ Append(q, x) \in Seq(S)
         /\ \A t : InSeq(t, Append(q, x)) <=> t = x \/ InSeq(t, q)
         /\ Distinct(q) /\ ~InSeq(x, q) => Distinct(Append(q, x))
<1>1. Len(q) \in Nat /\ DOMAIN q = 1 .. Len(q)
  OBVIOUS
<1>2. /\ Append(q, x) \in Seq(S)
      /\ DOMAIN Append(q, x) = 1 .. (Len(q) + 1)
      /\ \A i \in 1 .. Len(q) : Append(q, x)[i] = q[i]
      /\ Append(q, x)[Len(q) + 1] = x
  OBVIOUS
<1>3. ASSUME NEW t PROVE InSeq(t, Append(q, x)) <=> t = x \/ InSeq(t, q)
  BY <1>1, <1>2 DEF InSeq
<1>4. ASSUME Distinct(q), ~InSeq(x, q) PROVE Distinct(Append(q, x))
  BY <1>1, <1>2, <1>4 DEF InSeq, Distinct
<1> QED BY <1>2, <1>3, <1>4

LEMMA PrependFacts ==
  ASSUME NEW S, NEW q \in Seq(S), NEW x \in S
  PROVE  /\ <<x>> \o q \in Seq(S)
         /\ \A t : InSeq(t, <<x>> \o q) <=> t = x \/ InSeq(t, q)
         /\ Distinct(q) /\ ~InSeq(x, q) => Distinct(<<x>> \o q)
<1> DEFINE p == <<x>> \o q
<1>1. Len(q) \in Nat /\ DOMAIN q = 1 .. Len(q)
  OBVIOUS
<1>2. /\ p \in Seq(S) /\ DOMAIN p = 1 .. (Len(q) + 1) /\ p[1] = x
      /\ \A i \in 1 .. Len(q) : p[i + 1] = q[i]
  OBVIOUS
<1>3. ASSUME NEW i \in DOMAIN p
      PROVE  \/ i = 1 /\ p[i] = x
             \/ i # 1 /\ i - 1 \in DOMAIN q /\ p[i] = q[i - 1]
  BY <1>1, <1>2
<1>4. \A i \in DOMAIN q : i + 1 \in DOMAIN p /\ p[i + 1] = q[i]
  BY <1>1, <1>2
<1>5. 1 \in DOMAIN p
  BY <1>1, <1>2
<1> HIDE DEF p
<1>6. ASSUME NEW t PROVE InSeq(t, p) <=> t = x \/ InSeq(t, q)
  <2>1. InSeq(t, p) => t = x \/ InSeq(t, q)
    BY <1>3, Zenon DEF InSeq
  <2>2. InSeq(t, q) => InSeq(t, p)
    BY <1>4, Zenon DEF InSeq
  <2>3. InSeq(x, p)
    BY <1>2, <1>5, Zenon DEF InSeq
  <2> QED BY <2>1, <2>2, <2>3
<1>7. ASSUME Distinct(q), ~InSeq(x, q) PROVE Distinct(p)
  <2> SUFFICES ASSUME NEW i \in DOMAIN p, NEW j \in DOMAIN p, p[i] = p[j] PROVE i = j
    BY DEF Distinct
  <2>1. i \in Int /\ j \in Int
    BY <1>2, <1>1
  <2> QED BY <2>1, <1>3, <1>7 DEF InSeq, Distinct
<1> QED BY <1>2, <1>6, <1>7 DEF p

-----------------------------------------------------------------------------
(* Types of what the helpers assign.                                       *)

LEMMA OneEventType ==
  ASSUME events \in 0 .. MaxEvents, OneEvent
  PROVE  events' \in 0 .. MaxEvents
BY LunAssumption DEF OneEvent

LEMMA StartScanType ==
  ASSUME NEW pc \in LuPcs, NEW l \in 0 .. MaxLun, StartScan(pc, l)
  PROVE  lpc' = pc /\ llun' \in Luns /\ scan' \in Luns \X (0 .. MaxLun)
BY LunAssumption DEF StartScan, Luns

LEMMA ReturnType ==
  ASSUME TypeOK, NEW ok \in BOOLEAN, Return(ok)
  PROVE  /\ lpc' \in {"start", "count"}
         /\ llun' \in Luns /\ scan' \in Luns \X (0 .. MaxLun) /\ again' \in BOOLEAN
         /\ ltask' = None /\ lconn' = None
<1>1. llun + 1 \in 0 .. MaxLun
  BY LunAssumption DEF TypeOK, Luns
<1> QED BY <1>1, StartScanType DEF Return, TypeOK, LuPcs

LEMMA WriteByteType ==
  ASSUME TypeOK, NEW c, NEW b \in {"Q", "E"}, WriteByte(c, b)
  PROVE  task_pipe' \in [Conns -> Seq({"Q", "E"})]
<1>1. ASSUME c \in Conns PROVE Append(task_pipe[c], b) \in Seq({"Q", "E"})
  BY <1>1 DEF TypeOK
<1> QED BY <1>1 DEF TypeOK, WriteByte

(* How one task object changes. *)
Only(t) == /\ task' \in [Tasks -> TaskRec]
           /\ \A u \in Tasks : u # t => task'[u] = task[u]

Becomes(t, stage) == /\ task'[t].stage = stage /\ task'[t].conn = task[t].conn
                     /\ task'[t].lun = task[t].lun /\ task'[t].write = task[t].write

Marks(t, out, exe, err, abt, done) ==
  /\ task'[t].req_transfer_out = out /\ task'[t].req_execute = exe
  /\ task'[t].error = err /\ task'[t].abort = abt /\ task'[t].execute = done

(* What Flags says of one task, when a step changes no other. *)
Flagged(k) ==
  /\ k.stage = "none" <=> k.conn = None
  /\ k.stage \in {"none", "queued"} =>
       ~k.req_transfer_out /\ ~k.req_execute /\ ~k.error /\ ~k.abort /\ ~k.execute
  /\ k.stage \in {"posted", "xfer"} =>
       k.write /\ k.req_transfer_out /\ ~k.req_execute /\ ~k.execute
  /\ k.stage \in {"reply", "result", "sending", "answered"} => k.execute /\ ~k.req_transfer_out

LEMMA FlagsOne ==
  ASSUME Flags, NEW t \in Tasks, Flagged(task'[t]),
         \A u \in Tasks : u # t => task'[u] = task[u]
  PROVE  Flags'
<1>1. ASSUME NEW u \in Tasks PROVE Flagged(task'[u])
  <2>1. CASE u = t
    BY <2>1
  <2>2. CASE u # t
    BY <2>2 DEF Flags, Flagged
  <2> QED BY <2>1, <2>2
<1> QED BY <1>1 DEF Flags, Flagged

LEMMA TaskTypes ==
  ASSUME TypeOK, NEW t \in Tasks
  PROVE  /\ task[t] \in TaskRec /\ task[t].stage \in Stages /\ task[t].conn \in Conns \cup {None}
         /\ task[t].lun \in Luns
         /\ task[t].write \in BOOLEAN /\ task[t].req_transfer_out \in BOOLEAN
         /\ task[t].req_execute \in BOOLEAN /\ task[t].error \in BOOLEAN
         /\ task[t].abort \in BOOLEAN /\ task[t].execute \in BOOLEAN
BY DEF TypeOK, TaskRec

LEMMA Holder ==
  ASSUME IndInv, NEW c \in Conns
  PROVE  /\ exec_lu_task[c] # None => exec_lu_task[c] \in Tasks /\ At(exec_lu_task[c], c, {"xfer", "reply"})
         /\ stask[c] # None => stask[c] \in Tasks /\ At(stask[c], c, {"sending"})
<1>1. exec_lu_task[c] \in Tasks \cup {None} /\ stask[c] \in Tasks \cup {None}
  BY DEF IndInv, TypeOK
<1>2. \A t \in Tasks : /\ exec_lu_task[c] = t => At(t, c, {"xfer", "reply"})
                       /\ stask[c] = t => At(t, c, {"sending"})
  BY DEF IndInv, Custody, ConnCustody
<1> QED BY <1>1, <1>2

LEMMA LuTask ==
  ASSUME IndInv, ltask # None
  PROVE  /\ ltask \in Tasks /\ task[ltask].stage \in {"lu", "posted", "xfer", "lost"}
         /\ lconn \in Conns /\ task[ltask].conn = lconn
<1>1. ltask \in Tasks /\ task[ltask].stage \in {"lu", "posted", "xfer", "lost"}
  BY DEF IndInv, TypeOK, Custody, LuCustody
<1>2. task[ltask].conn \in Conns
  BY <1>1, TaskTypes, NoneAssumption DEF IndInv, Flags
<1> QED BY <1>1, <1>2 DEF IndInv, LuHolds


(* What a worker holds stays so when its variables do not change and no    *)
(* task leaves the stages at which a worker has it.                        *)
LEMMA WorkerHoldsFrame ==
  ASSUME IndInv, UNCHANGED <<wpc, clr, exec_lu_task, spc, stask>>,
         \A u \in Tasks : task[u].stage \in {"xfer", "reply"} =>
                             task'[u].stage = task[u].stage /\ task'[u].conn = task[u].conn
  PROVE  WorkerHolds'
<1> SUFFICES ASSUME NEW c \in Conns,
                    exec_lu_task[c] # None =>
                      /\ exec_lu_task[c] \in Tasks
                      /\ At(exec_lu_task[c], c, {"xfer"}) => At(exec_lu_task[c], c, {"xfer"})'
                      /\ At(exec_lu_task[c], c, {"reply"}) => At(exec_lu_task[c], c, {"reply"})'
             PROVE  /\ wpc[c] = "xfer" => exec_lu_task[c] # None /\ At(exec_lu_task[c], c, {"xfer"})'
                    /\ wpc[c] = "respond" => exec_lu_task[c] # None /\ At(exec_lu_task[c], c, {"reply"})'
                    /\ \/ wpc[c] \in {"poll", "notify"}
                       \/ wpc[c] \in {"clr_lock", "clr_queue", "clr_wait"} /\ clr[c].kind # "IT"
                       => exec_lu_task[c] = None
                    /\ wpc[c] = "gone" => exec_lu_task[c] = None /\ spc[c] = "done"
                    /\ spc[c] = "send" <=> stask[c] # None
  BY Holder DEF WorkerHolds, Holds, At
<1> QED BY DEF IndInv, WorkerHolds, Holds

(* What the luworker knows of its task stays so when neither changes and no *)
(* worker begins a transfer.                                               *)
LEMMA LuHoldsFrame ==
  ASSUME IndInv, UNCHANGED luRest,
         lpc' = lpc \/ (lpc = "wait" /\ lpc' = "woken"),
         ltask # None => task'[ltask] = task[ltask],
         \A x \in Conns : wpc'[x] = "xfer" => wpc[x] = "xfer"
  PROVE  LuHolds'
<1>1. LuHolds
  BY DEF IndInv
<1>2. ltask # None => (wpc'[lconn] = "xfer" => wpc[lconn] = "xfer")
  BY LuTask
<1> QED BY <1>1, <1>2 DEF LuHolds, luRest

(* Custody and Flags are about the tasks and those who hold them. *)
LEMMA CustodyFrame ==
  ASSUME IndInv, UNCHANGED <<task, cmd_queue, ltask, task_queue, result_queue, exec_lu_task, stask>>
  PROVE  Custody' /\ Flags'
BY DEF IndInv, Custody, CmdCustody, Queued, LuCustody, ConnCustody, At, Flags

LEMMA CmdFrame ==
  ASSUME IndInv, UNCHANGED cmd_queue,
         \A u \in Tasks : \/ task'[u].stage = task[u].stage /\ task'[u].lun = task[u].lun
                          \/ task[u].stage # "queued" /\ task'[u].stage # "queued"
  PROVE  CmdCustody'
BY DEF IndInv, Custody, CmdCustody, Queued

(* The task object u does not come to, leave or move within connection x. *)
ConnStages == {"posted", "xfer", "reply", "result", "sending"}
Apart(u, x) ==
  \/ task'[u].stage = task[u].stage /\ task'[u].conn = task[u].conn
  \/ ~At(u, x, ConnStages) /\ ~At(u, x, ConnStages)'

LEMMA ConnFrame ==
  ASSUME IndInv, NEW x \in Conns,
         task_queue'[x] = task_queue[x], result_queue'[x] = result_queue[x],
         exec_lu_task'[x] = exec_lu_task[x], stask'[x] = stask[x],
         \A u \in Tasks : Apart(u, x)
  PROVE  /\ ConnCustody(x)'
         /\ wpc'[x] = wpc[x] /\ clr'[x] = clr[x] /\ spc'[x] = spc[x] => Holds(x)'
<1>1. ConnCustody(x)'
  BY DEF IndInv, Custody, ConnCustody, At, ConnStages, Apart
<1>2. ASSUME wpc'[x] = wpc[x], clr'[x] = clr[x], spc'[x] = spc[x] PROVE Holds(x)'
  <2>1. Holds(x)
    BY DEF IndInv, WorkerHolds
  <2>2. ASSUME exec_lu_task[x] # None PROVE Apart(exec_lu_task[x], x)
    BY <2>2, Holder
  <2> QED BY <1>2, <2>1, <2>2 DEF Holds, At, Apart, ConnStages
<1> QED BY <1>1, <1>2

(* Only the flags of the tasks change. *)
LEMMA StageFrame ==
  ASSUME IndInv, UNCHANGED <<cmd_queue, ltask, task_queue, result_queue, exec_lu_task, stask>>,
         \A u \in Tasks : /\ task'[u].stage = task[u].stage /\ task'[u].conn = task[u].conn
                          /\ task'[u].lun = task[u].lun
  PROVE  Custody'
<1>1. CmdCustody'
  BY CmdFrame
<1>2. LuCustody'
  BY LuTask DEF IndInv, Custody, LuCustody
<1>3. \A c \in Conns : ConnCustody(c)'
  BY ConnFrame DEF Apart
<1> QED BY <1>1, <1>2, <1>3 DEF Custody

LEMMA BroadcastType ==
  ASSUME lpc \in LuPcs, NEW t, BroadcastTrans(t)
  PROVE  lpc' \in LuPcs /\ (lpc' = lpc \/ (lpc = "twait" /\ lpc' = "twoken" /\ ltask = t))
BY DEF BroadcastTrans, LuPcs

-----------------------------------------------------------------------------
(* The loop of the worker.                                                 *)

(* The worker that sees its connection exiting holds no task when it goes  *)
(* to clean up.                                                            *)
LEMMA WkNoticeKeeps ==
  ASSUME IndInv, NEW c \in Conns, WkNotice(c)
  PROVE  IndInv'
<1>1. TypeOK'
  BY DEF WkNotice, To, Cleanup, IndInv, TypeOK, WorkerPcs, ClrKinds, allLun, lunVars,
      luVars, luRest, ioVars, sndVars
<1>2. Custody' /\ Flags'
  BY CustodyFrame DEF WkNotice, allLun, lunVars, luVars, luRest, ioVars, sndVars
<1>3. WaitIsCurrent'
  BY DEF IndInv, WaitIsCurrent, WkNotice, allLun, lunVars, luVars, luRest, ioVars,
      sndVars
<1>4. LuHolds'
  BY LuHoldsFrame
  DEF IndInv, TypeOK, To, Cleanup, WkNotice, allLun, lunVars, luVars, luRest, ioVars,
      sndVars
<1>5. WorkerHolds'
  BY DEF IndInv, TypeOK, WorkerHolds, Holds, At, WkNotice, To, Cleanup, allLun, lunVars,
      luVars, luRest, ioVars, sndVars
<1> QED BY <1>1, <1>2, <1>3, <1>4, <1>5 DEF IndInv

(* A new task enters cmd_queue of its LUN, once, at the head or at the     *)
(* tail; a full queue takes none.                                          *)
LEMMA WkScsiKeeps ==
  ASSUME IndInv, NEW c \in Conns, NEW t \in Tasks, NEW l \in Luns,
         NEW w \in BOOLEAN, NEW first \in BOOLEAN, WkScsi(c, t, l, w, first)
  PROVE  IndInv'
<1> DEFINE q == cmd_queue[l]
<1>1. /\ wpc[c] = "poll" /\ task[t].stage = "none"
      /\ UNCHANGED <<wait_lu_task, queue_check, lu_mutex, luVars, state, clr,
                     exec_lu_task, running_tasks, ioVars, sndVars, events>>
  BY DEF WkScsi
<1>2. /\ wpc' \in [Conns -> WorkerPcs]
      /\ \A x \in Conns : x # c => wpc'[x] = wpc[x]
      /\ wpc'[c] \in {"poll", "notify", "cl_begin"}
  BY DEF WkScsi, Loop, To, IndInv, TypeOK, WorkerPcs
<1>3. WaitIsCurrent'
  BY <1>1 DEF IndInv, WaitIsCurrent, luVars, luRest
<1>4. Holds(c)'
  BY <1>1, <1>2 DEF IndInv, WorkerHolds, Holds, sndVars
<1>5. CASE UNCHANGED <<task, cmd_queue>>
  <2>1. TypeOK'
    BY <1>1, <1>2, <1>5 DEF IndInv, TypeOK, luVars, luRest, ioVars, sndVars
  <2>2. Custody' /\ Flags'
    BY <1>1, <1>5, CustodyFrame DEF luVars, luRest, ioVars, sndVars
  <2>3. LuHolds'
    BY <1>1, <1>2, <1>5, LuHoldsFrame DEF luVars, luRest
  <2>4. WorkerHolds'
    BY <1>1, <1>2, <1>4, <1>5 DEF IndInv, WorkerHolds, Holds, At, sndVars
  <2> QED BY <1>3, <2>1, <2>2, <2>3, <2>4 DEF IndInv
<1>6. CASE /\ task' = [task EXCEPT ![t] = NewTask("queued", c, l, w)]
           /\ cmd_queue' = [cmd_queue EXCEPT ![l] = IF first THEN <<t>> \o @ ELSE Append(@, t)]
  <2>1. /\ task' \in [Tasks -> TaskRec]
        /\ \A u \in Tasks : u # t => task'[u] = task[u]
        /\ task'[t] = NewTask("queued", c, l, w)
    BY <1>6 DEF NewTask, IndInv, TypeOK, TaskRec, Stages
  <2>2. /\ task'[t].stage = "queued" /\ task'[t].conn = c /\ task'[t].lun = l
        /\ ~task'[t].req_transfer_out /\ ~task'[t].req_execute /\ ~task'[t].error
        /\ ~task'[t].abort /\ ~task'[t].execute
    BY <2>1 DEF NewTask
  <2>3. q \in Seq(Tasks) /\ Distinct(q) /\ ~InSeq(t, q)
    BY <1>1 DEF IndInv, TypeOK, Custody, CmdCustody, Queued
  <2>4. PICK r \in Seq(Tasks) :
          /\ cmd_queue' = [cmd_queue EXCEPT ![l] = r]
          /\ Distinct(r) /\ \A u : InSeq(u, r) <=> u = t \/ InSeq(u, q)
    <3>1. CASE first
      <4> DEFINE r == <<t>> \o q
      <4>1. r \in Seq(Tasks) /\ Distinct(r) /\ \A u : InSeq(u, r) <=> u = t \/ InSeq(u, q)
        BY <2>3, PrependFacts
      <4>2. cmd_queue' = [cmd_queue EXCEPT ![l] = r]
        BY <1>6, <3>1
      <4> QED BY <4>1, <4>2
    <3>2. CASE ~first
      <4> DEFINE r == Append(q, t)
      <4>1. r \in Seq(Tasks) /\ Distinct(r) /\ \A u : InSeq(u, r) <=> u = t \/ InSeq(u, q)
        BY <2>3, AppendFacts
      <4>2. cmd_queue' = [cmd_queue EXCEPT ![l] = r]
        BY <1>6, <3>2
      <4> QED BY <4>1, <4>2
    <3> QED BY <3>1, <3>2
  <2>5. TypeOK'
    BY <1>1, <1>2, <2>1, <2>4 DEF IndInv, TypeOK, luVars, luRest, ioVars, sndVars
  <2>6. CmdCustody'
    <3> SUFFICES ASSUME NEW m \in Luns
                 PROVE  /\ Distinct(cmd_queue'[m])
                        /\ \A u \in Tasks : InSeq(u, cmd_queue'[m]) <=> Queued(u, m)'
      BY DEF CmdCustody
    <3>0. Distinct(cmd_queue[m]) /\ \A u \in Tasks : InSeq(u, cmd_queue[m]) <=> Queued(u, m)
      BY DEF IndInv, Custody, CmdCustody
    <3>1. CASE m = l
      <4>1. cmd_queue'[m] = r
        BY <2>4, <3>1 DEF IndInv, TypeOK
      <4> QED BY <1>1, <2>1, <2>2, <2>4, <3>0, <3>1, <4>1 DEF Queued
    <3>2. CASE m # l
      <4>1. cmd_queue'[m] = cmd_queue[m]
        BY <2>4, <3>2 DEF IndInv, TypeOK
      <4> QED BY <1>1, <2>1, <2>2, <3>0, <3>2, <4>1 DEF Queued
    <3> QED BY <3>1, <3>2
  <2>7. ltask # t
    BY <1>1, LuTask, NoneAssumption
  <2>8. LuCustody'
    BY <1>1, <2>1, <2>2, <2>7, LuTask DEF IndInv, Custody, LuCustody, luVars, luRest
  <2>9. \A x \in Conns, u \in Tasks : Apart(u, x)
    BY <1>1, <2>1, <2>2 DEF Apart, At, ConnStages
  <2>10. Flags'
    BY <2>1, <2>2, NoneAssumption DEF IndInv, Flags
  <2>11. LuHolds'
    <3>1. ltask # None => task'[ltask] = task[ltask]
      BY <2>1, <2>7, LuTask
    <3> QED BY <1>1, <1>2, <3>1, LuHoldsFrame DEF luVars, luRest
  <2>12. /\ \A x \in Conns : ConnCustody(x)'
         /\ \A x \in Conns : x # c => Holds(x)'
    BY <1>1, <1>2, <2>9, ConnFrame DEF ioVars, sndVars
  <2> QED BY <1>3, <1>4, <2>5, <2>6, <2>8, <2>10, <2>11, <2>12
      DEF IndInv, Custody, WorkerHolds
<1> QED BY <1>5, <1>6 DEF WkScsi

(* The broadcast after the insertion moves a luworker that sleeps and no   *)
(* task.                                                                   *)
LEMMA WkNotifyKeeps ==
  ASSUME IndInv, NEW c \in Conns, WkNotify(c)
  PROVE  IndInv'
<1>1. TypeOK'
  BY DEF WkNotify, To, Loop, IndInv, TypeOK, WorkerPcs, LuPcs, luRest, ioVars, sndVars
<1>2. Custody' /\ Flags'
  BY CustodyFrame DEF WkNotify, luRest, ioVars, sndVars
<1>3. WaitIsCurrent'
  BY DEF IndInv, WaitIsCurrent, WkNotify, luRest, ioVars, sndVars
<1>4. LuHolds'
  BY LuHoldsFrame DEF IndInv, TypeOK, To, Loop, WkNotify, luRest, ioVars, sndVars
<1>5. WorkerHolds'
  <2>1. ASSUME NEW x \in Conns, x # c PROVE Holds(x)'
    BY <2>1, ConnFrame DEF IndInv, TypeOK, WkNotify, To, Loop, Apart, ioVars, sndVars
  <2>2. Holds(c)'
    BY DEF IndInv, TypeOK, WorkerHolds, Holds, WkNotify, To, Loop, sndVars
  <2> QED BY <2>1, <2>2 DEF WorkerHolds
<1> QED BY <1>1, <1>2, <1>3, <1>4, <1>5 DEF IndInv

(* A task management function is about to clear tasks: no task has moved   *)
(* yet.                                                                    *)
LEMMA WkClearKeeps ==
  ASSUME IndInv, NEW c \in Conns, NEW kind \in {"ITL", "ITLQ"}, NEW l \in Luns,
         NEW ref \in Tasks \cup {None}, WkClear(c, kind, l, ref)
  PROVE  IndInv'
<1>1. TypeOK'
  BY OneEventType
  DEF WkClear, ClearFor, To, IndInv, TypeOK, WorkerPcs, ClrKinds, allLun, lunVars,
      luVars, luRest, ioVars, sndVars
<1>2. Custody' /\ Flags'
  BY CustodyFrame DEF WkClear, allLun, lunVars, luVars, luRest, ioVars, sndVars
<1>3. WaitIsCurrent'
  BY DEF IndInv, WaitIsCurrent, WkClear, allLun, lunVars, luVars, luRest, ioVars,
      sndVars
<1>4. LuHolds'
  BY LuHoldsFrame
  DEF IndInv, TypeOK, To, ClearFor, WkClear, allLun, lunVars, luVars, luRest, ioVars,
      sndVars
<1>5. WorkerHolds'
  BY DEF IndInv, TypeOK, WorkerHolds, Holds, At, WkClear, ClearFor, To, allLun, lunVars,
      luVars, luRest, ioVars, sndVars
<1> QED BY <1>1, <1>2, <1>3, <1>4, <1>5 DEF IndInv

(* A reset tells other connections to exit and is about to clear: no task  *)
(* has moved yet.                                                          *)
LEMMA WkResetKeeps ==
  ASSUME IndInv, NEW c \in Conns, NEW l \in Luns, NEW cold \in BOOLEAN, WkReset(c, l, cold)
  PROVE  IndInv'
<1>1. TypeOK'
  BY OneEventType
  DEF WkReset, ClearFor, To, IndInv, TypeOK, WorkerPcs, ClrKinds, allLun, lunVars,
      luVars, luRest, ioVars, sndVars
<1>2. Custody' /\ Flags'
  BY CustodyFrame DEF WkReset, allLun, lunVars, luVars, luRest, ioVars, sndVars
<1>3. WaitIsCurrent'
  BY DEF IndInv, WaitIsCurrent, WkReset, allLun, lunVars, luVars, luRest, ioVars,
      sndVars
<1>4. LuHolds'
  BY LuHoldsFrame
  DEF IndInv, TypeOK, To, ClearFor, WkReset, allLun, lunVars, luVars, luRest, ioVars,
      sndVars
<1>5. WorkerHolds'
  BY DEF IndInv, TypeOK, WorkerHolds, Holds, At, WkReset, ClearFor, To, allLun, lunVars,
      luVars, luRest, ioVars, sndVars
<1> QED BY <1>1, <1>2, <1>3, <1>4, <1>5 DEF IndInv

(* The worker leaves its loop to clean up, without a task.                 *)
LEMMA WkCloseKeeps ==
  ASSUME IndInv, NEW c \in Conns, WkClose(c)
  PROVE  IndInv'
<1>1. TypeOK'
  BY OneEventType
  DEF WkClose, To, Cleanup, IndInv, TypeOK, WorkerPcs, ClrKinds, allLun, lunVars,
      luVars, luRest, ioVars, sndVars
<1>2. Custody' /\ Flags'
  BY CustodyFrame DEF WkClose, allLun, lunVars, luVars, luRest, ioVars, sndVars
<1>3. WaitIsCurrent'
  BY DEF IndInv, WaitIsCurrent, WkClose, allLun, lunVars, luVars, luRest, ioVars,
      sndVars
<1>4. LuHolds'
  BY LuHoldsFrame
  DEF IndInv, TypeOK, To, Cleanup, WkClose, allLun, lunVars, luVars, luRest, ioVars,
      sndVars
<1>5. WorkerHolds'
  BY DEF IndInv, TypeOK, WorkerHolds, Holds, At, WkClose, To, Cleanup, allLun, lunVars,
      luVars, luRest, ioVars, sndVars
<1> QED BY <1>1, <1>2, <1>3, <1>4, <1>5 DEF IndInv

(* A byte Q moves the head of task_queue to exec_lu_task, for its transfer *)
(* or for its response.                                                    *)
LEMMA WkPipeKeeps == ASSUME IndInv, NEW c \in Conns, WkPipe(c) PROVE IndInv'
<1> DEFINE q == task_queue[c]
           t == Head(q)
           k == task[t]
<1>1. /\ wpc[c] = "poll" /\ task_pipe[c] # <<>>
      /\ task_pipe' = [task_pipe EXCEPT ![c] = Tail(@)]
      /\ UNCHANGED <<allLun, luVars, state, clr, result_queue, sndVars, events>>
  BY DEF WkPipe
<1>2. task_pipe' \in [Conns -> Seq({"Q", "E"})] /\ exec_lu_task[c] = None
  <2>1. Tail(task_pipe[c]) \in Seq({"Q", "E"})
    BY <1>1, TailFacts DEF IndInv, TypeOK
  <2> QED BY <1>1, <2>1 DEF IndInv, TypeOK, WorkerHolds, Holds
<1>3. WaitIsCurrent'
  BY <1>1 DEF IndInv, WaitIsCurrent, allLun, lunVars, luVars, luRest
<1>4. CASE /\ UNCHANGED <<task, exec_lu_task, running_tasks, task_queue>>
           /\ Cleanup(c) \/ Loop(c)
  <2>1. /\ wpc' \in [Conns -> WorkerPcs]
        /\ \A x \in Conns : x # c => wpc'[x] = wpc[x]
        /\ wpc'[c] \in {"poll", "cl_begin"}
    BY <1>4 DEF Cleanup, Loop, To, IndInv, TypeOK, WorkerPcs
  <2>2. TypeOK'
    BY <1>1, <1>2, <1>4, <2>1
    DEF IndInv, TypeOK, allLun, lunVars, luVars, luRest, sndVars
  <2>3. Custody' /\ Flags'
    BY <1>1, <1>4, CustodyFrame DEF allLun, lunVars, luVars, luRest, sndVars
  <2>4. LuHolds'
    BY <1>1, <1>4, <2>1, LuHoldsFrame DEF luVars, luRest
  <2>5. WorkerHolds'
    BY <1>1, <1>2, <1>4, <2>1 DEF IndInv, WorkerHolds, Holds, At, sndVars
  <2> QED BY <1>3, <2>2, <2>3, <2>4, <2>5 DEF IndInv
<1>5. CASE /\ q # <<>>
           /\ exec_lu_task' = [exec_lu_task EXCEPT ![c] = t]
           /\ IF k.req_transfer_out
                THEN task' = [task EXCEPT ![t].stage = "xfer"] /\ To(c, "xfer")
                ELSE UNCHANGED task /\ To(c, "respond")
           /\ running_tasks' =
                IF ~k.req_transfer_out /\ k.req_execute /\ running_tasks[c] > 0
                  THEN [running_tasks EXCEPT ![c] = @ - 1] ELSE running_tasks
           /\ task_queue' = [task_queue EXCEPT ![c] = Tail(@)]
  <2>1. /\ t \in Tasks /\ t # None /\ Tail(q) \in Seq(Tasks)
        /\ \A u : InSeq(u, q) <=> u = t \/ InSeq(u, Tail(q))
        /\ Distinct(Tail(q)) /\ ~InSeq(t, Tail(q))
    <3>1. q \in Seq(Tasks) /\ Distinct(q)
      BY DEF IndInv, TypeOK, Custody, ConnCustody
    <3> QED BY <1>5, <3>1, TailFacts, NoneAssumption
  <2>2. /\ k \in TaskRec /\ k.conn = c /\ k.stage \in {"posted", "reply"}
        /\ k.req_transfer_out => k.stage = "posted"
        /\ ~k.req_transfer_out => k.stage = "reply"
    <3>1. At(t, c, {"posted", "reply"})
      BY <2>1 DEF IndInv, Custody, ConnCustody
    <3> QED BY <2>1, <3>1, TaskTypes DEF IndInv, At, Flags
  <2> DEFINE s == IF k.req_transfer_out THEN "xfer" ELSE "reply"
  <2>3. task' = [task EXCEPT ![t] = [k EXCEPT !.stage = s]]
    <3>1. CASE k.req_transfer_out
      BY <1>5, <2>1, <3>1 DEF IndInv, TypeOK
    <3>2. CASE ~k.req_transfer_out
      <4>1. [k EXCEPT !.stage = s] = k
        BY <2>2, <3>2 DEF TaskRec
      <4> QED BY <1>5, <2>1, <3>2, <4>1 DEF IndInv, TypeOK
    <3> QED BY <3>1, <3>2
  <2>4. /\ Only(t) /\ Becomes(t, s)
        /\ Marks(t, k.req_transfer_out, k.req_execute, k.error, k.abort, k.execute)
    BY <2>1, <2>2, <2>3 DEF Only, Becomes, Marks, IndInv, TypeOK, TaskRec, Stages
  <2>5. /\ wpc' = [wpc EXCEPT ![c] = IF k.req_transfer_out THEN "xfer" ELSE "respond"]
    BY <1>5 DEF To
  <2>6. running_tasks' \in [Conns -> Nat]
    BY <1>5 DEF IndInv, TypeOK
  <2>7. /\ \A x \in Conns : x # c => /\ wpc'[x] = wpc[x] /\ exec_lu_task'[x] = exec_lu_task[x]
                                     /\ task_queue'[x] = task_queue[x]
        /\ exec_lu_task'[c] = t /\ task_queue'[c] = Tail(q)
        /\ wpc'[c] = IF k.req_transfer_out THEN "xfer" ELSE "respond"
    BY <1>5, <2>5 DEF IndInv, TypeOK
  <2>8. TypeOK'
    BY <1>1, <1>2, <1>5, <2>1, <2>4, <2>5, <2>6
    DEF Only, IndInv, TypeOK, WorkerPcs, allLun, lunVars, luVars, luRest, sndVars
  <2>9. CmdCustody'
    BY <1>1, <2>2, <2>4, CmdFrame DEF Only, Becomes, allLun, lunVars
  <2>10. LuCustody'
    <3>1. task'[t].stage \in {"xfer", "reply"} /\ (ltask = t => task'[t].stage = "xfer")
      BY <2>1, <2>2, <2>4, LuTask DEF Becomes
    <3> QED BY <1>1, <2>1, <2>4, <3>1, LuTask
        DEF Only, IndInv, Custody, LuCustody, luVars, luRest
  <2>11. Flags'
    <3>1. CASE k.req_transfer_out
      <4>1. /\ task'[t].stage = "xfer" /\ task'[t].conn = c /\ task'[t].write
            /\ task'[t].req_transfer_out /\ ~task'[t].req_execute /\ ~task'[t].execute
        BY <2>1, <2>2, <2>4, <3>1 DEF Becomes, Marks, IndInv, Flags
      <4> QED BY <2>1, <2>4, <4>1, NoneAssumption DEF Only, IndInv, Flags
    <3>2. CASE ~k.req_transfer_out
      BY <1>5, <3>2 DEF IndInv, Flags
    <3> QED BY <3>1, <3>2
  <2>12. LuHolds'
    <3>1. CASE ltask = t
      <4>1. /\ k.stage = "posted" /\ s = "xfer" /\ lconn = c
            /\ ltask' = ltask /\ lconn' = lconn /\ lpc' = lpc
            /\ lpc \in {"post_pipe", "trans", "twait", "twoken"}
        BY <1>1, <2>1, <2>2, <3>1, LuTask DEF IndInv, LuHolds, luVars, luRest
      <4>2. k.error => k.abort
        BY <4>1, <3>1 DEF IndInv, LuHolds
      <4> QED BY <2>1, <2>2, <2>4, <3>1, <4>1, <4>2 DEF Becomes, Marks, IndInv, LuHolds
    <3>2. CASE ltask # t
      <4>1. \A x \in Conns : wpc'[x] = "xfer" => wpc[x] = "xfer" \/ x = c
        BY <2>7
      <4>2. UNCHANGED <<lpc, ltask, lconn>> /\ (ltask # None => task'[ltask] = task[ltask])
        BY <1>1, <2>4, <3>2, LuTask DEF Only, luVars, luRest
      <4>3. ltask # None => ~(task[ltask].stage = "xfer" /\ lconn = c)
        BY <1>2, LuTask, NoneAssumption DEF IndInv, Custody, ConnCustody, At
      <4> QED BY <4>1, <4>2, <4>3, LuTask DEF IndInv, LuHolds
    <3> QED BY <3>1, <3>2
  <2>13. ASSUME NEW x \in Conns, x # c PROVE ConnCustody(x)' /\ Holds(x)'
    <3>1. \A u \in Tasks : Apart(u, x)
      BY <2>2, <2>4, <2>13 DEF Only, Becomes, Apart, At
    <3> QED BY <1>1, <2>7, <2>13, <3>1, ConnFrame DEF sndVars
  <2>14. ConnCustody(c)'
    <3>1. ConnCustody(c)
      BY DEF IndInv, Custody
    <3>2. \A u \in Tasks : u # t => task'[u] = task[u]
      BY <2>4 DEF Only
    <3>3. task'[t].stage \in {"xfer", "reply"} /\ task'[t].conn = c
      BY <2>2, <2>4 DEF Becomes
    <3>4. Distinct(task_queue'[c]) /\ Distinct(result_queue'[c])
      BY <1>1, <2>1, <2>7, <3>1 DEF ConnCustody
    <3>5. ASSUME NEW u \in Tasks, u # t
          PROVE  /\ InSeq(u, task_queue'[c]) <=> At(u, c, {"posted", "reply"})' /\ exec_lu_task'[c] # u
                 /\ At(u, c, {"xfer"})' => exec_lu_task'[c] = u
                 /\ exec_lu_task'[c] = u => At(u, c, {"xfer", "reply"})'
                 /\ InSeq(u, result_queue'[c]) <=> At(u, c, {"result"})'
                 /\ stask'[c] = u <=> At(u, c, {"sending"})'
      BY <1>1, <1>2, <2>1, <2>7, <3>1, <3>2, <3>5, NoneAssumption
      DEF ConnCustody, At, sndVars
    <3>6. /\ ~InSeq(t, task_queue'[c]) /\ exec_lu_task'[c] = t
          /\ ~InSeq(t, result_queue'[c]) /\ stask'[c] # t
      BY <1>1, <2>1, <2>2, <2>7, <3>1 DEF ConnCustody, At, sndVars
    <3> QED BY <3>4, <3>5, <3>6, <3>3 DEF ConnCustody, At
  <2>15. Holds(c)'
    <3>1. spc[c] = "send" <=> stask[c] # None
      BY DEF IndInv, WorkerHolds, Holds
    <3>2. task'[t].stage = s /\ task'[t].conn = c
      BY <2>2, <2>4 DEF Becomes
    <3> QED BY <1>1, <2>1, <2>7, <3>1, <3>2 DEF Holds, At, sndVars
  <2> QED BY <1>3, <2>8, <2>9, <2>10, <2>11, <2>12, <2>13, <2>14, <2>15
      DEF IndInv, Custody, WorkerHolds
<1> QED BY <1>4, <1>5 DEF WkPipe

(* A response that went out frees the task, which nobody else holds.       *)
LEMMA WkRespondOkKeeps == ASSUME IndInv, NEW c \in Conns, WkRespondOk(c) PROVE IndInv'
<1> DEFINE t == exec_lu_task[c]
           k == task[t]
<1>1. /\ wpc[c] = "respond"
      /\ exec_lu_task' = [exec_lu_task EXCEPT ![c] = None]
      /\ wpc' \in [Conns -> WorkerPcs] /\ wpc'[c] \in {"poll", "cl_begin"}
      /\ \A x \in Conns : x # c => wpc'[x] = wpc[x] /\ exec_lu_task'[x] = exec_lu_task[x]
      /\ exec_lu_task'[c] = None
      /\ UNCHANGED <<allLun, luVars, state, clr, running_tasks, ioVars, sndVars, events>>
  BY DEF WkRespondOk, Loop, To, IndInv, TypeOK, WorkerPcs
<1>2. t \in Tasks /\ k \in TaskRec /\ k.stage = "reply" /\ k.conn = c
  BY <1>1, Holder, TaskTypes DEF IndInv, WorkerHolds, Holds, At
<1>3. /\ Only(t) /\ Becomes(t, "answered")
      /\ Marks(t, k.req_transfer_out, k.req_execute, k.error, k.abort, k.execute)
  <2>1. task' = [task EXCEPT ![t] = [k EXCEPT !.stage = "answered"]]
    BY <1>2 DEF WkRespondOk, IndInv, TypeOK
  <2> QED BY <1>2, <2>1 DEF Only, Becomes, Marks, IndInv, TypeOK, TaskRec, Stages
<1>4. k.execute /\ ~k.req_transfer_out /\ ltask # t
  BY <1>2, LuTask, NoneAssumption DEF IndInv, Flags
<1>5. TypeOK'
  BY <1>1, <1>3
  DEF Only, IndInv, TypeOK, allLun, lunVars, luVars, luRest, ioVars, sndVars
<1>6. CmdCustody'
  BY <1>1, <1>2, <1>3, CmdFrame DEF Only, Becomes, allLun, lunVars
<1>7. LuCustody'
  BY <1>1, <1>2, <1>3, <1>4, LuTask
  DEF Only, Becomes, IndInv, Custody, LuCustody, luVars, luRest
<1>8. WaitIsCurrent'
  BY <1>1 DEF IndInv, WaitIsCurrent, allLun, lunVars, luVars, luRest
<1>9. Flags'
  <2>1. /\ task'[t].stage = "answered" /\ task'[t].conn = c /\ c # None
        /\ task'[t].execute /\ ~task'[t].req_transfer_out
    BY <1>2, <1>3, <1>4, NoneAssumption DEF Becomes, Marks
  <2> QED BY <1>2, <1>3, <2>1 DEF Only, IndInv, Flags
<1>10. LuHolds'
  <2>1. ltask # None => task'[ltask] = task[ltask]
    BY <1>3, <1>4, LuTask DEF Only
  <2> QED BY <1>1, <2>1, LuHoldsFrame DEF luVars, luRest
<1>11. ASSUME NEW x \in Conns, x # c PROVE ConnCustody(x)' /\ Holds(x)'
  <2>1. \A u \in Tasks : Apart(u, x)
    BY <1>2, <1>3, <1>11 DEF Only, Becomes, Apart, At
  <2> QED BY <1>1, <1>11, <2>1, ConnFrame DEF ioVars, sndVars
<1>12. ConnCustody(c)'
  <2>1. ConnCustody(c)
    BY DEF IndInv, Custody
  <2>2. \A u \in Tasks : u # t => task'[u] = task[u]
    BY <1>3 DEF Only
  <2>3. task'[t].stage = "answered"
    BY <1>3 DEF Becomes
  <2> QED BY <1>1, <1>2, <2>1, <2>2, <2>3, NoneAssumption
      DEF ConnCustody, At, ioVars, sndVars
<1>13. Holds(c)'
  BY <1>1 DEF IndInv, WorkerHolds, Holds, sndVars
<1> QED BY <1>5, <1>6, <1>7, <1>8, <1>9, <1>10, <1>11, <1>12, <1>13
    DEF IndInv, Custody, WorkerHolds

(* A failed transfer or response leaves exec_lu_task with the worker, which*)
(* is then on its way to clean up: the error does not reach the luworker as*)
(* that of a complete transfer.                                            *)
LEMMA WkIoFailKeeps == ASSUME IndInv, NEW c \in Conns, WkIoFail(c) PROVE IndInv'
<1> DEFINE t == exec_lu_task[c]
           k == task[t]
<1>1. /\ wpc[c] \in {"xfer", "respond"}
      /\ task' = [task EXCEPT ![t].error = TRUE]
      /\ wpc' = [wpc EXCEPT ![c] = "cl_begin"]
      /\ UNCHANGED <<allLun, luVars, state, clr, exec_lu_task, running_tasks, ioVars, sndVars>>
  BY DEF WkIoFail, Cleanup, To
<1>2. t # None /\ t \in Tasks /\ k \in TaskRec /\ k.stage \in {"xfer", "reply"} /\ k.conn = c
  BY <1>1, Holder, TaskTypes DEF IndInv, WorkerHolds, Holds, At
<1>3. /\ Only(t) /\ Becomes(t, k.stage)
      /\ Marks(t, k.req_transfer_out, k.req_execute, TRUE, k.abort, k.execute)
  <2>1. task' = [task EXCEPT ![t] = [k EXCEPT !.error = TRUE]]
    BY <1>1, <1>2 DEF IndInv, TypeOK
  <2> QED BY <1>2, <2>1 DEF Only, Becomes, Marks, IndInv, TypeOK, TaskRec
<1>4. \A u \in Tasks : /\ task'[u].stage = task[u].stage /\ task'[u].conn = task[u].conn
                       /\ task'[u].lun = task[u].lun
  BY <1>3 DEF Only, Becomes
<1>5. TypeOK'
  BY <1>1, <1>3, OneEventType
  DEF WkIoFail, Only, IndInv, TypeOK, WorkerPcs, allLun, lunVars, luVars, luRest,
      ioVars, sndVars
<1>6. Custody'
  BY <1>1, <1>4, StageFrame DEF allLun, lunVars, luVars, luRest, ioVars, sndVars
<1>7. WaitIsCurrent'
  BY <1>1 DEF IndInv, WaitIsCurrent, allLun, lunVars, luVars, luRest
<1>8. Flags'
  <2>1. Flagged(task'[t])
    BY <1>2, <1>3, NoneAssumption DEF Becomes, Marks, IndInv, Flags, Flagged
  <2> QED BY <1>2, <1>3, <2>1, FlagsOne DEF Only, IndInv
<1>9. LuHolds'
  <2>1. \A x \in Conns : wpc'[x] = "xfer" => wpc[x] = "xfer" /\ x # c
    BY <1>1 DEF IndInv, TypeOK
  <2>2. CASE ltask = t
    BY <1>1, <1>2, <1>3, <2>1, <2>2, LuTask
    DEF Only, Becomes, Marks, IndInv, LuHolds, luVars, luRest
  <2>3. CASE ltask # t
    BY <1>1, <1>3, <2>1, <2>3, LuTask, LuHoldsFrame DEF Only, luVars, luRest
  <2> QED BY <2>2, <2>3
<1>10. WorkerHolds'
  <2>1. ASSUME NEW x \in Conns, x # c PROVE Holds(x)'
    BY <1>1, <1>4, <2>1, ConnFrame DEF Apart, IndInv, TypeOK, ioVars, sndVars
  <2>2. Holds(c)'
    BY <1>1 DEF IndInv, TypeOK, WorkerHolds, Holds, sndVars
  <2> QED BY <2>1, <2>2 DEF WorkerHolds
<1> QED BY <1>5, <1>6, <1>7, <1>8, <1>9, <1>10 DEF IndInv

(* A complete transfer gives the task back to the luworker if that still   *)
(* holds it, and to nobody if it has given the task up.                    *)
LEMMA WkXferOkKeeps == ASSUME IndInv, NEW c \in Conns, WkXferOk(c) PROVE IndInv'
<1> DEFINE t == exec_lu_task[c]
           k == task[t]
           s == IF ltask = t THEN "lu" ELSE "lost"
<1>1. /\ wpc[c] = "xfer"
      /\ exec_lu_task' = [exec_lu_task EXCEPT ![c] = None]
      /\ wpc' \in [Conns -> WorkerPcs] /\ wpc'[c] \in {"poll", "cl_begin"}
      /\ \A x \in Conns : x # c => wpc'[x] = wpc[x] /\ exec_lu_task'[x] = exec_lu_task[x]
      /\ exec_lu_task'[c] = None
      /\ UNCHANGED <<allLun, luRest, state, clr, ioVars, sndVars, events>>
  BY DEF WkXferOk, Loop, To, IndInv, TypeOK, WorkerPcs
<1>2. t \in Tasks /\ t # None /\ k \in TaskRec /\ k.stage = "xfer" /\ k.conn = c
  BY <1>1, Holder, TaskTypes, NoneAssumption DEF IndInv, WorkerHolds, Holds, At
<1>3. k.write /\ k.req_transfer_out /\ ~k.req_execute /\ ~k.execute
  BY <1>2 DEF IndInv, Flags
<1>4. /\ Only(t) /\ Becomes(t, s)
      /\ Marks(t, FALSE, TRUE, k.error, k.abort, FALSE)
  <2>1. task' = [task EXCEPT ![t] = [k EXCEPT !.req_transfer_out = FALSE,
                                              !.req_execute = TRUE, !.stage = s]]
    BY <1>2 DEF WkXferOk, IndInv, TypeOK
  <2> QED BY <1>2, <1>3, <2>1 DEF Only, Becomes, Marks, IndInv, TypeOK, TaskRec, Stages
<1>5. /\ lpc' \in LuPcs
      /\ lpc' = lpc \/ (lpc = "twait" /\ lpc' = "twoken" /\ ltask = t)
      /\ ltask = t => lpc' # "twait"
  <2>1. lpc \in LuPcs /\ BroadcastTrans(t)
    BY DEF IndInv, TypeOK, WkXferOk
  <2> QED BY <2>1, BroadcastType DEF BroadcastTrans
<1>6. running_tasks' \in [Conns -> Nat]
  BY DEF WkXferOk, CountRunning, IndInv, TypeOK
<1>7. ltask = t => /\ lconn = c /\ lpc \in {"post_pipe", "trans", "twait", "twoken"}
                   /\ k.error => k.abort
  BY <1>1, <1>2, LuTask DEF IndInv, LuHolds
<1> HIDE DEF t
<1>8. s \in {"lu", "lost"} /\ (s = "lu" <=> ltask = t)
  OBVIOUS
<1> HIDE DEF s
<1>9. TypeOK'
  BY <1>1, <1>4, <1>5, <1>6
  DEF Only, IndInv, TypeOK, allLun, lunVars, luRest, ioVars, sndVars
<1>10. CmdCustody'
  BY <1>1, <1>2, <1>4, <1>8, CmdFrame DEF Only, Becomes, allLun, lunVars
<1>11. LuCustody'
  BY <1>1, <1>2, <1>4, <1>8, LuTask
  DEF Only, Becomes, IndInv, Custody, LuCustody, luRest
<1>12. WaitIsCurrent'
  BY <1>1, <1>5 DEF IndInv, WaitIsCurrent, allLun, lunVars, luRest
<1>13. Flags'
  <2>1. task'[t].stage \in {"lu", "lost"} /\ task'[t].conn = c /\ c # None
    BY <1>2, <1>4, <1>8, NoneAssumption DEF Becomes
  <2> QED BY <1>2, <1>4, <2>1 DEF Only, IndInv, Flags
<1>14. LuHolds'
  <2>1. CASE ltask = t
    <3>1. /\ task'[ltask].stage = "lu" /\ task'[ltask].write /\ ~task'[ltask].execute
          /\ ~task'[ltask].req_transfer_out /\ task'[ltask].req_execute
          /\ task'[ltask].error => task'[ltask].abort
          /\ task'[ltask].conn = lconn
      BY <1>2, <1>3, <1>4, <1>7, <1>8, <2>1 DEF Becomes, Marks
    <3>2. lpc' \in {"post_pipe", "trans", "twoken"}
      BY <1>5, <1>7, <2>1
    <3>3. ltask' = ltask /\ lconn' = lconn
      BY <1>1 DEF luRest
    <3> QED BY <1>2, <2>1, <3>1, <3>2, <3>3 DEF LuHolds
  <2>2. CASE ltask # t
    <3>1. \A x \in Conns : wpc'[x] = "xfer" => wpc[x] = "xfer"
      BY <1>1
    <3>2. ltask # None => task'[ltask] = task[ltask]
      BY <1>4, <2>2, LuTask DEF Only
    <3> QED BY <1>1, <1>5, <2>2, <3>1, <3>2, LuHoldsFrame
  <2> QED BY <2>1, <2>2
<1>15. ASSUME NEW x \in Conns, x # c PROVE ConnCustody(x)' /\ Holds(x)'
  <2>1. \A u \in Tasks : Apart(u, x)
    BY <1>2, <1>4, <1>15 DEF Only, Becomes, Apart, At
  <2> QED BY <1>1, <1>15, <2>1, ConnFrame DEF ioVars, sndVars
<1>16. ConnCustody(c)'
  <2>1. ConnCustody(c) /\ exec_lu_task[c] = t
    BY DEF IndInv, Custody, t
  <2>2. \A u \in Tasks : u # t => task'[u] = task[u]
    BY <1>4 DEF Only
  <2>3. task'[t].stage \in {"lu", "lost"}
    BY <1>4, <1>8 DEF Becomes
  <2> QED BY <1>1, <1>2, <2>1, <2>2, <2>3, NoneAssumption
      DEF ConnCustody, At, ioVars, sndVars
<1>17. Holds(c)'
  BY <1>1 DEF IndInv, WorkerHolds, Holds, sndVars
<1> QED BY <1>9, <1>10, <1>11, <1>12, <1>13, <1>14, <1>15, <1>16, <1>17
    DEF IndInv, Custody, WorkerHolds

-----------------------------------------------------------------------------
(* Clearing tasks.                                                         *)

(* Taking lu->mutex for a clear changes no task.                           *)
LEMMA WkClrLockKeeps ==
  ASSUME IndInv, NEW c \in Conns, WkClrLock(c)
  PROVE  IndInv'
<1>1. TypeOK'
  BY DEF WkClrLock, To, IndInv, TypeOK, WorkerPcs, ClrKinds, lunVars, luVars, luRest,
      ioVars, sndVars
<1>2. Custody' /\ Flags'
  BY CustodyFrame DEF WkClrLock, lunVars, luVars, luRest, ioVars, sndVars
<1>3. WaitIsCurrent'
  BY DEF IndInv, WaitIsCurrent, WkClrLock, lunVars, luVars, luRest, ioVars, sndVars
<1>4. LuHolds'
  BY LuHoldsFrame
  DEF IndInv, TypeOK, To, WkClrLock, lunVars, luVars, luRest, ioVars, sndVars
<1>5. WorkerHolds'
  BY DEF IndInv, TypeOK, WorkerHolds, Holds, At, WkClrLock, To, lunVars, luVars, luRest,
      ioVars, sndVars
<1> QED BY <1>1, <1>2, <1>3, <1>4, <1>5 DEF IndInv

(* A clear frees exactly the matching tasks of cmd_queue and keeps the     *)
(* others, each once.                                                      *)
LEMMA WkClrQueueKeeps == ASSUME IndInv, NEW c \in Conns, WkClrQueue(c) PROVE IndInv'
<1> DEFINE l == clr[c].lun
           q == cmd_queue[l]
           Gone == {i \in 1 .. Len(q) : Matches(c, q[i])}
           Kept == (1 .. Len(q)) \ Gone
<1>1. /\ wpc[c] = "clr_queue" /\ wpc' = [wpc EXCEPT ![c] = "clr_wait"]
      /\ task' = [t \in Tasks |-> IF \E i \in Gone : q[i] = t
                                    THEN [task[t] EXCEPT !.stage = "cleared"] ELSE task[t]]
      /\ UNCHANGED <<wait_lu_task, queue_check, lu_mutex, luVars, state, clr,
                     exec_lu_task, running_tasks, ioVars, sndVars, events>>
  BY DEF WkClrQueue, To
<1>2. PICK r \in Selections(q, Kept) : cmd_queue' = [cmd_queue EXCEPT ![l] = r]
  BY DEF WkClrQueue
<1>3. l \in Luns /\ q \in Seq(Tasks) /\ Distinct(q) /\ DOMAIN q = 1 .. Len(q)
  BY DEF IndInv, TypeOK, Custody, CmdCustody
<1>4. \A t \in Tasks : InSeq(t, q) <=> Queued(t, l)
  BY <1>3 DEF IndInv, Custody, CmdCustody
<1> HIDE DEF l, q
<1>5. Kept \in SUBSET (1 .. Len(q)) /\ Gone \in SUBSET (1 .. Len(q))
  OBVIOUS
<1>6. \A i \in 1 .. Len(q) : i \in Kept <=> i \notin Gone
  OBVIOUS
<1> HIDE DEF Gone, Kept
<1>7. /\ r \in Seq(Tasks) /\ Distinct(r)
      /\ \A t : InSeq(t, r) <=> \E i \in Kept : q[i] = t
  BY <1>2, <1>3, <1>5, SelectionFacts
<1>8. /\ \A t \in Tasks : task[t] \in TaskRec
      /\ \A t \in Tasks :
           \/ /\ \E i \in Gone : q[i] = t
              /\ Queued(t, l) /\ task'[t] = [task[t] EXCEPT !.stage = "cleared"]
              /\ task'[t].stage = "cleared" /\ task'[t].conn = task[t].conn
              /\ task'[t].lun = task[t].lun
           \/ task'[t] = task[t] /\ ~\E i \in Gone : q[i] = t
  <2>1. ASSUME NEW t \in Tasks PROVE task[t] \in TaskRec
    BY DEF IndInv, TypeOK
  <2>2. ASSUME NEW t \in Tasks, NEW i \in Gone, q[i] = t PROVE Queued(t, l)
    BY <1>3, <1>4, <1>5, <2>2 DEF InSeq
  <2> QED BY <1>1, <2>1, <2>2 DEF TaskRec
<1>9. TypeOK'
  <2>1. task' \in [Tasks -> TaskRec]
    BY <1>1, <1>8 DEF TaskRec, Stages
  <2>2. cmd_queue' \in [Luns -> Seq(Tasks)]
    BY <1>2, <1>3, <1>7 DEF IndInv, TypeOK
  <2> QED BY <1>1, <2>1, <2>2
      DEF IndInv, TypeOK, WorkerPcs, luVars, luRest, ioVars, sndVars
<1>10. CmdCustody'
  <2> SUFFICES ASSUME NEW m \in Luns
               PROVE  /\ Distinct(cmd_queue'[m])
                      /\ \A u \in Tasks : InSeq(u, cmd_queue'[m]) <=> Queued(u, m)'
    BY DEF CmdCustody
  <2>1. Distinct(cmd_queue[m]) /\ \A u \in Tasks : InSeq(u, cmd_queue[m]) <=> Queued(u, m)
    BY DEF IndInv, Custody, CmdCustody
  <2>2. CASE m = l
    <3>1. cmd_queue'[m] = r
      BY <1>2, <1>3, <2>2 DEF IndInv, TypeOK
    <3>2. ASSUME NEW u \in Tasks PROVE InSeq(u, r) <=> Queued(u, l)'
      <4>1. InSeq(u, r) => InSeq(u, q) /\ ~\E i \in Gone : q[i] = u
        BY <1>3, <1>5, <1>6, <1>7 DEF InSeq, Distinct
      <4>2. InSeq(u, q) => InSeq(u, r) \/ \E i \in Gone : q[i] = u
        BY <1>3, <1>5, <1>6, <1>7 DEF InSeq
      <4>3. l' = l
        BY <1>1 DEF l
      <4> QED BY <1>4, <1>8, <4>1, <4>2, <4>3 DEF Queued
    <3>3. l' = l
      BY <1>1 DEF l
    <3> QED BY <1>7, <2>2, <3>1, <3>2, <3>3
  <2>3. CASE m # l
    <3>1. cmd_queue'[m] = cmd_queue[m]
      BY <1>2, <2>3 DEF IndInv, TypeOK
    <3> QED BY <1>8, <2>1, <2>3, <3>1 DEF Queued
  <2> QED BY <2>2, <2>3
<1>11. ltask # None => task'[ltask] = task[ltask]
  BY <1>8, LuTask DEF Queued
<1>12. LuCustody'
  BY <1>1, <1>8, <1>11, LuTask DEF IndInv, Custody, LuCustody, luVars, luRest
<1>13. \A x \in Conns, u \in Tasks : Apart(u, x)
  BY <1>8 DEF Apart, At, ConnStages, Queued
<1>14. WaitIsCurrent'
  BY <1>1 DEF IndInv, WaitIsCurrent, luVars, luRest
<1>15. Flags'
  BY <1>8 DEF IndInv, Flags, Queued
<1>16. \A x \in Conns : wpc'[x] = "xfer" => wpc[x] = "xfer"
  BY <1>1 DEF IndInv, TypeOK
<1>17. LuHolds'
  BY <1>1, <1>11, <1>16, LuHoldsFrame DEF luVars
<1>18. /\ \A x \in Conns : ConnCustody(x)'
       /\ \A x \in Conns : x # c => Holds(x)'
  BY <1>1, <1>13, ConnFrame DEF IndInv, TypeOK, ioVars, sndVars
<1>19. Holds(c)'
  BY <1>1 DEF IndInv, TypeOK, WorkerHolds, Holds, sndVars
<1> QED BY <1>9, <1>10, <1>12, <1>14, <1>15, <1>17, <1>18, <1>19
    DEF IndInv, Custody, WorkerHolds

(* The abort of a waiting transfer marks the task that the luworker holds, *)
(* and only marks it.                                                      *)
LEMMA WkClrWaitKeeps == ASSUME IndInv, NEW c \in Conns, WkClrWait(c) PROVE IndInv'
<1> DEFINE t == wait_lu_task[clr[c].lun]
           k == task[t]
<1>1. /\ wpc[c] = "clr_wait" /\ clr[c].lun \in Luns
      /\ UNCHANGED <<lunVars, luRest, exec_lu_task, running_tasks, ioVars, sndVars, events>>
  BY DEF WkClrWait, IndInv, TypeOK
<1>2. /\ wpc' \in [Conns -> WorkerPcs]
      /\ \A x \in Conns : x # c => wpc'[x] = wpc[x] /\ clr'[x] = clr[x]
      /\ \/ wpc'[c] \in {"cl_wait_all", "cl_begin"}
         \/ wpc'[c] = "clr_queue" /\ clr[c].kind = "IT" /\ clr'[c].kind = "IT"
         \/ wpc'[c] = "poll" /\ clr[c].kind # "IT"
      /\ lu_mutex' \in BOOLEAN
      /\ state' \in [Conns -> {"RUNNING", "EXITING"}]
  <2> USE DEF IndInv, TypeOK
  <2>1. CASE clr[c].kind = "IT" /\ clr[c].lun + 1 < MaxLun
    <3>1. /\ clr' = [clr EXCEPT ![c].lun = @ + 1] /\ To(c, "clr_queue")
          /\ UNCHANGED <<lu_mutex, state>>
      BY <2>1 DEF WkClrWait
    <3>2. clr'[c].kind = clr[c].kind
      BY <3>1
    <3> QED BY <2>1, <3>1, <3>2 DEF To, WorkerPcs
  <2>2. CASE ~(clr[c].kind = "IT" /\ clr[c].lun + 1 < MaxLun)
    <3>1. /\ lu_mutex' = FALSE /\ clr' = [clr EXCEPT ![c] = NoClr]
          /\ IF clr[c].kind = "IT" THEN To(c, "cl_wait_all")
             ELSE IF clr[c].cold THEN Cleanup(c) ELSE Loop(c)
          /\ state' = IF clr[c].cold THEN [state EXCEPT ![c] = "EXITING"] ELSE state
      BY <2>2 DEF WkClrWait
    <3>2. PICK pc \in {"cl_wait_all", "cl_begin", "poll"} :
            /\ wpc' = [wpc EXCEPT ![c] = pc]
            /\ pc = "poll" => clr[c].kind # "IT"
      BY <3>1 DEF To, Cleanup, Loop
    <3>3. wpc' \in [Conns -> WorkerPcs] /\ wpc'[c] = pc
          /\ \A x \in Conns : x # c => wpc'[x] = wpc[x]
      BY <3>2 DEF WorkerPcs
    <3>4. \A x \in Conns : x # c => clr'[x] = clr[x]
      BY <3>1
    <3>5. state' \in [Conns -> {"RUNNING", "EXITING"}] /\ lu_mutex' \in BOOLEAN
      BY <3>1
    <3> QED BY <3>2, <3>3, <3>4, <3>5
  <2> QED BY <2>1, <2>2
<1>3. clr' \in [Conns -> [kind: ClrKinds, lun: Luns, ref: Tasks \cup {None}, cold: BOOLEAN]]
  <2>1. CASE clr[c].kind = "IT" /\ clr[c].lun + 1 < MaxLun
    <3>1. clr[c].lun + 1 \in Luns
      BY <1>1, <2>1, LunAssumption DEF Luns
    <3>2. clr' = [clr EXCEPT ![c] = [clr[c] EXCEPT !.lun = clr[c].lun + 1]]
      BY <2>1 DEF WkClrWait, IndInv, TypeOK
    <3>3. [clr[c] EXCEPT !.lun = clr[c].lun + 1] \in
            [kind: ClrKinds, lun: Luns, ref: Tasks \cup {None}, cold: BOOLEAN]
      <4>1. clr[c] \in [kind: ClrKinds, lun: Luns, ref: Tasks \cup {None}, cold: BOOLEAN]
        BY DEF IndInv, TypeOK
      <4> QED BY <3>1, <4>1
    <3> QED BY <3>2, <3>3 DEF IndInv, TypeOK
  <2>2. CASE ~(clr[c].kind = "IT" /\ clr[c].lun + 1 < MaxLun)
    <3>1. NoClr \in [kind: ClrKinds, lun: Luns, ref: Tasks \cup {None}, cold: BOOLEAN]
      BY LunAssumption DEF NoClr, Luns, ClrKinds
    <3> QED BY <2>2, <3>1 DEF WkClrWait, IndInv, TypeOK
  <2> QED BY <2>1, <2>2
<1>4. CASE /\ t # None
           /\ task' = [task EXCEPT ![t].error = TRUE, ![t].abort = TRUE]
           /\ BroadcastTrans(t)
  <2>1. /\ t = ltask /\ lpc \in {"twait", "twoken"} /\ lpc' \in {"twait", "twoken"}
        /\ lpc' = "twait" => lpc = "twait" /\ FALSE
    BY <1>1, <1>4 DEF IndInv, WaitIsCurrent, BroadcastTrans
  <2>2. t \in Tasks /\ k \in TaskRec /\ k.stage \in {"lu", "posted", "xfer", "lost"} /\ k.conn \in Conns
    BY <1>4, <2>1, LuTask, TaskTypes DEF IndInv
  <2>3. /\ Only(t) /\ Becomes(t, k.stage)
        /\ Marks(t, k.req_transfer_out, k.req_execute, TRUE, TRUE, k.execute)
    <3>1. task' = [task EXCEPT ![t] = [k EXCEPT !.error = TRUE, !.abort = TRUE]]
      BY <1>4, <2>2 DEF IndInv, TypeOK
    <3> QED BY <2>2, <3>1 DEF Only, Becomes, Marks, IndInv, TypeOK, TaskRec
  <2>4. \A u \in Tasks : /\ task'[u].stage = task[u].stage /\ task'[u].conn = task[u].conn
                         /\ task'[u].lun = task[u].lun
    BY <2>3 DEF Only, Becomes
  <2>5. TypeOK'
    BY <1>1, <1>2, <1>3, <2>1, <2>3
    DEF Only, IndInv, TypeOK, LuPcs, lunVars, luRest, ioVars, sndVars
  <2>6. Custody'
    BY <1>1, <2>4, StageFrame DEF lunVars, luRest, ioVars, sndVars
  <2>7. WaitIsCurrent'
    BY <1>1, <2>1 DEF IndInv, WaitIsCurrent, lunVars, luRest
  <2>8. Flags'
    <3>1. Flagged(task'[t])
      BY <2>2, <2>3, NoneAssumption DEF Becomes, Marks, IndInv, Flags, Flagged
    <3> QED BY <2>2, <2>3, <3>1, FlagsOne DEF Only, IndInv
  <2>9. LuHolds'
    <3>1. ltask' = ltask /\ lconn' = lconn /\ task'[ltask].error /\ task'[ltask].abort
      BY <1>1, <2>1, <2>3 DEF Marks, luRest
    <3> QED BY <1>1, <2>1, <2>2, <2>3, <3>1
        DEF Only, Becomes, Marks, IndInv, LuHolds, luRest
  <2>10. WorkerHolds'
    <3>1. ASSUME NEW x \in Conns, x # c PROVE Holds(x)'
      BY <1>1, <1>2, <2>4, <3>1, ConnFrame DEF Apart, ioVars, sndVars
    <3>2. Holds(c)'
      BY <1>1, <1>2 DEF IndInv, WorkerHolds, Holds, sndVars
    <3> QED BY <3>1, <3>2 DEF WorkerHolds
  <2> QED BY <2>5, <2>6, <2>7, <2>8, <2>9, <2>10 DEF IndInv
<1>5. CASE UNCHANGED <<task, lpc>>
  <2>1. TypeOK'
    BY <1>1, <1>2, <1>3, <1>5 DEF IndInv, TypeOK, lunVars, luRest, ioVars, sndVars
  <2>2. Custody' /\ Flags'
    BY <1>1, <1>5, CustodyFrame DEF lunVars, luRest, ioVars, sndVars
  <2>3. WaitIsCurrent'
    BY <1>1, <1>5 DEF IndInv, WaitIsCurrent, lunVars, luRest
  <2>4. LuHolds'
    BY <1>1, <1>2, <1>5, LuHoldsFrame
  <2>5. WorkerHolds'
    BY <1>1, <1>2, <1>5 DEF IndInv, WorkerHolds, Holds, At, sndVars
  <2> QED BY <2>1, <2>2, <2>3, <2>4, <2>5 DEF IndInv
<1> QED BY <1>4, <1>5 DEF WkClrWait, AbortWaiting

-----------------------------------------------------------------------------
(* worker_cleanup and wait_all_task.                                       *)

(* The cleanup marks exec_lu_task as failed and wakes the luworker, and    *)
(* only that.                                                              *)
LEMMA WkClBeginKeeps == ASSUME IndInv, NEW c \in Conns, WkClBegin(c) PROVE IndInv'
<1> DEFINE t == exec_lu_task[c]
           k == task[t]
<1>1. /\ wpc[c] = "cl_begin" /\ wpc' = [wpc EXCEPT ![c] = "clr_lock"]
      /\ UNCHANGED <<lunVars, luRest, exec_lu_task, running_tasks, ioVars, sndVars, events>>
      /\ clr' = [clr EXCEPT ![c] = [kind |-> "IT", lun |-> 0, ref |-> None, cold |-> FALSE]]
  BY DEF WkClBegin, ClearFor, To
<1>2. /\ lu_mutex' \in BOOLEAN
      /\ state' \in [Conns -> {"RUNNING", "EXITING"}]
      /\ clr' \in [Conns -> [kind: ClrKinds, lun: Luns, ref: Tasks \cup {None}, cold: BOOLEAN]]
  <2>1. 0 \in Luns /\ "IT" \in ClrKinds
    BY LunAssumption DEF Luns, ClrKinds
  <2>2. lu_mutex' \in BOOLEAN
    BY DEF WkClBegin, IndInv, TypeOK
  <2> QED BY <2>1, <2>2 DEF WkClBegin, ClearFor, IndInv, TypeOK
<1>3. lpc' \in LuPcs /\ (lpc' = lpc \/ (lpc = "twait" /\ lpc' = "twoken" /\ ltask = t))
  <2>1. lpc \in LuPcs
    BY DEF IndInv, TypeOK
  <2> QED BY <2>1, BroadcastType DEF WkClBegin
<1>4. CASE t # None /\ task' = [task EXCEPT ![t].error = TRUE]
  <2>1. t \in Tasks /\ k \in TaskRec /\ k.stage \in {"xfer", "reply"} /\ k.conn = c
    BY <1>4, Holder, TaskTypes DEF IndInv, At
  <2>2. /\ Only(t) /\ Becomes(t, k.stage)
        /\ Marks(t, k.req_transfer_out, k.req_execute, TRUE, k.abort, k.execute)
    <3>1. task' = [task EXCEPT ![t] = [k EXCEPT !.error = TRUE]]
      BY <1>4, <2>1 DEF IndInv, TypeOK
    <3> QED BY <2>1, <3>1 DEF Only, Becomes, Marks, IndInv, TypeOK, TaskRec
  <2>3. \A u \in Tasks : /\ task'[u].stage = task[u].stage /\ task'[u].conn = task[u].conn
                         /\ task'[u].lun = task[u].lun
    BY <2>2 DEF Only, Becomes
  <2>4. TypeOK'
    BY <1>1, <1>2, <1>3, <2>2
    DEF Only, IndInv, TypeOK, WorkerPcs, lunVars, luRest, ioVars, sndVars
  <2>5. Custody'
    BY <1>1, <2>3, StageFrame DEF lunVars, luRest, ioVars, sndVars
  <2>6. WaitIsCurrent'
    BY <1>1, <1>3 DEF IndInv, WaitIsCurrent, lunVars, luRest
  <2>7. Flags'
    <3>1. Flagged(task'[t])
      BY <2>1, <2>2, NoneAssumption DEF Becomes, Marks, IndInv, Flags, Flagged
    <3> QED BY <2>1, <2>2, <3>1, FlagsOne DEF Only, IndInv
  <2>8. LuHolds'
    BY <1>1, <1>3, <2>1, <2>2, LuTask
    DEF Only, Becomes, Marks, IndInv, LuHolds, Flags, luRest
  <2>9. WorkerHolds'
    <3>1. ASSUME NEW x \in Conns, x # c PROVE Holds(x)'
      BY <1>1, <2>3, <3>1, ConnFrame DEF Apart, IndInv, TypeOK, ioVars, sndVars
    <3>2. Holds(c)'
      BY <1>1 DEF IndInv, TypeOK, WorkerHolds, Holds, sndVars
    <3> QED BY <3>1, <3>2 DEF WorkerHolds
  <2> QED BY <2>4, <2>5, <2>6, <2>7, <2>8, <2>9 DEF IndInv
<1>5. CASE UNCHANGED <<task, lpc>>
  <2>1. TypeOK'
    BY <1>1, <1>2, <1>5 DEF IndInv, TypeOK, WorkerPcs, lunVars, luRest, ioVars, sndVars
  <2>2. Custody' /\ Flags'
    BY <1>1, <1>5, CustodyFrame DEF lunVars, luRest, ioVars, sndVars
  <2>3. WaitIsCurrent'
    BY <1>1, <1>5 DEF IndInv, WaitIsCurrent, lunVars, luRest
  <2>4. LuHolds'
    BY <1>1, <1>5 DEF IndInv, LuHolds, luRest
  <2>5. WorkerHolds'
    BY <1>1, <1>5 DEF IndInv, TypeOK, WorkerHolds, Holds, At, sndVars
  <2> QED BY <2>1, <2>2, <2>3, <2>4, <2>5 DEF IndInv
<1> QED BY <1>4, <1>5 DEF WkClBegin

(* wait_all_task frees an executed task, and drops a posted one after      *)
(* marking it aborted, so that the luworker that still holds it will not   *)
(* execute it.                                                             *)
LEMMA WkWaitTaskKeeps == ASSUME IndInv, NEW c \in Conns, WkWaitTask(c) PROVE IndInv'
<1> DEFINE q == task_queue[c]
           t == Head(q)
           k == task[t]
           last == k.req_execute /\ running_tasks[c] = 1
<1>1. /\ wpc[c] = "cl_wait_all" /\ task_pipe[c] # <<>>
      /\ task_pipe' = [task_pipe EXCEPT ![c] = Tail(@)]
      /\ running_tasks[c] > 0
      /\ UNCHANGED <<allLun, luRest, state, clr, exec_lu_task, result_queue, sndVars, events>>
  BY DEF WkWaitTask
<1>2. task_pipe' \in [Conns -> Seq({"Q", "E"})]
  <2>1. Tail(task_pipe[c]) \in Seq({"Q", "E"})
    BY <1>1, TailFacts DEF IndInv, TypeOK
  <2> QED BY <1>1, <2>1 DEF IndInv, TypeOK
<1>3. CASE UNCHANGED <<task, task_queue, running_tasks, lpc>> /\ To(c, "cl_join")
  <2>1. wpc' \in [Conns -> WorkerPcs] /\ \A x \in Conns : IF x = c THEN wpc'[x] = "cl_join" ELSE wpc'[x] = wpc[x]
    BY <1>3 DEF To, IndInv, TypeOK, WorkerPcs
  <2>2. TypeOK'
    BY <1>1, <1>2, <1>3, <2>1 DEF IndInv, TypeOK, allLun, lunVars, luRest, sndVars
  <2>3. Custody' /\ Flags'
    BY <1>1, <1>3, CustodyFrame DEF allLun, lunVars, luRest, sndVars
  <2>4. LuHolds'
    BY <1>1, <1>3, <2>1, LuHoldsFrame
  <2>5. WaitIsCurrent'
    BY <1>1, <1>3 DEF IndInv, WaitIsCurrent, allLun, lunVars, luRest
  <2>6. WorkerHolds'
    BY <1>1, <1>3, <2>1 DEF IndInv, WorkerHolds, Holds, At, sndVars
  <2> QED BY <2>2, <2>3, <2>4, <2>5, <2>6 DEF IndInv
<1>4. CASE /\ q # <<>>
           /\ task_queue' = [task_queue EXCEPT ![c] = Tail(@)]
           /\ IF k.req_transfer_out
                THEN /\ task' = [task EXCEPT ![t].error = TRUE, ![t].abort = TRUE,
                                             ![t].stage = "lost"]
                     /\ BroadcastTrans(t)
                     /\ UNCHANGED <<wpc, running_tasks>>
                ELSE /\ running_tasks' = [running_tasks EXCEPT ![c] =
                                            IF k.req_execute THEN @ - 1 ELSE @]
                     /\ task' = [task EXCEPT ![t].stage = IF last THEN "lost" ELSE "cleared"]
                     /\ To(c, IF last THEN "cl_join" ELSE "cl_wait_all")
                     /\ UNCHANGED lpc
  <2>1. /\ t \in Tasks /\ t # None /\ Tail(q) \in Seq(Tasks)
        /\ \A u : InSeq(u, q) <=> u = t \/ InSeq(u, Tail(q))
        /\ Distinct(Tail(q)) /\ ~InSeq(t, Tail(q))
    BY <1>4, TailFacts, NoneAssumption DEF IndInv, TypeOK, Custody, ConnCustody
  <2>2. /\ k \in TaskRec /\ k.conn = c /\ k.stage \in {"posted", "reply"}
        /\ k.req_transfer_out => k.stage = "posted" /\ k.write /\ ~k.req_execute /\ ~k.execute
        /\ ~k.req_transfer_out => k.stage = "reply"
        /\ exec_lu_task[c] # t
    <3>1. At(t, c, {"posted", "reply"}) /\ exec_lu_task[c] # t
      BY <2>1 DEF IndInv, Custody, ConnCustody
    <3> QED BY <2>1, <3>1, TaskTypes DEF IndInv, At, Flags
  <2> DEFINE s == IF k.req_transfer_out \/ last THEN "lost" ELSE "cleared"
             err == k.req_transfer_out \/ k.error
             abt == k.req_transfer_out \/ k.abort
  <2>3. task' = [task EXCEPT ![t] = [k EXCEPT !.error = err, !.abort = abt, !.stage = s]]
    <3>1. CASE k.req_transfer_out
      BY <1>4, <2>1, <3>1 DEF IndInv, TypeOK
    <3>2. CASE ~k.req_transfer_out
      <4>1. [k EXCEPT !.error = err, !.abort = abt, !.stage = s] = [k EXCEPT !.stage = s]
        BY <2>2, <3>2 DEF TaskRec
      <4> QED BY <1>4, <2>1, <3>2, <4>1 DEF IndInv, TypeOK
    <3> QED BY <3>1, <3>2
  <2>4. /\ Only(t) /\ Becomes(t, s)
        /\ Marks(t, k.req_transfer_out, k.req_execute, err, abt, k.execute)
    BY <2>1, <2>2, <2>3 DEF Only, Becomes, Marks, IndInv, TypeOK, TaskRec, Stages
  <2>5. s \in {"lost", "cleared"} /\ (s = "cleared" => ltask # t)
    BY <2>1, <2>2, LuTask
  <2>6. /\ lpc' \in LuPcs
        /\ lpc' = lpc \/ (lpc = "twait" /\ lpc' = "twoken" /\ ltask = t)
    <3>1. lpc \in LuPcs
      BY DEF IndInv, TypeOK
    <3> QED BY <1>4, <3>1, BroadcastType
  <2>7. /\ wpc' \in [Conns -> WorkerPcs]
        /\ \A x \in Conns : x # c => wpc'[x] = wpc[x]
        /\ wpc'[c] \in {"cl_wait_all", "cl_join"}
    BY <1>1, <1>4 DEF To, IndInv, TypeOK, WorkerPcs
  <2>8. running_tasks' \in [Conns -> Nat]
    <3>1. running_tasks \in [Conns -> Nat] /\ running_tasks[c] - 1 \in Nat
      BY <1>1 DEF IndInv, TypeOK
    <3>2. \/ UNCHANGED running_tasks
          \/ running_tasks' = [running_tasks EXCEPT ![c] = running_tasks[c] - 1]
          \/ running_tasks' = [running_tasks EXCEPT ![c] = running_tasks[c]]
      BY <1>4, <3>1
    <3> QED BY <3>1, <3>2
  <2>9. /\ task_queue'[c] = Tail(q) /\ task_queue' \in [Conns -> Seq(Tasks)]
        /\ \A x \in Conns : x # c => task_queue'[x] = task_queue[x]
    BY <1>4, <2>1 DEF IndInv, TypeOK
  <2> HIDE DEF t, s
  <2>10. TypeOK'
    BY <1>1, <1>2, <2>4, <2>6, <2>7, <2>8, <2>9
    DEF Only, IndInv, TypeOK, allLun, lunVars, luRest, sndVars
  <2>11. CmdCustody'
    BY <1>1, <2>1, <2>2, <2>4, <2>5, CmdFrame DEF Only, Becomes, allLun, lunVars
  <2>12. LuCustody'
    BY <1>1, <2>1, <2>4, <2>5, LuTask
    DEF Only, Becomes, IndInv, Custody, LuCustody, luRest
  <2>13. WaitIsCurrent'
    BY <1>1, <2>6 DEF IndInv, WaitIsCurrent, allLun, lunVars, luRest
  <2>14. Flags'
    <3>1. task'[t].stage \in {"lost", "cleared"} /\ task'[t].conn = c /\ c # None
      BY <2>2, <2>4, <2>5, NoneAssumption DEF Becomes
    <3> QED BY <2>1, <2>4, <3>1 DEF Only, IndInv, Flags
  <2>15. LuHolds'
    <3>1. CASE ltask = t
      <4>1. /\ k.stage = "posted" /\ k.req_transfer_out /\ s = "lost" /\ lconn = c
            /\ lpc \in {"post_pipe", "trans", "twait", "twoken"}
        BY <2>1, <2>2, <3>1, LuTask DEF IndInv, LuHolds, s
      <4>2. ltask' = ltask /\ lconn' = lconn
        BY <1>1 DEF luRest
      <4>3. /\ task'[t].stage = "lost" /\ task'[t].write /\ ~task'[t].execute
            /\ task'[t].req_transfer_out /\ ~task'[t].req_execute /\ task'[t].conn = c
        BY <2>2, <2>4, <4>1 DEF Becomes, Marks
      <4>4. lpc' \in {"post_pipe", "trans", "twait", "twoken"}
        BY <2>6, <4>1
      <4> QED BY <2>1, <3>1, <4>1, <4>2, <4>3, <4>4 DEF LuHolds
    <3>2. CASE ltask # t
      <4>1. ltask # None => task'[ltask] = task[ltask]
        BY <2>4, <3>2, LuTask DEF Only
      <4>2. \A x \in Conns : wpc'[x] = "xfer" => wpc[x] = "xfer"
        BY <2>7
      <4> QED BY <1>1, <2>6, <3>2, <4>1, <4>2, LuHoldsFrame
    <3> QED BY <3>1, <3>2
  <2>16. ASSUME NEW x \in Conns, x # c PROVE ConnCustody(x)' /\ Holds(x)'
    <3>1. \A u \in Tasks : Apart(u, x)
      BY <2>2, <2>4, <2>16 DEF Only, Becomes, Apart, At
    <3> QED BY <1>1, <2>7, <2>9, <2>16, <3>1, ConnFrame DEF sndVars
  <2>17. ConnCustody(c)'
    <3>1. ConnCustody(c)
      BY DEF IndInv, Custody
    <3>2. \A u \in Tasks : u # t => task'[u] = task[u]
      BY <2>4 DEF Only
    <3>3. task'[t].stage \in {"lost", "cleared"}
      BY <2>4, <2>5 DEF Becomes
    <3> QED BY <1>1, <2>1, <2>2, <2>9, <3>1, <3>2, <3>3, NoneAssumption
        DEF ConnCustody, At, sndVars
  <2>18. Holds(c)'
    BY <1>1, <2>7 DEF IndInv, WorkerHolds, Holds, sndVars
  <2> QED BY <2>10, <2>11, <2>12, <2>13, <2>14, <2>15, <2>16, <2>17, <2>18
      DEF IndInv, Custody, WorkerHolds
<1> QED BY <1>3, <1>4 DEF WkWaitTask

(* wait_all_task gives up or has nothing to wait for: no task moves.       *)
LEMMA WkWaitEndKeeps ==
  ASSUME IndInv, NEW c \in Conns, WkWaitEnd(c)
  PROVE  IndInv'
<1>1. TypeOK'
  BY DEF WkWaitEnd, To, IndInv, TypeOK, WorkerPcs, ClrKinds, allLun, lunVars, luVars,
      luRest, ioVars, sndVars
<1>2. Custody' /\ Flags'
  BY CustodyFrame DEF WkWaitEnd, allLun, lunVars, luVars, luRest, ioVars, sndVars
<1>3. WaitIsCurrent'
  BY DEF IndInv, WaitIsCurrent, WkWaitEnd, allLun, lunVars, luVars, luRest, ioVars,
      sndVars
<1>4. LuHolds'
  BY LuHoldsFrame
  DEF IndInv, TypeOK, To, WkWaitEnd, allLun, lunVars, luVars, luRest, ioVars, sndVars
<1>5. WorkerHolds'
  BY DEF IndInv, TypeOK, WorkerHolds, Holds, At, WkWaitEnd, To, allLun, lunVars, luVars,
      luRest, ioVars, sndVars
<1> QED BY <1>1, <1>2, <1>3, <1>4, <1>5 DEF IndInv

(* istgt_free_conn loses the tasks of its queues and exec_lu_task, and no  *)
(* task that the luworker may still execute.                               *)
LEMMA WkFreeKeeps == ASSUME IndInv, NEW c \in Conns, WkFree(c) PROVE IndInv'
<1> DEFINE Dropped(t) == At(t, c, {"posted", "xfer", "reply", "result"})
<1>1. /\ wpc[c] = "cl_join" /\ spc[c] = "done" /\ wpc' = [wpc EXCEPT ![c] = "gone"]
      /\ task_queue' = [task_queue EXCEPT ![c] = <<>>]
      /\ result_queue' = [result_queue EXCEPT ![c] = <<>>]
      /\ task_pipe' = [task_pipe EXCEPT ![c] = <<>>]
      /\ exec_lu_task' = [exec_lu_task EXCEPT ![c] = None]
      /\ running_tasks' = [running_tasks EXCEPT ![c] = 0]
      /\ UNCHANGED <<allLun, luVars, state, clr, sndVars, events>>
  BY DEF WkFree, To
<1>2. /\ task' \in [Tasks -> TaskRec]
      /\ \A t \in Tasks :
           \/ /\ Dropped(t) /\ task'[t] = [task[t] EXCEPT !.stage = "lost"]
              /\ task'[t].stage = "lost" /\ task'[t].conn = task[t].conn
              /\ task'[t].lun = task[t].lun /\ task'[t].write = task[t].write
              /\ task'[t].req_transfer_out = task[t].req_transfer_out
              /\ task'[t].req_execute = task[t].req_execute
              /\ task'[t].execute = task[t].execute
           \/ ~Dropped(t) /\ task'[t] = task[t]
  <2>1. /\ task' = [t \in Tasks |->
              IF InSeq(t, task_queue[c]) \/ InSeq(t, result_queue[c]) \/ exec_lu_task[c] = t
                THEN [task[t] EXCEPT !.stage = "lost"] ELSE task[t]]
    BY DEF WkFree, InSeq
  <2>2. ASSUME NEW t \in Tasks
        PROVE  InSeq(t, task_queue[c]) \/ InSeq(t, result_queue[c]) \/ exec_lu_task[c] = t <=> Dropped(t)
    BY DEF IndInv, Custody, ConnCustody, At
  <2>3. \A t \in Tasks : task[t] \in TaskRec
    BY DEF IndInv, TypeOK
  <2>4. task' = [t \in Tasks |-> IF Dropped(t) THEN [task[t] EXCEPT !.stage = "lost"] ELSE task[t]]
    BY <2>1, <2>2
  <2> HIDE DEF Dropped
  <2>5. \A t \in Tasks : task'[t] = IF Dropped(t) THEN [task[t] EXCEPT !.stage = "lost"] ELSE task[t]
    BY <2>4
  <2>6. \A t \in Tasks : [task[t] EXCEPT !.stage = "lost"] \in TaskRec
    BY <2>3 DEF TaskRec, Stages
  <2> QED BY <2>3, <2>4, <2>5, <2>6 DEF TaskRec
<1>3. /\ \A x \in Conns : x # c => /\ wpc'[x] = wpc[x] /\ exec_lu_task'[x] = exec_lu_task[x]
                                   /\ task_queue'[x] = task_queue[x]
                                   /\ result_queue'[x] = result_queue[x]
      /\ wpc'[c] = "gone" /\ exec_lu_task'[c] = None
      /\ task_queue'[c] = <<>> /\ result_queue'[c] = <<>>
  BY <1>1 DEF IndInv, TypeOK
<1>4. stask[c] = None
  BY <1>1 DEF IndInv, WorkerHolds, Holds
<1>5. TypeOK'
  <2>1. /\ task_queue' \in [Conns -> Seq(Tasks)] /\ result_queue' \in [Conns -> Seq(Tasks)]
        /\ task_pipe' \in [Conns -> Seq({"Q", "E"})]
    BY <1>1 DEF IndInv, TypeOK
  <2>2. /\ wpc' \in [Conns -> WorkerPcs] /\ exec_lu_task' \in [Conns -> Tasks \cup {None}]
        /\ running_tasks' \in [Conns -> Nat]
    BY <1>1 DEF IndInv, TypeOK, WorkerPcs
  <2> QED BY <1>1, <1>2, <2>1, <2>2
      DEF IndInv, TypeOK, allLun, lunVars, luVars, luRest, sndVars
<1>6. CmdCustody'
  BY <1>1, <1>2, CmdFrame DEF At, allLun, lunVars
<1>7. LuCustody'
  BY <1>1, <1>2, LuTask DEF At, IndInv, Custody, LuCustody, luVars, luRest
<1>8. WaitIsCurrent'
  BY <1>1 DEF IndInv, WaitIsCurrent, allLun, lunVars, luVars, luRest
<1>9. Flags'
  BY <1>2 DEF At, IndInv, Flags
<1>10. LuHolds'
  <2>1. CASE ltask # None /\ Dropped(ltask)
    <3>1. /\ ltask \in Tasks /\ task[ltask].stage \in {"posted", "xfer"}
          /\ lpc \in {"post_pipe", "trans", "twait", "twoken"}
          /\ ltask' = ltask /\ lconn' = lconn /\ lpc' = lpc
      BY <1>1, <2>1, LuTask DEF At, IndInv, LuHolds, luVars, luRest
    <3> QED BY <1>2, <2>1, <3>1, LuTask DEF At, IndInv, LuHolds
  <2>2. CASE ~(ltask # None /\ Dropped(ltask))
    <3>1. ltask # None => task'[ltask] = task[ltask]
      BY <1>2, <2>2, LuTask
    <3>2. \A x \in Conns : wpc'[x] = "xfer" => wpc[x] = "xfer"
      BY <1>3
    <3> QED BY <1>1, <3>1, <3>2, LuHoldsFrame DEF luVars
  <2> QED BY <2>1, <2>2
<1>11. ASSUME NEW x \in Conns, x # c PROVE ConnCustody(x)' /\ Holds(x)'
  <2>1. \A u \in Tasks : Apart(u, x)
    BY <1>2, <1>11 DEF Apart, At
  <2> QED BY <1>1, <1>3, <1>11, <2>1, ConnFrame DEF sndVars
<1>12. ConnCustody(c)'
  <2>1. Distinct(<<>>) /\ \A u : ~InSeq(u, <<>>)
    BY DEF Distinct, InSeq
  <2>2. \A u \in Tasks : stask[c] = u <=> At(u, c, {"sending"})
    BY DEF IndInv, Custody, ConnCustody
  <2>3. ASSUME NEW u \in Tasks
        PROVE ~At(u, c, {"posted", "reply"})' /\ ~At(u, c, {"xfer"})' /\ ~At(u, c, {"result"})'
              /\ ~At(u, c, {"sending"})'
    BY <1>2, <1>4, <2>2, NoneAssumption DEF At
  <2> QED BY <1>1, <1>3, <1>4, <2>1, <2>3, NoneAssumption DEF ConnCustody, sndVars
<1>13. Holds(c)'
  BY <1>1, <1>3, <1>4 DEF Holds, sndVars
<1> QED BY <1>5, <1>6, <1>7, <1>8, <1>9, <1>10, <1>11, <1>12, <1>13
    DEF IndInv, Custody, WorkerHolds

-----------------------------------------------------------------------------
(* The sender, and the requests to exit.                                   *)

(* The sender that ends holds no task.                                     *)
LEMMA SnNoticeKeeps ==
  ASSUME IndInv, NEW c \in Conns, SnNotice(c)
  PROVE  IndInv'
<1>1. TypeOK'
  BY DEF SnNotice, IndInv, TypeOK, WorkerPcs, ClrKinds, allLun, lunVars, luVars, luRest,
      connVars, ioVars
<1>2. Custody' /\ Flags'
  BY CustodyFrame DEF SnNotice, allLun, lunVars, luVars, luRest, connVars, ioVars
<1>3. WaitIsCurrent'
  BY DEF IndInv, WaitIsCurrent, SnNotice, allLun, lunVars, luVars, luRest, connVars,
      ioVars
<1>4. LuHolds'
  BY DEF IndInv, LuHolds, SnNotice, allLun, lunVars, luVars, luRest, connVars, ioVars
<1>5. WorkerHolds'
  <2> SUFFICES ASSUME NEW x \in Conns
               PROVE  /\ wpc[x] = "gone" => spc'[x] = "done"
                      /\ spc'[x] = "send" <=> stask[x] # None
    BY DEF SnNotice, IndInv, WorkerHolds, Holds, At, connVars
  <2> QED BY DEF SnNotice, IndInv, TypeOK, WorkerHolds, Holds
<1> QED BY <1>1, <1>2, <1>3, <1>4, <1>5 DEF IndInv

(* The sender takes the head of result_queue.                              *)
LEMMA SnTakeKeeps == ASSUME IndInv, NEW c \in Conns, SnTake(c) PROVE IndInv'
<1> DEFINE q == result_queue[c]
           t == Head(q)
           k == task[t]
<1>1. /\ spc[c] = "take" /\ q # <<>>
      /\ stask' = [stask EXCEPT ![c] = t] /\ spc' = [spc EXCEPT ![c] = "send"]
      /\ result_queue' = [result_queue EXCEPT ![c] = Tail(@)]
      /\ UNCHANGED <<allLun, luVars, connVars, task_queue, task_pipe, events>>
  BY DEF SnTake
<1>2. /\ t \in Tasks /\ t # None /\ Tail(q) \in Seq(Tasks)
      /\ \A u : InSeq(u, q) <=> u = t \/ InSeq(u, Tail(q))
      /\ Distinct(Tail(q)) /\ ~InSeq(t, Tail(q))
  BY <1>1, TailFacts, NoneAssumption DEF IndInv, TypeOK, Custody, ConnCustody
<1>3. k \in TaskRec /\ k.conn = c /\ k.stage = "result" /\ k.execute /\ ~k.req_transfer_out
  <2>1. At(t, c, {"result"})
    BY <1>2 DEF IndInv, Custody, ConnCustody
  <2> QED BY <1>2, <2>1, TaskTypes DEF IndInv, At, Flags
<1>4. /\ Only(t) /\ Becomes(t, "sending")
      /\ Marks(t, FALSE, k.req_execute, k.error, k.abort, TRUE)
  <2>1. task' = [task EXCEPT ![t] = [k EXCEPT !.stage = "sending"]]
    BY <1>2 DEF SnTake, IndInv, TypeOK
  <2> QED BY <1>2, <1>3, <2>1 DEF Only, Becomes, Marks, IndInv, TypeOK, TaskRec, Stages
<1>5. /\ stask'[c] = t /\ spc'[c] = "send" /\ result_queue'[c] = Tail(q)
      /\ stask' \in [Conns -> Tasks \cup {None}] /\ spc' \in [Conns -> {"take", "send", "done"}]
      /\ result_queue' \in [Conns -> Seq(Tasks)]
      /\ \A x \in Conns : x # c => /\ stask'[x] = stask[x] /\ spc'[x] = spc[x]
                                   /\ result_queue'[x] = result_queue[x]
  BY <1>1, <1>2 DEF IndInv, TypeOK
<1>6. ltask # t /\ stask[c] = None
  BY <1>1, <1>2, <1>3, LuTask DEF IndInv, WorkerHolds, Holds
<1> HIDE DEF t
<1>7. TypeOK'
  BY <1>1, <1>4, <1>5
  DEF Only, IndInv, TypeOK, allLun, lunVars, luVars, luRest, connVars
<1>8. CmdCustody'
  BY <1>1, <1>2, <1>3, <1>4, CmdFrame DEF Only, Becomes, allLun, lunVars
<1>9. LuCustody'
  BY <1>1, <1>2, <1>4, <1>6, LuTask
  DEF Only, Becomes, IndInv, Custody, LuCustody, luVars, luRest
<1>10. WaitIsCurrent'
  BY <1>1 DEF IndInv, WaitIsCurrent, allLun, lunVars, luVars, luRest
<1>11. Flags'
  <2>1. Flagged(task'[t])
    BY <1>3, <1>4, NoneAssumption DEF Becomes, Marks, Flagged
  <2> QED BY <1>2, <1>4, <2>1, FlagsOne DEF Only, IndInv
<1>12. LuHolds'
  <2>1. ltask # None => task'[ltask] = task[ltask]
    BY <1>4, <1>6, LuTask DEF Only
  <2> QED BY <1>1, <2>1, LuHoldsFrame DEF luVars, connVars
<1>13. ASSUME NEW x \in Conns, x # c PROVE ConnCustody(x)' /\ Holds(x)'
  <2>1. \A u \in Tasks : Apart(u, x)
    BY <1>3, <1>4, <1>13 DEF Only, Becomes, Apart, At
  <2> QED BY <1>1, <1>5, <1>13, <2>1, ConnFrame DEF connVars
<1>14. ConnCustody(c)'
  <2>1. ConnCustody(c)
    BY DEF IndInv, Custody
  <2>2. \A u \in Tasks : u # t => task'[u] = task[u]
    BY <1>4 DEF Only
  <2>3. task'[t].stage = "sending" /\ task'[t].conn = c
    BY <1>3, <1>4 DEF Becomes
  <2> QED BY <1>1, <1>2, <1>3, <1>5, <1>6, <2>1, <2>2, <2>3, NoneAssumption
      DEF ConnCustody, At, connVars
<1>15. Holds(c)'
  <2>1. ASSUME exec_lu_task[c] # None PROVE exec_lu_task[c] # t
    BY <1>2, <1>3, <2>1, Holder DEF At
  <2>2. exec_lu_task[c] # None => task'[exec_lu_task[c]] = task[exec_lu_task[c]]
    BY <1>4, <2>1, Holder DEF Only
  <2>3. Holds(c)
    BY DEF IndInv, WorkerHolds
  <2> QED BY <1>1, <1>2, <1>5, <2>2, <2>3 DEF Holds, At, connVars
<1> QED BY <1>7, <1>8, <1>9, <1>10, <1>11, <1>12, <1>13, <1>14, <1>15
    DEF IndInv, Custody, WorkerHolds

(* A response that went out frees the task, and the sender goes on with the*)
(* head of result_queue, if any.                                           *)
LEMMA SnSendOkKeeps == ASSUME IndInv, NEW c \in Conns, SnSendOk(c) PROVE IndInv'
<1> DEFINE t == stask[c]
           k == task[t]
           q == result_queue[c]
           more == state[c] = "RUNNING" /\ q # <<>>
<1>1. /\ spc[c] = "send"
      /\ stask' = [stask EXCEPT ![c] = IF more THEN Head(q) ELSE None]
      /\ spc' = [spc EXCEPT ![c] = IF more THEN "send" ELSE SnTop(c)]
      /\ result_queue' = IF more THEN [result_queue EXCEPT ![c] = Tail(q)] ELSE result_queue
      /\ UNCHANGED <<allLun, luVars, connVars, task_queue, task_pipe, events>>
      /\ task' = [u \in Tasks |->
                    IF u = t THEN [task[u] EXCEPT !.stage = "answered"]
                    ELSE IF more /\ u = Head(q)
                           THEN [task[u] EXCEPT !.stage = "sending"] ELSE task[u]]
  BY DEF SnSendOk
<1>2. /\ t \in Tasks /\ t # None /\ k \in TaskRec /\ k.stage = "sending" /\ k.conn = c
      /\ k.execute /\ ~k.req_transfer_out
  <2>1. t \in Tasks /\ t # None /\ k \in TaskRec /\ k.stage = "sending" /\ k.conn = c
    BY <1>1, Holder, TaskTypes DEF IndInv, WorkerHolds, Holds, At
  <2> QED BY <2>1 DEF IndInv, Flags
<1>3. q \in Seq(Tasks) /\ Distinct(q)
  BY DEF IndInv, TypeOK, Custody, ConnCustody
<1>4. more => /\ Head(q) \in Tasks /\ Head(q) # None /\ Tail(q) \in Seq(Tasks)
              /\ \A u : InSeq(u, q) <=> u = Head(q) \/ InSeq(u, Tail(q))
              /\ Distinct(Tail(q)) /\ ~InSeq(Head(q), Tail(q))
  BY <1>3, TailFacts, NoneAssumption
<1> DEFINE h == Head(q)
<1>5. more => /\ task[h].conn = c /\ task[h].stage = "result" /\ h # t
              /\ task[h].execute /\ ~task[h].req_transfer_out /\ task[h] \in TaskRec
  <2>1. more => At(h, c, {"result"})
    BY <1>4 DEF IndInv, Custody, ConnCustody
  <2> QED BY <1>2, <1>4, <2>1, TaskTypes DEF IndInv, At, Flags
<1> HIDE DEF t, q, h, more
<1>6. /\ task'[t] = [k EXCEPT !.stage = "answered"]
      /\ more => task'[h] = [task[h] EXCEPT !.stage = "sending"]
      /\ \A u \in Tasks : u # t /\ ~(more /\ u = h) => task'[u] = task[u]
  BY <1>1, <1>2, <1>4, <1>5 DEF h
<1>7. /\ task'[t].stage = "answered" /\ task'[t].conn = c
      /\ task'[t].execute /\ ~task'[t].req_transfer_out /\ task'[t] \in TaskRec
      /\ more => /\ task'[h].stage = "sending" /\ task'[h].conn = c
                 /\ task'[h].execute /\ ~task'[h].req_transfer_out /\ task'[h] \in TaskRec
  BY <1>2, <1>5, <1>6 DEF TaskRec, Stages
<1>8. /\ stask'[c] = IF more THEN h ELSE None
      /\ spc'[c] = IF more THEN "send" ELSE SnTop(c)
      /\ result_queue'[c] = IF more THEN Tail(q) ELSE q
      /\ stask' \in [Conns -> Tasks \cup {None}] /\ spc' \in [Conns -> {"take", "send", "done"}]
      /\ result_queue' \in [Conns -> Seq(Tasks)]
      /\ \A x \in Conns : x # c => /\ stask'[x] = stask[x] /\ spc'[x] = spc[x]
                                   /\ result_queue'[x] = result_queue[x]
  BY <1>1, <1>4 DEF IndInv, TypeOK, SnTop, h, q
<1>9. ltask # t /\ (more => ltask # h) /\ wpc[c] # "gone" /\ SnTop(c) \in {"take", "done"}
  <2>1. more => h \in Tasks /\ h # None
    BY <1>4 DEF h
  <2>2. ltask # t /\ (more => ltask # h)
    BY <1>2, <1>5, <2>1, LuTask
  <2>3. wpc[c] # "gone"
    BY <1>1 DEF IndInv, WorkerHolds, Holds
  <2> QED BY <2>2, <2>3 DEF SnTop
<1>10. \A u \in Tasks : u # t /\ ~(more /\ u = h) => task'[u] = task[u]
  BY <1>6
<1>11. h = Head(q) /\ q = result_queue[c] /\ t = stask[c]
  BY DEF h, q, t
<1>12. TypeOK'
  <2>1. task' \in [Tasks -> TaskRec]
    <3>1. \A u \in Tasks : task'[u] \in TaskRec
      BY <1>6, <1>7 DEF IndInv, TypeOK
    <3>2. task' = [u \in Tasks |-> task'[u]]
      BY <1>1
    <3> QED BY <3>1, <3>2
  <2> QED BY <1>1, <1>8, <2>1
      DEF IndInv, TypeOK, allLun, lunVars, luVars, luRest, connVars
<1>13. CmdCustody'
  BY <1>1, <1>2, <1>5, <1>7, <1>10, CmdFrame DEF allLun, lunVars
<1>14. LuCustody'
  <2>1. ltask' = ltask /\ LuCustody
    BY <1>1 DEF IndInv, Custody, luVars, luRest
  <2>2. ASSUME NEW u \in Tasks, task'[u].stage = "lu" PROVE ltask = u
    <3>1. u # t /\ ~(more /\ u = h)
      BY <1>7, <2>2
    <3>2. task'[u] = task[u]
      BY <1>10, <3>1
    <3> QED BY <2>1, <2>2, <3>2 DEF LuCustody
  <2>3. ltask # None => task'[ltask] = task[ltask]
    BY <1>9, <1>10, LuTask
  <2> QED BY <2>1, <2>2, <2>3 DEF LuCustody
<1>15. WaitIsCurrent'
  BY <1>1 DEF IndInv, WaitIsCurrent, allLun, lunVars, luVars, luRest
<1>16. Flags'
  BY <1>2, <1>7, <1>10, NoneAssumption DEF IndInv, Flags
<1>17. LuHolds'
  <2>1. ltask # None => task'[ltask] = task[ltask]
    BY <1>9, <1>10, LuTask
  <2> QED BY <1>1, <2>1, LuHoldsFrame DEF luVars, connVars
<1>18. ASSUME NEW x \in Conns, x # c PROVE ConnCustody(x)' /\ Holds(x)'
  <2>1. \A u \in Tasks : Apart(u, x)
    BY <1>2, <1>5, <1>7, <1>10, <1>18 DEF Apart, At
  <2> QED BY <1>1, <1>8, <1>18, <2>1, ConnFrame DEF connVars
<1>19. ConnCustody(c)'
  <2>1. ConnCustody(c)
    BY DEF IndInv, Custody
  <2>2. CASE more
    BY <1>1, <1>2, <1>4, <1>5, <1>7, <1>8, <1>10, <1>11, <2>1, <2>2, NoneAssumption
    DEF ConnCustody, At, connVars
  <2>3. CASE ~more
    BY <1>1, <1>2, <1>3, <1>7, <1>8, <1>10, <1>11, <2>1, <2>3, NoneAssumption
    DEF ConnCustody, At, connVars
  <2> QED BY <2>2, <2>3
<1>20. Holds(c)'
  <2>1. ASSUME exec_lu_task[c] # None PROVE exec_lu_task[c] # t /\ (more => exec_lu_task[c] # h)
    BY <1>2, <1>5, <2>1, Holder DEF At
  <2>2. exec_lu_task[c] # None => task'[exec_lu_task[c]] = task[exec_lu_task[c]]
    BY <1>10, <2>1, Holder
  <2>3. Holds(c)
    BY DEF IndInv, WorkerHolds
  <2>4. spc'[c] = "send" <=> stask'[c] # None
    BY <1>4, <1>8, <1>9, <1>11
  <2> QED BY <1>1, <1>9, <2>2, <2>3, <2>4 DEF Holds, At, connVars
<1> QED BY <1>12, <1>13, <1>14, <1>15, <1>16, <1>17, <1>18, <1>19, <1>20
    DEF IndInv, Custody, WorkerHolds

(* A failed send loses the task of the sender and writes an exit request.  *)
LEMMA SnSendFailKeeps == ASSUME IndInv, NEW c \in Conns, SnSendFail(c) PROVE IndInv'
<1> DEFINE t == stask[c]
           k == task[t]
<1>1. /\ spc[c] = "send" /\ stask' = [stask EXCEPT ![c] = None]
      /\ spc' = [spc EXCEPT ![c] = SnTop(c)]
      /\ UNCHANGED <<allLun, luVars, connVars, task_queue, result_queue>>
  BY DEF SnSendFail
<1>2. t \in Tasks /\ t # None /\ k \in TaskRec /\ k.stage = "sending" /\ k.conn = c
  BY <1>1, Holder, TaskTypes DEF IndInv, WorkerHolds, Holds, At
<1>3. /\ Only(t) /\ Becomes(t, "lost")
  <2>1. task' = [task EXCEPT ![t] = [k EXCEPT !.error = TRUE, !.stage = "lost"]]
    BY <1>2 DEF SnSendFail, IndInv, TypeOK
  <2> QED BY <1>2, <2>1 DEF Only, Becomes, IndInv, TypeOK, TaskRec, Stages
<1>4. /\ stask'[c] = None /\ spc'[c] \in {"take", "done"}
      /\ stask' \in [Conns -> Tasks \cup {None}] /\ spc' \in [Conns -> {"take", "send", "done"}]
      /\ \A x \in Conns : x # c => stask'[x] = stask[x] /\ spc'[x] = spc[x]
  BY <1>1 DEF IndInv, TypeOK, SnTop
<1>5. ltask # t /\ wpc[c] # "gone"
  BY <1>1, <1>2, LuTask DEF IndInv, WorkerHolds, Holds
<1>6. task_pipe' \in [Conns -> Seq({"Q", "E"})] /\ events' \in 0 .. MaxEvents
  BY WriteByteType, OneEventType DEF SnSendFail, IndInv, TypeOK
<1> HIDE DEF t
<1>7. TypeOK'
  BY <1>1, <1>3, <1>4, <1>6
  DEF Only, IndInv, TypeOK, allLun, lunVars, luVars, luRest, connVars
<1>8. CmdCustody'
  BY <1>1, <1>2, <1>3, CmdFrame DEF Only, Becomes, allLun, lunVars
<1>9. LuCustody'
  BY <1>1, <1>2, <1>3, <1>5, LuTask
  DEF Only, Becomes, IndInv, Custody, LuCustody, luVars, luRest
<1>10. WaitIsCurrent'
  BY <1>1 DEF IndInv, WaitIsCurrent, allLun, lunVars, luVars, luRest
<1>11. Flags'
  <2>1. task'[t].stage = "lost" /\ task'[t].conn = c /\ c # None
    BY <1>2, <1>3, NoneAssumption DEF Becomes
  <2> QED BY <1>2, <1>3, <2>1 DEF Only, IndInv, Flags
<1>12. LuHolds'
  <2>1. ltask # None => task'[ltask] = task[ltask]
    BY <1>3, <1>5, LuTask DEF Only
  <2> QED BY <1>1, <2>1, LuHoldsFrame DEF luVars, connVars
<1>13. ASSUME NEW x \in Conns, x # c PROVE ConnCustody(x)' /\ Holds(x)'
  <2>1. \A u \in Tasks : Apart(u, x)
    BY <1>2, <1>3, <1>13 DEF Only, Becomes, Apart, At
  <2> QED BY <1>1, <1>4, <1>13, <2>1, ConnFrame DEF connVars
<1>14. ConnCustody(c)'
  <2>1. ConnCustody(c) /\ stask[c] = t
    BY DEF IndInv, Custody, t
  <2>2. \A u \in Tasks : u # t => task'[u] = task[u]
    BY <1>3 DEF Only
  <2>3. task'[t].stage = "lost"
    BY <1>3 DEF Becomes
  <2> QED BY <1>1, <1>2, <1>4, <2>1, <2>2, <2>3, NoneAssumption
      DEF ConnCustody, At, connVars
<1>15. Holds(c)'
  <2>1. ASSUME exec_lu_task[c] # None PROVE exec_lu_task[c] # t
    BY <1>2, <2>1, Holder DEF At
  <2>2. exec_lu_task[c] # None => task'[exec_lu_task[c]] = task[exec_lu_task[c]]
    BY <1>3, <2>1, Holder DEF Only
  <2>3. Holds(c)
    BY DEF IndInv, WorkerHolds
  <2> QED BY <1>1, <1>4, <1>5, <2>2, <2>3 DEF Holds, At, connVars
<1> QED BY <1>7, <1>8, <1>9, <1>10, <1>11, <1>12, <1>13, <1>14, <1>15
    DEF IndInv, Custody, WorkerHolds

(* An exit request in the pipe changes no task.                            *)
LEMMA StopConnKeeps ==
  ASSUME IndInv, NEW c \in Conns, StopConn(c)
  PROVE  IndInv'
<1>1. task_pipe' \in [Conns -> Seq({"Q", "E"})]
  BY WriteByteType DEF StopConn, IndInv
<1>2. TypeOK'
  BY <1>1, OneEventType
  DEF StopConn, IndInv, TypeOK, allLun, lunVars, luVars, luRest, connVars, sndVars
<1>3. Custody' /\ Flags'
  BY CustodyFrame DEF StopConn, allLun, lunVars, luVars, luRest, connVars, sndVars
<1>4. WaitIsCurrent'
  BY DEF IndInv, WaitIsCurrent, StopConn, allLun, lunVars, luVars, luRest, connVars,
      sndVars
<1>5. LuHolds'
  BY DEF IndInv, LuHolds, StopConn, allLun, lunVars, luVars, luRest, connVars, sndVars
<1>6. WorkerHolds'
  BY WorkerHoldsFrame DEF StopConn, connVars, sndVars
<1> QED BY <1>2, <1>3, <1>4, <1>5, <1>6 DEF IndInv

(* Setting conn->state changes no task.                                    *)
LEMMA DropConnKeeps ==
  ASSUME IndInv, NEW c \in Conns, DropConn(c)
  PROVE  IndInv'
<1>1. TypeOK'
  BY OneEventType
  DEF DropConn, IndInv, TypeOK, WorkerPcs, ClrKinds, allLun, lunVars, luVars, luRest,
      ioVars, sndVars
<1>2. Custody' /\ Flags'
  BY CustodyFrame DEF DropConn, allLun, lunVars, luVars, luRest, ioVars, sndVars
<1>3. WaitIsCurrent'
  BY DEF IndInv, WaitIsCurrent, DropConn, allLun, lunVars, luVars, luRest, ioVars,
      sndVars
<1>4. LuHolds'
  BY DEF IndInv, LuHolds, DropConn, allLun, lunVars, luVars, luRest, ioVars, sndVars
<1>5. WorkerHolds'
  BY WorkerHoldsFrame DEF DropConn, sndVars
<1> QED BY <1>1, <1>2, <1>3, <1>4, <1>5 DEF IndInv
=============================================================================

--------------------------- MODULE LunTasksProofs ---------------------------
(* The theorems about LunTasks, for all connections, tasks and LUNs: its    *)
(* inductive invariant, what follows from it, that no task overtakes        *)
(* another in a queue, and that every command lives the life of TaskLife.   *)
EXTENDS LunTasksSteps, FiniteSetTheorems

-----------------------------------------------------------------------------
(* Every step of the luworker keeps the inductive invariant.               *)

(* istgt_lu_disk_queue_count only looks for the next LUN that has a task.  *)
LEMMA LuCountKeeps == ASSUME IndInv, LuCount PROVE IndInv'
<1>1. UNCHANGED <<task, allLun, ltask, lconn, connVars, ioVars, sndVars, events>>
  BY DEF LuCount
<1>2. /\ lpc \in {"count", "recount"} /\ lpc' \in {"count", "recount", "start", "idle"}
      /\ llun' \in Luns /\ scan' \in Luns \X (0 .. MaxLun) /\ again' \in BOOLEAN
  <2>1. llun \in 0 .. MaxLun /\ scan[1] \in Luns /\ scan[2] \in 0 .. MaxLun /\ scan = <<scan[1], scan[2]>>
    BY LunAssumption DEF IndInv, TypeOK, Luns
  <2> DEFINE l == scan[1]
             n == Len(cmd_queue[l])
  <2>2. n \in Nat
    BY <2>1 DEF IndInv, TypeOK
  <2> HIDE DEF n
  <2>3. CASE /\ n > 0
             /\ lpc' = "start" /\ llun' = l /\ again' = (n >= 2)
             /\ scan' = <<0, 0>>
    BY <2>1, <2>2, <2>3, LunAssumption DEF LuCount, Luns
  <2>4. CASE /\ n = 0 /\ scan[2] > 0
             /\ scan' = <<IF l + 1 >= MaxLun THEN 0 ELSE l + 1, scan[2] - 1>>
             /\ UNCHANGED <<lpc, llun, again>>
    <3>1. (IF l + 1 >= MaxLun THEN 0 ELSE l + 1) \in Luns /\ scan[2] - 1 \in 0 .. MaxLun
      BY <2>1, <2>4, LunAssumption DEF Luns
    <3> QED BY <2>4, <3>1 DEF LuCount, IndInv, TypeOK
  <2>5. CASE /\ n = 0 /\ scan[2] = 0 /\ lpc = "count"
             /\ lpc' = "idle" /\ scan' = <<0, 0>>
             /\ UNCHANGED <<llun, again>>
    BY <2>1, <2>5, LunAssumption DEF LuCount, Luns, IndInv, TypeOK
  <2>6. CASE /\ n = 0 /\ scan[2] = 0 /\ lpc = "recount"
             /\ StartScan("count", llun)
             /\ UNCHANGED again
    BY <2>1, <2>6, StartScanType DEF LuCount, LuPcs, IndInv, TypeOK
  <2> QED BY <2>3, <2>4, <2>5, <2>6 DEF LuCount, n
<1>3. TypeOK'
  BY <1>1, <1>2
  DEF IndInv, TypeOK, LuPcs, luRest, connVars, ioVars, sndVars, lunVars, allLun
<1>4. Custody' /\ Flags'
  BY <1>1, CustodyFrame DEF allLun, lunVars, connVars, ioVars, sndVars
<1>5. WaitIsCurrent'
  BY <1>1, <1>2 DEF IndInv, WaitIsCurrent, lunVars, allLun
<1>6. LuHolds'
  BY <1>1, <1>2, NoneAssumption DEF IndInv, LuHolds
<1>7. WorkerHolds'
  BY <1>1, WorkerHoldsFrame DEF connVars, sndVars
<1> QED BY <1>3, <1>4, <1>5, <1>6, <1>7 DEF IndInv

(* luworker takes queue_check back and goes to sleep on queue_cond, or     *)
(* looks again.                                                            *)
LEMMA LuIdleKeeps == ASSUME IndInv, LuIdle PROVE IndInv'
<1>1. llun \in Luns /\ llun \in 0 .. MaxLun
  BY LunAssumption DEF IndInv, TypeOK, Luns
<1>2. lpc' \in LuPcs /\ llun' \in Luns /\ scan' \in Luns \X (0 .. MaxLun)
  BY <1>1, StartScanType DEF LuIdle, LuPcs, IndInv, TypeOK
<1>3. lpc \in {"idle", "woken"} /\ lpc' \in {"count", "recount", "wait"} /\ again' = again /\ queue_check' = FALSE
  BY DEF LuIdle, StartScan
<1>4. TypeOK'
  BY <1>2, <1>3 DEF LuIdle, IndInv, TypeOK, connVars, ioVars, sndVars
<1>5. Custody' /\ Flags'
  BY CustodyFrame DEF LuIdle, connVars, ioVars, sndVars
<1>6. WaitIsCurrent'
  BY <1>3 DEF IndInv, WaitIsCurrent, LuIdle
<1>7. LuHolds'
  BY <1>3, NoneAssumption DEF LuIdle, IndInv, LuHolds
<1>8. WorkerHolds'
  BY WorkerHoldsFrame DEF LuIdle, connVars, sndVars
<1> QED BY <1>4, <1>5, <1>6, <1>7, <1>8 DEF IndInv

(* luworker is back from queue_cond and looks at every LUN again.          *)
LEMMA LuWokenKeeps == ASSUME IndInv, LuWoken PROVE IndInv'
<1>1. llun \in Luns /\ llun \in 0 .. MaxLun
  BY LunAssumption DEF IndInv, TypeOK, Luns
<1>2. lpc' \in LuPcs /\ llun' \in Luns /\ scan' \in Luns \X (0 .. MaxLun)
  BY <1>1, StartScanType DEF LuWoken, LuPcs, IndInv, TypeOK
<1>3. lpc \in {"idle", "woken"} /\ lpc' \in {"count", "recount", "wait"} /\ again' = again /\ queue_check' = FALSE
  BY DEF LuWoken, StartScan
<1>4. TypeOK'
  BY <1>2, <1>3 DEF LuWoken, IndInv, TypeOK, connVars, ioVars, sndVars
<1>5. Custody' /\ Flags'
  BY CustodyFrame DEF LuWoken, connVars, ioVars, sndVars
<1>6. WaitIsCurrent'
  BY <1>3 DEF IndInv, WaitIsCurrent, LuWoken
<1>7. LuHolds'
  BY <1>3, NoneAssumption DEF LuWoken, IndInv, LuHolds
<1>8. WorkerHolds'
  BY WorkerHoldsFrame DEF LuWoken, connVars, sndVars
<1> QED BY <1>4, <1>5, <1>6, <1>7, <1>8 DEF IndInv

(* A condition wait that returns for no reason moves only the luworker.    *)
LEMMA LuSpuriousWakeKeeps == ASSUME IndInv, LuSpuriousWake PROVE IndInv'
<1>1. TypeOK'
  BY OneEventType
  DEF LuSpuriousWake, IndInv, TypeOK, LuPcs, luRest, connVars, ioVars, sndVars, lunVars,
      allLun
<1>2. Custody' /\ Flags'
  BY CustodyFrame DEF LuSpuriousWake, allLun, lunVars, luRest, connVars, ioVars, sndVars
<1>3. WaitIsCurrent'
  BY DEF IndInv, WaitIsCurrent, LuSpuriousWake, luRest, lunVars, allLun
<1>4. LuHolds'
  BY NoneAssumption DEF IndInv, LuHolds, LuSpuriousWake, luRest, connVars
<1>5. WorkerHolds'
  BY WorkerHoldsFrame DEF LuSpuriousWake, connVars, sndVars
<1> QED BY <1>1, <1>2, <1>3, <1>4, <1>5 DEF IndInv

(* istgt_lu_disk_queue_start finds the queue empty and returns.            *)
LEMMA LuDequeueEmptyKeeps == ASSUME IndInv, LuDequeueEmpty PROVE IndInv'
<1>1. /\ lpc' \in {"start", "count"} /\ llun' \in Luns /\ scan' \in Luns \X (0 .. MaxLun)
      /\ again' \in BOOLEAN /\ ltask' = None /\ lconn' = None
  BY ReturnType DEF LuDequeueEmpty, IndInv
<1>2. ltask = None
  BY NoneAssumption DEF IndInv, LuHolds, LuDequeueEmpty
<1>3. UNCHANGED ltask
  BY <1>1, <1>2
<1>4. TypeOK'
  BY <1>1
  DEF LuDequeueEmpty, IndInv, TypeOK, LuPcs, connVars, ioVars, sndVars, lunVars, allLun
<1>5. Custody' /\ Flags'
  BY <1>3, CustodyFrame DEF LuDequeueEmpty, allLun, lunVars, connVars, ioVars, sndVars
<1>6. WaitIsCurrent'
  BY <1>1 DEF IndInv, WaitIsCurrent, LuDequeueEmpty, lunVars, allLun
<1>7. LuHolds'
  BY <1>1, NoneAssumption DEF LuHolds
<1>8. WorkerHolds'
  BY WorkerHoldsFrame DEF LuDequeueEmpty, connVars, sndVars
<1> QED BY <1>4, <1>5, <1>6, <1>7, <1>8 DEF IndInv

(* The head of cmd_queue becomes the task of the luworker; the rest keep   *)
(* their order, each once.                                                 *)
LEMMA LuDequeueKeeps == ASSUME IndInv, LuDequeue PROVE IndInv'
<1> DEFINE t == Head(cmd_queue[llun])
           q == cmd_queue[llun]
<1>1. /\ llun \in Luns /\ q \in Seq(Tasks) /\ q # <<>> /\ t \in Tasks
      /\ cmd_queue \in [Luns -> Seq(Tasks)]
      /\ cmd_queue' = [cmd_queue EXCEPT ![llun] = Tail(q)] /\ Tail(q) \in Seq(Tasks)
      /\ \A u : InSeq(u, q) <=> u = t \/ InSeq(u, Tail(q))
      /\ Distinct(Tail(q)) /\ ~InSeq(t, Tail(q)) /\ ltask = None
  BY TailFacts DEF IndInv, TypeOK, Custody, CmdCustody, LuHolds, LuDequeue
<1>2. /\ task[t].stage = "queued" /\ task[t].lun = llun /\ task[t].conn \in Conns
      /\ ~task[t].req_execute /\ ~task[t].error /\ ~task[t].abort /\ ~task[t].execute
      /\ task[t] \in TaskRec
  BY <1>1 DEF IndInv, TypeOK, TaskRec, Custody, CmdCustody, Queued, Flags
<1>3. /\ Only(t) /\ Becomes(t, "lu")
      /\ Marks(t, task[t].write, FALSE, FALSE, FALSE, FALSE)
  <2>1. task' = [task EXCEPT ![t] = [task[t] EXCEPT !.stage = "lu", !.req_transfer_out = task[t].write]]
    BY <1>1 DEF LuDequeue, IndInv, TypeOK
  <2> QED BY <1>1, <1>2, <2>1 DEF Only, Becomes, Marks, IndInv, TypeOK, TaskRec, Stages
<1>4. /\ lpc = "start" /\ lpc' = IF task[t].write THEN "post" ELSE "exec_lock"
      /\ ltask' = t /\ lconn' = task[t].conn
      /\ UNCHANGED <<wait_lu_task, queue_check, lu_mutex, llun, scan, again,
                     connVars, ioVars, sndVars, events>>
  BY DEF LuDequeue
<1> HIDE DEF t, q
<1>5. TypeOK'
  BY <1>1, <1>2, <1>3, <1>4 DEF Only, IndInv, TypeOK, LuPcs, connVars, ioVars, sndVars
<1>6. CmdCustody'
  <2> SUFFICES ASSUME NEW l \in Luns
               PROVE  /\ Distinct(cmd_queue'[l])
                      /\ \A u \in Tasks : InSeq(u, cmd_queue'[l]) <=> Queued(u, l)'
    BY DEF CmdCustody
  <2>0. Distinct(cmd_queue[l]) /\ \A u \in Tasks : InSeq(u, cmd_queue[l]) <=> Queued(u, l)
    BY DEF IndInv, Custody, CmdCustody
  <2>1. CASE l = llun
    BY <1>1, <1>2, <1>3, <2>0, <2>1 DEF Only, Becomes, Queued, q
  <2>2. CASE l # llun
    BY <1>1, <1>2, <1>3, <2>0, <2>2 DEF Only, Becomes, Queued
  <2> QED BY <2>1, <2>2
<1>7. LuCustody'
  BY <1>1, <1>3, <1>4, NoneAssumption DEF Only, Becomes, IndInv, Custody, LuCustody
<1>8. ASSUME NEW c \in Conns PROVE ConnCustody(c)'
  BY <1>2, <1>3, <1>4
  DEF Only, Becomes, IndInv, Custody, ConnCustody, At, connVars, ioVars, sndVars
<1>9. WaitIsCurrent'
  BY <1>1, <1>4 DEF IndInv, WaitIsCurrent
<1>10. Flags'
  <2>1. Flagged(task'[t])
    BY <1>1, <1>2, <1>3, NoneAssumption DEF Becomes, Marks, IndInv, Flags, Flagged
  <2> QED BY <1>1, <1>2, <1>3, <2>1, FlagsOne DEF Only, IndInv
<1>11. LuHolds'
  BY <1>1, <1>2, <1>3, <1>4, NoneAssumption DEF Only, Becomes, Marks, LuHolds
<1>12. WorkerHolds'
  BY <1>1, <1>2, <1>3, <1>4, WorkerHoldsFrame DEF Only, Becomes, connVars, sndVars
<1> QED BY <1>5, <1>6, <1>7, <1>8, <1>9, <1>10, <1>11, <1>12 DEF IndInv, Custody

(* A posted write is shared by the luworker and task_queue, and by nobody  *)
(* else.                                                                   *)
LEMMA LuPostKeeps == ASSUME IndInv, LuPost PROVE IndInv'
<1> DEFINE t == ltask
           k == task[t]
           q == task_queue[lconn]
<1>1. /\ t \in Tasks /\ lconn \in Conns /\ k.conn = lconn /\ k \in TaskRec
      /\ k.stage = "lu" /\ k.write /\ k.req_transfer_out /\ ~k.req_execute
      /\ ~k.execute /\ ~k.error /\ ~k.abort
  BY LuTask, TaskTypes, NoneAssumption DEF IndInv, LuHolds, LuPost
<1>2. /\ lpc = "post" /\ lpc' = "post_pipe"
      /\ task_queue' = IF Alive(lconn) THEN [task_queue EXCEPT ![lconn] = Append(q, t)]
                                       ELSE task_queue
      /\ UNCHANGED <<cmd_queue, wait_lu_task, queue_check, lu_mutex, luRest, connVars,
                     task_pipe, result_queue, sndVars, events>>
  BY DEF LuPost, PostTask, allLun, lunVars
<1>3. /\ Only(t) /\ Becomes(t, IF Alive(lconn) THEN "posted" ELSE "lost")
      /\ Marks(t, TRUE, FALSE, FALSE, FALSE, FALSE)
  <2>1. task' = [task EXCEPT ![t] = [k EXCEPT !.stage = IF Alive(lconn) THEN "posted" ELSE "lost"]]
    BY <1>1 DEF LuPost, PostTask, IndInv, TypeOK
  <2> QED BY <1>1, <2>1 DEF Only, Becomes, Marks, IndInv, TypeOK, TaskRec, Stages
<1>4. /\ Append(q, t) \in Seq(Tasks)
      /\ Distinct(Append(q, t)) /\ \A u : InSeq(u, Append(q, t)) <=> u = t \/ InSeq(u, q)
  <2>1. q \in Seq(Tasks) /\ Distinct(q) /\ ~InSeq(t, q)
    BY <1>1 DEF IndInv, TypeOK, Custody, ConnCustody, At
  <2> QED BY <2>1, <1>1, AppendFacts
<1>5. TypeOK'
  <2>1. task_queue' \in [Conns -> Seq(Tasks)]
    BY <1>2, <1>4 DEF IndInv, TypeOK
  <2> QED BY <1>2, <1>3, <2>1 DEF Only, IndInv, TypeOK, LuPcs, luRest, connVars, sndVars
<1>6. CmdCustody'
  BY <1>1, <1>2, <1>3 DEF Only, Becomes, IndInv, Custody, CmdCustody, Queued
<1>7. LuCustody'
  BY <1>1, <1>2, <1>3 DEF Only, Becomes, IndInv, Custody, LuCustody, luRest
<1>8. ASSUME NEW c \in Conns PROVE ConnCustody(c)'
  <2>1. ConnCustody(c) /\ exec_lu_task[c] # t
    BY <1>1, Holder, NoneAssumption DEF IndInv, Custody, At
  <2>2. CASE c = lconn /\ Alive(c)
    <3>1. task_queue'[c] = Append(q, t) /\ q = task_queue[c]
      BY <1>2, <2>2 DEF IndInv, TypeOK
    <3> QED BY <1>1, <1>2, <1>3, <1>4, <2>1, <2>2, <3>1
        DEF Only, Becomes, ConnCustody, At, connVars, sndVars
  <2>3. CASE ~(c = lconn /\ Alive(c))
    <3>1. task_queue'[c] = task_queue[c]
      BY <1>1, <1>2, <2>3 DEF IndInv, TypeOK
    <3> QED BY <1>1, <1>2, <1>3, <2>1, <2>3, <3>1
        DEF Only, Becomes, ConnCustody, At, connVars, sndVars
  <2> QED BY <2>2, <2>3
<1>9. WaitIsCurrent'
  BY <1>2 DEF IndInv, WaitIsCurrent, luRest
<1>10. Flags'
  <2>1. Flagged(task'[t])
    BY <1>1, <1>3, NoneAssumption DEF Becomes, Marks, Flagged
  <2> QED BY <1>1, <1>3, <2>1, FlagsOne DEF Only, IndInv
<1>11. LuHolds'
  BY <1>1, <1>2, <1>3, NoneAssumption DEF Only, Becomes, Marks, IndInv, LuHolds, luRest
<1>12. WorkerHolds'
  BY <1>1, <1>2, <1>3, WorkerHoldsFrame DEF Only, Becomes, connVars, sndVars
<1> QED BY <1>5, <1>6, <1>7, <1>8, <1>9, <1>10, <1>11, <1>12 DEF IndInv, Custody

(* The byte that announces a transfer touches task_pipe only.              *)
LEMMA LuPostPipeKeeps == ASSUME IndInv, LuPostPipe PROVE IndInv'
<1>1. task_pipe' \in [Conns -> Seq({"Q", "E"})]
  BY WriteByteType DEF LuPostPipe, IndInv
<1>2. TypeOK'
  BY <1>1
  DEF LuPostPipe, IndInv, TypeOK, LuPcs, luRest, connVars, sndVars, lunVars, allLun
<1>3. Custody' /\ Flags'
  BY CustodyFrame DEF LuPostPipe, allLun, lunVars, luRest, connVars, sndVars
<1>4. WaitIsCurrent'
  BY DEF IndInv, WaitIsCurrent, LuPostPipe, luRest, lunVars, allLun
<1>5. LuHolds'
  BY NoneAssumption DEF IndInv, LuHolds, LuPostPipe, luRest, connVars
<1>6. WorkerHolds'
  BY WorkerHoldsFrame DEF LuPostPipe, connVars, sndVars
<1> QED BY <1>2, <1>3, <1>4, <1>5, <1>6 DEF IndInv

(* wait_lu_task is published exactly while the luworker waits for the      *)
(* transfer of the task it holds.                                          *)
LEMMA LuBeginWaitKeeps == ASSUME IndInv, LuBeginWait PROVE IndInv'
<1>1. ltask \in Tasks
  BY LuTask DEF LuBeginWait, IndInv, LuHolds
<1>2. TypeOK'
  BY <1>1 DEF LuBeginWait, IndInv, TypeOK, LuPcs, luRest, connVars, ioVars, sndVars
<1>3. Custody' /\ Flags'
  BY CustodyFrame DEF LuBeginWait, luRest, connVars, ioVars, sndVars
<1>4. WaitIsCurrent'
  BY <1>1 DEF IndInv, TypeOK, WaitIsCurrent, LuBeginWait, luRest
<1>5. LuHolds'
  BY NoneAssumption DEF IndInv, LuHolds, LuBeginWait, luRest, connVars
<1>6. WorkerHolds'
  BY WorkerHoldsFrame DEF LuBeginWait, connVars, sndVars
<1> QED BY <1>2, <1>3, <1>4, <1>5, <1>6 DEF IndInv

(* The luworker returns from trans_cond: it gives a failed task up, waits  *)
(* again, or goes on to execute, and withdraws wait_lu_task whenever it    *)
(* stops waiting.                                                          *)
LEMMA LuTransWokenKeeps == ASSUME IndInv, LuTransWoken PROVE IndInv'
<1> DEFINE t == ltask
           k == task[t]
<1>1. /\ t \in Tasks /\ t # None /\ lconn \in Conns /\ k.conn = lconn /\ k \in TaskRec
      /\ k.stage \in {"lu", "posted", "xfer", "lost"}
      /\ k.write /\ ~k.execute /\ (k.stage = "lu" <=> ~k.req_transfer_out)
      /\ (k.req_execute <=> ~k.req_transfer_out) /\ (k.error /\ ~k.req_transfer_out => k.abort)
  BY LuTask, TaskTypes, NoneAssumption DEF IndInv, LuHolds, LuTransWoken
<1>2. /\ lpc = "twoken"
      /\ UNCHANGED <<cmd_queue, queue_check, lu_mutex, connVars, ioVars, sndVars, events>>
  BY DEF LuTransWoken
<1>3. CASE /\ k.error
           /\ wait_lu_task' = [wait_lu_task EXCEPT ![llun] = None]
           /\ task' = [task EXCEPT ![t].stage = IF @ = "lu" THEN "lost" ELSE @]
           /\ Return(FALSE)
  <2>1. /\ Only(t) /\ Becomes(t, IF k.stage = "lu" THEN "lost" ELSE k.stage)
        /\ Marks(t, k.req_transfer_out, k.req_execute, k.error, k.abort, k.execute)
    <3>1. task' = [task EXCEPT ![t] = [k EXCEPT !.stage = IF k.stage = "lu" THEN "lost" ELSE k.stage]]
      BY <1>1, <1>3 DEF IndInv, TypeOK
    <3> QED BY <1>1, <3>1 DEF Only, Becomes, Marks, IndInv, TypeOK, TaskRec, Stages
  <2>2. /\ lpc' \in {"start", "count"} /\ llun' \in Luns /\ scan' \in Luns \X (0 .. MaxLun)
        /\ again' \in BOOLEAN /\ ltask' = None /\ lconn' = None
    BY <1>3, ReturnType DEF IndInv
  <2>3. TypeOK'
    BY <1>2, <1>3, <2>1, <2>2 DEF Only, IndInv, TypeOK, LuPcs, connVars, ioVars, sndVars
  <2>4. CmdCustody'
    BY <1>1, <1>2, <2>1 DEF Only, Becomes, IndInv, Custody, CmdCustody, Queued
  <2>5. LuCustody'
    BY <1>1, <2>1, <2>2 DEF Only, Becomes, IndInv, Custody, LuCustody
  <2>6. ASSUME NEW c \in Conns PROVE ConnCustody(c)'
    BY <1>1, <1>2, <2>1
    DEF Only, Becomes, IndInv, Custody, ConnCustody, At, connVars, ioVars, sndVars
  <2>7. WaitIsCurrent'
    <3> SUFFICES ASSUME NEW l \in Luns PROVE wait_lu_task'[l] = None
      BY DEF WaitIsCurrent
    <3> QED BY <1>3 DEF IndInv, WaitIsCurrent, TypeOK
  <2>8. Flags'
    <3>1. CASE k.stage = "lu"
      BY <1>1, <2>1, <3>1, NoneAssumption DEF Only, Becomes, Marks, IndInv, Flags
    <3>2. CASE k.stage # "lu"
      <4>1. [k EXCEPT !.stage = k.stage] = k
        BY <1>1 DEF TaskRec
      <4>2. task'[t] = k
        BY <1>1, <1>3, <3>2, <4>1 DEF IndInv, TypeOK
      <4> QED BY <1>1, <2>1, <4>2, Zenon DEF Only, IndInv, Flags
    <3> QED BY <3>1, <3>2
  <2>9. LuHolds'
    BY <2>2, NoneAssumption DEF LuHolds
  <2>10. WorkerHolds'
    BY <1>1, <1>2, <2>1, WorkerHoldsFrame DEF Only, Becomes, connVars, sndVars
  <2> QED BY <2>3, <2>4, <2>5, <2>6, <2>7, <2>8, <2>9, <2>10 DEF IndInv, Custody
<1>4. CASE \/ /\ ~k.error /\ k.req_transfer_out
              /\ lpc' = "twait"
              /\ UNCHANGED <<task, wait_lu_task, luRest>>
           \/ /\ ~k.error /\ ~k.req_transfer_out
              /\ lpc' = "exec_lock"
              /\ wait_lu_task' = [wait_lu_task EXCEPT ![llun] = None]
              /\ UNCHANGED <<task, luRest>>
  <2>1. TypeOK'
    BY <1>2, <1>4 DEF IndInv, TypeOK, LuPcs, luRest, connVars, ioVars, sndVars
  <2>2. Custody' /\ Flags' /\ WorkerHolds'
    BY <1>2, <1>4, CustodyFrame, WorkerHoldsFrame DEF luRest, connVars, ioVars, sndVars
  <2>3. WaitIsCurrent'
    <3> SUFFICES ASSUME NEW l \in Luns, wait_lu_task'[l] # None
                 PROVE  wait_lu_task'[l] = ltask' /\ llun' = l /\ lpc' \in {"twait", "twoken"}
      BY DEF WaitIsCurrent
    <3> QED BY <1>4 DEF IndInv, WaitIsCurrent, TypeOK, luRest
  <2>4. LuHolds'
    BY <1>1, <1>2, <1>4 DEF IndInv, LuHolds, luRest
  <2> QED BY <2>1, <2>2, <2>3, <2>4 DEF IndInv
<1> QED BY <1>3, <1>4 DEF LuTransWoken

(* ETIMEDOUT withdraws wait_lu_task; a task given up has error set, and one*)
(* whose data came goes on to be executed.                                 *)
LEMMA LuTimeoutKeeps == ASSUME IndInv, LuTimeout PROVE IndInv'
<1> DEFINE t == ltask
           k == task[t]
<1>1. /\ t \in Tasks /\ t # None /\ lconn \in Conns /\ k.conn = lconn /\ k \in TaskRec
      /\ k.stage \in {"lu", "posted", "xfer", "lost"}
      /\ k.write /\ ~k.execute /\ (k.stage = "lu" <=> ~k.req_transfer_out)
      /\ (k.req_execute <=> ~k.req_transfer_out) /\ (k.error /\ ~k.req_transfer_out => k.abort)
  BY LuTask, TaskTypes, NoneAssumption DEF IndInv, LuHolds, LuTimeout
<1>2. /\ wait_lu_task' = [wait_lu_task EXCEPT ![llun] = None]
      /\ UNCHANGED <<cmd_queue, queue_check, lu_mutex, connVars, ioVars, sndVars, events>>
  BY DEF LuTimeout
<1>3. \A l \in Luns : wait_lu_task'[l] = None
  BY <1>2 DEF IndInv, WaitIsCurrent, TypeOK
<1>4. WaitIsCurrent'
  BY <1>3 DEF WaitIsCurrent
<1>5. CASE k.req_transfer_out /\ task' = [task EXCEPT ![t].error = TRUE] /\ Return(FALSE)
  <2>1. /\ Only(t) /\ Becomes(t, k.stage)
        /\ Marks(t, k.req_transfer_out, k.req_execute, TRUE, k.abort, k.execute)
    <3>1. task' = [task EXCEPT ![t] = [k EXCEPT !.error = TRUE]]
      BY <1>1, <1>5 DEF IndInv, TypeOK
    <3> QED BY <1>1, <3>1 DEF Only, Becomes, Marks, IndInv, TypeOK, TaskRec
  <2>2. /\ lpc' \in {"start", "count"} /\ llun' \in Luns /\ scan' \in Luns \X (0 .. MaxLun)
        /\ again' \in BOOLEAN /\ ltask' = None /\ lconn' = None
    BY <1>5, ReturnType DEF IndInv
  <2>3. TypeOK'
    BY <1>2, <2>1, <2>2 DEF Only, IndInv, TypeOK, LuPcs, connVars, ioVars, sndVars
  <2>4. CmdCustody'
    BY <1>1, <1>2, <2>1 DEF Only, Becomes, IndInv, Custody, CmdCustody, Queued
  <2>5. LuCustody'
    BY <1>1, <1>5, <2>1, <2>2 DEF Only, Becomes, IndInv, Custody, LuCustody
  <2>6. ASSUME NEW c \in Conns PROVE ConnCustody(c)'
    BY <1>1, <1>2, <2>1
    DEF Only, Becomes, IndInv, Custody, ConnCustody, At, connVars, ioVars, sndVars
  <2>7. Flags'
    <3>1. Flagged(task'[t])
      BY <1>1, <1>5, <2>1, NoneAssumption DEF Becomes, Marks, IndInv, Flags, Flagged
    <3> QED BY <1>1, <1>5, <2>1, <3>1, FlagsOne DEF Only, IndInv
  <2>8. LuHolds'
    BY <2>2, NoneAssumption DEF LuHolds
  <2>9. WorkerHolds'
    BY <1>1, <1>2, <2>1, WorkerHoldsFrame DEF Only, Becomes, connVars, sndVars
  <2> QED BY <1>4, <2>3, <2>4, <2>5, <2>6, <2>7, <2>8, <2>9 DEF IndInv, Custody
<1>6. CASE ~k.req_transfer_out /\ lpc' = "exec_lock" /\ UNCHANGED <<task, luRest>>
  <2>1. TypeOK'
    BY <1>2, <1>6 DEF IndInv, TypeOK, LuPcs, luRest, connVars, ioVars, sndVars
  <2>2. Custody' /\ Flags' /\ WorkerHolds'
    BY <1>2, <1>6, CustodyFrame, WorkerHoldsFrame DEF luRest, connVars, ioVars, sndVars
  <2>3. LuHolds'
    BY <1>1, <1>2, <1>6 DEF IndInv, LuHolds, luRest
  <2> QED BY <1>4, <2>1, <2>2, <2>3 DEF IndInv
<1> QED BY <1>5, <1>6 DEF LuTimeout

(* Taking lu->mutex changes no task.                                       *)
LEMMA LuExecBeginKeeps == ASSUME IndInv, LuExecBegin PROVE IndInv'
<1>1. TypeOK'
  BY DEF LuExecBegin, IndInv, TypeOK, LuPcs, luRest, connVars, ioVars, sndVars, lunVars
<1>2. Custody' /\ Flags'
  BY CustodyFrame DEF LuExecBegin, lunVars, luRest, connVars, ioVars, sndVars
<1>3. WaitIsCurrent'
  BY DEF IndInv, WaitIsCurrent, LuExecBegin, luRest, lunVars
<1>4. LuHolds'
  BY NoneAssumption DEF IndInv, LuHolds, LuExecBegin, luRest
<1>5. WorkerHolds'
  BY WorkerHoldsFrame DEF LuExecBegin, connVars, sndVars
<1> QED BY <1>1, <1>2, <1>3, <1>4, <1>5 DEF IndInv

(* istgt_lu_disk_execute marks the task of the luworker executed and leaves*)
(* it with the luworker.                                                   *)
LEMMA LuExecEndKeeps == ASSUME IndInv, LuExecEnd PROVE IndInv'
<1> DEFINE t == ltask
           k == task[t]
<1>1. /\ t \in Tasks /\ t # None /\ lconn \in Conns /\ k.conn = lconn /\ k \in TaskRec
      /\ k.stage = "lu" /\ ~k.req_transfer_out
  BY LuTask, TaskTypes, NoneAssumption DEF IndInv, LuHolds, LuExecEnd
<1>2. /\ lpc = "exec" /\ lpc' = "reply" /\ lu_mutex' = FALSE
      /\ UNCHANGED <<lunVars, luRest, connVars, ioVars, sndVars, events>>
  BY DEF LuExecEnd
<1>3. /\ Only(t) /\ Becomes(t, "lu")
      /\ Marks(t, FALSE, k.req_execute, k.error, k.abort, TRUE)
  <2>1. task' = [task EXCEPT ![t] = [k EXCEPT !.execute = TRUE]]
    BY <1>1 DEF LuExecEnd, IndInv, TypeOK
  <2> QED BY <1>1, <2>1 DEF Only, Becomes, Marks, IndInv, TypeOK, TaskRec
<1>5. TypeOK'
  BY <1>2, <1>3
  DEF Only, IndInv, TypeOK, LuPcs, lunVars, luRest, connVars, ioVars, sndVars
<1>6. CmdCustody'
  BY <1>1, <1>2, <1>3 DEF Only, Becomes, IndInv, Custody, CmdCustody, Queued, lunVars
<1>7. LuCustody'
  BY <1>1, <1>2, <1>3 DEF Only, Becomes, IndInv, Custody, LuCustody, luRest
<1>8. ASSUME NEW c \in Conns PROVE ConnCustody(c)'
  BY <1>1, <1>2, <1>3
  DEF Only, Becomes, IndInv, Custody, ConnCustody, At, connVars, ioVars, sndVars
<1>9. WaitIsCurrent'
  BY <1>2 DEF IndInv, WaitIsCurrent, luRest, lunVars
<1>10. Flags'
  <2>1. Flagged(task'[t])
    BY <1>1, <1>3, NoneAssumption DEF Becomes, Marks, Flagged
  <2> QED BY <1>1, <1>3, <2>1, FlagsOne DEF Only, IndInv
<1>11. LuHolds'
  BY <1>1, <1>2, <1>3, NoneAssumption DEF Only, Becomes, Marks, IndInv, LuHolds, luRest
<1>12. WorkerHolds'
  BY <1>1, <1>2, <1>3, WorkerHoldsFrame DEF Only, Becomes, connVars, sndVars
<1> QED BY <1>5, <1>6, <1>7, <1>8, <1>9, <1>10, <1>11, <1>12 DEF IndInv, Custody

(* An executed task goes from the luworker to the sender or the worker of  *)
(* its connection, or is lost when the connection object is gone.          *)
LEMMA LuReplyKeeps == ASSUME IndInv, LuReply PROVE IndInv'
<1> DEFINE t == ltask
           k == task[t]
<1>1. /\ t \in Tasks /\ t # None /\ lconn \in Conns /\ k.conn = lconn /\ k \in TaskRec
      /\ k.stage = "lu" /\ k.execute /\ ~k.req_transfer_out
  BY LuTask, TaskTypes, NoneAssumption DEF IndInv, LuHolds, LuReply
<1>2. /\ lpc = "reply"
      /\ UNCHANGED <<allLun, connVars, task_pipe, sndVars, events>>
  BY DEF LuReply
<1> DEFINE s == IF Alive(lconn) THEN IF UseSender THEN "result" ELSE "reply" ELSE "lost"
<1>3. task' = [task EXCEPT ![t] = [k EXCEPT !.stage = s]]
  BY <1>1 DEF LuReply, PostTask, IndInv, TypeOK
<1>4. /\ Only(t) /\ Becomes(t, s)
      /\ Marks(t, FALSE, k.req_execute, k.error, k.abort, TRUE)
  BY <1>1, <1>3 DEF Only, Becomes, Marks, IndInv, TypeOK, TaskRec, Stages
<1>5. /\ lpc' \in {"start", "count", "reply_pipe"} /\ llun' \in Luns
      /\ scan' \in Luns \X (0 .. MaxLun) /\ again' \in BOOLEAN /\ ltask' = None
      /\ lpc' = "reply_pipe" => lconn' # None
      /\ lconn' \in Conns \cup {None}
  <2>1. CASE UseSender
    BY <2>1, ReturnType DEF LuReply, IndInv
  <2>2. CASE ~UseSender
    BY <1>1, <2>2, NoneAssumption DEF LuReply, IndInv, TypeOK
  <2> QED BY <2>1, <2>2
<1>6. /\ task_queue' = IF Alive(lconn) /\ ~UseSender
                         THEN [task_queue EXCEPT ![lconn] = Append(task_queue[lconn], t)] ELSE task_queue
      /\ result_queue' = IF Alive(lconn) /\ UseSender
                           THEN [result_queue EXCEPT ![lconn] = Append(result_queue[lconn], t)] ELSE result_queue
  BY DEF LuReply, PostTask
<1>7. ASSUME NEW q \in {task_queue[lconn], result_queue[lconn]}
      PROVE  /\ Append(q, t) \in Seq(Tasks)
             /\ Distinct(Append(q, t)) /\ \A u : InSeq(u, Append(q, t)) <=> u = t \/ InSeq(u, q)
  <2>1. q \in Seq(Tasks) /\ Distinct(q) /\ ~InSeq(t, q)
    <3>1. ConnCustody(lconn)
      BY <1>1 DEF IndInv, Custody
    <3>2. CASE q = task_queue[lconn]
      BY <1>1, <3>1, <3>2 DEF IndInv, TypeOK, ConnCustody, At
    <3>3. CASE q = result_queue[lconn]
      BY <1>1, <3>1, <3>3 DEF IndInv, TypeOK, ConnCustody, At
    <3> QED BY <3>2, <3>3
  <2> QED BY <2>1, <1>1, AppendFacts
<1> HIDE DEF s
<1>8. TypeOK'
  <2>1. task_queue' \in [Conns -> Seq(Tasks)] /\ result_queue' \in [Conns -> Seq(Tasks)]
    BY <1>6, <1>7 DEF IndInv, TypeOK
  <2> QED BY <1>2, <1>4, <1>5, <2>1
      DEF Only, IndInv, TypeOK, LuPcs, allLun, lunVars, connVars, sndVars
<1>9. s \in {"result", "reply", "lost"}
  BY DEF s
<1>10. CmdCustody'
  BY <1>1, <1>2, <1>4, <1>9
  DEF Only, Becomes, IndInv, Custody, CmdCustody, Queued, allLun, lunVars
<1>11. LuCustody'
  BY <1>1, <1>4, <1>5, <1>9 DEF Only, Becomes, IndInv, Custody, LuCustody
<1>12. ASSUME NEW c \in Conns PROVE ConnCustody(c)'
  <2>1. ConnCustody(c) /\ exec_lu_task[c] # t
    BY <1>1, Holder DEF IndInv, Custody, At
  <2>2. CASE c = lconn /\ s = "result"
    <3>1. result_queue'[c] = Append(result_queue[c], t) /\ task_queue'[c] = task_queue[c]
      BY <1>6, <2>2 DEF IndInv, TypeOK, s
    <3> QED BY <1>1, <1>2, <1>4, <1>7, <2>1, <2>2, <3>1
        DEF Only, Becomes, ConnCustody, At, connVars, sndVars
  <2>3. CASE c = lconn /\ s = "reply"
    <3>1. task_queue'[c] = Append(task_queue[c], t) /\ result_queue'[c] = result_queue[c]
      BY <1>6, <2>3 DEF IndInv, TypeOK, s
    <3> QED BY <1>1, <1>2, <1>4, <1>7, <2>1, <2>3, <3>1
        DEF Only, Becomes, ConnCustody, At, connVars, sndVars
  <2>4. CASE c # lconn \/ s = "lost"
    <3>1. task_queue'[c] = task_queue[c] /\ result_queue'[c] = result_queue[c]
      BY <1>1, <1>6, <2>4 DEF IndInv, TypeOK, s
    <3> QED BY <1>1, <1>2, <1>4, <1>9, <2>1, <2>4, <3>1
        DEF Only, Becomes, ConnCustody, At, connVars, sndVars
  <2> QED BY <1>9, <2>2, <2>3, <2>4
<1>13. WaitIsCurrent'
  BY <1>2, <1>5 DEF IndInv, WaitIsCurrent, allLun, lunVars
<1>14. Flags'
  <2>1. Flagged(task'[t])
    BY <1>1, <1>4, <1>9, NoneAssumption DEF Becomes, Marks, IndInv, Flags, Flagged
  <2> QED BY <1>1, <1>4, <1>9, <2>1, FlagsOne DEF Only, IndInv
<1>15. LuHolds'
  BY <1>5, NoneAssumption DEF LuHolds
<1>16. WorkerHolds'
  BY <1>1, <1>2, <1>4, WorkerHoldsFrame DEF Only, Becomes, connVars, sndVars
<1> QED BY <1>8, <1>10, <1>11, <1>12, <1>13, <1>14, <1>15, <1>16 DEF IndInv, Custody

(* The byte that announces a response touches task_pipe only, and the      *)
(* luworker returns without a task.                                        *)
LEMMA LuReplyPipeKeeps == ASSUME IndInv, LuReplyPipe PROVE IndInv'
<1>1. /\ lpc' \in {"start", "count"} /\ llun' \in Luns /\ scan' \in Luns \X (0 .. MaxLun)
      /\ again' \in BOOLEAN /\ ltask' = None /\ lconn' = None
  BY ReturnType DEF LuReplyPipe, IndInv
<1>2. ltask = None
  BY NoneAssumption DEF IndInv, LuHolds, LuReplyPipe
<1>3. UNCHANGED ltask
  BY <1>1, <1>2
<1>4. task_pipe' \in [Conns -> Seq({"Q", "E"})]
  BY WriteByteType DEF LuReplyPipe, IndInv
<1>5. TypeOK'
  BY <1>1, <1>4
  DEF LuReplyPipe, IndInv, TypeOK, LuPcs, connVars, sndVars, lunVars, allLun
<1>6. Custody' /\ Flags'
  BY <1>3, CustodyFrame DEF LuReplyPipe, allLun, lunVars, connVars, sndVars
<1>7. WaitIsCurrent'
  BY <1>1 DEF IndInv, WaitIsCurrent, LuReplyPipe, lunVars, allLun
<1>8. LuHolds'
  BY <1>1, NoneAssumption DEF LuHolds
<1>9. WorkerHolds'
  BY WorkerHoldsFrame DEF LuReplyPipe, connVars, sndVars
<1> QED BY <1>5, <1>6, <1>7, <1>8, <1>9 DEF IndInv

-----------------------------------------------------------------------------
(* The inductive invariant holds when the target has just started: no task *)
(* object exists and every thread is at the top of its loop.               *)
LEMMA InitKeeps == Init => IndInv
<1> SUFFICES ASSUME Init PROVE IndInv
  OBVIOUS
<1>1. /\ \A t \in Tasks : /\ task[t] = NewTask("none", None, 0, FALSE)
                          /\ task[t].stage = "none" /\ task[t].conn = None
      /\ \A c \in Conns : /\ wpc[c] = "poll" /\ exec_lu_task[c] = None /\ stask[c] = None
                          /\ spc[c] \in {"take", "done"}
                          /\ task_queue[c] = <<>> /\ result_queue[c] = <<>>
      /\ \A l \in Luns : cmd_queue[l] = <<>> /\ wait_lu_task[l] = None
  BY DEF Init, NewTask
<1>2. Distinct(<<>>) /\ \A t : ~InSeq(t, <<>>)
  BY DEF Distinct, InSeq
<1>3. 0 \in Luns /\ MaxLun \in 0 .. MaxLun
  BY LunAssumption DEF Luns
<1>4. TypeOK
  <2>1. NewTask("none", None, 0, FALSE) \in TaskRec
    BY <1>3 DEF NewTask, TaskRec, Stages
  <2>2. NoClr \in [kind: ClrKinds, lun: Luns, ref: Tasks \cup {None}, cold: BOOLEAN]
    BY <1>3 DEF NoClr, ClrKinds
  <2>3. \A S : <<>> \in Seq(S)
    OBVIOUS
  <2>4. /\ task \in [Tasks -> TaskRec]
        /\ clr \in [Conns -> [kind: ClrKinds, lun: Luns, ref: Tasks \cup {None}, cold: BOOLEAN]]
    BY <2>1, <2>2 DEF Init
  <2>5. /\ cmd_queue \in [Luns -> Seq(Tasks)] /\ wait_lu_task \in [Luns -> Tasks \cup {None}]
        /\ queue_check \in BOOLEAN /\ lu_mutex \in BOOLEAN
        /\ lpc \in LuPcs /\ llun \in Luns
        /\ scan \in Luns \X (0 .. MaxLun) /\ again \in BOOLEAN
        /\ ltask \in Tasks \cup {None} /\ lconn \in Conns \cup {None}
    BY <1>3, <2>3 DEF Init, LuPcs
  <2>6. /\ wpc \in [Conns -> WorkerPcs]
        /\ state \in [Conns -> {"RUNNING", "EXITING"}]
        /\ exec_lu_task \in [Conns -> Tasks \cup {None}]
        /\ running_tasks \in [Conns -> Nat]
        /\ spc \in [Conns -> {"take", "send", "done"}]
        /\ stask \in [Conns -> Tasks \cup {None}]
        /\ events \in 0 .. MaxEvents
    BY LunAssumption DEF Init, WorkerPcs
  <2>7. /\ task_queue \in [Conns -> Seq(Tasks)]
        /\ task_pipe \in [Conns -> Seq({"Q", "E"})]
        /\ result_queue \in [Conns -> Seq(Tasks)]
    BY <2>3 DEF Init
  <2> QED BY <2>4, <2>5, <2>6, <2>7 DEF TypeOK
<1>5. Custody
  <2>1. CmdCustody
    BY <1>1, <1>2 DEF CmdCustody, Queued
  <2>2. LuCustody
    BY <1>1 DEF Init, LuCustody
  <2>3. \A c \in Conns : ConnCustody(c)
    BY <1>1, <1>2, NoneAssumption DEF ConnCustody, At
  <2> QED BY <2>1, <2>2, <2>3 DEF Custody
<1>6. WaitIsCurrent
  BY <1>1 DEF WaitIsCurrent
<1>7. Flags
  BY <1>1 DEF Flags, NewTask
<1>8. LuHolds
  BY DEF Init, LuHolds
<1>9. WorkerHolds
  BY <1>1 DEF WorkerHolds, Holds
<1> QED BY <1>4, <1>5, <1>6, <1>7, <1>8, <1>9 DEF IndInv

(* Every step keeps the inductive invariant. *)
LEMMA NextKeeps == IndInv /\ [Next]_vars => IndInv'
<1> SUFFICES ASSUME IndInv, [Next]_vars PROVE IndInv'
  OBVIOUS
<1>1. CASE LuStep \/ LuTimeout \/ LuSpuriousWake
  BY <1>1, LuCountKeeps, LuIdleKeeps, LuWokenKeeps, LuDequeueEmptyKeeps, LuDequeueKeeps,
     LuPostKeeps, LuPostPipeKeeps, LuBeginWaitKeeps, LuTransWokenKeeps, LuExecBeginKeeps,
     LuExecEndKeeps, LuReplyKeeps, LuReplyPipeKeeps, LuTimeoutKeeps, LuSpuriousWakeKeeps
  DEF LuStep
<1>2. ASSUME NEW c \in Conns, Scsi(c) PROVE IndInv'
  BY <1>2, WkScsiKeeps DEF Scsi
<1>3. ASSUME NEW c \in Conns, WkStep(c) PROVE IndInv'
  BY <1>3, WkNoticeKeeps, WkNotifyKeeps, WkPipeKeeps, WkRespondOkKeeps, WkXferOkKeeps,
     WkClrLockKeeps, WkClrQueueKeeps, WkClrWaitKeeps, WkClBeginKeeps, WkWaitTaskKeeps,
     WkWaitEndKeeps, WkFreeKeeps DEF WkStep
<1>4. ASSUME NEW c \in Conns, SnStep(c) PROVE IndInv'
  BY <1>4, SnNoticeKeeps, SnTakeKeeps, SnSendOkKeeps DEF SnStep
<1>5. ASSUME NEW c \in Conns, Event(c) PROVE IndInv'
  BY <1>5, WkClearKeeps, WkResetKeeps, WkCloseKeeps, WkIoFailKeeps, SnSendFailKeeps,
     DropConnKeeps, StopConnKeeps DEF Event
<1>6. CASE UNCHANGED vars
  <2>1. UNCHANGED <<task, allLun, luVars, connVars, ioVars, sndVars, events>>
    BY <1>6 DEF vars
  <2>2. TypeOK'
    BY <2>1 DEF IndInv, TypeOK, allLun, lunVars, luVars, luRest, connVars, ioVars, sndVars
  <2>3. Custody' /\ Flags'
    BY <2>1, CustodyFrame DEF allLun, lunVars, luVars, luRest, connVars, ioVars, sndVars
  <2>4. WaitIsCurrent'
    BY <2>1 DEF IndInv, WaitIsCurrent, allLun, lunVars, luVars, luRest
  <2>5. LuHolds'
    BY <2>1, LuHoldsFrame DEF luVars, connVars
  <2>6. WorkerHolds'
    BY <2>1, WorkerHoldsFrame DEF connVars, sndVars
  <2> QED BY <2>2, <2>3, <2>4, <2>5, <2>6 DEF IndInv
<1> QED BY <1>1, <1>2, <1>3, <1>4, <1>5, <1>6 DEF Next

(* The inductive invariant holds in every state of the target. *)
THEOREM Invariance == Spec => []IndInv
<1> QED BY InitKeeps, NextKeeps, PTL DEF Spec

(* Every variable keeps its type: what the threads leave in the queues of  *)
(* a LUN and of a connection is always a sequence of tasks.                *)
THEOREM TypeCorrect == Spec => []TypeOK
<1>1. IndInv => TypeOK
  BY DEF IndInv
<1> QED BY <1>1, Invariance, PTL

(* However the luworker, the workers and the senders interleave, with task *)
(* management, failures and exits at any point: every queue and every      *)
(* thread's variable holds exactly the tasks that are there, no task is in *)
(* two queues or twice in one, and none that was freed is reached.         *)
THEOREM TasksInCustody == Spec => []Custody
<1>1. IndInv => Custody
  BY DEF IndInv
<1> QED BY <1>1, Invariance, PTL

(* spec->wait_lu_task never outlives the wait of the luworker, so that     *)
(* istgt_lu_disk_queue_clear_internal aborts no task that was freed.       *)
THEOREM WaitCurrent == Spec => []WaitIsCurrent
<1>1. IndInv => WaitIsCurrent
  BY DEF IndInv
<1> QED BY <1>1, Invariance, PTL

(* istgt_lu_disk_execute runs for a write only when the worker has         *)
(* delivered all its data, and for a failed command only if the failure is *)
(* an abort.                                                               *)
THEOREM DataFirst == Spec => []DataBeforeExecute
<1>1. IndInv => DataBeforeExecute
  BY DEF IndInv, LuHolds, DataBeforeExecute
<1> QED BY <1>1, Invariance, PTL

-----------------------------------------------------------------------------
(* The order of cmd_queue.                                                 *)

(* Elements that p and the distinct sequence q share are in the same order. *)
SameOrder(q, p) ==
  \A i, j \in DOMAIN q : i < j =>
    \A x, y \in DOMAIN p : p[x] = q[i] /\ p[y] = q[j] => x < y

(* What the operations on cmd_queue do to the order: the removal of the    *)
(* head, the insertion of a new task at either end, and a clear keep it.   *)
LEMMA TailOrder ==
  ASSUME NEW S, NEW q \in Seq(S), q # <<>>, Distinct(q)
  PROVE  SameOrder(q, Tail(q))
<1>1. /\ Len(q) \in Nat /\ DOMAIN q = 1 .. Len(q) /\ DOMAIN Tail(q) = 1 .. (Len(q) - 1)
      /\ \A i \in 1 .. (Len(q) - 1) : Tail(q)[i] = q[i + 1]
  OBVIOUS
<1>2. ASSUME NEW x \in DOMAIN Tail(q), NEW i \in DOMAIN q, Tail(q)[x] = q[i] PROVE i = x + 1
  <2>1. x + 1 \in DOMAIN q /\ q[x + 1] = q[i]
    BY <1>1, <1>2
  <2> QED BY <2>1 DEF Distinct
<1>3. \A x \in DOMAIN Tail(q) : x \in Int
  BY <1>1
<1> HIDE DEF Distinct
<1> QED BY <1>2, <1>3 DEF SameOrder

LEMMA AppendOrder ==
  ASSUME NEW S, NEW q \in Seq(S), NEW t \in S, Distinct(q), ~InSeq(t, q)
  PROVE  SameOrder(q, Append(q, t))
<1> DEFINE p == Append(q, t)
<1>1. /\ Len(q) \in Nat /\ DOMAIN q = 1 .. Len(q) /\ DOMAIN p = 1 .. (Len(q) + 1)
      /\ \A i \in 1 .. Len(q) : p[i] = q[i]
      /\ p[Len(q) + 1] = t
  OBVIOUS
<1> HIDE DEF p
<1>2. ASSUME NEW x \in DOMAIN p, NEW i \in DOMAIN q, p[x] = q[i] PROVE i = x
  <2>1. x # Len(q) + 1
    BY <1>1, <1>2 DEF InSeq
  <2>2. x \in DOMAIN q /\ q[x] = q[i]
    BY <1>1, <1>2, <2>1
  <2> QED BY <2>2 DEF Distinct
<1> QED BY <1>2 DEF SameOrder, p

LEMMA PrependOrder ==
  ASSUME NEW S, NEW q \in Seq(S), NEW t \in S, Distinct(q), ~InSeq(t, q)
  PROVE  SameOrder(q, <<t>> \o q)
<1> DEFINE p == <<t>> \o q
<1>1. /\ Len(q) \in Nat /\ DOMAIN q = 1 .. Len(q) /\ DOMAIN p = 1 .. (Len(q) + 1)
      /\ \A i \in 1 .. Len(q) : p[i + 1] = q[i]
      /\ p[1] = t
  OBVIOUS
<1> HIDE DEF p
<1>2. ASSUME NEW x \in DOMAIN p, NEW i \in DOMAIN q, p[x] = q[i] PROVE x = i + 1
  <2>1. x # 1
    BY <1>1, <1>2 DEF InSeq
  <2>2. x - 1 \in DOMAIN q /\ p[(x - 1) + 1] = q[x - 1] /\ (x - 1) + 1 = x /\ x \in Int
    BY <1>1, <2>1
  <2> QED BY <1>1, <1>2, <2>2 DEF Distinct
<1>3. \A i \in DOMAIN q : i \in Int
  BY <1>1
<1> QED BY <1>2, <1>3 DEF SameOrder, p

LEMMA SelectionOrder ==
  ASSUME NEW S, NEW q \in Seq(S), Distinct(q), NEW K \in SUBSET (1 .. Len(q)),
         NEW r \in Selections(q, K)
  PROVE  SameOrder(q, r)
<1> DEFINE n == Cardinality(K)
<1>1. PICK f \in [1 .. n -> K] :
        /\ \A i, j \in 1 .. n : i < j => f[i] < f[j]
        /\ r = [i \in 1 .. n |-> q[f[i]]]
  BY DEF Selections
<1>2. n \in Nat
  <2>1. IsFiniteSet(1 .. Len(q))
    BY FS_Interval
  <2>2. IsFiniteSet(K)
    BY <2>1, FS_Subset
  <2> QED BY <2>2, FS_CardinalityType
<1> HIDE DEF n
<1>3. DOMAIN q = 1 .. Len(q) /\ Len(q) \in Nat
  OBVIOUS
<1>4. ASSUME NEW x \in DOMAIN r, NEW i \in DOMAIN q, r[x] = q[i] PROVE x \in 1 .. n /\ f[x] = i
  <2>1. x \in 1 .. n /\ f[x] \in DOMAIN q /\ q[f[x]] = q[i]
    BY <1>1, <1>3, <1>4
  <2> QED BY <2>1 DEF Distinct
<1> SUFFICES ASSUME NEW i \in DOMAIN q, NEW j \in DOMAIN q, i < j,
                    NEW x \in DOMAIN r, NEW y \in DOMAIN r, r[x] = q[i], r[y] = q[j]
             PROVE  x < y
  BY DEF SameOrder
<1>5. x \in 1 .. n /\ y \in 1 .. n /\ f[x] < f[y] /\ f[x] \in Int /\ f[y] \in Int
  BY <1>3, <1>4
<1>6. y < x => f[y] < f[x]
  BY <1>1, <1>5
<1> QED BY <1>2, <1>5, <1>6

(* Every step keeps the order of the tasks that stay in a cmd_queue. *)
LEMMA NextOrder ==
  ASSUME IndInv, [Next]_vars, NEW l \in Luns
  PROVE  SameOrder(cmd_queue[l], cmd_queue'[l])
<1> DEFINE q == cmd_queue[l]
<1>1. q \in Seq(Tasks) /\ Distinct(q) /\ cmd_queue \in [Luns -> Seq(Tasks)]
  BY DEF IndInv, TypeOK, Custody, CmdCustody
<1>2. CASE cmd_queue'[l] = cmd_queue[l]
  <2>1. DOMAIN q = 1 .. Len(q) /\ Len(q) \in Nat
    BY <1>1
  <2> QED BY <1>1, <1>2, <2>1 DEF SameOrder, Distinct
<1>3. CASE LuDequeue
  <2>1. CASE l = llun
    BY <1>1, <1>3, <2>1, TailOrder DEF LuDequeue
  <2>2. CASE l # llun
    BY <1>1, <1>2, <1>3, <2>2 DEF LuDequeue
  <2> QED BY <2>1, <2>2
<1>4. ASSUME NEW c \in Conns, Scsi(c) PROVE SameOrder(cmd_queue[l], cmd_queue'[l])
  <2>1. PICK t \in Tasks, m \in Luns, w \in BOOLEAN, first \in BOOLEAN : WkScsi(c, t, m, w, first)
    BY <1>4 DEF Scsi
  <2>2. ~InSeq(t, q)
    BY <1>1, <2>1 DEF WkScsi, IndInv, Custody, CmdCustody, Queued
  <2>3. \/ cmd_queue'[l] = q
        \/ cmd_queue'[l] = <<t>> \o q
        \/ cmd_queue'[l] = Append(q, t)
    BY <1>1, <2>1 DEF WkScsi
  <2> QED BY <1>1, <1>2, <2>2, <2>3, AppendOrder, PrependOrder
<1>5. ASSUME NEW c \in Conns, WkClrQueue(c) PROVE SameOrder(cmd_queue[l], cmd_queue'[l])
  <2>1. CASE clr[c].lun = l
    <3> DEFINE Gone == {i \in 1 .. Len(q) : Matches(c, q[i])}
    <3>1. PICK r \in Selections(q, (1 .. Len(q)) \ Gone) : cmd_queue'[l] = r
      BY <1>1, <1>5, <2>1 DEF WkClrQueue
    <3>2. (1 .. Len(q)) \ Gone \in SUBSET (1 .. Len(q))
      OBVIOUS
    <3> HIDE DEF Gone
    <3> QED BY <1>1, <3>1, <3>2, SelectionOrder
  <2>2. CASE clr[c].lun # l
    BY <1>1, <1>2, <1>5, <2>2 DEF WkClrQueue
  <2> QED BY <2>1, <2>2
<1>6. CASE LuTimeout \/ LuSpuriousWake
  BY <1>2, <1>6 DEF LuTimeout, LuSpuriousWake, allLun, lunVars
<1>7. CASE LuStep
  <2>1. CASE ~LuDequeue
    BY <1>2, <1>7, <2>1 DEF LuStep, LuCount, LuIdle, LuWoken, LuDequeueEmpty, LuPost, LuPostPipe,
       LuBeginWait, LuTransWoken, LuExecBegin, LuExecEnd, LuReply, LuReplyPipe, allLun, lunVars
  <2> QED BY <1>3, <2>1
<1>8. ASSUME NEW c \in Conns, WkStep(c), ~WkClrQueue(c) PROVE cmd_queue'[l] = cmd_queue[l]
  BY <1>8 DEF WkStep, WkNotice, WkNotify, WkPipe, WkRespondOk, WkXferOk, WkClrLock, WkClrWait,
     WkClBegin, WkWaitTask, WkWaitEnd, WkFree, allLun, lunVars
<1>9. ASSUME NEW c \in Conns, SnStep(c) \/ Event(c) PROVE cmd_queue'[l] = cmd_queue[l]
  BY <1>9 DEF SnStep, SnNotice, SnTake, SnSendOk, Event, WkClear, WkReset, WkClose, WkIoFail,
     SnSendFail, DropConn, StopConn, allLun, lunVars
<1>10. CASE UNCHANGED vars
  BY <1>2, <1>10 DEF vars, allLun, lunVars
<1>11. CASE Next
  BY <1>2, <1>4, <1>5, <1>6, <1>7, <1>8, <1>9, <1>11 DEF Next
<1> QED BY <1>10, <1>11

(* No operation on cmd_queue, a clear between two others included, ever    *)
(* lets a task overtake another.                                           *)
THEOREM NoOvertaking == Spec => OrderKept
<1>1. ASSUME IndInv, [Next]_vars
      PROVE  [\A l \in Luns : \A i, j \in DOMAIN cmd_queue[l] : i < j =>
                \A x, y \in DOMAIN cmd_queue'[l] :
                  cmd_queue'[l][x] = cmd_queue[l][i] /\ cmd_queue'[l][y] = cmd_queue[l][j] => x < y]_vars
  BY <1>1, NextOrder DEF SameOrder
<1> QED BY <1>1, Invariance, PTL DEF Spec, OrderKept

-----------------------------------------------------------------------------
(* LunTasks implements TaskLife.                                           *)

(* Tasks whose status changes are dropped, if any. *)
OnlyDrops ==
  \A u \in Tasks : \/ Status(u)' = Status(u)
                   \/ Status(u) \in {"pending", "executed"} /\ Status(u)' = "dropped"

(* The task t goes on with its life and no other changes its status. *)
GoesOn(t) ==
  /\ \A u \in Tasks : u # t => Status(u)' = Status(u)
  /\ \/ Status(t) = "new" /\ Status(t)' = "pending"
     \/ Status(t) = "pending" /\ Status(t)' = "executed"
     \/ Status(t) = "executed" /\ Status(t)' = "answered"

(* Both are steps of TaskLife; OnlyDrops covers the steps that change no   *)
(* status at all.                                                          *)
LEMMA DropsAreLife == OnlyDrops => Life!Next
<1> DEFINE S == {u \in Tasks : Status(u)' # Status(u)}
<1>1. S \in SUBSET Tasks
  OBVIOUS
<1>2. ASSUME OnlyDrops PROVE Life!Drop(S)
  BY <1>2 DEF OnlyDrops, Life!Drop
<1> QED BY <1>1, <1>2 DEF Life!Next

LEMMA GoesOnIsLife ==
  ASSUME NEW t \in Tasks, GoesOn(t)
  PROVE  Life!Next
<1>1. Life!Accept(t) \/ Life!Execute(t) \/ Life!Answer(t)
  BY DEF GoesOn, Life!Accept, Life!Execute, Life!Answer, Life!Move
<1> QED BY <1>1 DEF Life!Next

(* A step that leaves the stage and the mark execute of a task alone does  *)
(* not change its status; nor does one that moves it between the stages of *)
(* a command in progress.                                                  *)
InProgress == {"queued", "lu", "posted", "xfer", "reply", "result", "sending"}

LEMMA StatusFacts ==
  ASSUME NEW u \in Tasks
  PROVE  /\ /\ task'[u].stage = task[u].stage \/ (task[u].stage \in InProgress /\ task'[u].stage \in InProgress)
            /\ task'[u].execute = task[u].execute
            => Status(u)' = Status(u)
         /\ task[u].stage \in InProgress => Status(u) = IF task[u].execute THEN "executed" ELSE "pending"
         /\ task'[u].stage \in InProgress => Status(u)' = IF task'[u].execute THEN "executed" ELSE "pending"
         /\ task[u].stage = "none" => Status(u) = "new"
         /\ task'[u].stage = "answered" => Status(u)' = "answered"
         /\ task'[u].stage \in {"lost", "cleared"} => Status(u)' = "dropped"
         /\ task[u].stage \in {"lost", "cleared"} => Status(u) = "dropped"
BY DEF Status, InProgress

(* Steps after which every task is in its stage, in another of a command   *)
(* in progress, or dropped from one of those.                              *)
LEMMA MovesAreDrops ==
  ASSUME \A u \in Tasks :
           /\ task'[u].execute = task[u].execute
           /\ \/ task'[u].stage = task[u].stage
              \/ task[u].stage \in InProgress /\ task'[u].stage \in InProgress
              \/ task[u].stage \in InProgress /\ task'[u].stage \in {"lost", "cleared"}
  PROVE  Life!Next
<1>1. OnlyDrops
  BY StatusFacts DEF OnlyDrops
<1> QED BY <1>1, DropsAreLife

(* One task changes its stage in that way. *)
LEMMA MoveIsDrop ==
  ASSUME TypeOK, NEW t \in Tasks, NEW s, NEW k,
         task' = [task EXCEPT ![t] = k],
         k.stage = s, k.execute = task[t].execute,
         \/ s = task[t].stage
         \/ task[t].stage \in InProgress /\ s \in InProgress \cup {"lost", "cleared"}
  PROVE  Life!Next
<1>1. \A u \in Tasks : task'[u] = IF u = t THEN k ELSE task[u]
  BY DEF TypeOK
<1> QED BY <1>1, MovesAreDrops

LEMMA NoMoveIsDrop == UNCHANGED task => Life!Next
<1> SUFFICES ASSUME UNCHANGED task PROVE Life!Next
  OBVIOUS
<1> QED BY MovesAreDrops

-----------------------------------------------------------------------------
(* The steps of the luworker: only LuExecEnd executes, and it executes a   *)
(* command that was neither executed nor dropped.                          *)
LEMMA LuLife ==
  ASSUME IndInv, LuStep \/ LuTimeout \/ LuSpuriousWake
  PROVE  Life!Next
<1> DEFINE k == task[ltask]
<1>1. ASSUME ltask # None
      PROVE  ltask \in Tasks /\ k \in TaskRec /\ k.stage \in {"lu", "posted", "xfer", "lost"}
  BY <1>1, LuTask, TaskTypes DEF IndInv
<1>2. CASE \/ LuCount \/ LuIdle \/ LuWoken \/ LuSpuriousWake \/ LuDequeueEmpty
           \/ LuPostPipe \/ LuBeginWait \/ LuExecBegin \/ LuReplyPipe
  <2>1. UNCHANGED task
    BY <1>2 DEF LuCount, LuIdle, LuWoken, LuSpuriousWake, LuDequeueEmpty,
       LuPostPipe, LuBeginWait, LuExecBegin, LuReplyPipe
  <2> QED BY <2>1, NoMoveIsDrop
<1>3. CASE LuDequeue
  <2> DEFINE t == Head(cmd_queue[llun])
             r == [task[t] EXCEPT !.stage = "lu", !.req_transfer_out = task[t].write]
  <2>1. /\ llun \in Luns /\ t \in Tasks /\ task[t] \in TaskRec /\ task[t].stage = "queued"
    <3>1. t \in Tasks /\ InSeq(t, cmd_queue[llun]) /\ llun \in Luns
      BY <1>3, TailFacts DEF LuDequeue, IndInv, TypeOK
    <3> QED BY <3>1, TaskTypes DEF IndInv, Custody, CmdCustody, Queued
  <2>2. task' = [task EXCEPT ![t] = r] /\ r.stage = "lu" /\ r.execute = task[t].execute
    BY <1>3, <2>1 DEF LuDequeue, IndInv, TypeOK, TaskRec
  <2> QED BY <2>1, <2>2, MoveIsDrop DEF IndInv, InProgress
<1>4. CASE LuPost
  <2> DEFINE s == IF Alive(lconn) THEN "posted" ELSE "lost"
  <2>1. ltask # None /\ k.stage = "lu"
    BY <1>4 DEF LuPost, IndInv, LuHolds
  <2>2. /\ task' = [task EXCEPT ![ltask] = [k EXCEPT !.stage = s]]
        /\ [k EXCEPT !.stage = s].stage = s /\ [k EXCEPT !.stage = s].execute = k.execute
    BY <1>1, <1>4, <2>1 DEF LuPost, PostTask, IndInv, TypeOK, TaskRec
  <2> QED BY <1>1, <2>1, <2>2, MoveIsDrop DEF IndInv, InProgress
<1>5. CASE LuTransWoken
  <2> DEFINE s == IF k.stage = "lu" THEN "lost" ELSE k.stage
  <2>1. ltask # None
    BY <1>5 DEF LuTransWoken, IndInv, LuHolds
  <2>2. \/ UNCHANGED task
        \/ /\ task' = [task EXCEPT ![ltask] = [k EXCEPT !.stage = s]]
           /\ [k EXCEPT !.stage = s].stage = s /\ [k EXCEPT !.stage = s].execute = k.execute
    BY <1>1, <1>5, <2>1 DEF LuTransWoken, IndInv, TypeOK, TaskRec
  <2> QED BY <1>1, <2>1, <2>2, MoveIsDrop, NoMoveIsDrop DEF IndInv, InProgress
<1>6. CASE LuTimeout
  <2> DEFINE r == [k EXCEPT !.error = TRUE]
  <2>1. ltask # None
    BY <1>6 DEF LuTimeout, IndInv, LuHolds
  <2>2. \/ UNCHANGED task
        \/ task' = [task EXCEPT ![ltask] = r] /\ r.stage = k.stage /\ r.execute = k.execute
    BY <1>1, <1>6, <2>1 DEF LuTimeout, IndInv, TypeOK, TaskRec
  <2> QED BY <1>1, <2>1, <2>2, MoveIsDrop, NoMoveIsDrop DEF IndInv
<1>7. CASE LuExecEnd
  <2>1. ltask # None /\ k.stage = "lu" /\ ~k.execute
    BY <1>7 DEF LuExecEnd, IndInv, LuHolds
  <2>2. /\ \A u \in Tasks : u # ltask => task'[u] = task[u]
        /\ task'[ltask].stage = "lu" /\ task'[ltask].execute
    BY <1>1, <1>7, <2>1 DEF LuExecEnd, IndInv, TypeOK, TaskRec
  <2>3. PICK t \in Tasks : t = ltask
    BY <1>1, <2>1
  <2>4. GoesOn(t)
    <3>1. \A u \in Tasks : u # t => Status(u)' = Status(u)
      BY <2>2, <2>3, StatusFacts
    <3>2. Status(t) = "pending" /\ Status(t)' = "executed"
      BY <2>1, <2>2, <2>3, StatusFacts DEF InProgress
    <3> QED BY <3>1, <3>2 DEF GoesOn
  <2> QED BY <2>4, GoesOnIsLife
<1>8. CASE LuReply
  <2> DEFINE s == IF Alive(lconn) THEN IF UseSender THEN "result" ELSE "reply" ELSE "lost"
  <2>1. ltask # None /\ k.stage = "lu"
    BY <1>8 DEF LuReply, IndInv, LuHolds
  <2>2. /\ task' = [task EXCEPT ![ltask] = [k EXCEPT !.stage = s]]
        /\ [k EXCEPT !.stage = s].stage = s /\ [k EXCEPT !.stage = s].execute = k.execute
    BY <1>1, <1>8, <2>1 DEF LuReply, PostTask, IndInv, TypeOK, TaskRec
  <2> QED BY <1>1, <2>1, <2>2, MoveIsDrop DEF IndInv, InProgress
<1> QED BY <1>2, <1>3, <1>4, <1>5, <1>6, <1>7, <1>8 DEF LuStep

(* A command that arrives is accepted, unless the queue is full. *)
LEMMA ScsiLife ==
  ASSUME IndInv, NEW c \in Conns, Scsi(c)
  PROVE  Life!Next
<1>1. PICK t \in Tasks, l \in Luns, w \in BOOLEAN, first \in BOOLEAN : WkScsi(c, t, l, w, first)
  BY DEF Scsi
<1>2. CASE UNCHANGED task
  BY <1>2, NoMoveIsDrop
<1>3. CASE task' = [task EXCEPT ![t] = NewTask("queued", c, l, w)]
  <2>1. /\ \A u \in Tasks : u # t => task'[u] = task[u]
        /\ task'[t].stage = "queued" /\ ~task'[t].execute /\ task[t].stage = "none"
    BY <1>1, <1>3 DEF WkScsi, NewTask, IndInv, TypeOK
  <2>2. GoesOn(t)
    <3>1. \A u \in Tasks : u # t => Status(u)' = Status(u)
      BY <2>1, StatusFacts
    <3>2. Status(t) = "new" /\ Status(t)' = "pending"
      BY <2>1, StatusFacts DEF InProgress
    <3> QED BY <3>1, <3>2 DEF GoesOn
  <2> QED BY <2>2, GoesOnIsLife
<1> QED BY <1>1, <1>2, <1>3 DEF WkScsi

(* What exec_lu_task and the sender hold is in progress. *)
LEMMA HeldInProgress ==
  ASSUME IndInv, NEW c \in Conns
  PROVE  /\ exec_lu_task[c] # None =>
              /\ exec_lu_task[c] \in Tasks /\ task[exec_lu_task[c]] \in TaskRec
              /\ task[exec_lu_task[c]].stage \in {"xfer", "reply"}
         /\ spc[c] = "send" =>
              /\ stask[c] \in Tasks /\ task[stask[c]] \in TaskRec
              /\ task[stask[c]].stage = "sending" /\ task[stask[c]].execute
<1>1. spc[c] = "send" => stask[c] # None
  BY DEF IndInv, WorkerHolds, Holds
<1> QED BY <1>1, Holder, TaskTypes DEF IndInv, At, Flags

(* The steps of a worker: only WkRespondOk answers, and it answers a       *)
(* command that was executed and not dropped.                              *)
LEMMA WkLife ==
  ASSUME IndInv, NEW c \in Conns, WkStep(c)
  PROVE  Life!Next
<1> DEFINE t == exec_lu_task[c]
           k == task[t]
           h == Head(task_queue[c])
<1>1. t # None => t \in Tasks /\ k \in TaskRec /\ k.stage \in {"xfer", "reply"}
  BY HeldInProgress
<1>2. task_queue[c] # <<>> =>
        h \in Tasks /\ task[h] \in TaskRec /\ task[h].stage \in {"posted", "reply"}
  <2>1. ASSUME task_queue[c] # <<>> PROVE h \in Tasks /\ InSeq(h, task_queue[c])
    BY <2>1, TailFacts DEF IndInv, TypeOK
  <2> QED BY <2>1, TaskTypes DEF IndInv, Custody, ConnCustody, At
<1>3. CASE WkNotice(c) \/ WkNotify(c) \/ WkClrLock(c) \/ WkWaitEnd(c)
  <2>1. UNCHANGED task
    BY <1>3 DEF WkNotice, WkNotify, WkClrLock, WkWaitEnd
  <2> QED BY <2>1, NoMoveIsDrop
<1>4. CASE WkPipe(c)
  <2> DEFINE r == [task[h] EXCEPT !.stage = "xfer"]
  <2>1. CASE UNCHANGED task
    BY <2>1, NoMoveIsDrop
  <2>2. CASE task_queue[c] # <<>> /\ task' = [task EXCEPT ![h].stage = "xfer"]
    <3>1. task' = [task EXCEPT ![h] = r] /\ r.stage = "xfer" /\ r.execute = task[h].execute
      BY <1>2, <2>2 DEF IndInv, TypeOK, TaskRec
    <3> QED BY <1>2, <2>2, <3>1, MoveIsDrop DEF IndInv, InProgress
  <2> QED BY <1>4, <2>1, <2>2 DEF WkPipe
<1>5. CASE WkRespondOk(c)
  <2>1. t # None /\ k.stage = "reply" /\ k.execute
    BY <1>1, <1>5, Holder DEF WkRespondOk, IndInv, WorkerHolds, Holds, At, Flags
  <2>2. PICK u \in Tasks : u = t
    BY <1>1, <2>1
  <2>3. /\ \A x \in Tasks : x # u => task'[x] = task[x]
        /\ task'[u].stage = "answered"
    BY <1>1, <1>5, <2>1, <2>2 DEF WkRespondOk, IndInv, TypeOK, TaskRec
  <2>4. GoesOn(u)
    <3>1. \A x \in Tasks : x # u => Status(x)' = Status(x)
      BY <2>3, StatusFacts
    <3>2. Status(u) = "executed" /\ Status(u)' = "answered"
      BY <2>1, <2>2, <2>3, StatusFacts DEF InProgress
    <3> QED BY <3>1, <3>2 DEF GoesOn
  <2> QED BY <2>4, GoesOnIsLife
<1>6. CASE WkXferOk(c)
  <2> DEFINE s == IF ltask = t THEN "lu" ELSE "lost"
             r == [k EXCEPT !.req_transfer_out = FALSE, !.req_execute = TRUE, !.stage = s]
  <2>1. t # None
    BY <1>6 DEF WkXferOk, IndInv, WorkerHolds, Holds
  <2>2. task' = [task EXCEPT ![t] = r] /\ r.stage = s /\ r.execute = k.execute
    BY <1>1, <1>6, <2>1 DEF WkXferOk, IndInv, TypeOK, TaskRec
  <2> QED BY <1>1, <2>1, <2>2, MoveIsDrop DEF IndInv, InProgress
<1>7. CASE WkClrQueue(c)
  <2> DEFINE q == cmd_queue[clr[c].lun]
             Gone == {i \in 1 .. Len(q) : Matches(c, q[i])}
  <2>1. task' = [u \in Tasks |-> IF \E i \in Gone : q[i] = u
                                   THEN [task[u] EXCEPT !.stage = "cleared"] ELSE task[u]]
    BY <1>7 DEF WkClrQueue
  <2>2. ASSUME NEW u \in Tasks, NEW i \in Gone, q[i] = u
        PROVE  task[u].stage = "queued"
    <3>1. clr[c].lun \in Luns /\ InSeq(u, q)
      BY <2>2 DEF IndInv, TypeOK, InSeq
    <3> QED BY <3>1 DEF IndInv, Custody, CmdCustody, Queued
  <2> HIDE DEF Gone, q
  <2>3. ASSUME NEW u \in Tasks
        PROVE  /\ task'[u].execute = task[u].execute
               /\ \/ task'[u].stage = task[u].stage
                  \/ task[u].stage = "queued" /\ task'[u].stage = "cleared"
    <3>1. task[u] \in TaskRec
      BY TaskTypes DEF IndInv
    <3> QED BY <2>1, <2>2, <3>1 DEF TaskRec
  <2> QED BY <2>3, MovesAreDrops DEF InProgress
<1>8. CASE WkClrWait(c)
  <2> DEFINE u == wait_lu_task[clr[c].lun]
             r == [task[u] EXCEPT !.error = TRUE, !.abort = TRUE]
  <2>1. u \in Tasks \cup {None}
    BY DEF IndInv, TypeOK
  <2>2. \/ UNCHANGED task
        \/ u # None /\ task' = [task EXCEPT ![u].error = TRUE, ![u].abort = TRUE]
    BY <1>8 DEF WkClrWait, AbortWaiting
  <2>3. u # None => task[u] \in TaskRec
    BY <2>1 DEF IndInv, TypeOK
  <2>4. \/ UNCHANGED task
        \/ /\ u # None /\ task' = [task EXCEPT ![u] = r]
           /\ r.stage = task[u].stage /\ r.execute = task[u].execute
    BY <2>1, <2>2, <2>3 DEF IndInv, TypeOK, TaskRec
  <2> QED BY <2>1, <2>4, MoveIsDrop, NoMoveIsDrop DEF IndInv
<1>9. CASE WkClBegin(c)
  <2> DEFINE r == [k EXCEPT !.error = TRUE]
  <2>1. \/ UNCHANGED task
        \/ /\ t # None /\ task' = [task EXCEPT ![t] = r]
           /\ r.stage = k.stage /\ r.execute = k.execute
    BY <1>1, <1>9 DEF WkClBegin, IndInv, TypeOK, TaskRec
  <2> QED BY <1>1, <2>1, MoveIsDrop, NoMoveIsDrop DEF IndInv
<1>10. CASE WkWaitTask(c)
  <2> DEFINE last == task[h].req_execute /\ running_tasks[c] = 1
             s == IF last THEN "lost" ELSE "cleared"
             r == [task[h] EXCEPT !.error = TRUE, !.abort = TRUE, !.stage = "lost"]
             f == [task[h] EXCEPT !.stage = s]
  <2>1. CASE UNCHANGED task
    BY <2>1, NoMoveIsDrop
  <2>2. CASE /\ task_queue[c] # <<>>
             /\ \/ task' = [task EXCEPT ![h].error = TRUE, ![h].abort = TRUE, ![h].stage = "lost"]
                \/ task' = [task EXCEPT ![h].stage = s]
    <3>1. \/ task' = [task EXCEPT ![h] = r] /\ r.stage = "lost" /\ r.execute = task[h].execute
          \/ task' = [task EXCEPT ![h] = f] /\ f.stage = s /\ f.execute = task[h].execute
      BY <1>2, <2>2 DEF IndInv, TypeOK, TaskRec
    <3>2. /\ h \in Tasks /\ task[h].stage \in InProgress
          /\ "lost" \in InProgress \cup {"lost", "cleared"} /\ s \in InProgress \cup {"lost", "cleared"}
      BY <1>2, <2>2 DEF InProgress
    <3> HIDE DEF h, r, f, s
    <3> QED BY <3>1, <3>2, MoveIsDrop DEF IndInv
  <2> QED BY <1>10, <2>1, <2>2 DEF WkWaitTask
<1>11. CASE WkFree(c)
  <2> DEFINE Gone(u) == \/ \E i \in DOMAIN task_queue[c] : task_queue[c][i] = u
                        \/ \E i \in DOMAIN result_queue[c] : result_queue[c][i] = u
                        \/ exec_lu_task[c] = u
  <2>1. task' = [u \in Tasks |-> IF Gone(u) THEN [task[u] EXCEPT !.stage = "lost"] ELSE task[u]]
    BY <1>11 DEF WkFree
  <2>2. ASSUME NEW u \in Tasks, Gone(u)
        PROVE  task[u].stage \in InProgress
    BY <2>2 DEF IndInv, Custody, ConnCustody, At, InSeq, InProgress
  <2> HIDE DEF Gone
  <2>3. ASSUME NEW u \in Tasks
        PROVE  /\ task'[u].execute = task[u].execute
               /\ \/ task'[u].stage = task[u].stage
                  \/ task[u].stage \in InProgress /\ task'[u].stage = "lost"
    <3>1. task[u] \in TaskRec
      BY TaskTypes DEF IndInv
    <3> QED BY <2>1, <2>2, <3>1 DEF TaskRec
  <2> QED BY <2>3, MovesAreDrops
<1> QED BY <1>3, <1>4, <1>5, <1>6, <1>7, <1>8, <1>9, <1>10, <1>11 DEF WkStep

(* The steps of a sender: SnSendOk answers the command it holds, which was *)
(* executed, and takes the next.                                           *)
LEMMA SnLife ==
  ASSUME IndInv, NEW c \in Conns, SnStep(c)
  PROVE  Life!Next
<1> DEFINE q == result_queue[c]
           h == Head(q)
<1>1. q # <<>> => h \in Tasks /\ task[h] \in TaskRec /\ task[h].stage = "result"
  <2>1. ASSUME q # <<>> PROVE h \in Tasks /\ InSeq(h, q)
    BY <2>1, TailFacts DEF IndInv, TypeOK
  <2> QED BY <2>1, TaskTypes DEF IndInv, Custody, ConnCustody, At
<1>2. CASE SnNotice(c)
  BY <1>2, NoMoveIsDrop DEF SnNotice
<1>3. CASE SnTake(c)
  <2> DEFINE r == [task[h] EXCEPT !.stage = "sending"]
  <2>1. q # <<>> /\ task' = [task EXCEPT ![h] = r] /\ r.stage = "sending" /\ r.execute = task[h].execute
    BY <1>1, <1>3 DEF SnTake, IndInv, TypeOK, TaskRec
  <2> QED BY <1>1, <2>1, MoveIsDrop DEF IndInv, InProgress
<1>4. CASE SnSendOk(c)
  <2>1. PICK t \in Tasks : t = stask[c]
    BY <1>4, HeldInProgress DEF SnSendOk
  <2>2. task[t] \in TaskRec /\ task[t].stage = "sending" /\ task[t].execute
    BY <1>4, <2>1, HeldInProgress DEF SnSendOk
  <2>3. \A u \in Tasks : task'[u] =
           IF u = t THEN [task[u] EXCEPT !.stage = "answered"]
           ELSE IF state[c] = "RUNNING" /\ q # <<>> /\ u = h
                  THEN [task[u] EXCEPT !.stage = "sending"] ELSE task[u]
    BY <1>4, <2>1 DEF SnSendOk
  <2>4. task'[t].stage = "answered"
    BY <2>2, <2>3 DEF TaskRec
  <2>5. ASSUME NEW u \in Tasks, u # t
        PROVE  /\ task'[u].execute = task[u].execute
               /\ \/ task'[u].stage = task[u].stage
                  \/ task[u].stage = "result" /\ task'[u].stage = "sending"
    <3>1. task[u] \in TaskRec
      BY TaskTypes DEF IndInv
    <3> QED BY <1>1, <2>3, <2>5, <3>1 DEF TaskRec
  <2>6. GoesOn(t)
    <3>1. \A u \in Tasks : u # t => Status(u)' = Status(u)
      BY <2>5, StatusFacts DEF InProgress
    <3>2. Status(t) = "executed" /\ Status(t)' = "answered"
      BY <2>2, <2>4, StatusFacts DEF InProgress
    <3> QED BY <3>1, <3>2 DEF GoesOn
  <2> QED BY <2>6, GoesOnIsLife
<1> QED BY <1>2, <1>3, <1>4 DEF SnStep

(* Task management, failures and exits drop commands, or change none. *)
LEMMA EventLife ==
  ASSUME IndInv, NEW c \in Conns, Event(c)
  PROVE  Life!Next
<1>1. CASE WkIoFail(c)
  <2> DEFINE t == exec_lu_task[c]
             r == [task[t] EXCEPT !.error = TRUE]
  <2>1. t # None
    BY <1>1 DEF WkIoFail, IndInv, WorkerHolds, Holds
  <2>2. task' = [task EXCEPT ![t] = r] /\ r.stage = task[t].stage /\ r.execute = task[t].execute
    BY <1>1, <2>1, HeldInProgress DEF WkIoFail, IndInv, TypeOK, TaskRec
  <2> QED BY <2>1, <2>2, HeldInProgress, MoveIsDrop DEF IndInv
<1>2. CASE SnSendFail(c)
  <2> DEFINE t == stask[c]
             r == [task[t] EXCEPT !.error = TRUE, !.stage = "lost"]
  <2>1. t \in Tasks /\ task[t] \in TaskRec /\ task[t].stage = "sending"
    BY <1>2, HeldInProgress DEF SnSendFail
  <2>2. task' = [task EXCEPT ![t] = r] /\ r.stage = "lost" /\ r.execute = task[t].execute
    BY <1>2, <2>1 DEF SnSendFail, IndInv, TypeOK, TaskRec
  <2> QED BY <2>1, <2>2, MoveIsDrop DEF IndInv, InProgress
<1>3. CASE ~(WkIoFail(c) \/ SnSendFail(c))
  <2>1. UNCHANGED task
    BY <1>3 DEF Event, WkClear, WkReset, WkClose, DropConn, StopConn
  <2> QED BY <2>1, NoMoveIsDrop
<1> QED BY <1>1, <1>2, <1>3

(* From the first state on, and at every step of any of the threads, each  *)
(* SCSI command lives the life that TaskLife allows: this is the promise   *)
(* of the target to its initiators as far as safety goes.                  *)
THEOREM EveryTaskLives == Spec => ImplementsTaskLife
<1>1. Init => Life!Init
  BY DEF Init, NewTask, Status, Life!Init
<1>2. ASSUME IndInv, [Next]_vars
      PROVE  [Life!Next]_([t \in Tasks |-> Status(t)])
  <2>1. CASE Next
    <3>1. CASE LuStep \/ LuTimeout \/ LuSpuriousWake
      BY <1>2, <3>1, LuLife
    <3>2. ASSUME NEW c \in Conns, Scsi(c) \/ WkStep(c) \/ SnStep(c) \/ Event(c)
          PROVE  Life!Next
      BY <1>2, <3>2, ScsiLife, WkLife, SnLife, EventLife
    <3> QED BY <2>1, <3>1, <3>2 DEF Next
  <2>2. CASE UNCHANGED vars
    BY <2>2, NoMoveIsDrop DEF vars
  <2> QED BY <1>2, <2>1, <2>2
<1> QED BY <1>1, <1>2, Invariance, PTL DEF Spec, ImplementsTaskLife, Life!Spec

-----------------------------------------------------------------------------
(* No lost wake-up.                                                        *)

(* The LUNs that istgt_lu_disk_queue_count will still look at.             *)
Ahead(l) == l - scan[1] \in 0 .. scan[2] \/ l + MaxLun - scan[1] \in 0 .. scan[2]

(* A LUN with a task is known to a worker that is about to say so, marked  *)
(* by queue_check, or still to be looked at, whenever the luworker may go  *)
(* to sleep next.                                                          *)
Heeded ==
  /\ lpc = "wait" => ~queue_check
  /\ \A l \in Luns : cmd_queue[l] # <<>> /\ lpc \in {"count", "idle", "wait"} =>
       \/ \E c \in Conns : wpc[c] = "notify"
       \/ queue_check
       \/ lpc = "count" /\ Ahead(l)

(* istgt_lu_disk_queue_count begins with all LUNs ahead of it. *)
LEMMA ScanAhead ==
  ASSUME NEW pc, NEW n \in 0 .. MaxLun, StartScan(pc, n)
  PROVE  lpc' = pc /\ \A l \in Luns : Ahead(l)'
<1> DEFINE first == IF n >= MaxLun THEN 0 ELSE n
<1>1. first \in 0 .. MaxLun - 1 /\ MaxLun \in Nat
  BY LunAssumption
<1>2. scan'[1] = first /\ scan'[2] = MaxLun /\ lpc' = pc
  BY DEF StartScan
<1> HIDE DEF first
<1>3. ASSUME NEW l \in Luns PROVE Ahead(l)'
  <2>1. l \in 0 .. MaxLun - 1
    BY DEF Luns
  <2> QED BY <1>1, <1>2, <2>1 DEF Ahead
<1> QED BY <1>2, <1>3

LEMMA ReturnAhead ==
  ASSUME TypeOK, NEW ok, Return(ok)
  PROVE  lpc' = "start" \/ (lpc' = "count" /\ \A l \in Luns : Ahead(l)')
<1>1. llun + 1 \in 0 .. MaxLun
  BY LunAssumption DEF TypeOK, Luns
<1> QED BY <1>1, ScanAhead DEF Return

(* Steps that add no task to a queue.                                      *)
LEMMA HeededFrame ==
  ASSUME Heeded,
         \A l \in Luns : cmd_queue'[l] # <<>> => cmd_queue[l] # <<>>,
         \A x \in Conns : wpc[x] = "notify" => wpc'[x] = "notify",
         \/ lpc' \notin {"count", "idle", "wait"}
         \/ lpc' = lpc /\ UNCHANGED <<queue_check, scan>>
         \/ lpc' = "count" /\ \A l \in Luns : Ahead(l)'
  PROVE  Heeded'
<1>1. lpc' = lpc /\ UNCHANGED scan => \A l \in Luns : Ahead(l)' <=> Ahead(l)
  BY DEF Ahead
<1> QED BY <1>1 DEF Heeded

LEMMA CountHeeded == ASSUME IndInv, Heeded, LuCount PROVE Heeded'
<1> DEFINE p == scan[1]
           k == scan[2]
           n == Len(cmd_queue[p])
<1>1. p \in 0 .. MaxLun - 1 /\ k \in 0 .. MaxLun /\ MaxLun \in Nat \ {0} /\ p \in Luns /\ llun \in 0 .. MaxLun
  BY LunAssumption DEF IndInv, TypeOK, Luns
<1>2. cmd_queue[p] \in Seq(Tasks) /\ n \in Nat /\ (n = 0 => cmd_queue[p] = <<>>)
  BY <1>1 DEF IndInv, TypeOK
<1>3. UNCHANGED <<cmd_queue, queue_check, wpc>> /\ lpc \in {"count", "recount"}
  BY DEF LuCount, allLun, lunVars, connVars
<1>4. CASE n > 0
  BY <1>2, <1>3, <1>4, HeededFrame DEF LuCount
<1>5. CASE n = 0 /\ k > 0
  <2> DEFINE next == IF p + 1 >= MaxLun THEN 0 ELSE p + 1
  <2>1. lpc' = lpc /\ scan'[1] = next /\ scan'[2] = k - 1
    BY <1>5 DEF LuCount
  <2>2. ASSUME NEW l \in Luns, l # p, Ahead(l) PROVE Ahead(l)'
    <3>1. l \in 0 .. MaxLun - 1
      BY DEF Luns
    <3>2. \/ l - p \in 1 .. k
          \/ l - p < 0 /\ l + MaxLun - p \in 1 .. k
          \/ l - p > 0 /\ l + MaxLun - p \in 1 .. k
      BY <1>1, <2>2, <3>1 DEF Ahead
    <3>3. l - next \in 0 .. k - 1 \/ l + MaxLun - next \in 0 .. k - 1
      <4>1. CASE p + 1 >= MaxLun
        BY <1>1, <3>1, <3>2, <4>1
      <4>2. CASE ~(p + 1 >= MaxLun)
        BY <1>1, <3>1, <3>2, <4>2
      <4> QED BY <4>1, <4>2
    <3> QED BY <2>1, <3>3 DEF Ahead
  <2> HIDE DEF next
  <2> QED BY <1>2, <1>3, <1>5, <2>1, <2>2 DEF Heeded
<1>6. CASE n = 0 /\ k = 0 /\ lpc = "count"
  <2>1. lpc' = "idle"
    BY <1>6 DEF LuCount
  <2>2. ASSUME NEW l \in Luns, Ahead(l) PROVE l = p
    BY <1>1, <1>6, <2>2 DEF Ahead, Luns
  <2> QED BY <1>2, <1>3, <1>6, <2>1, <2>2 DEF Heeded
<1>7. CASE n = 0 /\ k = 0 /\ lpc = "recount"
  <2>1. StartScan("count", llun)
    BY <1>7 DEF LuCount
  <2>2. lpc' = "count" /\ \A l \in Luns : Ahead(l)'
    BY <1>1, <2>1, ScanAhead, LunAssumption DEF Luns
  <2> QED BY <1>3, <2>2, HeededFrame
<1> QED BY <1>1, <1>2, <1>3, <1>4, <1>5, <1>6, <1>7

LEMMA LuHeeded ==
  ASSUME IndInv, Heeded, LuStep \/ LuTimeout \/ LuSpuriousWake
  PROVE  Heeded'
<1>1. TypeOK /\ llun \in 0 .. MaxLun
  <2>1. TypeOK /\ llun \in Luns
    BY DEF IndInv, TypeOK
  <2> QED BY <2>1, LunAssumption DEF Luns
<1>2. UNCHANGED wpc
  BY DEF LuStep, LuCount, LuIdle, LuWoken, LuDequeueEmpty, LuDequeue, LuPost, LuPostPipe, LuBeginWait,
     LuTransWoken, LuTimeout, LuSpuriousWake, LuExecBegin, LuExecEnd, LuReply, LuReplyPipe, connVars
<1>3. CASE LuIdle
  <2>1. UNCHANGED cmd_queue /\ lpc = "idle" /\ ~queue_check'
    BY <1>3 DEF LuIdle
  <2>2. CASE queue_check
    <3>1. StartScan("count", llun)
      BY <1>3, <2>2 DEF LuIdle
    <3>2. lpc' = "count" /\ \A l \in Luns : Ahead(l)'
      BY <1>1, <3>1, ScanAhead
    <3> QED BY <1>2, <2>1, <3>2, HeededFrame
  <2>3. CASE ~queue_check
    BY <1>2, <1>3, <2>1, <2>3 DEF LuIdle, Heeded
  <2> QED BY <2>2, <2>3
<1>4. CASE LuDequeue
  <2>1. \A l \in Luns : cmd_queue'[l] # <<>> => cmd_queue[l] # <<>>
    BY <1>1, <1>4 DEF LuDequeue, TypeOK
  <2>2. lpc' \in {"post", "exec_lock"}
    BY <1>4 DEF LuDequeue
  <2> QED BY <1>2, <2>1, <2>2, HeededFrame
<1>5. CASE LuDequeueEmpty \/ LuTransWoken \/ LuTimeout \/ LuReply \/ LuReplyPipe
  <2>1. UNCHANGED cmd_queue
    BY <1>5 DEF LuDequeueEmpty, LuTransWoken, LuTimeout, LuReply, LuReplyPipe, allLun, lunVars
  <2>2. (\E ok : Return(ok)) \/ lpc' \in {"twait", "exec_lock", "reply_pipe"}
    BY <1>5 DEF LuDequeueEmpty, LuTransWoken, LuTimeout, LuReply, LuReplyPipe
  <2>3. \/ lpc' \notin {"count", "idle", "wait"}
        \/ lpc' = "count" /\ \A l \in Luns : Ahead(l)'
    BY <1>1, <2>2, ReturnAhead
  <2> QED BY <1>2, <2>1, <2>3, HeededFrame
<1>6. CASE LuWoken \/ LuPost \/ LuPostPipe \/ LuBeginWait \/ LuExecBegin \/ LuExecEnd \/ LuSpuriousWake
  <2>1. UNCHANGED cmd_queue
    BY <1>6 DEF LuWoken, LuPost, LuPostPipe, LuBeginWait, LuExecBegin, LuExecEnd, LuSpuriousWake, allLun, lunVars
  <2>2. lpc' \notin {"count", "idle", "wait"}
    BY <1>6 DEF LuWoken, StartScan, LuPost, LuPostPipe, LuBeginWait, LuExecBegin, LuExecEnd, LuSpuriousWake
  <2> QED BY <1>2, <2>1, <2>2, HeededFrame
<1> QED BY <1>3, <1>4, <1>5, <1>6, CountHeeded DEF LuStep

LEMMA ConnHeeded ==
  ASSUME IndInv, Heeded, NEW c \in Conns, Scsi(c) \/ WkStep(c) \/ SnStep(c) \/ Event(c)
  PROVE  Heeded'
<1>1. TypeOK
  BY DEF IndInv
<1>2. CASE Scsi(c)
  <2>1. PICK t \in Tasks, m \in Luns, w \in BOOLEAN, first \in BOOLEAN : WkScsi(c, t, m, w, first)
    BY <1>2 DEF Scsi
  <2>2. UNCHANGED <<lpc, queue_check, scan>> /\ wpc[c] = "poll"
    BY <2>1 DEF WkScsi, luVars, luRest
  <2>3. CASE wpc'[c] = "notify"
    BY <2>2, <2>3 DEF Heeded
  <2>4. CASE wpc'[c] # "notify"
    <3>1. UNCHANGED cmd_queue /\ \A x \in Conns : x # c => wpc'[x] = wpc[x]
      BY <1>1, <2>1, <2>4 DEF WkScsi, To, Loop, TypeOK
    <3> QED BY <2>2, <3>1, HeededFrame
  <2> QED BY <2>3, <2>4
<1>3. CASE WkNotify(c)
  BY <1>3 DEF WkNotify, Heeded
<1>4. CASE WkClrQueue(c)
  <2>1. ASSUME NEW l \in Luns, cmd_queue'[l] # <<>> PROVE cmd_queue[l] # <<>>
    <3>1. CASE l = clr[c].lun
      <4> DEFINE q == cmd_queue[l]
                 Gone == {i \in 1 .. Len(q) : Matches(c, q[i])}
                 K == (1 .. Len(q)) \ Gone
      <4>1. q \in Seq(Tasks) /\ K \in SUBSET (1 .. Len(q))
        BY <1>1 DEF TypeOK
      <4>2. cmd_queue'[l] \in Selections(q, K)
        BY <1>1, <1>4, <3>1 DEF WkClrQueue, TypeOK
      <4> HIDE DEF q, K
      <4>3. cmd_queue'[l] \in Seq(Tasks) /\ \A t : InSeq(t, cmd_queue'[l]) => \E k \in K : q[k] = t
        BY <4>1, <4>2, SelectionFacts
      <4>4. PICK t : InSeq(t, cmd_queue'[l])
        <5>1. 1 \in DOMAIN cmd_queue'[l]
          BY <2>1, <4>3
        <5> QED BY <5>1 DEF InSeq
      <4>5. PICK k \in K : q[k] = t
        BY <4>3, <4>4
      <4>6. q # <<>>
        BY <4>1, <4>5
      <4> QED BY <4>6 DEF q
    <3>2. CASE l # clr[c].lun
      BY <1>1, <1>4, <2>1, <3>2 DEF WkClrQueue, TypeOK
    <3> QED BY <3>1, <3>2
  <2>2. UNCHANGED <<lpc, queue_check, scan>> /\ wpc' = [wpc EXCEPT ![c] = "clr_wait"] /\ wpc[c] = "clr_queue"
    BY <1>4 DEF WkClrQueue, luVars, luRest, To
  <2>3. \A x \in Conns : wpc[x] = "notify" => wpc'[x] = "notify"
    BY <1>1, <2>2 DEF TypeOK
  <2> QED BY <2>1, <2>2, <2>3, HeededFrame
<1>5. CASE WkStep(c) /\ ~WkNotify(c) /\ ~WkClrQueue(c)
  <2>1. UNCHANGED <<cmd_queue, queue_check, scan>>
    BY <1>5 DEF WkStep, WkNotice, WkPipe, WkRespondOk, WkXferOk, WkClrLock, WkClrWait,
       WkClBegin, WkWaitTask, WkWaitEnd, WkFree, allLun, lunVars, luVars, luRest
  <2>2. wpc[c] # "notify" /\ (UNCHANGED wpc \/ \E pc : wpc' = [wpc EXCEPT ![c] = pc])
    BY <1>5 DEF WkStep, WkNotice, WkPipe, WkRespondOk, WkXferOk, WkClrLock, WkClrWait,
       WkClBegin, WkWaitTask, WkWaitEnd, WkFree, Cleanup, Loop, ClearFor, To
  <2>3. lpc' = lpc \/ lpc' = "twoken"
    BY <1>5 DEF WkStep, WkNotice, WkPipe, WkRespondOk, WkXferOk, WkClrLock, WkClrWait, AbortWaiting,
       WkClBegin, WkWaitTask, WkWaitEnd, WkFree, BroadcastTrans, luVars
  <2>4. \A x \in Conns : wpc[x] = "notify" => wpc'[x] = "notify"
    BY <1>1, <2>2 DEF TypeOK
  <2> QED BY <2>1, <2>3, <2>4, HeededFrame
<1>6. CASE SnStep(c) \/ Event(c)
  <2>1. UNCHANGED <<cmd_queue, queue_check, scan, lpc>>
    BY <1>6 DEF SnStep, SnNotice, SnTake, SnSendOk, Event, WkClear, WkReset, WkClose, WkIoFail,
       SnSendFail, DropConn, StopConn, allLun, lunVars, luVars, luRest
  <2>2. UNCHANGED wpc \/ (wpc[c] # "notify" /\ \E pc : wpc' = [wpc EXCEPT ![c] = pc])
    BY <1>6 DEF SnStep, SnNotice, SnTake, SnSendOk, Event, WkClear, WkReset, WkClose, WkIoFail,
       SnSendFail, DropConn, StopConn, connVars, Cleanup, ClearFor, To
  <2>3. \A x \in Conns : wpc[x] = "notify" => wpc'[x] = "notify"
    BY <1>1, <2>2 DEF TypeOK
  <2> QED BY <2>1, <2>3, HeededFrame
<1> QED BY <1>2, <1>3, <1>4, <1>5, <1>6

(* The luworker sleeps on queue_cond while a LUN has tasks only if a worker*)
(* is about to announce one of them: however the scan over the LUNs, new   *)
(* commands, clears and spurious wake-ups interleave.                      *)
THEOREM WakeupNotLost == Spec => []NoLostWakeup
<1>1. Init => Heeded
  BY DEF Init, Heeded
<1>2. IndInv /\ Heeded /\ [Next]_vars => Heeded'
  <2>1. ASSUME IndInv, Heeded, Next PROVE Heeded'
    BY <2>1, LuHeeded, ConnHeeded DEF Next
  <2>2. ASSUME Heeded, UNCHANGED vars PROVE Heeded'
    BY <2>2 DEF vars, allLun, lunVars, luVars, luRest, connVars, Heeded, Ahead
  <2> QED BY <2>1, <2>2
<1>3. Heeded => NoLostWakeup
  BY DEF Heeded, NoLostWakeup
<1> QED BY <1>1, <1>2, <1>3, Invariance, PTL DEF Spec

-----------------------------------------------------------------------------
(* No silent loss.                                                         *)

(* A task that is with a worker for its data and that the luworker has     *)
(* given up is marked as failed.                                           *)
GivenUp ==
  \A t \in Tasks : task[t].stage \in {"posted", "xfer"} => ltask = t \/ task[t].error

(* A task that a step changes and that is not lost by it without a reason. *)
Down == {"cl_wait_all", "cl_join", "gone"}
Fine(u) ==
  /\ task'[u].stage = "lost" => task'[u].error \/ wpc'[task'[u].conn] \in Down
  /\ task'[u].stage \in {"posted", "xfer"} => ltask' = u \/ task'[u].error

LEMMA LossFrame ==
  ASSUME IndInv, GivenUp, NoSilentLoss,
         \A u \in Tasks : task'[u] = task[u] \/ Fine(u),
         \/ ltask' = ltask \/ ltask \notin Tasks
         \/ task'[ltask].stage \notin {"posted", "xfer"} \/ task'[ltask].error,
         \A x \in Conns : wpc[x] \in Down => wpc'[x] \in Down
  PROVE  GivenUp' /\ NoSilentLoss'
<1> USE DEF Down
<1>1. ASSUME NEW u \in Tasks, task[u].stage = "lost" PROVE task[u].conn \in Conns
  BY <1>1, TaskTypes DEF IndInv, Flags, TaskRec
<1>2. NoSilentLoss'
  BY <1>1 DEF NoSilentLoss, Fine
<1>3. GivenUp'
  BY DEF GivenUp, Fine
<1> QED BY <1>2, <1>3

(* A step that changes one task object. *)
LEMMA LossOne ==
  ASSUME IndInv, GivenUp, NoSilentLoss, NEW t \in Tasks, NEW r,
         task' = [task EXCEPT ![t] = r],
         r.stage = "lost" => r.error \/ wpc'[r.conn] \in Down,
         r.stage \in {"posted", "xfer"} => ltask' = t \/ r.error,
         \/ ltask' = ltask
         \/ ltask = t,
         \A x \in Conns : wpc[x] \in Down => wpc'[x] \in Down
  PROVE  GivenUp' /\ NoSilentLoss'
<1>1. task'[t] = r /\ \A u \in Tasks : u # t => task'[u] = task[u]
  BY DEF IndInv, TypeOK
<1>2. Fine(t)
  BY <1>1 DEF Fine
<1>3. ltask = t /\ ltask' # ltask => task'[ltask].stage \notin {"posted", "xfer"} \/ task'[ltask].error
  BY <1>1
<1> QED BY <1>1, <1>2, <1>3, LossFrame

(* A step that changes none. *)
LEMMA LossNone ==
  ASSUME IndInv, GivenUp, NoSilentLoss, UNCHANGED <<task, ltask>>,
         \A x \in Conns : wpc[x] \in Down => wpc'[x] \in Down
  PROVE  GivenUp' /\ NoSilentLoss'
BY LossFrame

LEMMA LuLoss ==
  ASSUME IndInv, GivenUp, NoSilentLoss, LuStep \/ LuTimeout \/ LuSpuriousWake
  PROVE  GivenUp' /\ NoSilentLoss'
<1> DEFINE k == task[ltask]
<1>1. TypeOK /\ (ltask # None => ltask \in Tasks /\ k \in TaskRec /\ k.conn = lconn)
  BY LuTask, TaskTypes DEF IndInv
<1>2. \A x \in Conns : wpc[x] \in Down => wpc'[x] \in Down
  BY DEF LuStep, LuCount, LuIdle, LuWoken, LuDequeueEmpty, LuDequeue, LuPost, LuPostPipe, LuBeginWait,
     LuTransWoken, LuTimeout, LuSpuriousWake, LuExecBegin, LuExecEnd, LuReply, LuReplyPipe, connVars
<1>3. CASE \/ LuCount \/ LuIdle \/ LuWoken \/ LuPostPipe \/ LuBeginWait
           \/ LuExecBegin \/ LuSpuriousWake \/ LuDequeueEmpty \/ LuReplyPipe
  <2>1. UNCHANGED task
    BY <1>3 DEF LuCount, LuIdle, LuWoken, LuPostPipe, LuBeginWait, LuExecBegin, LuSpuriousWake,
       LuDequeueEmpty, LuReplyPipe
  <2>2. UNCHANGED ltask \/ ltask = None
    BY <1>3 DEF LuCount, LuIdle, LuWoken, LuPostPipe, LuBeginWait, LuExecBegin, LuSpuriousWake,
       LuDequeueEmpty, LuReplyPipe, luRest, IndInv, LuHolds
  <2>3. None \notin Tasks
    BY NoneAssumption
  <2> QED BY <1>2, <2>1, <2>2, <2>3, LossFrame
<1>4. CASE LuDequeue
  <2> DEFINE t == Head(cmd_queue[llun])
             r == [task[t] EXCEPT !.stage = "lu", !.req_transfer_out = task[t].write]
  <2>1. t \in Tasks
    BY <1>1, <1>4, TailFacts DEF LuDequeue, TypeOK
  <2>2. ltask \notin Tasks
    BY <1>4, NoneAssumption DEF LuDequeue, IndInv, LuHolds
  <2>3. task' = [task EXCEPT ![t] = r] /\ r.stage = "lu"
    BY <1>1, <1>4, <2>1, TaskTypes DEF LuDequeue, TaskRec, TypeOK
  <2>4. task'[t].stage = "lu" /\ \A u \in Tasks : u # t => task'[u] = task[u]
    BY <1>1, <2>1, <2>3 DEF TypeOK
  <2>5. Fine(t)
    BY <2>4 DEF Fine
  <2> QED BY <1>2, <2>2, <2>4, <2>5, LossFrame
<1>5. CASE LuPost
  <2> DEFINE r == [k EXCEPT !.stage = IF Alive(lconn) THEN "posted" ELSE "lost"]
  <2>1. ltask # None /\ UNCHANGED ltask
    BY <1>5 DEF LuPost, IndInv, LuHolds, luRest
  <2>2. /\ task' = [task EXCEPT ![ltask] = r] /\ r.conn = lconn
        /\ r.stage = IF Alive(lconn) THEN "posted" ELSE "lost"
    BY <1>1, <1>5, <2>1 DEF LuPost, PostTask, TypeOK, TaskRec
  <2>3. r.stage = "lost" => wpc'[r.conn] \in Down
    BY <1>5, <2>2 DEF LuPost, Alive, connVars, Down
  <2> HIDE DEF r
  <2> QED BY <1>1, <1>2, <2>1, <2>2, <2>3, LossOne
<1>6. CASE LuTransWoken
  <2> DEFINE r == [k EXCEPT !.stage = IF @ = "lu" THEN "lost" ELSE @]
  <2>1. ltask # None
    BY <1>6 DEF LuTransWoken, IndInv, LuHolds
  <2>2. CASE k.error
    <3>1. task' = [task EXCEPT ![ltask] = r] /\ r.error
      BY <1>1, <1>6, <2>1, <2>2 DEF LuTransWoken, TypeOK, TaskRec
    <3> HIDE DEF r
    <3> QED BY <1>1, <1>2, <2>1, <3>1, LossOne
  <2>3. CASE ~k.error
    <3>1. UNCHANGED <<task, ltask>>
      BY <1>6, <2>3 DEF LuTransWoken, luRest
    <3> QED BY <1>2, <3>1, LossNone
  <2> QED BY <2>2, <2>3
<1>7. CASE LuTimeout
  <2> DEFINE r == [k EXCEPT !.error = TRUE]
  <2>1. ltask # None
    BY <1>7 DEF LuTimeout, IndInv, LuHolds
  <2>2. CASE k.req_transfer_out
    <3>1. task' = [task EXCEPT ![ltask] = r] /\ r.error
      BY <1>1, <1>7, <2>1, <2>2 DEF LuTimeout, TypeOK, TaskRec
    <3> HIDE DEF r
    <3> QED BY <1>1, <1>2, <2>1, <3>1, LossOne
  <2>3. CASE ~k.req_transfer_out
    <3>1. UNCHANGED <<task, ltask>>
      BY <1>7, <2>3 DEF LuTimeout, luRest
    <3> QED BY <1>2, <3>1, LossNone
  <2> QED BY <2>2, <2>3
<1>8. CASE LuExecEnd
  <2> DEFINE r == [k EXCEPT !.execute = TRUE]
  <2>1. ltask # None /\ UNCHANGED ltask /\ k.stage = "lu"
    BY <1>8 DEF LuExecEnd, IndInv, LuHolds, luRest
  <2>2. task' = [task EXCEPT ![ltask] = r] /\ r.stage = "lu"
    BY <1>1, <1>8, <2>1 DEF LuExecEnd, TypeOK, TaskRec
  <2> HIDE DEF r
  <2> QED BY <1>1, <1>2, <2>1, <2>2, LossOne
<1>9. CASE LuReply
  <2> DEFINE s == IF Alive(lconn) THEN IF UseSender THEN "result" ELSE "reply" ELSE "lost"
             r == [k EXCEPT !.stage = s]
  <2>1. ltask # None
    BY <1>9 DEF LuReply, IndInv, LuHolds
  <2>2. task' = [task EXCEPT ![ltask] = r] /\ r.conn = lconn /\ r.stage = s
    BY <1>1, <1>9, <2>1 DEF LuReply, PostTask, TypeOK, TaskRec
  <2>3. r.stage = "lost" => wpc'[r.conn] \in Down
    BY <1>9, <2>2 DEF LuReply, Alive, connVars, Down
  <2>4. r.stage \notin {"posted", "xfer"}
    BY <2>2
  <2> HIDE DEF r
  <2> QED BY <1>1, <1>2, <2>1, <2>2, <2>3, <2>4, LossOne
<1> QED BY <1>3, <1>4, <1>5, <1>6, <1>7, <1>8, <1>9 DEF LuStep

LEMMA ConnLoss ==
  ASSUME IndInv, GivenUp, NoSilentLoss, NEW c \in Conns, Scsi(c) \/ WkStep(c) \/ SnStep(c) \/ Event(c)
  PROVE  GivenUp' /\ NoSilentLoss'
<1> DEFINE t == exec_lu_task[c]
           k == task[t]
           h == Head(task_queue[c])
<1>1. TypeOK /\ UNCHANGED ltask
  BY DEF IndInv, Scsi, WkScsi, WkStep, WkNotice, WkNotify, WkPipe, WkRespondOk, WkXferOk, WkClrLock,
     WkClrQueue, WkClrWait, WkClBegin, WkWaitTask, WkWaitEnd, WkFree, SnStep, SnNotice, SnTake, SnSendOk,
     Event, WkClear, WkReset, WkClose, WkIoFail, SnSendFail, DropConn, StopConn, luVars, luRest
<1>2. \A x \in Conns : wpc[x] \in Down => wpc'[x] \in Down
  <2>1. \/ UNCHANGED wpc
        \/ wpc[c] \notin Down /\ \E pc : wpc' = [wpc EXCEPT ![c] = pc]
        \/ wpc' = [wpc EXCEPT ![c] = "cl_wait_all"]
        \/ wpc' = [wpc EXCEPT ![c] = "cl_join"]
        \/ wpc' = [wpc EXCEPT ![c] = "gone"]
    <3>1. CASE Scsi(c)
      BY <3>1 DEF Scsi, WkScsi, To, Loop, Down
    <3>2. CASE WkStep(c)
      BY <3>2 DEF WkStep, WkNotice, WkNotify, WkPipe, WkRespondOk, WkXferOk, WkClrLock,
         WkClrQueue, WkClrWait, WkClBegin, WkWaitTask, WkWaitEnd, WkFree, To, Loop, Cleanup, ClearFor, Down
    <3>3. CASE SnStep(c) \/ Event(c)
      BY <3>3 DEF SnStep, SnNotice, SnTake, SnSendOk, Event, WkClear, WkReset, WkClose, WkIoFail,
         SnSendFail, DropConn, StopConn, To, Cleanup, ClearFor, Down, connVars
    <3> QED BY <3>1, <3>2, <3>3
  <2>2. wpc \in [Conns -> WorkerPcs]
    BY <1>1 DEF TypeOK
  <2> QED BY <2>1, <2>2 DEF Down
<1>3. t # None => t \in Tasks /\ k \in TaskRec /\ k.stage \in {"xfer", "reply"} /\ k.conn = c
  BY Holder, TaskTypes DEF At, IndInv
<1>4. task_queue[c] # <<>> =>
        h \in Tasks /\ task[h] \in TaskRec /\ task[h].stage \in {"posted", "reply"} /\ task[h].conn = c
  <2>1. ASSUME task_queue[c] # <<>> PROVE h \in Tasks /\ InSeq(h, task_queue[c])
    BY <1>1, <2>1, TailFacts DEF TypeOK
  <2> QED BY <2>1, TaskTypes DEF IndInv, Custody, ConnCustody, At
<1>5. CASE UNCHANGED task
  BY <1>1, <1>2, <1>5, LossNone
<1>6. CASE Scsi(c)
  <2>1. PICK u \in Tasks, m \in Luns, w \in BOOLEAN, first \in BOOLEAN : WkScsi(c, u, m, w, first)
    BY <1>6 DEF Scsi
  <2>2. CASE task' = [task EXCEPT ![u] = NewTask("queued", c, m, w)]
    <3>1. NewTask("queued", c, m, w).stage = "queued"
      BY DEF NewTask
    <3> QED BY <1>1, <1>2, <2>2, <3>1, LossOne
  <2> QED BY <1>5, <2>1, <2>2 DEF WkScsi
<1>7. CASE WkPipe(c)
  <2> DEFINE r == [task[h] EXCEPT !.stage = "xfer"]
  <2>1. CASE /\ task_queue[c] # <<>> /\ task[h].req_transfer_out
             /\ task' = [task EXCEPT ![h].stage = "xfer"]
    <3>1. task' = [task EXCEPT ![h] = r] /\ r.stage = "xfer" /\ r.error = task[h].error
      BY <1>1, <1>4, <2>1 DEF TypeOK, TaskRec
    <3>2. task[h].stage = "posted"
      BY <1>4, <2>1 DEF IndInv, Flags
    <3>3. ltask' = h \/ r.error
      BY <1>1, <1>4, <2>1, <3>1, <3>2 DEF GivenUp
    <3> HIDE DEF r, h
    <3> QED BY <1>1, <1>2, <1>4, <2>1, <3>1, <3>3, LossOne
  <2> QED BY <1>5, <1>7, <2>1 DEF WkPipe
<1>8. CASE WkRespondOk(c)
  <2> DEFINE r == [k EXCEPT !.stage = "answered"]
  <2>1. t # None
    BY <1>8 DEF WkRespondOk, IndInv, WorkerHolds, Holds
  <2>2. task' = [task EXCEPT ![t] = r] /\ r.stage = "answered"
    BY <1>1, <1>3, <1>8, <2>1 DEF WkRespondOk, TypeOK, TaskRec
  <2> HIDE DEF r
  <2> QED BY <1>1, <1>2, <1>3, <2>1, <2>2, LossOne
<1>9. CASE WkXferOk(c)
  <2> DEFINE s == IF ltask = t THEN "lu" ELSE "lost"
             r == [k EXCEPT !.req_transfer_out = FALSE, !.req_execute = TRUE, !.stage = s]
  <2>1. t # None /\ k.stage = "xfer"
    BY <1>9 DEF WkXferOk, IndInv, WorkerHolds, Holds, At
  <2>2. task' = [task EXCEPT ![t] = r] /\ r.stage = s /\ r.error = k.error
    BY <1>1, <1>3, <1>9, <2>1 DEF WkXferOk, TypeOK, TaskRec
  <2>3. r.stage = "lost" => r.error
    BY <1>3, <2>1, <2>2 DEF GivenUp
  <2>4. r.stage \notin {"posted", "xfer"}
    BY <2>2
  <2> HIDE DEF r
  <2> QED BY <1>1, <1>2, <1>3, <2>1, <2>2, <2>3, <2>4, LossOne
<1>10. CASE WkClrQueue(c)
  <2> DEFINE q == cmd_queue[clr[c].lun]
             Gone == {i \in 1 .. Len(q) : Matches(c, q[i])}
  <2>1. task' = [u \in Tasks |-> IF \E i \in Gone : q[i] = u
                                   THEN [task[u] EXCEPT !.stage = "cleared"] ELSE task[u]]
    BY <1>10 DEF WkClrQueue
  <2> HIDE DEF Gone, q
  <2>2. ASSUME NEW u \in Tasks PROVE task'[u] = task[u] \/ task'[u].stage = "cleared"
    <3>1. task[u] \in TaskRec
      BY <1>1, TaskTypes
    <3> QED BY <2>1, <3>1 DEF TaskRec
  <2>3. \A u \in Tasks : task'[u] = task[u] \/ Fine(u)
    BY <2>2 DEF Fine
  <2> QED BY <1>1, <1>2, <2>3, LossFrame
<1>11. CASE WkClrWait(c)
  <2> DEFINE u == wait_lu_task[clr[c].lun]
             r == [task[u] EXCEPT !.error = TRUE, !.abort = TRUE]
  <2>1. u \in Tasks \cup {None}
    BY <1>1 DEF TypeOK
  <2>2. CASE u # None /\ task' = [task EXCEPT ![u].error = TRUE, ![u].abort = TRUE]
    <3>1. task' = [task EXCEPT ![u] = r] /\ r.error
      BY <1>1, <2>1, <2>2, TaskTypes DEF TypeOK, TaskRec
    <3> HIDE DEF r, u
    <3> QED BY <1>1, <1>2, <2>1, <2>2, <3>1, LossOne
  <2> QED BY <1>5, <1>11, <2>2 DEF WkClrWait, AbortWaiting
<1>12. CASE WkClBegin(c) \/ WkIoFail(c)
  <2> DEFINE r == [k EXCEPT !.error = TRUE]
  <2>1. CASE t # None /\ task' = [task EXCEPT ![t].error = TRUE]
    <3>1. task' = [task EXCEPT ![t] = r] /\ r.error
      BY <1>1, <1>3, <2>1 DEF TypeOK, TaskRec
    <3> HIDE DEF r
    <3> QED BY <1>1, <1>2, <1>3, <2>1, <3>1, LossOne
  <2>2. WkIoFail(c) => t # None
    BY DEF WkIoFail, IndInv, WorkerHolds, Holds
  <2> QED BY <1>5, <1>12, <2>1, <2>2 DEF WkClBegin, WkIoFail
<1>13. CASE WkWaitTask(c)
  <2> DEFINE last == task[h].req_execute /\ running_tasks[c] = 1
             s == IF last THEN "lost" ELSE "cleared"
             r == [task[h] EXCEPT !.error = TRUE, !.abort = TRUE, !.stage = "lost"]
             f == [task[h] EXCEPT !.stage = s]
  <2>1. CASE /\ task_queue[c] # <<>>
             /\ task' = [task EXCEPT ![h].error = TRUE, ![h].abort = TRUE, ![h].stage = "lost"]
    <3>1. task' = [task EXCEPT ![h] = r] /\ r.error
      BY <1>1, <1>4, <2>1 DEF TypeOK, TaskRec
    <3> HIDE DEF r, h
    <3> QED BY <1>1, <1>2, <1>4, <2>1, <3>1, LossOne
  <2>2. CASE /\ task_queue[c] # <<>>
             /\ task' = [task EXCEPT ![h].stage = s]
             /\ To(c, IF last THEN "cl_join" ELSE "cl_wait_all")
    <3>1. task' = [task EXCEPT ![h] = f] /\ f.stage = s /\ f.conn = c
      BY <1>1, <1>4, <2>2 DEF TypeOK, TaskRec
    <3>2. wpc'[c] \in Down
      BY <1>1, <2>2 DEF To, TypeOK, Down
    <3>3. f.stage \notin {"posted", "xfer"}
      BY <3>1
    <3> HIDE DEF f, h
    <3> QED BY <1>1, <1>2, <1>4, <2>2, <3>1, <3>2, <3>3, LossOne
  <2> QED BY <1>5, <1>13, <2>1, <2>2 DEF WkWaitTask
<1>14. CASE WkFree(c)
  <2> DEFINE Gone(u) == \/ \E i \in DOMAIN task_queue[c] : task_queue[c][i] = u
                        \/ \E i \in DOMAIN result_queue[c] : result_queue[c][i] = u
                        \/ exec_lu_task[c] = u
  <2>1. task' = [u \in Tasks |-> IF Gone(u) THEN [task[u] EXCEPT !.stage = "lost"] ELSE task[u]]
    BY <1>14 DEF WkFree
  <2>2. ASSUME NEW u \in Tasks, Gone(u) PROVE task[u].conn = c
    BY <2>2 DEF IndInv, Custody, ConnCustody, At, InSeq
  <2>3. wpc'[c] \in Down
    BY <1>1, <1>14 DEF WkFree, To, TypeOK, Down
  <2> HIDE DEF Gone
  <2>4. ASSUME NEW u \in Tasks
        PROVE  task'[u] = task[u] \/ (task'[u].stage = "lost" /\ task'[u].conn = c)
    <3>1. task[u] \in TaskRec
      BY <1>1, TaskTypes
    <3> QED BY <2>1, <2>2, <3>1 DEF TaskRec
  <2>5. \A u \in Tasks : task'[u] = task[u] \/ Fine(u)
    BY <2>3, <2>4 DEF Fine
  <2> QED BY <1>1, <1>2, <2>5, LossFrame
<1>15. CASE SnTake(c)
  <2> DEFINE g == Head(result_queue[c])
             r == [task[g] EXCEPT !.stage = "sending"]
  <2>1. g \in Tasks
    BY <1>1, <1>15, TailFacts DEF SnTake, TypeOK
  <2>2. task' = [task EXCEPT ![g] = r] /\ r.stage = "sending"
    BY <1>1, <1>15, <2>1, TaskTypes DEF SnTake, TypeOK, TaskRec
  <2> HIDE DEF r, g
  <2> QED BY <1>1, <1>2, <2>1, <2>2, LossOne
<1>16. CASE SnSendOk(c)
  <2>1. ASSUME NEW u \in Tasks
        PROVE  task'[u] = task[u] \/ task'[u].stage \in {"answered", "sending"}
    <3>1. task[u] \in TaskRec
      BY <1>1, TaskTypes
    <3>2. task'[u] \in {task[u], [task[u] EXCEPT !.stage = "answered"], [task[u] EXCEPT !.stage = "sending"]}
      BY <1>16 DEF SnSendOk
    <3> QED BY <3>1, <3>2 DEF TaskRec
  <2>2. \A u \in Tasks : task'[u] = task[u] \/ Fine(u)
    BY <2>1 DEF Fine
  <2> QED BY <1>1, <1>2, <2>2, LossFrame
<1>17. CASE SnSendFail(c)
  <2> DEFINE g == stask[c]
             r == [task[g] EXCEPT !.error = TRUE, !.stage = "lost"]
  <2>1. g \in Tasks /\ task[g] \in TaskRec
    BY <1>17, HeldInProgress DEF SnSendFail
  <2>2. task' = [task EXCEPT ![g] = r] /\ r.error
    BY <1>1, <1>17, <2>1 DEF SnSendFail, TypeOK, TaskRec
  <2> HIDE DEF r, g
  <2> QED BY <1>1, <1>2, <2>1, <2>2, LossOne
<1>18. CASE UNCHANGED task \/ WkStep(c)
  <2>1. CASE WkNotice(c) \/ WkNotify(c) \/ WkClrLock(c) \/ WkWaitEnd(c)
    BY <1>5, <2>1 DEF WkNotice, WkNotify, WkClrLock, WkWaitEnd
  <2> QED BY <1>5, <1>7, <1>8, <1>9, <1>10, <1>11, <1>12, <1>13, <1>14, <1>18, <2>1 DEF WkStep
<1>19. CASE SnStep(c)
  BY <1>5, <1>15, <1>16, <1>19 DEF SnStep, SnNotice
<1>20. CASE Event(c) /\ ~WkIoFail(c) /\ ~SnSendFail(c)
  BY <1>5, <1>20 DEF Event, WkClear, WkReset, WkClose, DropConn, StopConn
<1> QED BY <1>6, <1>12, <1>17, <1>18, <1>19, <1>20

(* While its connection is up, a task that nobody keeps any more was       *)
(* marked as failed before: no time-out of the luworker, no transfer that  *)
(* ends after it and no failed response drops a command unnoticed.         *)
THEOREM LossIsMarked == Spec => []NoSilentLoss
<1>1. Init => GivenUp /\ NoSilentLoss
  BY DEF Init, NewTask, GivenUp, NoSilentLoss
<1>2. IndInv /\ GivenUp /\ NoSilentLoss /\ [Next]_vars => GivenUp' /\ NoSilentLoss'
  <2>1. ASSUME IndInv, GivenUp, NoSilentLoss, Next PROVE GivenUp' /\ NoSilentLoss'
    BY <2>1, LuLoss, ConnLoss DEF Next
  <2>2. ASSUME GivenUp, NoSilentLoss, UNCHANGED vars PROVE GivenUp' /\ NoSilentLoss'
    BY <2>2 DEF vars, luVars, luRest, connVars, GivenUp, NoSilentLoss
  <2> QED BY <2>1, <2>2
<1> QED BY <1>1, <1>2, Invariance, PTL DEF Spec

-----------------------------------------------------------------------------
(* What bytes and counts say of the queues and of the tasks.               *)

(* The bytes Q of a pipe. *)
Qs(p) == {i \in DOMAIN p : p[i] = "Q"}

LEMMA QsType ==
  ASSUME NEW p \in Seq({"Q", "E"})
  PROVE  IsFiniteSet(Qs(p)) /\ Cardinality(Qs(p)) \in Nat
<1>1. Len(p) \in Nat /\ DOMAIN p = 1 .. Len(p)
  OBVIOUS
<1>2. IsFiniteSet(1 .. Len(p)) /\ Qs(p) \in SUBSET (1 .. Len(p))
  BY <1>1, FS_Interval DEF Qs
<1>3. IsFiniteSet(Qs(p))
  BY <1>2, FS_Subset
<1> QED BY <1>3, FS_CardinalityType

LEMMA QsAppend ==
  ASSUME NEW p \in Seq({"Q", "E"}), NEW b \in {"Q", "E"}
  PROVE  Cardinality(Qs(Append(p, b))) = Cardinality(Qs(p)) + (IF b = "Q" THEN 1 ELSE 0)
<1> DEFINE n == Len(p) + 1
<1>1. /\ Len(p) \in Nat /\ DOMAIN p = 1 .. Len(p) /\ n \notin DOMAIN p
      /\ DOMAIN Append(p, b) = DOMAIN p \cup {n}
      /\ Append(p, b)[n] = b /\ \A i \in DOMAIN p : Append(p, b)[i] = p[i]
  OBVIOUS
<1> HIDE DEF n
<1>2. Qs(Append(p, b)) = IF b = "Q" THEN Qs(p) \cup {n} ELSE Qs(p)
  BY <1>1 DEF Qs
<1>3. n \notin Qs(p) /\ Cardinality(Qs(p)) \in Nat /\ IsFiniteSet(Qs(p))
  BY <1>1, QsType DEF Qs
<1>4. Cardinality(Qs(p) \cup {n}) = Cardinality(Qs(p)) + 1
  BY <1>3, FS_AddElement
<1> QED BY <1>2, <1>3, <1>4

LEMMA QsTail ==
  ASSUME NEW p \in Seq({"Q", "E"}), p # <<>>
  PROVE  Cardinality(Qs(Tail(p))) = Cardinality(Qs(p)) - (IF Head(p) = "Q" THEN 1 ELSE 0)
<1> DEFINE f == [i \in Qs(Tail(p)) |-> i + 1]
<1>1. /\ Len(p) \in Nat \ {0} /\ DOMAIN p = 1 .. Len(p) /\ Head(p) = p[1]
      /\ Tail(p) \in Seq({"Q", "E"}) /\ DOMAIN Tail(p) = 1 .. (Len(p) - 1)
      /\ \A i \in 1 .. (Len(p) - 1) : Tail(p)[i] = p[i + 1]
  OBVIOUS
<1>2. \A i \in Qs(Tail(p)) : i \in Nat /\ i + 1 \in Qs(p) \ {1}
  BY <1>1 DEF Qs
<1>3. ASSUME NEW j \in Qs(p) \ {1} PROVE j - 1 \in Qs(Tail(p)) /\ (j - 1) + 1 = j
  BY <1>1 DEF Qs
<1>4. f \in Bijection(Qs(Tail(p)), Qs(p) \ {1})
  <2>1. f \in Injection(Qs(Tail(p)), Qs(p) \ {1})
    BY <1>2 DEF Injection, IsInjective
  <2>2. f \in Surjection(Qs(Tail(p)), Qs(p) \ {1})
    <3>1. \A j \in Qs(p) \ {1} : \E i \in Qs(Tail(p)) : f[i] = j
      BY <1>3
    <3> QED BY <1>2, <3>1 DEF Surjection
  <2> QED BY <2>1, <2>2 DEF Bijection
<1>5. Cardinality(Qs(Tail(p))) = Cardinality(Qs(p) \ {1})
  BY <1>1, <1>4, QsType, FS_Bijection DEF ExistsBijection
<1>6. Cardinality(Qs(p) \ {1}) = IF 1 \in Qs(p) THEN Cardinality(Qs(p)) - 1 ELSE Cardinality(Qs(p))
  BY QsType, FS_RemoveElement
<1>7. 1 \in Qs(p) <=> Head(p) = "Q"
  BY <1>1 DEF Qs
<1>8. Cardinality(Qs(p)) \in Nat
  BY QsType
<1> QED BY <1>5, <1>6, <1>7, <1>8

(* The equation of Announced for one connection. *)
Waits(c) == IF lpc \in {"post_pipe", "reply_pipe"} /\ lconn = c THEN 1 ELSE 0
Up(c) == wpc[c] \notin {"cl_wait_all", "cl_join", "gone"}
Balance(c) == Up(c) => Len(task_queue[c]) = Cardinality(Qs(task_pipe[c])) + Waits(c)

LEMMA AnnouncedIs == Announced <=> \A c \in Conns : Balance(c)
BY DEF Announced, Balance, Up, Waits, Qs

LEMMA AnnouncedInit == Init => Announced
<1> SUFFICES ASSUME Init, NEW c \in Conns PROVE Balance(c)
  BY AnnouncedIs
<1>1. Waits(c) = 0 /\ Len(task_queue[c]) = 0 /\ Qs(task_pipe[c]) = {}
  BY DEF Init, Waits, Qs
<1> QED BY <1>1, FS_EmptySet DEF Balance

LEMMA BalanceFrame ==
  ASSUME NEW c \in Conns, Balance(c), Up(c)' => Up(c), Waits(c)' = Waits(c),
         task_queue'[c] = task_queue[c],
         Cardinality(Qs(task_pipe'[c])) = Cardinality(Qs(task_pipe[c]))
  PROVE  Balance(c)'
BY DEF Balance

LEMMA AppendLen ==
  ASSUME TypeOK, NEW c \in Conns
  PROVE  /\ Len(task_queue[c]) \in Nat
         /\ \A t \in Tasks : Len(Append(task_queue[c], t)) = Len(task_queue[c]) + 1
         /\ task_queue[c] # <<>> => Len(Tail(task_queue[c])) = Len(task_queue[c]) - 1
         /\ Cardinality(Qs(task_pipe[c])) \in Nat
BY QsType DEF TypeOK

LEMMA LuAnnounced ==
  ASSUME IndInv, Announced, LuStep \/ LuTimeout \/ LuSpuriousWake
  PROVE  Announced'
<1> SUFFICES ASSUME NEW c \in Conns PROVE Balance(c)'
  BY DEF Announced, Balance, Up, Waits, Qs
<1>1. TypeOK /\ Balance(c) /\ (Up(c)' => Up(c))
  BY AnnouncedIs DEF IndInv, Up, LuStep, LuCount, LuIdle, LuWoken, LuDequeueEmpty, LuDequeue, LuPost,
     LuPostPipe, LuBeginWait, LuTransWoken, LuTimeout, LuSpuriousWake, LuExecBegin, LuExecEnd, LuReply,
     LuReplyPipe, connVars
<1>2. ltask # None => ltask \in Tasks /\ lconn \in Conns
  BY LuTask
<1>3. Alive(lconn) <=> wpc[lconn] # "gone"
  BY DEF Alive
<1>4. CASE LuPost
  <2>1. ltask # None /\ Waits(c) = 0 /\ Waits(c)' = (IF lconn = c THEN 1 ELSE 0) /\ task_pipe' = task_pipe
    BY <1>4 DEF LuPost, IndInv, LuHolds, Waits, luRest
  <2>2. CASE lconn = c /\ Up(c)
    <3>1. task_queue'[c] = Append(task_queue[c], ltask)
      BY <1>1, <1>4, <2>2 DEF LuPost, PostTask, Alive, Up, TypeOK
    <3> QED BY <1>1, <1>2, <2>1, <2>2, <3>1, AppendLen DEF Balance
  <2>3. CASE lconn # c
    <3>1. task_queue'[c] = task_queue[c]
      BY <1>1, <1>4, <2>3 DEF LuPost, PostTask, TypeOK
    <3> QED BY <1>1, <2>1, <2>3, <3>1, BalanceFrame
  <2> QED BY <1>1, <2>2, <2>3 DEF Balance
<1>5. CASE LuReply
  <2>1. CASE UseSender
    <3>1. Waits(c) = 0 /\ Waits(c)' = 0
      BY <1>5, <2>1 DEF LuReply, Waits, Return, StartScan
    <3> QED BY <1>1, <1>5, <2>1, <3>1, BalanceFrame DEF LuReply
  <2>2. CASE ~UseSender
    <3>1. ltask # None /\ Waits(c) = 0 /\ Waits(c)' = (IF lconn = c THEN 1 ELSE 0) /\ task_pipe' = task_pipe
      BY <1>5, <2>2 DEF LuReply, IndInv, LuHolds, Waits
    <3>2. CASE lconn = c /\ Up(c)
      <4>1. task_queue'[c] = Append(task_queue[c], ltask)
        BY <1>1, <1>5, <2>2, <3>2 DEF LuReply, PostTask, Alive, Up, TypeOK
      <4> QED BY <1>1, <1>2, <3>1, <3>2, <4>1, AppendLen DEF Balance
    <3>3. CASE lconn # c
      <4>1. task_queue'[c] = task_queue[c]
        BY <1>1, <1>5, <2>2, <3>3 DEF LuReply, PostTask, TypeOK
      <4> QED BY <1>1, <3>1, <3>3, <4>1, BalanceFrame
    <3> QED BY <1>1, <3>2, <3>3 DEF Balance
  <2> QED BY <2>1, <2>2
<1>6. CASE LuPostPipe \/ LuReplyPipe
  <2>1. /\ Waits(c) = (IF lconn = c THEN 1 ELSE 0) /\ Waits(c)' = 0 /\ task_queue' = task_queue
        /\ WriteByte(lconn, "Q")
    BY <1>6 DEF LuPostPipe, LuReplyPipe, Waits, Return, StartScan
  <2>2. CASE lconn = c /\ Up(c)
    <3>1. task_pipe'[c] = Append(task_pipe[c], "Q") /\ task_pipe[c] \in Seq({"Q", "E"})
      BY <1>1, <2>1, <2>2 DEF WriteByte, Alive, Up, TypeOK
    <3>2. Cardinality(Qs(task_pipe'[c])) = Cardinality(Qs(task_pipe[c])) + 1
      BY <3>1, QsAppend
    <3> QED BY <1>1, <2>1, <2>2, <3>2, AppendLen DEF Balance
  <2>3. CASE lconn # c
    <3>1. task_pipe'[c] = task_pipe[c]
      BY <1>1, <2>1, <2>3 DEF WriteByte, TypeOK
    <3> QED BY <1>1, <2>1, <2>3, <3>1, BalanceFrame
  <2> QED BY <1>1, <2>2, <2>3 DEF Balance
<1>7. CASE ~LuPost /\ ~LuReply /\ ~LuPostPipe /\ ~LuReplyPipe
  <2>1. Waits(c)' = Waits(c) /\ UNCHANGED <<task_queue, task_pipe>>
    BY <1>7 DEF LuStep, LuCount, LuIdle, LuWoken, LuDequeueEmpty, LuDequeue, LuBeginWait, LuTransWoken,
       LuTimeout, LuSpuriousWake, LuExecBegin, LuExecEnd, Waits, luRest, Return, StartScan, ioVars
  <2> QED BY <1>1, <2>1, BalanceFrame
<1> QED BY <1>4, <1>5, <1>6, <1>7

LEMMA ConnAnnounced ==
  ASSUME IndInv, Announced, NEW d \in Conns, Scsi(d) \/ WkStep(d) \/ SnStep(d) \/ Event(d)
  PROVE  Announced'
<1> SUFFICES ASSUME NEW c \in Conns PROVE Balance(c)'
  BY DEF Announced, Balance, Up, Waits, Qs
<1>1. TypeOK /\ Balance(c) /\ task_pipe[c] \in Seq({"Q", "E"})
  BY AnnouncedIs DEF IndInv, TypeOK
<1>2. Waits(c)' = Waits(c)
  <2>1. /\ lconn' = lconn
        /\ \/ lpc' = lpc
           \/ lpc \in {"twait", "wait"} /\ lpc' \in {"twoken", "woken"}
    BY DEF Scsi, WkScsi, WkStep, WkNotice, WkNotify, WkPipe, WkRespondOk, WkXferOk, WkClrLock,
     WkClrQueue, WkClrWait, WkClBegin, WkWaitTask, WkWaitEnd, WkFree, SnStep, SnNotice, SnTake, SnSendOk,
     Event, WkClear, WkReset, WkClose, WkIoFail, SnSendFail, DropConn, StopConn, luVars, luRest,
     BroadcastTrans, AbortWaiting
  <2> QED BY <2>1 DEF Waits
<1>3. Up(c)' => Up(c)
  <2>1. \/ UNCHANGED wpc
        \/ Up(d) /\ \E pc : wpc' = [wpc EXCEPT ![d] = pc]
        \/ wpc' = [wpc EXCEPT ![d] = "cl_wait_all"]
        \/ wpc' = [wpc EXCEPT ![d] = "cl_join"]
        \/ wpc' = [wpc EXCEPT ![d] = "gone"]
    <3>1. CASE Scsi(d)
      BY <3>1 DEF Scsi, WkScsi, To, Loop, Up
    <3>2. CASE WkStep(d)
      BY <3>2 DEF WkStep, WkNotice, WkNotify, WkPipe, WkRespondOk, WkXferOk, WkClrLock,
         WkClrQueue, WkClrWait, WkClBegin, WkWaitTask, WkWaitEnd, WkFree, To, Loop, Cleanup, ClearFor, Up
    <3>3. CASE SnStep(d) \/ Event(d)
      BY <3>3 DEF SnStep, SnNotice, SnTake, SnSendOk, Event, WkClear, WkReset, WkClose, WkIoFail,
         SnSendFail, DropConn, StopConn, To, Cleanup, ClearFor, Up, connVars
    <3> QED BY <3>1, <3>2, <3>3
  <2> QED BY <1>1, <2>1 DEF Up, TypeOK
<1>4. CASE UNCHANGED <<task_queue, task_pipe>>
  BY <1>1, <1>2, <1>3, <1>4, BalanceFrame
<1>5. CASE WkPipe(d)
  <2>1. CASE d # c
    <3>1. task_queue'[c] = task_queue[c] /\ task_pipe'[c] = task_pipe[c]
      BY <1>1, <1>5, <2>1 DEF WkPipe, TypeOK
    <3> QED BY <1>1, <1>2, <1>3, <3>1, BalanceFrame
  <2>2. CASE d = c
    <3>1. task_pipe[c] # <<>> /\ task_pipe'[c] = Tail(task_pipe[c]) /\ wpc[c] = "poll"
      BY <1>1, <1>5, <2>2 DEF WkPipe, TypeOK
    <3>2. Cardinality(Qs(task_pipe'[c])) =
            Cardinality(Qs(task_pipe[c])) - (IF Head(task_pipe[c]) = "Q" THEN 1 ELSE 0)
      BY <1>1, <3>1, QsTail
    <3>3. Up(c) /\ Len(task_queue[c]) = Cardinality(Qs(task_pipe[c])) + Waits(c)
      BY <1>1, <3>1 DEF Balance, Up
    <3>4. CASE Head(task_pipe[c]) = "E"
      BY <1>1, <1>2, <1>3, <1>5, <2>2, <3>2, <3>4, AppendLen, BalanceFrame DEF WkPipe
    <3>5. CASE Head(task_pipe[c]) = "Q" /\ task_queue[c] = <<>>
      (* This byte would announce nothing. *)
      <4>1. 1 \in Qs(task_pipe[c])
        BY <1>1, <3>1, <3>5 DEF Qs
      <4>2. Cardinality(Qs(task_pipe[c])) = 0
        BY <3>3, <3>5, AppendLen, <1>1 DEF Waits
      <4> QED BY <1>1, <4>1, <4>2, QsType, FS_EmptySet
    <3>6. CASE Head(task_pipe[c]) = "Q" /\ task_queue[c] # <<>>
      <4>1. task_queue'[c] = Tail(task_queue[c])
        BY <1>1, <1>5, <2>2, <3>6 DEF WkPipe, TypeOK
      <4>2. Waits(c) \in {0, 1}
        BY DEF Waits
      <4> QED BY <1>1, <1>2, <3>2, <3>3, <3>6, <4>1, <4>2, AppendLen DEF Balance
    <3> QED BY <1>5, <2>2, <3>4, <3>5, <3>6 DEF WkPipe
  <2> QED BY <2>1, <2>2
<1>6. CASE WkWaitTask(d)
  <2>1. d = c => ~Up(c)
    BY <1>6 DEF WkWaitTask, Up
  <2>2. d # c => task_queue'[c] = task_queue[c] /\ task_pipe'[c] = task_pipe[c]
    BY <1>1, <1>6 DEF WkWaitTask, TypeOK
  <2> QED BY <1>1, <1>2, <1>3, <2>1, <2>2, BalanceFrame DEF Balance
<1>7. CASE WkFree(d)
  <2>1. d = c => ~Up(c)
    BY <1>7 DEF WkFree, Up
  <2>2. d # c => task_queue'[c] = task_queue[c] /\ task_pipe'[c] = task_pipe[c]
    BY <1>1, <1>7 DEF WkFree, TypeOK
  <2> QED BY <1>1, <1>2, <1>3, <2>1, <2>2, BalanceFrame DEF Balance
<1>8. CASE SnSendFail(d) \/ StopConn(d)
  <2>1. task_queue' = task_queue /\ WriteByte(d, "E")
    BY <1>8 DEF SnSendFail, StopConn
  <2>2. task_pipe'[c] = task_pipe[c] \/ task_pipe'[c] = Append(task_pipe[c], "E")
    BY <1>1, <2>1 DEF WriteByte, TypeOK
  <2>3. Cardinality(Qs(Append(task_pipe[c], "E"))) = Cardinality(Qs(task_pipe[c]))
    BY <1>1, QsAppend, QsType
  <2> QED BY <1>1, <1>2, <1>3, <2>1, <2>2, <2>3, BalanceFrame
<1>9. CASE ~WkPipe(d) /\ ~WkWaitTask(d) /\ ~WkFree(d) /\ ~SnSendFail(d) /\ ~StopConn(d)
  <2>1. UNCHANGED <<task_queue, task_pipe>>
    BY <1>9 DEF Scsi, WkScsi, WkStep, WkNotice, WkNotify, WkRespondOk, WkXferOk, WkClrLock,
     WkClrQueue, WkClrWait, WkClBegin, WkWaitEnd, SnStep, SnNotice, SnTake, SnSendOk,
     Event, WkClear, WkReset, WkClose, WkIoFail, DropConn, ioVars
  <2> QED BY <1>4, <2>1
<1> QED BY <1>5, <1>6, <1>7, <1>8, <1>9
(* The transferred writes that are on their way back to connection c, and  *)
(* that running_tasks therefore still has to count.                        *)
Back(t) == /\ task[t].req_execute
           /\ \/ task[t].stage = "lu"
              \/ task[t].stage = "reply" /\ exec_lu_task[task[t].conn] # t
OnTheWay(c) == {t \in Tasks : task[t].conn = c /\ Back(t)}
Waiting(c) == wpc[c] \notin {"cl_join", "gone"}
Counted(c) == /\ IsFiniteSet(OnTheWay(c))
              /\ Waiting(c) => Cardinality(OnTheWay(c)) <= running_tasks[c]
AllCounted == ~UseSender => \A c \in Conns : Counted(c)

LEMMA CountedIs == AllCounted => RunningCounted
<1> SUFFICES ASSUME AllCounted, ~UseSender, NEW c \in Conns, Waiting(c)
             PROVE  Cardinality({t \in Tasks :
                      /\ task[t].conn = c /\ task[t].req_execute
                      /\ \/ task[t].stage = "lu"
                         \/ task[t].stage = "reply" /\ exec_lu_task[c] # t}) <= running_tasks[c]
  BY DEF RunningCounted, Waiting
<1>1. OnTheWay(c) = {t \in Tasks :
                      /\ task[t].conn = c /\ task[t].req_execute
                      /\ \/ task[t].stage = "lu"
                         \/ task[t].stage = "reply" /\ exec_lu_task[c] # t}
  BY DEF OnTheWay, Back
<1> QED BY <1>1 DEF AllCounted, Counted

LEMMA CountedInit == Init => AllCounted
<1> SUFFICES ASSUME Init, NEW c \in Conns PROVE Counted(c)
  BY DEF AllCounted
<1>1. OnTheWay(c) = {} /\ running_tasks[c] = 0
  BY DEF Init, OnTheWay, Back, NewTask
<1> QED BY <1>1, FS_EmptySet DEF Counted

(* A step after which no other task is on its way back. *)
Same(u) == task'[u].conn = task[u].conn /\ Back(u)
LEMMA CountedFrame ==
  ASSUME NEW c \in Conns, TypeOK, Counted(c), Waiting(c)' => Waiting(c),
         Waiting(c)' => running_tasks'[c] >= running_tasks[c] /\ running_tasks'[c] \in Nat,
         \A u \in Tasks : Back(u)' /\ task'[u].conn = c => Same(u)
  PROVE  Counted(c)'
<1>1. OnTheWay(c)' \in SUBSET OnTheWay(c)
  BY DEF OnTheWay, Same
<1>2. /\ IsFiniteSet(OnTheWay(c)') /\ Cardinality(OnTheWay(c)') <= Cardinality(OnTheWay(c))
      /\ Cardinality(OnTheWay(c)') \in Nat /\ Cardinality(OnTheWay(c)) \in Nat
  BY <1>1, FS_Subset, FS_CardinalityType DEF Counted
<1>3. running_tasks[c] \in Nat
  BY DEF TypeOK
<1> QED BY <1>2, <1>3 DEF Counted

(* One that changes one task object, which is not on its way back then. *)
LEMMA CountedOne ==
  ASSUME IndInv, AllCounted, ~UseSender, NEW t \in Tasks, NEW r,
         task' = [task EXCEPT ![t] = r],
         r.req_execute => /\ r.stage \notin {"lu", "reply"} \/ (r.stage = task[t].stage /\ task[t].stage = "lu")
                                                            \/ (task[t].stage = "lu" /\ r.stage = "reply")
                          /\ r.conn = task[t].conn /\ task[t].req_execute,
         UNCHANGED <<exec_lu_task, running_tasks>>,
         \A x \in Conns : Waiting(x)' => Waiting(x)
  PROVE  AllCounted'
<1> SUFFICES ASSUME NEW c \in Conns PROVE Counted(c)'
  BY DEF AllCounted
<1>1. task'[t] = r /\ \A u \in Tasks : u # t => task'[u] = task[u]
  BY DEF IndInv, TypeOK
<1>2. Back(t)' => Same(t)
  BY <1>1 DEF Back, Same
<1>3. \A u \in Tasks : u # t /\ Back(u)' => Same(u)
  BY <1>1 DEF Back, Same
<1>4. TypeOK /\ running_tasks[c] \in Nat /\ Counted(c)
  BY DEF AllCounted, IndInv, TypeOK
<1> QED BY <1>2, <1>3, <1>4, CountedFrame

(* One more is on its way back, or one that was has arrived. *)
LEMMA CountedMore ==
  ASSUME NEW c \in Conns, NEW t, TypeOK, Counted(c), Waiting(c)' => Waiting(c),
         running_tasks'[c] = running_tasks[c] + 1,
         \A u \in Tasks : u # t /\ Back(u)' /\ task'[u].conn = c => Same(u)
  PROVE  Counted(c)'
<1>1. OnTheWay(c)' \in SUBSET (OnTheWay(c) \cup {t})
  BY DEF OnTheWay, Same
<1>2. /\ IsFiniteSet(OnTheWay(c) \cup {t}) /\ Cardinality(OnTheWay(c)) \in Nat
      /\ Cardinality(OnTheWay(c) \cup {t}) <= Cardinality(OnTheWay(c)) + 1
  <2>1. IsFiniteSet(OnTheWay(c)) /\ Cardinality(OnTheWay(c)) \in Nat
    BY FS_CardinalityType DEF Counted
  <2>2. /\ IsFiniteSet(OnTheWay(c) \cup {t})
        /\ Cardinality(OnTheWay(c) \cup {t}) =
             IF t \in OnTheWay(c) THEN Cardinality(OnTheWay(c)) ELSE Cardinality(OnTheWay(c)) + 1
    BY <2>1, FS_AddElement
  <2> QED BY <2>1, <2>2
<1>3. /\ IsFiniteSet(OnTheWay(c)') /\ Cardinality(OnTheWay(c)') <= Cardinality(OnTheWay(c) \cup {t})
      /\ Cardinality(OnTheWay(c)') \in Nat /\ Cardinality(OnTheWay(c) \cup {t}) \in Nat
  BY <1>1, <1>2, FS_Subset, FS_CardinalityType
<1>4. running_tasks[c] \in Nat
  BY DEF TypeOK
<1> QED BY <1>2, <1>3, <1>4 DEF Counted

LEMMA CountedLess ==
  ASSUME NEW c \in Conns, NEW t \in Tasks, TypeOK, Counted(c), Waiting(c),
         task[t].conn = c, Back(t), Waiting(c)' => ~(Back(t)' /\ task'[t].conn = c),
         running_tasks'[c] = (IF running_tasks[c] > 0 THEN running_tasks[c] - 1 ELSE running_tasks[c]),
         \A u \in Tasks : u # t /\ Back(u)' /\ task'[u].conn = c => Same(u)
  PROVE  Counted(c)'
<1>1. t \in OnTheWay(c) /\ OnTheWay(c)' \in SUBSET (OnTheWay(c) \cup {t})
  BY DEF OnTheWay, Same
<1>2. Waiting(c)' => OnTheWay(c)' \in SUBSET (OnTheWay(c) \ {t})
  BY <1>1 DEF OnTheWay
<1>3. /\ IsFiniteSet(OnTheWay(c)) /\ Cardinality(OnTheWay(c)) \in Nat
      /\ IsFiniteSet(OnTheWay(c) \cup {t}) /\ IsFiniteSet(OnTheWay(c) \ {t})
      /\ Cardinality(OnTheWay(c) \ {t}) = Cardinality(OnTheWay(c)) - 1
      /\ Cardinality(OnTheWay(c) \ {t}) \in Nat
  BY <1>1, FS_AddElement, FS_RemoveElement, FS_CardinalityType DEF Counted
<1>4. IsFiniteSet(OnTheWay(c)')
  BY <1>1, <1>3, FS_Subset
<1>5. Waiting(c)' => Cardinality(OnTheWay(c)') <= Cardinality(OnTheWay(c) \ {t}) /\ Cardinality(OnTheWay(c)') \in Nat
  BY <1>2, <1>3, <1>4, FS_Subset, FS_CardinalityType
<1>6. running_tasks[c] \in Nat /\ Cardinality(OnTheWay(c)) <= running_tasks[c]
  BY DEF TypeOK, Counted
<1> QED BY <1>3, <1>4, <1>5, <1>6 DEF Counted

LEMMA CountedNone ==
  ASSUME IndInv, AllCounted, UNCHANGED <<task, exec_lu_task, running_tasks>>,
         \A x \in Conns : Waiting(x)' => Waiting(x)
  PROVE  AllCounted'
<1> SUFFICES ASSUME ~UseSender, NEW c \in Conns PROVE Counted(c)'
  BY DEF AllCounted
<1>1. TypeOK /\ running_tasks[c] \in Nat /\ Counted(c)
  BY DEF AllCounted, IndInv, TypeOK
<1>2. \A u \in Tasks : Back(u)' => Same(u)
  BY DEF Back, Same
<1> QED BY <1>1, <1>2, CountedFrame

LEMMA LuCounted ==
  ASSUME IndInv, AllCounted, ~UseSender, LuStep \/ LuTimeout \/ LuSpuriousWake
  PROVE  AllCounted'
<1> DEFINE k == task[ltask]
<1>1. TypeOK /\ (ltask # None => ltask \in Tasks /\ k \in TaskRec /\ k.conn = lconn)
  BY LuTask, TaskTypes DEF IndInv
<1>2. UNCHANGED <<wpc, exec_lu_task, running_tasks>>
  BY DEF LuStep, LuCount, LuIdle, LuWoken, LuDequeueEmpty, LuDequeue, LuPost, LuPostPipe, LuBeginWait,
     LuTransWoken, LuTimeout, LuSpuriousWake, LuExecBegin, LuExecEnd, LuReply, LuReplyPipe, connVars
<1>3. \A x \in Conns : Waiting(x)' => Waiting(x)
  BY <1>2 DEF Waiting
<1>4. CASE UNCHANGED task
  BY <1>2, <1>3, <1>4, CountedNone
<1>5. CASE LuDequeue
  <2> DEFINE t == Head(cmd_queue[llun])
             r == [task[t] EXCEPT !.stage = "lu", !.req_transfer_out = task[t].write]
  <2>1. t \in Tasks /\ InSeq(t, cmd_queue[llun])
    BY <1>1, <1>5, TailFacts DEF LuDequeue, TypeOK
  <2>2. task[t].stage = "queued"
    BY <1>1, <2>1 DEF IndInv, TypeOK, Custody, CmdCustody, Queued
  <2>3. ~task[t].req_execute
    BY <2>1, <2>2 DEF IndInv, Flags
  <2>4. task' = [task EXCEPT ![t] = r] /\ r.req_execute = task[t].req_execute
    BY <1>1, <1>5, <2>1, TaskTypes DEF LuDequeue, TaskRec, TypeOK
  <2> HIDE DEF r, t
  <2> QED BY <1>2, <1>3, <2>1, <2>3, <2>4, CountedOne
<1>6. CASE LuPost
  <2> DEFINE s == IF Alive(lconn) THEN "posted" ELSE "lost"
             r == [k EXCEPT !.stage = s]
  <2>1. ltask # None
    BY <1>6 DEF LuPost, IndInv, LuHolds
  <2>2. /\ task' = [task EXCEPT ![ltask] = r] /\ r.conn = k.conn /\ r.req_execute = k.req_execute
        /\ r.stage \notin {"lu", "reply"}
    BY <1>1, <1>6, <2>1 DEF LuPost, PostTask, TypeOK, TaskRec
  <2> HIDE DEF r
  <2> QED BY <1>1, <1>2, <1>3, <2>1, <2>2, CountedOne
<1>7. CASE LuTransWoken
  <2> DEFINE r == [k EXCEPT !.stage = IF @ = "lu" THEN "lost" ELSE @]
  <2>1. ltask # None /\ k.stage \in {"lu", "posted", "xfer", "lost"}
    BY <1>7, LuTask DEF LuTransWoken, IndInv, LuHolds
  <2>2. CASE task' = [task EXCEPT ![ltask].stage = IF @ = "lu" THEN "lost" ELSE @]
    <3>1. /\ task' = [task EXCEPT ![ltask] = r] /\ r.conn = k.conn /\ r.req_execute = k.req_execute
          /\ r.stage \notin {"lu", "reply"}
      BY <1>1, <2>1, <2>2 DEF TypeOK, TaskRec
    <3> HIDE DEF r
    <3> QED BY <1>1, <1>2, <1>3, <2>1, <3>1, CountedOne
  <2> QED BY <1>4, <1>7, <2>2 DEF LuTransWoken
<1>8. CASE LuTimeout
  <2> DEFINE r == [k EXCEPT !.error = TRUE]
  <2>1. ltask # None /\ k.stage \in {"lu", "posted", "xfer", "lost"}
    BY <1>8, LuTask DEF LuTimeout, IndInv, LuHolds
  <2>2. CASE task' = [task EXCEPT ![ltask].error = TRUE]
    <3>1. /\ task' = [task EXCEPT ![ltask] = r] /\ r.conn = k.conn /\ r.req_execute = k.req_execute
          /\ r.stage = k.stage
      BY <1>1, <2>1, <2>2 DEF TypeOK, TaskRec
    <3> HIDE DEF r
    <3> QED BY <1>1, <1>2, <1>3, <2>1, <3>1, CountedOne
  <2> QED BY <1>4, <1>8, <2>2 DEF LuTimeout
<1>9. CASE LuExecEnd
  <2> DEFINE r == [k EXCEPT !.execute = TRUE]
  <2>1. ltask # None /\ k.stage = "lu"
    BY <1>9 DEF LuExecEnd, IndInv, LuHolds
  <2>2. /\ task' = [task EXCEPT ![ltask] = r] /\ r.conn = k.conn /\ r.req_execute = k.req_execute
        /\ r.stage = k.stage
    BY <1>1, <1>9, <2>1 DEF LuExecEnd, TypeOK, TaskRec
  <2> HIDE DEF r
  <2> QED BY <1>1, <1>2, <1>3, <2>1, <2>2, CountedOne
<1>10. CASE LuReply
  <2> DEFINE s == IF Alive(lconn) THEN "reply" ELSE "lost"
             r == [k EXCEPT !.stage = s]
  <2>1. ltask # None /\ k.stage = "lu"
    BY <1>10 DEF LuReply, IndInv, LuHolds
  <2>2. /\ task' = [task EXCEPT ![ltask] = r] /\ r.conn = k.conn /\ r.req_execute = k.req_execute
        /\ r.stage \in {"reply", "lost"}
    BY <1>1, <1>10, <2>1 DEF LuReply, PostTask, TypeOK, TaskRec
  <2> HIDE DEF r
  <2> QED BY <1>1, <1>2, <1>3, <2>1, <2>2, CountedOne
<1>11. CASE \/ LuCount \/ LuIdle \/ LuWoken \/ LuPostPipe \/ LuBeginWait
            \/ LuExecBegin \/ LuSpuriousWake \/ LuDequeueEmpty \/ LuReplyPipe
  BY <1>4, <1>11 DEF LuCount, LuIdle, LuWoken, LuPostPipe, LuBeginWait, LuExecBegin, LuSpuriousWake,
     LuDequeueEmpty, LuReplyPipe
<1> QED BY <1>5, <1>6, <1>7, <1>8, <1>9, <1>10, <1>11 DEF LuStep

LEMMA ConnCounted ==
  ASSUME IndInv, AllCounted, ~UseSender, NEW d \in Conns, Scsi(d) \/ WkStep(d) \/ SnStep(d) \/ Event(d)
  PROVE  AllCounted'
<1> DEFINE t == exec_lu_task[d]
           k == task[t]
           h == Head(task_queue[d])
<1>1. TypeOK
  BY DEF IndInv
<1>2. \A x \in Conns : Waiting(x)' => Waiting(x)
  <2>1. \/ UNCHANGED wpc
        \/ Waiting(d) /\ \E pc : wpc' = [wpc EXCEPT ![d] = pc]
        \/ wpc' = [wpc EXCEPT ![d] = "gone"]
    <3>1. CASE Scsi(d)
      BY <3>1 DEF Scsi, WkScsi, To, Loop, Waiting
    <3>2. CASE WkStep(d)
      BY <3>2 DEF WkStep, WkNotice, WkNotify, WkPipe, WkRespondOk, WkXferOk, WkClrLock,
         WkClrQueue, WkClrWait, WkClBegin, WkWaitTask, WkWaitEnd, WkFree, To, Loop, Cleanup, ClearFor, Waiting
    <3>3. CASE SnStep(d) \/ Event(d)
      BY <3>3 DEF SnStep, SnNotice, SnTake, SnSendOk, Event, WkClear, WkReset, WkClose, WkIoFail,
         SnSendFail, DropConn, StopConn, To, Cleanup, ClearFor, Waiting, connVars
    <3> QED BY <3>1, <3>2, <3>3
  <2> QED BY <1>1, <2>1 DEF Waiting, TypeOK
<1>3. t # None => /\ t \in Tasks /\ k \in TaskRec /\ k.stage \in {"xfer", "reply"} /\ k.conn = d
  BY Holder, TaskTypes DEF At, IndInv
<1>4. task_queue[d] # <<>> =>
        /\ h \in Tasks /\ task[h] \in TaskRec /\ task[h].stage \in {"posted", "reply"} /\ task[h].conn = d
        /\ h # t
  <2>1. ASSUME task_queue[d] # <<>> PROVE h \in Tasks /\ InSeq(h, task_queue[d])
    BY <1>1, <2>1, TailFacts DEF TypeOK
  <2> QED BY <2>1, TaskTypes DEF IndInv, Custody, ConnCustody, At
<1>5. \A c \in Conns : Counted(c) /\ running_tasks[c] \in Nat
  BY <1>1 DEF AllCounted, TypeOK
<1>6. CASE UNCHANGED <<task, exec_lu_task, running_tasks>>
  BY <1>2, <1>6, CountedNone
(* One task object changes, and nothing else that counts. *)
<1>7. CASE Scsi(d)
  <2>1. PICK u \in Tasks, m \in Luns, w \in BOOLEAN, first \in BOOLEAN : WkScsi(d, u, m, w, first)
    BY <1>7 DEF Scsi
  <2> DEFINE r == NewTask("queued", d, m, w)
  <2>2. ~r.req_execute
    BY DEF NewTask
  <2>3. UNCHANGED <<exec_lu_task, running_tasks>> /\ (task' = task \/ task' = [task EXCEPT ![u] = r])
    BY <2>1 DEF WkScsi
  <2> HIDE DEF r
  <2> QED BY <1>2, <1>6, <2>2, <2>3, CountedOne
<1>8. CASE WkClrWait(d)
  <2> DEFINE u == wait_lu_task[clr[d].lun]
             r == [task[u] EXCEPT !.error = TRUE, !.abort = TRUE]
  <2>1. u \in Tasks \cup {None} /\ UNCHANGED <<exec_lu_task, running_tasks>>
    BY <1>1, <1>8 DEF TypeOK, WkClrWait
  <2>2. CASE u # None /\ task' = [task EXCEPT ![u].error = TRUE, ![u].abort = TRUE]
    <3>1. /\ u = ltask /\ task[u].stage \in {"lu", "posted", "xfer", "lost"}
      BY <1>1, <2>2, LuTask DEF IndInv, WaitIsCurrent, TypeOK
    <3>2. /\ task' = [task EXCEPT ![u] = r] /\ r.conn = task[u].conn /\ r.stage = task[u].stage
          /\ r.req_execute = task[u].req_execute
      BY <1>1, <2>1, <2>2, TaskTypes DEF TypeOK, TaskRec
    <3> HIDE DEF r, u
    <3> QED BY <1>1, <1>2, <2>1, <2>2, <3>1, <3>2, CountedOne
  <2> QED BY <1>6, <1>8, <2>1, <2>2 DEF WkClrWait, AbortWaiting
<1>9. CASE SnStep(d) \/ SnSendFail(d)
  <2>1. UNCHANGED <<exec_lu_task, running_tasks>>
    BY <1>9 DEF SnStep, SnNotice, SnTake, SnSendOk, SnSendFail, connVars
  <2>2. ASSUME NEW u \in Tasks PROVE task'[u] = task[u] \/ task'[u].stage \in {"answered", "sending", "lost"}
    <3>1. task[u] \in TaskRec
      BY <1>1, TaskTypes
    <3>2. CASE SnSendOk(d)
      <4>1. task'[u] \in {task[u], [task[u] EXCEPT !.stage = "answered"], [task[u] EXCEPT !.stage = "sending"]}
        BY <3>2 DEF SnSendOk
      <4> QED BY <3>1, <4>1 DEF TaskRec
    <3>3. CASE SnNotice(d)
      BY <3>3 DEF SnNotice
    <3>4. CASE SnTake(d)
      BY <1>1, <3>1, <3>4 DEF SnTake, TypeOK, TaskRec
    <3>5. CASE SnSendFail(d)
      BY <1>1, <3>1, <3>5 DEF SnSendFail, TypeOK, TaskRec
    <3> QED BY <1>9, <3>2, <3>3, <3>4, <3>5 DEF SnStep
  <2>3. \A u \in Tasks : Back(u)' => Same(u)
    BY <2>1, <2>2 DEF Back, Same
  <2>4. \A c \in Conns : Counted(c)'
    BY <1>1, <1>2, <1>5, <2>1, <2>3, CountedFrame
  <2> QED BY <2>4 DEF AllCounted
<1>10. CASE WkClrQueue(d)
  <2> DEFINE q == cmd_queue[clr[d].lun]
             Gone == {i \in 1 .. Len(q) : Matches(d, q[i])}
  <2>1. /\ UNCHANGED <<exec_lu_task, running_tasks>>
        /\ task' = [u \in Tasks |-> IF \E i \in Gone : q[i] = u
                                   THEN [task[u] EXCEPT !.stage = "cleared"] ELSE task[u]]
    BY <1>10 DEF WkClrQueue
  <2> HIDE DEF Gone, q
  <2>2. ASSUME NEW u \in Tasks PROVE task'[u] = task[u] \/ task'[u].stage = "cleared"
    <3>1. task[u] \in TaskRec
      BY <1>1, TaskTypes
    <3> QED BY <2>1, <3>1 DEF TaskRec
  <2>3. \A u \in Tasks : Back(u)' => Same(u)
    BY <2>1, <2>2 DEF Back, Same
  <2>4. \A c \in Conns : Counted(c)'
    BY <1>1, <1>2, <1>5, <2>1, <2>3, CountedFrame
  <2> QED BY <2>4 DEF AllCounted
<1>11. CASE WkClBegin(d) \/ WkIoFail(d)
  <2> DEFINE r == [k EXCEPT !.error = TRUE]
  <2>1. CASE t # None /\ task' = [task EXCEPT ![t].error = TRUE]
    <3>1. task' = [task EXCEPT ![t] = r] /\ r.stage = k.stage /\ r.conn = k.conn /\ r.req_execute = k.req_execute
      BY <1>1, <1>3, <2>1 DEF TypeOK, TaskRec
    <3>2. UNCHANGED <<exec_lu_task, running_tasks>>
      BY <1>11 DEF WkClBegin, WkIoFail
    <3> HIDE DEF r, t
    <3>3. task'[t] = r /\ \A u \in Tasks : u # t => task'[u] = task[u]
      BY <1>1, <1>3, <2>1, <3>1 DEF TypeOK
    <3>4. \A u \in Tasks : Back(u)' => Same(u)
      BY <3>1, <3>2, <3>3 DEF Back, Same
    <3>5. \A c \in Conns : Counted(c)'
      BY <1>1, <1>2, <1>5, <3>2, <3>4, CountedFrame
    <3> QED BY <3>5 DEF AllCounted
  <2>2. WkIoFail(d) => t # None
    BY DEF WkIoFail, IndInv, WorkerHolds, Holds
  <2>3. task' = task => UNCHANGED <<task, exec_lu_task, running_tasks>>
    BY <1>11 DEF WkClBegin, WkIoFail
  <2> QED BY <1>6, <1>11, <2>1, <2>2, <2>3 DEF WkClBegin, WkIoFail
(* The worker has answered for its task. *)
<1>12. CASE WkRespondOk(d)
  <2>1. t # None
    BY <1>12 DEF WkRespondOk, IndInv, WorkerHolds, Holds
  <2>2. /\ task'[t].stage = "answered" /\ \A u \in Tasks : u # t => task'[u] = task[u]
        /\ exec_lu_task'[d] = None /\ \A c \in Conns : c # d => exec_lu_task'[c] = exec_lu_task[c]
        /\ UNCHANGED running_tasks
    BY <1>1, <1>3, <1>12, <2>1 DEF WkRespondOk, TypeOK, TaskRec
  <2> HIDE DEF t
  <2>3. ASSUME NEW c \in Conns, NEW u \in Tasks, Back(u)', task'[u].conn = c PROVE Same(u)
    <3>1. u # t
      BY <2>2, <2>3 DEF Back
    <3>2. exec_lu_task[c] # u \/ c # d
      BY <3>1 DEF t
    <3> QED BY <2>2, <2>3, <3>1, <3>2 DEF Back, Same
  <2>4. \A c \in Conns : Counted(c)'
    BY <1>1, <1>2, <1>5, <2>2, <2>3, CountedFrame
  <2> QED BY <2>4 DEF AllCounted
(* All data are in: the task is on its way back and counts. *)
<1>13. CASE WkXferOk(d)
  <2>1. t # None
    BY <1>13 DEF WkXferOk, IndInv, WorkerHolds, Holds
  <2>2. /\ task'[t].conn = d /\ \A u \in Tasks : u # t => task'[u] = task[u]
        /\ exec_lu_task'[d] = None /\ \A c \in Conns : c # d => exec_lu_task'[c] = exec_lu_task[c]
        /\ running_tasks'[d] = running_tasks[d] + 1
        /\ \A c \in Conns : c # d => running_tasks'[c] = running_tasks[c]
    BY <1>1, <1>3, <1>13, <2>1 DEF WkXferOk, CountRunning, TypeOK, TaskRec
  <2> HIDE DEF t
  <2>3. ASSUME NEW c \in Conns, NEW u \in Tasks, Back(u)', task'[u].conn = c, u # t PROVE Same(u)
    <3>1. exec_lu_task[c] # u \/ c # d
      BY <2>3 DEF t
    <3> QED BY <2>2, <2>3, <3>1 DEF Back, Same
  <2>4. ASSUME NEW c \in Conns, c # d PROVE Counted(c)'
    <3>1. \A u \in Tasks : Back(u)' /\ task'[u].conn = c => Same(u)
      BY <2>2, <2>3, <2>4
    <3> QED BY <1>1, <1>2, <1>5, <2>2, <2>4, <3>1, CountedFrame
  <2>5. Counted(d)'
    BY <1>1, <1>2, <1>5, <2>2, <2>3, CountedMore
  <2> QED BY <2>4, <2>5 DEF AllCounted
(* The worker takes a task from its queue: it has arrived. *)
<1>14. CASE WkPipe(d)
  <2>1. wpc[d] = "poll" /\ t = None
    BY <1>14 DEF WkPipe, IndInv, WorkerHolds, Holds
  <2>2. CASE task_queue[d] # <<>> /\ Head(task_pipe[d]) = "Q"
    <3>0. PICK g \in Tasks :
            /\ g = h /\ g # t /\ task[g] \in TaskRec /\ task[g].stage \in {"posted", "reply"}
            /\ task[g].conn = d
      BY <1>4, <2>2
    <3> DEFINE transfer == task[g].req_transfer_out
    <3>1. /\ exec_lu_task' = [exec_lu_task EXCEPT ![d] = g]
          /\ IF transfer THEN task' = [task EXCEPT ![g].stage = "xfer"] ELSE UNCHANGED task
          /\ running_tasks' = IF ~transfer /\ task[g].req_execute /\ running_tasks[d] > 0
                                THEN [running_tasks EXCEPT ![d] = @ - 1] ELSE running_tasks
      BY <1>14, <2>2, <3>0 DEF WkPipe
    <3>2. /\ task'[g].conn = d /\ \A u \in Tasks : u # g => task'[u] = task[u]
          /\ exec_lu_task'[d] = g /\ \A c \in Conns : c # d => exec_lu_task'[c] = exec_lu_task[c]
          /\ \A c \in Conns : c # d => running_tasks'[c] = running_tasks[c]
          /\ task'[g].stage \in {"xfer", "reply"}
          /\ task[g].stage = "posted" => transfer /\ ~task[g].req_execute
          /\ task[g].stage = "reply" => ~transfer
      <4> HIDE DEF t, h
      <4>1. \A u \in Tasks : u # g => task'[u] = task[u]
        BY <1>1, <3>1 DEF TypeOK
      <4>2. /\ exec_lu_task'[d] = g /\ \A c \in Conns : c # d => exec_lu_task'[c] = exec_lu_task[c]
            /\ \A c \in Conns : c # d => running_tasks'[c] = running_tasks[c]
        BY <1>1, <3>1 DEF TypeOK
      <4>3. /\ task[g].stage = "posted" => transfer /\ ~task[g].req_execute
            /\ task[g].stage = "reply" => ~transfer
        BY <3>0 DEF IndInv, Flags
      <4>4. task'[g].conn = d /\ task'[g].stage \in {"xfer", "reply"}
        <5>1. CASE transfer
          BY <1>1, <3>0, <3>1, <5>1 DEF TypeOK, TaskRec
        <5>2. CASE ~transfer
          BY <3>0, <3>1, <4>3, <5>2
        <5> QED BY <5>1, <5>2
      <4> QED BY <4>1, <4>2, <4>3, <4>4
    <3>3. ~Back(g)'
      BY <3>2 DEF Back
    <3>4. ASSUME NEW c \in Conns, NEW u \in Tasks, Back(u)', task'[u].conn = c PROVE Same(u)
      <4>1. u # None /\ u # g
        BY <3>3, <3>4, NoneAssumption
      <4> QED BY <2>1, <3>2, <3>4, <4>1 DEF Back, Same
    <3>5. ASSUME NEW c \in Conns, c # d PROVE Counted(c)'
      BY <1>1, <1>2, <1>5, <3>2, <3>4, <3>5, CountedFrame
    <3>6. CASE task[g].stage = "reply" /\ task[g].req_execute
      <4>1. Back(g) /\ task[g].conn = d /\ g \in Tasks
        BY <3>0, <2>1, <2>2, <3>6, NoneAssumption DEF Back
      <4>2. running_tasks'[d] = IF running_tasks[d] > 0 THEN running_tasks[d] - 1 ELSE running_tasks[d]
        BY <1>1, <3>1, <3>2, <3>6 DEF TypeOK
      <4>3. Waiting(d)
        BY <2>1 DEF Waiting
      <4>4. Counted(d)'
        BY <1>1, <1>5, <3>3, <3>4, <4>1, <4>2, <4>3, CountedLess
      <4> QED BY <3>5, <4>4 DEF AllCounted
    <3>7. CASE ~(task[g].stage = "reply" /\ task[g].req_execute)
      <4>1. running_tasks' = running_tasks
        BY <3>0, <2>2, <3>1, <3>2, <3>7
      <4>2. Counted(d)'
        BY <1>1, <1>2, <1>5, <3>4, <4>1, CountedFrame
      <4> QED BY <3>5, <4>2 DEF AllCounted
    <3> QED BY <3>6, <3>7
  <2> QED BY <1>6, <1>14, <2>2 DEF WkPipe
(* wait_all_task takes one from the queue. *)
<1>15. CASE WkWaitTask(d)
  <2>1. wpc[d] = "cl_wait_all" /\ UNCHANGED exec_lu_task
    BY <1>15 DEF WkWaitTask
  <2>2. CASE task_queue[d] # <<>> /\ task_queue' = [task_queue EXCEPT ![d] = Tail(@)]
    <3>0. PICK g \in Tasks :
            /\ g = h /\ g # t /\ task[g] \in TaskRec /\ task[g].stage \in {"posted", "reply"}
            /\ task[g].conn = d
      BY <1>4, <2>2
    <3>1. CASE task[g].req_transfer_out /\ UNCHANGED running_tasks
               /\ task' = [task EXCEPT ![g].error = TRUE, ![g].abort = TRUE, ![g].stage = "lost"]
      <4> DEFINE r == [task[g] EXCEPT !.error = TRUE, !.abort = TRUE, !.stage = "lost"]
      <4>1. task' = [task EXCEPT ![g] = r] /\ r.stage = "lost" /\ r.conn = d /\ r.req_execute = task[g].req_execute
        BY <1>1, <3>0, <2>2, <3>1 DEF TypeOK, TaskRec
      <4> HIDE DEF r
      <4>2. UNCHANGED <<exec_lu_task, running_tasks>>
        BY <2>1, <3>1
      <4>3. \A y \in Conns : Waiting(y)' => Waiting(y)
        BY <1>2
      <4>4. r.req_execute => r.stage \notin {"lu", "reply"} /\ r.conn = task[g].conn /\ task[g].req_execute
        BY <3>0, <4>1
      <4> QED BY <1>1, <3>0, <4>1, <4>2, <4>3, <4>4, CountedOne
    <3>2. ASSUME NEW s \in {"lost", "cleared"}, task' = [task EXCEPT ![g].stage = s],
                 ~task[g].req_transfer_out,
                 running_tasks[d] > 0,
                 running_tasks' = [running_tasks EXCEPT ![d] = IF task[g].req_execute THEN @ - 1 ELSE @]
          PROVE  AllCounted'
      <4>1. /\ \A u \in Tasks : u # g => task'[u] = task[u]
            /\ task'[g].stage = s
            /\ running_tasks'[d] = IF task[g].req_execute THEN running_tasks[d] - 1 ELSE running_tasks[d]
            /\ \A c \in Conns : c # d => running_tasks'[c] = running_tasks[c]
            /\ task[g].stage = "reply"
        BY <1>1, <3>0, <2>2, <3>2 DEF IndInv, Flags, TypeOK, TaskRec
      <4>2. ~Back(g)'
        BY <4>1 DEF Back
      <4>3. \A u \in Tasks : Back(u)' => Same(u)
        BY <2>1, <4>1, <4>2 DEF Back, Same
      <4>4. \A c \in Conns : c # d => Counted(c)'
        BY <1>1, <1>2, <1>5, <4>1, <4>3, CountedFrame
      <4>5. CASE task[g].req_execute
        <5>1. Back(g) /\ task[g].conn = d
          BY <3>0, <2>2, <4>1, <4>5 DEF Back
        <5>2. running_tasks'[d] = IF running_tasks[d] > 0 THEN running_tasks[d] - 1 ELSE running_tasks[d]
          BY <3>2, <4>1, <4>5
        <5>3. Waiting(d)
          BY <2>1 DEF Waiting
        <5>4. Counted(d)'
          BY <1>1, <3>0, <1>5, <2>2, <4>2, <4>3, <5>1, <5>2, <5>3, CountedLess
        <5> QED BY <4>4, <5>4 DEF AllCounted
      <4>6. CASE ~task[g].req_execute
        <5>1. Counted(d)'
          BY <1>1, <1>2, <1>5, <4>1, <4>3, <4>6, CountedFrame
        <5> QED BY <4>4, <5>1 DEF AllCounted
      <4> QED BY <4>5, <4>6
    <3>3. CASE ~task[g].req_transfer_out
      <4>1. \E s \in {"lost", "cleared"} :
              /\ task' = [task EXCEPT ![g].stage = s]
              /\ running_tasks[d] > 0
              /\ running_tasks' = [running_tasks EXCEPT ![d] = IF task[g].req_execute THEN @ - 1 ELSE @]
        BY <1>15, <2>2, <3>0, <3>3 DEF WkWaitTask
      <4> QED BY <3>2, <3>3, <4>1
    <3> QED BY <1>15, <2>2, <3>0, <3>1, <3>3 DEF WkWaitTask
  <2> QED BY <1>6, <1>15, <2>1, <2>2 DEF WkWaitTask
(* The connection goes away. *)
<1>16. CASE WkFree(d)
  <2> DEFINE Gone(u) == \/ \E i \in DOMAIN task_queue[d] : task_queue[d][i] = u
                        \/ \E i \in DOMAIN result_queue[d] : result_queue[d][i] = u
                        \/ exec_lu_task[d] = u
  <2>1. /\ task' = [u \in Tasks |-> IF Gone(u) THEN [task[u] EXCEPT !.stage = "lost"] ELSE task[u]]
        /\ exec_lu_task' = [exec_lu_task EXCEPT ![d] = None]
        /\ running_tasks' = [running_tasks EXCEPT ![d] = 0]
        /\ wpc' = [wpc EXCEPT ![d] = "gone"]
    BY <1>16 DEF WkFree, To
  <2> HIDE DEF Gone
  <2>2. ASSUME NEW u \in Tasks PROVE IF Gone(u) THEN task'[u].stage = "lost" ELSE task'[u] = task[u]
    <3>1. task[u] \in TaskRec
      BY <1>1, TaskTypes
    <3> QED BY <2>1, <3>1 DEF TaskRec
  <2>3. /\ exec_lu_task'[d] = None /\ \A c \in Conns : c # d => exec_lu_task'[c] = exec_lu_task[c]
        /\ \A c \in Conns : c # d => running_tasks'[c] = running_tasks[c]
        /\ ~Waiting(d)'
    BY <1>1, <2>1 DEF TypeOK, Waiting
  <2>4. ASSUME NEW c \in Conns, NEW u \in Tasks, Back(u)', task'[u].conn = c PROVE Same(u)
    <3>1. ~Gone(u)
      BY <2>2, <2>4 DEF Back
    <3>2. task'[u] = task[u] /\ exec_lu_task[d] # u
      BY <2>2, <3>1 DEF Gone
    <3> QED BY <2>3, <2>4, <3>2 DEF Back, Same
  <2>5. \A c \in Conns : Counted(c)'
    BY <1>1, <1>2, <1>5, <2>3, <2>4, CountedFrame
  <2> QED BY <2>5 DEF AllCounted
<1>17. CASE WkStep(d)
  <2>1. CASE WkNotice(d) \/ WkNotify(d) \/ WkClrLock(d) \/ WkWaitEnd(d)
    BY <1>6, <2>1 DEF WkNotice, WkNotify, WkClrLock, WkWaitEnd
  <2> QED BY <1>8, <1>10, <1>11, <1>12, <1>13, <1>14, <1>15, <1>16, <1>17, <2>1 DEF WkStep
<1>18. CASE Event(d) /\ ~WkIoFail(d) /\ ~SnSendFail(d)
  BY <1>6, <1>18 DEF Event, WkClear, WkReset, WkClose, DropConn, StopConn, connVars
<1> QED BY <1>7, <1>9, <1>11, <1>17, <1>18

(* For each task that waits in task_queue of a connection that is up, its  *)
(* pipe has one byte or is about to get it; and running_tasks counts every *)
(* transferred write that is still on its way back: a worker never misses  *)
(* a task, and its cleanup never stops waiting for one too early.          *)
THEOREM QueuesAccounted == Spec => []Accounted
<1>1. Init => Announced /\ AllCounted
  BY AnnouncedInit, CountedInit
<1>2. IndInv /\ Announced /\ AllCounted /\ [Next]_vars => Announced' /\ AllCounted'
  <2>1. ASSUME IndInv, Announced, AllCounted, Next PROVE Announced' /\ AllCounted'
    <3>1. Announced'
      BY <2>1, LuAnnounced, ConnAnnounced DEF Next
    <3>2. CASE UseSender
      BY <3>1, <3>2 DEF AllCounted
    <3>3. CASE ~UseSender
      BY <2>1, <3>1, <3>3, LuCounted, ConnCounted DEF Next
    <3> QED BY <3>2, <3>3
  <2>2. ASSUME IndInv, Announced, AllCounted, UNCHANGED vars PROVE Announced' /\ AllCounted'
    <3>1. AllCounted'
      BY <2>2, CountedNone DEF vars, connVars, Waiting
    <3>2. Announced'
      BY <2>2 DEF vars, luVars, luRest, connVars, ioVars, Announced
    <3> QED BY <3>1, <3>2
  <2> QED BY <2>1, <2>2
<1>3. Announced /\ AllCounted => Accounted
  BY CountedIs DEF Accounted
<1> QED BY <1>1, <1>2, <1>3, Invariance, PTL DEF Spec

=============================================================================

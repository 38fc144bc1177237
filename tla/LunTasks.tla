------------------------------ MODULE LunTasks ------------------------------
(***************************************************************************)
(* The command queue of a logical unit: connection workers put SCSI tasks  *)
(* on the cmd_queue of a LUN, the thread of the logical unit (luworker)    *)
(* takes them off and executes them, and the response goes out through     *)
(* the sender thread of the connection (UseSender) or through its worker.  *)
(* A write whose data did not come with the command is a handshake: the    *)
(* luworker posts the task back to the worker through task_queue and       *)
(* task_pipe, waits on the task's trans_cond, and executes it when the     *)
(* worker has transferred the data.  Task management, the loss of a        *)
(* connection and the time-out of the luworker all cut into this.          *)
(*                                                                         *)
(* A critical section of one mutex is one step; lu->mutex, held over       *)
(* several, is lu_mutex.  worker_cleanup unlocks mutexes it may not own:   *)
(* undefined in POSIX, so that lu_mutex may or may not be released by it.  *)
(* task[t].stage is an auxiliary variable that says who keeps the task: no *)
(* guard reads it, except that a task object is created once.              *)
(***************************************************************************)
EXTENDS QueueSelect

CONSTANTS
  Conns,          \* connections that are in the full feature phase
  Tasks,          \* task objects (ISTGT_LU_TASK), one for each SCSI command
  MaxLun,         \* lu->maxlun: the LUNs are 0 .. MaxLun-1
  MaxQueue,       \* spec->queue_depth * MaxSessions
  InitiatorPort,  \* conn->initiator_port, shared by the connections of a session
  InitiatorName,  \* conn->initiator_name, shared by the ports of an initiator
  MaxEvents,      \* bound on task management, failures, exits and
                  \* spurious wake-ups
  UseSender,      \* ISTGT_USE_SENDER_THREAD
  None

ASSUME LunAssumption == MaxLun \in Nat \ {0} /\ MaxQueue \in Nat /\ MaxEvents \in Nat
ASSUME SenderAssumption == UseSender \in BOOLEAN
ASSUME NoneAssumption == None \notin Tasks \cup Conns

VARIABLES
  task,           \* the fields of every task object
  cmd_queue,      \* [LUN -> Seq(Tasks)]
  wait_lu_task,   \* [LUN -> the task whose trans_cond the luworker waits on]
  queue_check,    \* lu->queue_check
  lu_mutex,       \* lu->mutex is locked
  lpc,            \* where the luworker is
  llun,           \* its variable lun, the LUN it serves next
  scan,           \* <<LUN looked at, LUNs left>> of istgt_lu_disk_queue_count
  again,          \* qcnt >= 2: serve a second task of this LUN
  ltask, lconn,   \* lu_task and conn of istgt_lu_disk_queue_start
  wpc,            \* where each connection's worker is
  state,          \* conn->state
  clr,            \* arguments of the clear the worker is doing
  exec_lu_task,   \* the task the worker transfers data or answers for
  running_tasks,  \* conn->running_tasks
  task_queue, task_pipe, result_queue,
  spc, stask,     \* where each sender is and the task it answers
  events          \* how many of the bounded events have happened

luRest   == <<llun, scan, again, ltask, lconn>>
luVars   == <<lpc, luRest>>
connVars == <<wpc, state, clr, exec_lu_task, running_tasks>>
ioVars   == <<task_queue, task_pipe, result_queue>>
sndVars  == <<spc, stask>>
lunVars  == <<cmd_queue, wait_lu_task, queue_check>>
allLun   == <<lunVars, lu_mutex>>
vars == <<task, allLun, luVars, connVars, ioVars, sndVars, events>>

Luns == 0 .. MaxLun - 1

(* none: not created; queued: in cmd_queue; lu: held by the luworker;      *)
(* posted: in task_queue for data transfer; xfer: data transfer by the     *)
(* worker; reply: in task_queue or at the worker for its response;         *)
(* result: in result_queue; sending: at the sender; answered and cleared:  *)
(* freed, after a response and without one; lost: kept by nobody, leaked.  *)
Stages == {"none", "queued", "lu", "posted", "xfer", "reply", "result",
           "sending", "answered", "cleared", "lost"}

TaskRec == [stage: Stages, conn: Conns \cup {None}, lun: Luns,
            write: BOOLEAN, req_transfer_out: BOOLEAN,
            req_execute: BOOLEAN, error: BOOLEAN, abort: BOOLEAN,
            execute: BOOLEAN]

LuPcs == {"count", "recount", "idle", "wait", "woken", "start", "post",
          "post_pipe", "trans", "twait", "twoken", "exec_lock", "exec",
          "reply", "reply_pipe"}
WorkerPcs == {"poll", "notify", "xfer", "respond", "clr_lock",
              "clr_queue", "clr_wait", "cl_begin", "cl_wait_all", "cl_join",
              "gone"}
ClrKinds == {"IT", "ITL", "ITLQ", "ALL"}

TypeOK ==
  /\ task \in [Tasks -> TaskRec]
  /\ cmd_queue \in [Luns -> Seq(Tasks)]
  /\ wait_lu_task \in [Luns -> Tasks \cup {None}]
  /\ queue_check \in BOOLEAN /\ lu_mutex \in BOOLEAN
  /\ lpc \in LuPcs /\ llun \in Luns
  /\ scan \in Luns \X (0 .. MaxLun) /\ again \in BOOLEAN
  /\ ltask \in Tasks \cup {None} /\ lconn \in Conns \cup {None}
  /\ wpc \in [Conns -> WorkerPcs]
  /\ state \in [Conns -> {"RUNNING", "EXITING"}]
  /\ clr \in [Conns -> [kind: ClrKinds, lun: Luns, ref: Tasks \cup {None},
                        cold: BOOLEAN]]
  /\ exec_lu_task \in [Conns -> Tasks \cup {None}]
  /\ running_tasks \in [Conns -> Nat]
  /\ task_queue \in [Conns -> Seq(Tasks)]
  /\ task_pipe \in [Conns -> Seq({"Q", "E"})]
  /\ result_queue \in [Conns -> Seq(Tasks)]
  /\ spc \in [Conns -> {"take", "send", "done"}]
  /\ stask \in [Conns -> Tasks \cup {None}]
  /\ events \in 0 .. MaxEvents

NoClr == [kind |-> "ITL", lun |-> 0, ref |-> None, cold |-> FALSE]

(* istgt_lu_create_task copies the command and clears every flag.  w: it is *)
(* a write whose data did not all come with the command.                   *)
NewTask(stage, c, l, w) ==
  [stage |-> stage, conn |-> c, lun |-> l, write |-> w, req_transfer_out |-> FALSE,
   req_execute |-> FALSE, error |-> FALSE, abort |-> FALSE, execute |-> FALSE]

Init ==
  /\ task = [t \in Tasks |-> NewTask("none", None, 0, FALSE)]
  /\ cmd_queue = [l \in Luns |-> <<>>]
  /\ wait_lu_task = [l \in Luns |-> None]
  /\ queue_check = FALSE /\ lu_mutex = FALSE
  /\ lpc = "count" /\ llun = 0 /\ scan = <<0, MaxLun>> /\ again = FALSE
  /\ ltask = None /\ lconn = None
  /\ wpc = [c \in Conns |-> "poll"]
  /\ state = [c \in Conns |-> "RUNNING"]
  /\ clr = [c \in Conns |-> NoClr]
  /\ exec_lu_task = [c \in Conns |-> None]
  /\ running_tasks = [c \in Conns |-> 0]
  /\ task_queue = [c \in Conns |-> <<>>]
  /\ task_pipe = [c \in Conns |-> <<>>]
  /\ result_queue = [c \in Conns |-> <<>>]
  /\ spc = [c \in Conns |-> IF UseSender THEN "take" ELSE "done"]
  /\ stask = [c \in Conns |-> None]
  /\ events = 0

(* istgt_free_conn has run: a write through the pointer lands nowhere. *)
Alive(c) == wpc[c] # "gone"

(* The bound on what could happen for ever. *)
OneEvent == events < MaxEvents /\ events' = events + 1

(* Definitions named Faulty... are never used: see QueueSelect.             *)

(* pthread_cond_broadcast on t->trans_cond. *)
BroadcastTrans(t) == lpc' = IF lpc = "twait" /\ ltask = t THEN "twoken" ELSE lpc

-----------------------------------------------------------------------------
(* The thread of the logical unit: luworker and istgt_lu_disk_queue_start. *)

(* istgt_lu_disk_queue_count begins at lun, or at 0 past the last LUN. *)
StartScan(pc, lun) ==
  LET first == IF lun >= MaxLun THEN 0 ELSE lun
  IN  /\ lpc' = pc
      /\ llun' = first
      /\ scan' = <<first, MaxLun>>

(* One turn of the loop of istgt_lu_disk_queue_count, which locks the queue *)
(* of one LUN at a time and gives up after MaxLun + 1 turns.                *)
LuCount ==
  /\ lpc \in {"count", "recount"}
  /\ LET l == scan[1]
         n == Len(cmd_queue[l])
     IN  \/ /\ n > 0
            /\ lpc' = "start" /\ llun' = l /\ again' = (n >= 2)
            /\ scan' = <<0, 0>>
         \/ /\ n = 0 /\ scan[2] > 0
            /\ scan' = <<IF l + 1 >= MaxLun THEN 0 ELSE l + 1, scan[2] - 1>>
            /\ UNCHANGED <<lpc, llun, again>>
         \/ /\ n = 0 /\ scan[2] = 0 /\ lpc = "count"
            /\ lpc' = "idle" /\ scan' = <<0, 0>>
            /\ UNCHANGED <<llun, again>>
         \/ /\ n = 0 /\ scan[2] = 0 /\ lpc = "recount"
            /\ StartScan("count", llun)
            /\ UNCHANGED again
  /\ UNCHANGED <<task, allLun, ltask, lconn, connVars, ioVars, sndVars,
                 events>>

FaultyLuIdle ==
  /\ lpc = "idle"
  /\ lpc' = "wait" /\ queue_check' = FALSE
  /\ UNCHANGED <<task, cmd_queue, wait_lu_task, lu_mutex, luRest, connVars,
                 ioVars, sndVars, events>>

(* Under queue_mutex: a set queue_check means another look, else wait. *)
LuIdle ==
  /\ lpc = "idle"
  /\ IF queue_check THEN StartScan("count", llun)
                    ELSE lpc' = "wait" /\ UNCHANGED <<llun, scan>>
  /\ queue_check' = FALSE
  /\ UNCHANGED <<task, cmd_queue, wait_lu_task, lu_mutex, again, ltask, lconn,
                 connVars, ioVars, sndVars, events>>

LuWoken ==
  /\ lpc = "woken"
  /\ queue_check' = FALSE
  /\ StartScan("recount", llun)
  /\ UNCHANGED <<task, cmd_queue, wait_lu_task, lu_mutex, again, ltask, lconn,
                 connVars, ioVars, sndVars, events>>

(* POSIX lets both condition waits return without a broadcast. *)
LuSpuriousWake ==
  /\ OneEvent
  /\ lpc \in {"wait", "twait"}
  /\ lpc' = IF lpc = "wait" THEN "woken" ELSE "twoken"
  /\ UNCHANGED <<task, allLun, luRest, connVars, ioVars, sndVars>>

(* istgt_lu_disk_queue_start returns ok to luworker, which serves the same *)
(* LUN once more after a success if it had two tasks, and then counts from *)
(* the next LUN.                                                           *)
Return(ok) ==
  /\ again' = FALSE
  /\ ltask' = None /\ lconn' = None
  /\ IF ok /\ again
       THEN lpc' = "start" /\ UNCHANGED <<llun, scan>>
       ELSE StartScan("count", llun + 1)

LuDequeueEmpty ==
  /\ lpc = "start" /\ cmd_queue[llun] = <<>>
  /\ Return(TRUE)
  /\ UNCHANGED <<task, allLun, connVars, ioVars, sndVars, events>>

(* A write without all its data is marked for the handshake. *)
LuDequeue ==
  /\ lpc = "start" /\ cmd_queue[llun] # <<>>
  /\ LET t == Head(cmd_queue[llun])
         transfer == task[t].write
     IN  /\ ltask' = t /\ lconn' = task[t].conn
         /\ task' = [task EXCEPT ![t].stage = "lu", ![t].req_transfer_out = transfer]
         /\ lpc' = IF transfer THEN "post" ELSE "exec_lock"
  /\ cmd_queue' = [cmd_queue EXCEPT ![llun] = Tail(@)]
  /\ UNCHANGED <<wait_lu_task, queue_check, lu_mutex, llun, scan, again,
                 connVars, ioVars, sndVars, events>>

(* Hand the task to the worker: first task_queue, then a byte in task_pipe *)
(* so that its poll returns.                                               *)
PostTask(stage) ==
  /\ task_queue' = IF Alive(lconn)
                     THEN [task_queue EXCEPT ![lconn] = Append(@, ltask)]
                     ELSE task_queue
  /\ task' = [task EXCEPT ![ltask].stage = IF Alive(lconn) THEN stage ELSE "lost"]

WriteByte(c, b) ==
  task_pipe' = IF Alive(c) THEN [task_pipe EXCEPT ![c] = Append(@, b)] ELSE task_pipe

LuPost ==
  /\ lpc = "post"
  /\ PostTask("posted")
  /\ lpc' = "post_pipe"
  /\ UNCHANGED <<allLun, luRest, connVars, task_pipe, result_queue, sndVars,
                 events>>

LuPostPipe ==
  /\ lpc = "post_pipe"
  /\ WriteByte(lconn, "Q")
  /\ lpc' = "trans"
  /\ UNCHANGED <<task, allLun, luRest, connVars, task_queue, result_queue,
                 sndVars, events>>

FaultyLuBeginWait ==
  /\ lpc = "trans"
  /\ lpc' = "twait" /\ wait_lu_task' = [wait_lu_task EXCEPT ![llun] = ltask]
  /\ UNCHANGED <<task, cmd_queue, queue_check, lu_mutex, luRest, connVars,
                 ioVars, sndVars, events>>

(* Lock trans_mutex, publish wait_lu_task, and wait unless the data are    *)
(* already there.                                                          *)
LuBeginWait ==
  /\ lpc = "trans"
  /\ IF task[ltask].req_transfer_out
       THEN lpc' = "twait" /\ wait_lu_task' = [wait_lu_task EXCEPT ![llun] = ltask]
       ELSE lpc' = "exec_lock" /\ UNCHANGED wait_lu_task
  /\ UNCHANGED <<task, cmd_queue, queue_check, lu_mutex, luRest, connVars,
                 ioVars, sndVars, events>>

FaultyLuTransWoken ==
  /\ lpc = "twoken"
  /\ lpc' = "exec_lock"
  /\ wait_lu_task' = [wait_lu_task EXCEPT ![llun] = None]
  /\ UNCHANGED <<task, luRest, cmd_queue, queue_check, lu_mutex, connVars,
                 ioVars, sndVars, events>>

(* Woken: an error ends the task for the luworker, which leaves it to the  *)
(* connection; data still missing means another wait.                      *)
LuTransWoken ==
  /\ lpc = "twoken"
  /\ \/ /\ task[ltask].error
        /\ wait_lu_task' = [wait_lu_task EXCEPT ![llun] = None]
        /\ task' = [task EXCEPT ![ltask].stage = IF @ = "lu" THEN "lost" ELSE @]
        /\ Return(FALSE)
     \/ /\ ~task[ltask].error /\ task[ltask].req_transfer_out
        /\ lpc' = "twait"
        /\ UNCHANGED <<task, wait_lu_task, luRest>>
     \/ /\ ~task[ltask].error /\ ~task[ltask].req_transfer_out
        /\ lpc' = "exec_lock"
        /\ wait_lu_task' = [wait_lu_task EXCEPT ![llun] = None]
        /\ UNCHANGED <<task, luRest>>
  /\ UNCHANGED <<cmd_queue, queue_check, lu_mutex, connVars, ioVars, sndVars,
                 events>>

FaultyLuTimeout_silent ==
  /\ lpc \in {"twait", "twoken"} /\ task[ltask].req_transfer_out
  /\ wait_lu_task' = [wait_lu_task EXCEPT ![llun] = None]
  /\ Return(FALSE)
  /\ UNCHANGED <<task, cmd_queue, queue_check, lu_mutex, connVars, ioVars,
                 sndVars, events>>

(* ETIMEDOUT: give the task up, or go on if the data came before the       *)
(* luworker had trans_mutex again.  task->error is not looked at then.     *)
LuTimeout ==
  /\ lpc \in {"twait", "twoken"}
  /\ wait_lu_task' = [wait_lu_task EXCEPT ![llun] = None]
  /\ IF task[ltask].req_transfer_out
       THEN task' = [task EXCEPT ![ltask].error = TRUE] /\ Return(FALSE)
       ELSE lpc' = "exec_lock" /\ UNCHANGED <<task, luRest>>
  /\ UNCHANGED <<cmd_queue, queue_check, lu_mutex, connVars, ioVars, sndVars,
                 events>>

LuExecBegin ==
  /\ lpc = "exec_lock" /\ ~lu_mutex
  /\ lpc' = "exec" /\ lu_mutex' = TRUE
  /\ UNCHANGED <<task, lunVars, luRest, connVars, ioVars, sndVars, events>>

LuExecEnd ==
  /\ lpc = "exec"
  /\ task' = [task EXCEPT ![ltask].execute = TRUE]
  /\ lpc' = "reply" /\ lu_mutex' = FALSE
  /\ UNCHANGED <<lunVars, luRest, connVars, ioVars, sndVars, events>>

(* The response: result_queue of the sender, or task_queue and task_pipe. *)
LuReply ==
  /\ lpc = "reply"
  /\ IF UseSender
       THEN /\ result_queue' = IF Alive(lconn)
                                 THEN [result_queue EXCEPT ![lconn] = Append(@, ltask)]
                                 ELSE result_queue
            /\ task' = [task EXCEPT ![ltask].stage =
                                      IF Alive(lconn) THEN "result" ELSE "lost"]
            /\ Return(TRUE)
            /\ UNCHANGED task_queue
       ELSE /\ PostTask("reply")
            /\ lpc' = "reply_pipe" /\ ltask' = None
            /\ UNCHANGED <<llun, scan, again, lconn, result_queue>>
  /\ UNCHANGED <<allLun, connVars, task_pipe, sndVars, events>>

LuReplyPipe ==
  /\ lpc = "reply_pipe"
  /\ WriteByte(lconn, "Q")
  /\ Return(TRUE)
  /\ UNCHANGED <<task, allLun, connVars, task_queue, result_queue, sndVars,
                 events>>

LuStep ==
  \/ LuCount \/ LuIdle \/ LuWoken
  \/ LuDequeueEmpty \/ LuDequeue \/ LuPost \/ LuPostPipe
  \/ LuBeginWait \/ LuTransWoken
  \/ LuExecBegin \/ LuExecEnd \/ LuReply \/ LuReplyPipe

-----------------------------------------------------------------------------
(* The worker of connection c.                                             *)

To(c, pc) == wpc' = [wpc EXCEPT ![c] = pc]
Cleanup(c) == To(c, "cl_begin")

(* The end of a turn: conn->state is tested before the next poll.  The     *)
(* test may also come later (WkNotice), but once it has seen RUNNING the   *)
(* worker handles one more PDU or byte even if the state changes.          *)
Loop(c) == To(c, IF state[c] = "RUNNING" THEN "poll" ELSE "cl_begin")

WkNotice(c) ==
  /\ wpc[c] = "poll" /\ state[c] # "RUNNING"
  /\ Cleanup(c)
  /\ UNCHANGED <<task, allLun, luVars, state, clr, exec_lu_task, running_tasks,
                 ioVars, sndVars, events>>

(* A SCSI command arrives (istgt_lu_disk_queue).  A full queue is answered *)
(* TASK SET FULL by the worker and the task object is gone at once; the    *)
(* attribute HEAD OF QUEUE puts a task first.                              *)
WkScsi(c, t, l, w, first) ==
  /\ wpc[c] = "poll"
  /\ task[t].stage = "none"
  /\ IF Len(cmd_queue[l]) > MaxQueue
       THEN Loop(c) /\ UNCHANGED <<task, cmd_queue>>
       ELSE /\ task' = [task EXCEPT ![t] = NewTask("queued", c, l, w)]
            /\ cmd_queue' = [cmd_queue EXCEPT ![l] =
                               IF first THEN <<t>> \o @ ELSE Append(@, t)]
            /\ To(c, "notify")
  /\ UNCHANGED <<wait_lu_task, queue_check, lu_mutex, luVars, state, clr,
                 exec_lu_task, running_tasks, ioVars, sndVars, events>>

WkNotify(c) ==
  /\ wpc[c] = "notify"
  /\ queue_check' = TRUE
  /\ lpc' = IF lpc = "wait" THEN "woken" ELSE lpc
  /\ Loop(c)
  /\ UNCHANGED <<task, cmd_queue, wait_lu_task, lu_mutex, luRest, state, clr,
                 exec_lu_task, running_tasks, ioVars, sndVars, events>>

ClearFor(c, kind, l, ref, cold) ==
  /\ clr' = [clr EXCEPT ![c] = [kind |-> kind, lun |-> l, ref |-> ref, cold |-> cold]]
  /\ To(c, "clr_lock")

(* ABORT TASK (ITLQ), ABORT TASK SET and CLEAR TASK SET (ITL). *)
WkClear(c, kind, l, ref) ==
  /\ OneEvent
  /\ wpc[c] = "poll"
  /\ ClearFor(c, kind, l, ref, FALSE)
  /\ UNCHANGED <<task, allLun, luVars, state, exec_lu_task, running_tasks,
                 ioVars, sndVars>>

(* LOGICAL UNIT RESET, TARGET WARM RESET and TARGET COLD RESET ask the      *)
(* other connections of this initiator to exit, then clear one LUN of all  *)
(* tasks.                                                                  *)
WkReset(c, l, cold) ==
  /\ OneEvent
  /\ wpc[c] = "poll"
  /\ state' = [x \in Conns |->
                 IF x # c /\ Alive(x) /\ InitiatorName[x] = InitiatorName[c]
                   THEN "EXITING" ELSE state[x]]
  /\ ClearFor(c, "ALL", l, None, cold)
  /\ UNCHANGED <<task, allLun, luVars, exec_lu_task, running_tasks, ioVars,
                 sndVars>>

(* LOGOUT, end of file, a socket or protocol error, or a PDU that finds    *)
(* the connection exiting.                                                 *)
WkClose(c) ==
  /\ OneEvent
  /\ wpc[c] = "poll"
  /\ Cleanup(c)
  /\ UNCHANGED <<task, allLun, luVars, state, clr, exec_lu_task, running_tasks,
                 ioVars, sndVars>>

(* A byte is in task_pipe: E is the exit request, Q announces a task.      *)
WkPipe(c) ==
  /\ wpc[c] = "poll" /\ task_pipe[c] # <<>>
  /\ task_pipe' = [task_pipe EXCEPT ![c] = Tail(@)]
  /\ \/ /\ Head(task_pipe[c]) = "E"
        /\ Cleanup(c)
        /\ UNCHANGED <<task, exec_lu_task, running_tasks, task_queue>>
     \/ /\ Head(task_pipe[c]) = "Q" /\ task_queue[c] = <<>>
        /\ Loop(c)
        /\ UNCHANGED <<task, exec_lu_task, running_tasks, task_queue>>
     \/ /\ Head(task_pipe[c]) = "Q" /\ task_queue[c] # <<>>
        /\ LET t == Head(task_queue[c])
               transfer == task[t].req_transfer_out
           IN  /\ exec_lu_task' = [exec_lu_task EXCEPT ![c] = t]
               /\ IF transfer
                    THEN task' = [task EXCEPT ![t].stage = "xfer"] /\ To(c, "xfer")
                    ELSE UNCHANGED task /\ To(c, "respond")
               /\ running_tasks' =
                    IF ~transfer /\ task[t].req_execute /\ running_tasks[c] > 0
                      THEN [running_tasks EXCEPT ![c] = @ - 1] ELSE running_tasks
        /\ task_queue' = [task_queue EXCEPT ![c] = Tail(@)]
  /\ UNCHANGED <<allLun, luVars, state, clr, result_queue, sndVars, events>>

(* istgt_iscsi_task_response and istgt_lu_destroy_task. *)
WkRespondOk(c) ==
  /\ wpc[c] = "respond"
  /\ task' = [task EXCEPT ![exec_lu_task[c]].stage = "answered"]
  /\ exec_lu_task' = [exec_lu_task EXCEPT ![c] = None]
  /\ Loop(c)
  /\ UNCHANGED <<allLun, luVars, state, clr, running_tasks, ioVars, sndVars,
                 events>>

(* The transfer or the response failed. *)
WkIoFail(c) ==
  /\ OneEvent
  /\ wpc[c] \in {"xfer", "respond"}
  /\ task' = [task EXCEPT ![exec_lu_task[c]].error = TRUE]
  /\ Cleanup(c)
  /\ UNCHANGED <<allLun, luVars, state, clr, exec_lu_task, running_tasks, ioVars,
                 sndVars>>

FaultyCountRunning(c) == UNCHANGED running_tasks
CountRunning(c) ==
  running_tasks' = IF UseSender THEN running_tasks
                                ELSE [running_tasks EXCEPT ![c] = @ + 1]

(* All data are in: under trans_mutex, tell the luworker.  If it has given *)
(* the task up meanwhile, nobody keeps the task any more.                  *)
WkXferOk(c) ==
  /\ wpc[c] = "xfer"
  /\ LET t == exec_lu_task[c]
     IN  /\ task' = [task EXCEPT ![t].req_transfer_out = FALSE,
                                 ![t].req_execute = TRUE,
                                 ![t].stage = IF ltask = t THEN "lu" ELSE "lost"]
         /\ BroadcastTrans(t)
  /\ CountRunning(c)
  /\ exec_lu_task' = [exec_lu_task EXCEPT ![c] = None]
  /\ Loop(c)
  /\ UNCHANGED <<allLun, luRest, state, clr, ioVars, sndVars, events>>

-----------------------------------------------------------------------------
(* Clearing tasks (istgt_lu_disk_queue_clear_internal and _clear_all).     *)

(* strcasecmp on the initiator port, so a connection reaches the tasks of  *)
(* every connection of its session.                                        *)
Matches(c, t) ==
  \/ clr[c].kind = "ALL"
  \/ /\ InitiatorPort[task[t].conn] = InitiatorPort[c]
     /\ clr[c].kind = "ITLQ" => t = clr[c].ref

WkClrLock(c) ==
  /\ wpc[c] = "clr_lock" /\ ~lu_mutex
  /\ lu_mutex' = TRUE
  /\ To(c, "clr_queue")
  /\ UNCHANGED <<task, lunVars, luVars, state, clr, exec_lu_task,
                 running_tasks, ioVars, sndVars, events>>

(* Under cmd_queue_mutex: destroy the tasks that match, keep the others in *)
(* their order.                                                            *)
WkClrQueue(c) ==
  /\ wpc[c] = "clr_queue"
  /\ LET q == cmd_queue[clr[c].lun]
         Gone == {i \in 1 .. Len(q) : Matches(c, q[i])}
     IN  /\ \E r \in Selections(q, (1 .. Len(q)) \ Gone) :
              cmd_queue' = [cmd_queue EXCEPT ![clr[c].lun] = r]
         /\ task' = [t \in Tasks |-> IF \E i \in Gone : q[i] = t
                                       THEN [task[t] EXCEPT !.stage = "cleared"]
                                       ELSE task[t]]
  /\ To(c, "clr_wait")
  /\ UNCHANGED <<wait_lu_task, queue_check, lu_mutex, luVars, state, clr,
                 exec_lu_task, running_tasks, ioVars, sndVars, events>>

FaultyAbortWaiting(c) ==
  LET t == wait_lu_task[clr[c].lun]
      hit == t # None /\ Matches(c, t)
  IN  \/ /\ hit
         /\ task' = [task EXCEPT ![t].error = TRUE, ![t].abort = TRUE,
                                 ![t].stage = "cleared"]
         /\ BroadcastTrans(t)
      \/ ~hit /\ UNCHANGED <<task, lpc>>

(* Under wait_lu_task_mutex: abort the transfer the luworker waits for.    *)
(* trans_mutex is only tried: when the luworker has just been woken it may *)
(* hold it, and then nothing is aborted.                                   *)
AbortWaiting(c) ==
  LET t == wait_lu_task[clr[c].lun]
      hit == t # None /\ Matches(c, t)
  IN  \/ /\ hit
         /\ task' = [task EXCEPT ![t].error = TRUE, ![t].abort = TRUE]
         /\ BroadcastTrans(t)
      \/ /\ hit => lpc = "twoken"
         /\ UNCHANGED <<task, lpc>>

(* istgt_lu_disk_queue_clear_IT goes on with the next LUN; the other       *)
(* clears release lu->mutex and end, after a cold reset with the           *)
(* connection exiting.                                                     *)
WkClrWait(c) ==
  /\ wpc[c] = "clr_wait"
  /\ AbortWaiting(c)
  /\ IF clr[c].kind = "IT" /\ clr[c].lun + 1 < MaxLun
       THEN /\ clr' = [clr EXCEPT ![c].lun = @ + 1]
            /\ To(c, "clr_queue")
            /\ UNCHANGED <<lu_mutex, state>>
       ELSE /\ lu_mutex' = FALSE
            /\ clr' = [clr EXCEPT ![c] = NoClr]
            /\ IF clr[c].kind = "IT" THEN To(c, "cl_wait_all")
               ELSE IF clr[c].cold THEN Cleanup(c) ELSE Loop(c)
            /\ state' = IF clr[c].cold THEN [state EXCEPT ![c] = "EXITING"] ELSE state
  /\ UNCHANGED <<lunVars, luRest, exec_lu_task, running_tasks, ioVars, sndVars,
                 events>>

-----------------------------------------------------------------------------
(* worker_cleanup and wait_all_task.                                       *)

WkClBegin(c) ==
  /\ wpc[c] = "cl_begin"
  /\ LET t == exec_lu_task[c]
     IN  IF t = None
           THEN UNCHANGED <<task, lpc>>
           ELSE task' = [task EXCEPT ![t].error = TRUE] /\ BroadcastTrans(t)
  /\ lu_mutex' \in {lu_mutex, FALSE}
  /\ state' = [state EXCEPT ![c] = "EXITING"]
  /\ ClearFor(c, "IT", 0, None, FALSE)
  /\ UNCHANGED <<lunVars, luRest, exec_lu_task, running_tasks, ioVars, sndVars,
                 events>>

(* One turn of wait_all_task.  The byte is not looked at; a task that has  *)
(* been executed counts and is freed, except that the last one ends the    *)
(* wait before it is.                                                      *)
WkWaitTask(c) ==
  /\ wpc[c] = "cl_wait_all" /\ running_tasks[c] > 0 /\ task_pipe[c] # <<>>
  /\ task_pipe' = [task_pipe EXCEPT ![c] = Tail(@)]
  /\ \/ /\ task_queue[c] = <<>>
        /\ To(c, "cl_join")
        /\ UNCHANGED <<task, task_queue, running_tasks, lpc>>
     \/ /\ task_queue[c] # <<>>
        /\ task_queue' = [task_queue EXCEPT ![c] = Tail(@)]
        /\ LET t == Head(task_queue[c])
               counted == task[t].req_execute
               last == counted /\ running_tasks[c] = 1
           IN  IF task[t].req_transfer_out
                 THEN /\ task' = [task EXCEPT ![t].error = TRUE, ![t].abort = TRUE,
                                              ![t].stage = "lost"]
                      /\ BroadcastTrans(t)
                      /\ UNCHANGED <<wpc, running_tasks>>
                 ELSE /\ running_tasks' = [running_tasks EXCEPT ![c] =
                                             IF counted THEN @ - 1 ELSE @]
                      /\ task' = [task EXCEPT ![t].stage =
                                                IF last THEN "lost" ELSE "cleared"]
                      /\ To(c, IF last THEN "cl_join" ELSE "cl_wait_all")
                      /\ UNCHANGED lpc
  /\ UNCHANGED <<allLun, luRest, state, clr, exec_lu_task, result_queue,
                 sndVars, events>>

(* Nothing to wait for, or nothing came for 30 seconds. *)
WkWaitEnd(c) ==
  /\ wpc[c] = "cl_wait_all"
  /\ running_tasks[c] = 0 \/ task_pipe[c] = <<>>
  /\ To(c, "cl_join")
  /\ UNCHANGED <<task, allLun, luVars, state, clr, exec_lu_task, running_tasks,
                 ioVars, sndVars, events>>

(* When the sender is joined, istgt_free_conn drops the queues; the task   *)
(* objects in them are leaked.                                             *)
WkFree(c) ==
  /\ wpc[c] = "cl_join" /\ spc[c] = "done"
  /\ To(c, "gone")
  /\ task' = [t \in Tasks |->
                IF \/ \E i \in DOMAIN task_queue[c] : task_queue[c][i] = t
                   \/ \E i \in DOMAIN result_queue[c] : result_queue[c][i] = t
                   \/ exec_lu_task[c] = t
                  THEN [task[t] EXCEPT !.stage = "lost"] ELSE task[t]]
  /\ task_queue' = [task_queue EXCEPT ![c] = <<>>]
  /\ result_queue' = [result_queue EXCEPT ![c] = <<>>]
  /\ task_pipe' = [task_pipe EXCEPT ![c] = <<>>]
  /\ exec_lu_task' = [exec_lu_task EXCEPT ![c] = None]
  /\ running_tasks' = [running_tasks EXCEPT ![c] = 0]
  /\ UNCHANGED <<allLun, luVars, state, clr, sndVars, events>>

-----------------------------------------------------------------------------
(* The sender thread of connection c.                                      *)

(* The test of conn->state at the top of the loop, under the rule of Loop. *)
SnTop(c) == IF state[c] = "RUNNING" THEN "take" ELSE "done"

FaultySnNotice(c) == FALSE /\ UNCHANGED vars

SnNotice(c) ==
  /\ spc[c] = "take" /\ state[c] # "RUNNING"
  /\ spc' = [spc EXCEPT ![c] = "done"]
  /\ UNCHANGED <<task, allLun, luVars, connVars, ioVars, stask, events>>

(* Under result_queue_mutex; conn->timeout bounds the wait on an empty     *)
(* queue, after which the state is tested again.                           *)
SnTake(c) ==
  /\ spc[c] = "take" /\ result_queue[c] # <<>>
  /\ LET t == Head(result_queue[c])
     IN  /\ stask' = [stask EXCEPT ![c] = t]
         /\ task' = [task EXCEPT ![t].stage = "sending"]
  /\ result_queue' = [result_queue EXCEPT ![c] = Tail(@)]
  /\ spc' = [spc EXCEPT ![c] = "send"]
  /\ UNCHANGED <<allLun, luVars, connVars, task_queue, task_pipe, events>>

(* The response went out: free the task, and unless the connection exits   *)
(* take the next without the test at the top.                              *)
SnSendOk(c) ==
  /\ spc[c] = "send"
  /\ LET q == result_queue[c]
         more == state[c] = "RUNNING" /\ q # <<>>
     IN  /\ task' = [t \in Tasks |->
                       IF t = stask[c] THEN [task[t] EXCEPT !.stage = "answered"]
                       ELSE IF more /\ t = Head(q)
                              THEN [task[t] EXCEPT !.stage = "sending"] ELSE task[t]]
         /\ stask' = [stask EXCEPT ![c] = IF more THEN Head(q) ELSE None]
         /\ spc' = [spc EXCEPT ![c] = IF more THEN "send" ELSE SnTop(c)]
         /\ result_queue' = IF more THEN [result_queue EXCEPT ![c] = Tail(q)]
                                    ELSE result_queue
  /\ UNCHANGED <<allLun, luVars, connVars, task_queue, task_pipe, events>>

(* The response failed: the exit request tells the worker.  The task is    *)
(* not freed.                                                              *)
SnSendFail(c) ==
  /\ OneEvent
  /\ spc[c] = "send"
  /\ task' = [task EXCEPT ![stask[c]].error = TRUE, ![stask[c]].stage = "lost"]
  /\ WriteByte(c, "E")
  /\ stask' = [stask EXCEPT ![c] = None]
  /\ spc' = [spc EXCEPT ![c] = SnTop(c)]
  /\ UNCHANGED <<allLun, luVars, connVars, task_queue, result_queue>>

(* istgt_stop_conns asks every worker to exit; one request at a time is    *)
(* kept in the pipe here, which bounds it.                                 *)
StopConn(c) ==
  /\ OneEvent
  /\ Alive(c)
  /\ \A i \in DOMAIN task_pipe[c] : task_pipe[c][i] # "E"
  /\ WriteByte(c, "E")
  /\ UNCHANGED <<task, allLun, luVars, connVars, task_queue, result_queue, sndVars>>

(* The login of another connection of the port (istgt_iscsi_drop_old_conns) *)
(* or the shutdown of the target (istgt_iscsi_shutdown).                    *)
DropConn(c) ==
  /\ OneEvent
  /\ Alive(c)
  /\ state' = [state EXCEPT ![c] = "EXITING"]
  /\ UNCHANGED <<task, allLun, luVars, wpc, clr, exec_lu_task, running_tasks,
                 ioVars, sndVars>>

-----------------------------------------------------------------------------
WkStep(c) ==
  \/ WkNotice(c) \/ WkNotify(c) \/ WkPipe(c)
  \/ WkRespondOk(c) \/ WkXferOk(c)
  \/ WkClrLock(c) \/ WkClrQueue(c) \/ WkClrWait(c)
  \/ WkClBegin(c) \/ WkWaitTask(c) \/ WkWaitEnd(c) \/ WkFree(c)

SnStep(c) == SnNotice(c) \/ SnTake(c) \/ SnSendOk(c)

Scsi(c) ==
  \E t \in Tasks, l \in Luns, w \in BOOLEAN, first \in BOOLEAN : WkScsi(c, t, l, w, first)

(* What may happen at most MaxEvents times. *)
Event(c) ==
  \/ \E l \in Luns : WkClear(c, "ITL", l, None)
  \/ \E l \in Luns, t \in Tasks : WkClear(c, "ITLQ", l, t)
  \/ \E l \in Luns, cold \in BOOLEAN : WkReset(c, l, cold)
  \/ WkClose(c) \/ WkIoFail(c) \/ SnSendFail(c) \/ DropConn(c) \/ StopConn(c)

Next ==
  \/ LuStep \/ LuTimeout \/ LuSpuriousWake
  \/ \E c \in Conns : Scsi(c) \/ WkStep(c) \/ SnStep(c) \/ Event(c)

Spec == Init /\ [][Next]_vars

(* Threads run.  trans_cond is waited on up to an absolute time, so that    *)
(* wake-ups do not put the time-out off.  A thread that wants lu->mutex     *)
(* gets it if it is released again and again.  One turn of the worker looks *)
(* at the socket and then at the pipe, so PDUs do not keep it from the pipe.*)
Fairness ==
  /\ WF_vars(LuStep) /\ SF_vars(LuTimeout) /\ SF_vars(LuExecBegin)
  /\ \A c \in Conns : /\ WF_vars(WkStep(c)) /\ SF_vars(WkPipe(c))
                      /\ SF_vars(WkClrLock(c)) /\ WF_vars(SnStep(c))

FairSpec == Spec /\ Fairness

-----------------------------------------------------------------------------
(* Properties.                                                             *)

Queued(t, l) == task[t].stage = "queued" /\ task[t].lun = l
At(t, c, stages) == task[t].stage \in stages /\ task[t].conn = c

CmdCustody ==
  \A l \in Luns : /\ Distinct(cmd_queue[l])
                  /\ \A t \in Tasks : InSeq(t, cmd_queue[l]) <=> Queued(t, l)

LuCustody ==
  /\ \A t \in Tasks : task[t].stage = "lu" => ltask = t
  /\ ltask # None => task[ltask].stage \in {"lu", "posted", "xfer", "lost"}

ConnCustody(c) ==
  /\ Distinct(task_queue[c]) /\ Distinct(result_queue[c])
  /\ \A t \in Tasks :
       /\ InSeq(t, task_queue[c]) <=> At(t, c, {"posted", "reply"}) /\ exec_lu_task[c] # t
       /\ At(t, c, {"xfer"}) => exec_lu_task[c] = t
       /\ exec_lu_task[c] = t => At(t, c, {"xfer", "reply"})
       /\ InSeq(t, result_queue[c]) <=> At(t, c, {"result"})
       /\ stask[c] = t <=> At(t, c, {"sending"})

(* Every queue and every thread's variable holds exactly the tasks whose   *)
(* stage says so: a task that was answered or cleared, and so freed, is    *)
(* reached by nobody; a task is in one queue, once; only a task that is    *)
(* posted for its data is shared, by the luworker and a worker; and no     *)
(* task is forgotten before its stage is lost.                             *)
Custody == CmdCustody /\ LuCustody /\ \A c \in Conns : ConnCustody(c)

(* A write that needs a transfer is executed only when the worker has      *)
(* delivered all its data, and a command that has failed only if it was    *)
(* aborted: a failed transfer is never executed.                           *)
DataBeforeExecute ==
  lpc \in {"exec_lock", "exec"} =>
    /\ task[ltask].write => task[ltask].req_execute /\ ~task[ltask].req_transfer_out
    /\ task[ltask].error => task[ltask].abort

(* spec->wait_lu_task never outlives the wait: a clear that follows it     *)
(* finds the task of the luworker, not one that was freed.                 *)
WaitIsCurrent ==
  \A l \in Luns : wait_lu_task[l] # None =>
    wait_lu_task[l] = ltask /\ llun = l /\ lpc \in {"twait", "twoken"}

(* The luworker does not sleep on queue_cond while a LUN has a task that   *)
(* nobody is going to announce.                                            *)
NoLostWakeup ==
  lpc = "wait" /\ (\E l \in Luns : cmd_queue[l] # <<>>) =>
    \E c \in Conns : wpc[c] = "notify"

(* Until its worker cleans up, a connection has one byte Q in task_pipe    *)
(* for each task in task_queue, but for a task that the luworker is about  *)
(* to announce: no task is overlooked, and no byte finds the queue empty.  *)
Announced ==
  \A c \in Conns : wpc[c] \notin {"cl_wait_all", "cl_join", "gone"} =>
    Len(task_queue[c]) =
      Cardinality({i \in DOMAIN task_pipe[c] : task_pipe[c][i] = "Q"})
        + (IF lpc \in {"post_pipe", "reply_pipe"} /\ lconn = c THEN 1 ELSE 0)

(* running_tasks counts at least the transferred writes that are on their  *)
(* way back: the branch "running no task" is dead, and the cleanup does    *)
(* not stop waiting for one of them too early.                             *)
RunningCounted ==
  ~UseSender => \A c \in Conns :
    wpc[c] \notin {"cl_join", "gone"} =>
      Cardinality({t \in Tasks :
        /\ task[t].conn = c /\ task[t].req_execute
        /\ \/ task[t].stage = "lu"
           \/ task[t].stage = "reply" /\ exec_lu_task[c] # t}) <= running_tasks[c]

(* What threads tell each other by bytes and counts is what the queues and *)
(* the tasks say.                                                          *)
Accounted == Announced /\ RunningCounted

(* While its connection is not being taken down, a task that nobody keeps  *)
(* any more was marked as failed before it was dropped.                    *)
NoSilentLoss ==
  \A t \in Tasks : task[t].stage = "lost" =>
    \/ task[t].error
    \/ wpc[task[t].conn] \in {"cl_wait_all", "cl_join", "gone"}

(* A clear leaves the tasks it spares in the order in which they arrived,  *)
(* as does every other operation on cmd_queue.                             *)
OrderKept ==
  [][\A l \in Luns : \A i, j \in DOMAIN cmd_queue[l] : i < j =>
       \A x, y \in DOMAIN cmd_queue'[l] :
         cmd_queue'[l][x] = cmd_queue[l][i] /\ cmd_queue'[l][y] = cmd_queue[l][j] => x < y]_vars

(* The life of a command as its initiator sees it (TaskLife): executed at  *)
(* most once, answered once and only after that, dropped at most once and  *)
(* then neither executed nor answered.                                     *)
Status(t) ==
  CASE task[t].stage = "none" -> "new"
    [] task[t].stage = "answered" -> "answered"
    [] task[t].stage \in {"cleared", "lost"} -> "dropped"
    [] OTHER -> IF task[t].execute THEN "executed" ELSE "pending"

Life == INSTANCE TaskLife WITH status <- [t \in Tasks |-> Status(t)]
ImplementsTaskLife == Life!Spec

(* Every command ends: with a response, cleared, or given up as lost.      *)
Settles ==
  \A t \in Tasks : task[t].stage = "queued" ~>
                     task[t].stage \in {"answered", "cleared", "lost"}

(* A connection that is told to exit is taken down, whatever its worker,   *)
(* its sender and the luworker are doing.                                  *)
ExitingEnds == \A c \in Conns : state[c] = "EXITING" ~> wpc[c] = "gone"

-----------------------------------------------------------------------------
(* The parts of the inductive invariant besides Custody and WaitIsCurrent. *)

(* The flags of a task at each stage, and its connection. *)
Flags ==
  \A t \in Tasks :
    LET k == task[t]
    IN  /\ k.stage = "none" <=> k.conn = None
        /\ k.stage \in {"none", "queued"} =>
             ~k.req_transfer_out /\ ~k.req_execute /\ ~k.error /\ ~k.abort /\ ~k.execute
        /\ k.stage \in {"posted", "xfer"} =>
             k.write /\ k.req_transfer_out /\ ~k.req_execute /\ ~k.execute
        /\ k.stage \in {"reply", "result", "sending", "answered"} =>
             k.execute /\ ~k.req_transfer_out

(* What the luworker knows of the task it holds at each point. *)
LuHolds ==
  /\ ltask # None <=> lpc \in {"post", "post_pipe", "trans", "twait", "twoken",
                               "exec_lock", "exec", "reply"}
  /\ ltask # None => lconn = task[ltask].conn
  /\ lpc = "reply_pipe" => lconn # None
  /\ LET k == task[ltask]
     IN  /\ lpc = "post" => /\ k.stage = "lu" /\ k.write /\ k.req_transfer_out
                            /\ ~k.req_execute /\ ~k.execute /\ ~k.error /\ ~k.abort
         /\ lpc \in {"post_pipe", "trans", "twait", "twoken"} =>
              /\ k.write /\ ~k.execute
              /\ k.stage = "lu" <=> ~k.req_transfer_out
              /\ k.req_execute <=> ~k.req_transfer_out
              /\ k.error => \/ k.abort \/ k.stage = "lost"
                            \/ k.stage = "xfer" /\ wpc[lconn] # "xfer"
         /\ lpc = "twait" => k.req_transfer_out
         /\ lpc \in {"exec_lock", "exec"} =>
              /\ k.stage = "lu" /\ ~k.execute /\ ~k.req_transfer_out
              /\ k.write => k.req_execute
              /\ k.error => k.abort
         /\ lpc = "reply" => k.stage = "lu" /\ k.execute /\ ~k.req_transfer_out

(* What a worker holds at each point. *)
Holds(c) ==
  /\ wpc[c] = "xfer" => exec_lu_task[c] # None /\ At(exec_lu_task[c], c, {"xfer"})
  /\ wpc[c] = "respond" => exec_lu_task[c] # None /\ At(exec_lu_task[c], c, {"reply"})
  /\ \/ wpc[c] \in {"poll", "notify"}
     \/ wpc[c] \in {"clr_lock", "clr_queue", "clr_wait"} /\ clr[c].kind # "IT"
     => exec_lu_task[c] = None
  /\ wpc[c] = "gone" => exec_lu_task[c] = None /\ spc[c] = "done"
  /\ spc[c] = "send" <=> stask[c] # None

WorkerHolds == \A c \in Conns : Holds(c)

IndInv == TypeOK /\ Custody /\ WaitIsCurrent /\ Flags /\ LuHolds /\ WorkerHolds

=============================================================================

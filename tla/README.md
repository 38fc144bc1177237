# A verification development for istgt

istgt is an iSCSI target: it offers files or devices as SCSI logical units to
initiators that connect over TCP. This directory holds TLA+ modules that model
its control logic, the TLC configurations that check them on small instances,
and TLAPS proofs of what matters most for every size. `PROJECT.json` maps each
definition to the lines of C it stands for, and lists the runs, the mutants,
the hazards and the theorems.

Source paths below are relative to `src/src/istgt/`.

## 1. Inventory

| Component | State | Operations | Interacts through |
|---|---|---|---|
| **Command queue and task handshake** (`istgt_lu_disk.c` 4292-5205, `istgt_lu.c` 2490-2658, `istgt_iscsi.c` 4429-5233) | `cmd_queue`, `wait_lu_task` per LUN; `queue_check`, `lu->mutex` per unit; `task_queue`, `task_pipe`, `result_queue`, `running_tasks`, `exec_lu_task`, `state` per connection; the flags of each task | enqueue, dequeue, transfer handshake, execute, respond, clear (task management), `wait_all_task`, `worker_cleanup`, the sender | condition variables, pipes, shared queues |
| **Persistent and legacy reservations** (`istgt_lu_disk.c` 2294-3716, 6508-6635) | `pr_keys`, `rsv_key`, `rsv_port`, `rsv_scope`, `rsv_type`, `pr_generation` per LUN | PERSISTENT RESERVE IN/OUT, RESERVE, RELEASE, the check before a command | called by `istgt_lu_disk_execute` under `lu->mutex` |
| **Command numbering** (`istgt_iscsi.c` 2359-2398, 2880-3575, 4588-4778) | `ExpCmdSN`, `MaxCmdSN` per session, `StatSN` per connection | acceptance of a CmdSN, wait for a missing command of another connection, numbering of responses by worker or sender, task management | `sess->mutex`, `sess->mcs_cond` |
| **Data-Out, R2T, pending PDUs, Data-In** (`istgt_iscsi.c` 2675-2819, 3399-4286) | slots for transfer tasks, pending PDU queue, `transfer_out`'s locals | first R2T, Data-Out in sequence, PDUs of other commands put aside, segments of a read | worker, `task_queue` |
| **Login and CHAP** (`istgt_iscsi.c` 1064-1390, 1584-2311) | stage, CHAP phase, `authenticated` | login requests of each phase | registry |
| **Parameter negotiation** (`istgt_iscsi.c` 735-1023, `istgt_iscsi_param.c`) | key/value lists | the merge of an offered list | login, text |
| **Write cache, COMPARE AND WRITE** (`istgt_lu_disk.c` 3717-4128) | write buffer (never filled in this build), `ats_mutex` | lbwrite, sync, ATS, WRITE SAME | `istgt_lu_disk_execute` |
| **Registry and life cycle** (`istgt_iscsi.c` 5236-6268, `istgt_core.c` 1000-1254, `istgt_lu.c` 2032-2110) | `g_conns`, sessions, TSIH | create, append, remove a connection; drop the old ones; shutdown | `g_conns_mutex`, pipes |
| **LU access control** (`istgt_lu.c` 61-506) | configuration | netmask, initiator and portal match, SendTargets | login, discovery |
| SCSI command set, backing store, configuration, sockets, log, MD5, CRC32C | | formatting, parsing, I/O | |

The behaviours that are hard are those of the threads: one luworker per unit,
one worker and (with `ISTGT_USE_SENDER_THREAD`) one sender per connection, all
of which can be anywhere when a connection breaks, a task management request
arrives or a time-out expires. `PROJECT.json` lists the hazards, each at its
line, with the properties that cover it.

What makes each component correct:

* Command queue: every task has exactly one keeper; a write is executed only
  with its data; nobody sleeps on work that was queued; commands keep their
  order; each command ends; a connection that exits goes away.
* Reservations: the registrations are a set of I_T nexuses; the reservation
  belongs to one that is registered; a command of a nexus without access is
  refused.
* Command numbering: a command is delivered once, in order of CmdSN, over all
  connections of the session; a command that waits for its turn gets it; the
  window is as wide as the queue depth allows; responses leave in the order of
  StatSN.
* Data transfer: a write is executed with its own data, all of it, each block at
  its place; PDUs put aside are not lost and stay within their limit; one R2T
  follows another; a read gets what there is.
* Login: the full feature phase is reached only after authentication; both sides
  agree on the phase; who is listed gets in.
* Negotiation: the answer suits both sides and is what the transfers use.
* Block I/O: a read sees the last write and COMPARE AND WRITE is atomic, because
  the commands of a unit are executed one after the other.
* Registry: a session exists while it has connections and has a TSIH of its own;
  a new session replaces the old one of the port; who is told to exit goes.

## 2. Plan

1. `LunTasks`, `TaskLife` (done, proved): the core, as every command goes through it.
2. `PersistentReservation` (done, proved): the registrations and the reservation of a LUN.
3. `CmdWindow` (done for the commands of the full feature phase, proved):
   numbering over several connections that may break.
4. `DataTransfer` (done but for aborts, proved): R2T, Data-Out and Data-In; its outcome
   is the step `WkXferOk` or `WkIoFail` of `LunTasks`.
5. `Login` (done, proved), over `ParamNegotiation` and `LuAccess`, which are pure.
6. `Registry` (done but for failures of the system, proved): connections, sessions,
   acceptor and shutdown; its exit requests are `StopConn` and `DropConn` of
   `LunTasks`, its removal is `WkFree` there and `Leave` in `CmdWindow`.
7. The write path: read for a model and left out (section 9 says why).
8. The end of the luworkers at shutdown (not begun): a part of `LunTasks`.

The modules are checked one by one; where two meet, one takes the other's steps
as a choice (the result of a transfer in `LunTasks`, the end of a connection in
`CmdWindow`), which allows more than the other does.

Every safety and action property that a run checks is stated by a theorem, for the
sessions that its section names.

Some hazards have no property. Two are outside the models: the connection
object that is freed while a luworker holds it (`istgt_iscsi.c` 4652), and the
broadcast of a shutdown that a luworker may sleep through (`istgt_lu.c` 2060),
which needs item 8. The code runs into the others and the models show it, so that no
run claims the contrary: `ExpCmdSN` past commands that are on their way or
not tested yet (observations 5, 8), StatSN with sender threads (6), the window that a
cleared task keeps (9), the slot of a refused write (13), the end after ten
seconds (26), immediate Text (30), overlapping registrations (31). `OwnData`,
`NotDropped`, `ExpectedNotPassed` and `HolderIsLetIn` are what should hold there
and does not: TLC finds a trace when one is named as an INVARIANT, in the
instances that observations 13, 30 and 31 name.

`QueueSelect` holds what the first two modules need: the elements of an array or a queue
that are left when some are taken out, in their order. It is a set with exactly
one element rather than a recursive function, so that the provers can use it;
`QueueSelectFacts` proves what it contains.

## 3. `LunTasks`: the command queue and the handshake

### State and actions

The variables have the names of the C fields (`lpc`, `wpc`, `spc` are program
counters; `llun`, `scan`, `again` are locals of the luworker). A critical
section under one mutex is one step; `lu->mutex`, which is held over several,
is the variable `lu_mutex`. `task[t].stage` is an auxiliary variable that
names who keeps the task object.

* *luworker* (`LuCount` ... `LuReplyPipe`, `LuTimeout`, `LuSpuriousWake`):
  the scan of the LUNs, `queue_check` and `queue_cond`, the dequeue, the
  handshake for a write whose data did not come with the command (`LuPost`,
  `LuPostPipe`, `LuBeginWait`, `LuTransWoken`, `LuTimeout`), the execution
  under `lu->mutex` and the response.
* *worker* (`Wk...`): a command (`WkScsi`, `WkNotify`), a byte in `task_pipe`
  (`WkPipe`, `WkXferOk`, `WkIoFail`, `WkRespondOk`), task management
  (`WkClear`, `WkReset`, then `WkClrLock`, `WkClrQueue`, `WkClrWait`), and
  the way out (`WkClBegin`, the clear of all LUNs, `WkWaitTask`, `WkWaitEnd`,
  `WkFree`).
* *sender* (`SnTake`, `SnSendOk`, `SnSendFail`, `SnNotice`).
* *from outside*: `StopConn` (exit byte) and `DropConn` (`conn->state`).

Abstractions, all of them in favour of more behaviours except where named:

* The test of `conn->state` at the end of a turn and later is `Loop` and
  `WkNotice` (`SnTop`, `SnNotice` for the sender).
* The result of a data transfer is a choice; `write` says that a task needs
  one. Immediate writes behave as tasks without.
* All units are of type storage. `istgt_lu_disk_execute` returns -1 on no
  state these units reach, so that there is no action for it.
* `worker_cleanup` unlocks mutexes it may not own. That is undefined: for
  `lu->mutex` it may or may not be released. The other mutexes are not
  modelled across steps.
* `pthread_mutex_trylock` in a clear fails only while the luworker has been
  woken (`lpc = "twoken"`).
* `istgt_free_conn` frees the connection. A write through the old pointer is
  undefined; here it lands nowhere (see observation 1).
* Not modelled: PDUs that go through `result_queue` as tasks, immediate
  results, the end of the luworker at shutdown, what a reset does to the
  data. Who tells a connection to exit, and when, is in `Registry`.

### Runs

`MaxEvents` bounds what could go on for ever: task management, failures,
exits, spurious wake-ups. `MaxQueue` is the configured depth (the code keeps
one more).

| Run | Instance | Question |
|---|---|---|
| `tasks_sender` | 2 ports, 2 tasks, a queue of 2, 1 event, senders | custody of every task, no silent loss, order of the queue under clears |
| `tasks_direct` | 2 connections of one session, 2 tasks, 1 event, no senders | the invariant of the proofs (types, custody and the currency of `wait_lu_task` are in it), the pairing of bytes and tasks and the count of running tasks, data before execution, refinement of `TaskLife` |
| `tasks_luns` | 1 connection, 2 LUNs, 2 tasks, 2 events | no lost wake-up over the LUNs |
| `tasks_live` | 1 connection, 2 tasks, 1 event, with sender | every command ends, every exiting connection goes away |

Two tasks are enough for one to be in transfer while the other is queued
behind it; two connections for one to clear what the other has in flight or
queued. One event suffices for each failure to meet every
interleaving of the rest; `tasks_luns`, with one connection, affords two.
Symmetry is used only for safety. `config.h` sets `ISTGT_USE_SENDER_THREAD` to
1, so that `UseSender` is TRUE where a run has to choose; `tasks_direct` has the
other build. `CHECK_DEADLOCK FALSE`: the bounded system stops when all
tasks are settled and all connections gone.

Properties: `IndInv`, `Custody`, `DataBeforeExecute`, `NoLostWakeup`, `Accounted`
(its parts are `Announced` and `RunningCounted`), `NoSilentLoss`, the action
property `OrderKept`, the refinement `ImplementsTaskLife` (cleared and lost tasks
are "dropped"), and under fairness `Settles` and `ExitingEnds`. Here and in the
sections below each has a mutant (`Faulty...`), a plausible mistake in the code,
that TLC finds.

### Fairness

Weak fairness for the steps of threads: they run. Transfers and responses end
since the sockets have time-outs (`istgt_iscsi.c` 5374). Strong fairness for
`LuTimeout` since `pthread_cond_timedwait` is given an absolute time, so that
wake-ups do not put it off; for `WkPipe` since one turn of the worker looks at
the socket and then at the pipe; for `WkClrLock` and `LuExecBegin` since a
thread that waits for a mutex that is released again and again gets it. None
for commands, task management, failures and exits.

### Where the code differs from what it says

Divergences met while modelling have numbers, here and in the sections below.
They are part of the model: each follows from the actions it names, and no
property that a run checks claims the contrary.

1. `WkWaitEnd`, `WkFree`: `wait_all_task` says "wait all running tasks", but tasks are
   counted only `if (conn->use_sender == 0)`, and only for a part of their way.
   The connection is freed while the luworker holds one of its tasks.
2. `AbortWaiting`, `LuTimeout`: a clear logs a task as aborted ("force error"), but when
   the wait of the luworker ends with ETIMEDOUT it looks at
   `req_transfer_out` only and executes the task.

### Proofs

`LunTasksSteps` (lemmas on the queues, typing of helpers, frames, and one lemma
per action of the threads: it keeps the invariant), `LunTasksProofs` (the rest
of the actions and the theorems). They hold for every value of the
constants that satisfies `LunAssumption`, `SenderAssumption` and
`NoneAssumption`: any number of connections, tasks, LUNs and events.

`Custody` alone is not inductive: that a task in transfer is not answered by
the luworker meanwhile depends on what its flags say at each stage and on what
each thread knows at each program counter. The inductive invariant is

    IndInv == TypeOK /\ Custody /\ WaitIsCurrent /\ Flags /\ LuHolds /\ WorkerHolds

`Flags` relates the flags of a task to its stage, `LuHolds` says what the
luworker knows of `ltask` at each point, `WorkerHolds` what a worker knows of
`exec_lu_task`. An action leaves most of the queues alone; the frame lemmas
(`CustodyFrame`, `CmdFrame`, `ConnFrame`, `StageFrame`, `LuHoldsFrame`,
`WorkerHoldsFrame`) say once what follows then, and each lemma on an action
shows the conjuncts that it disturbs.

| Theorem | Says |
|---|---|
| `Invariance` | `Spec => []IndInv` |
| `TypeCorrect`, `TasksInCustody`, `WaitCurrent` | `TypeOK`, `Custody`, `WaitIsCurrent` |
| `DataFirst` | `DataBeforeExecute` |
| `NoOvertaking` | `OrderKept`: each operation on a queue keeps the order of what stays |
| `EveryTaskLives` | `Spec => ImplementsTaskLife`, by `Custody` and `Flags`: each step of `LunTasks` is a step of `TaskLife` or a stutter |

| `WakeupNotLost` | `NoLostWakeup` |
| `LossIsMarked` | `NoSilentLoss` |
| `QueuesAccounted` | `Accounted` |

The last three each need a strengthening of their own, on top of `IndInv`:

* `Heeded` says of every LUN with tasks that a worker is about to announce it,
  `queue_check` is set, or the scan has it still ahead (`Ahead`). The scan is a
  position and a count, so that it goes around: a LUN is ahead if it is at most as far
  from the position as the count goes. A spurious wake-up, or a clear that empties
  a queue, changes none of this.
* `GivenUp`: a task in transfer is the one the luworker waits for or is marked as
  failed. Without it the end of a transfer after a time-out could drop one silently.
* `Announced` counts: tasks in `task_queue` are as many as bytes in the pipe plus
  those of threads between the two calls. The balance is kept by each
  action for its own connection only (`Balance`), and the others have frames. `AllCounted`
  states the same of `running_tasks` also while nobody waits for it.

Only model-checked: the liveness properties `Settles` and `ExitingEnds`.
Liveness under fairness and `ENABLED` are outside what the provers do, as are induction over data and
modules with RECURSIVE operators; none of the modules has one.

## 4. `PersistentReservation`: who may use a logical unit

### State and actions

`spec` is the part of `ISTGT_LU_DISK` that keeps the reservation: `pr_keys`
(`npr_keys` is its length), `pr_generation`, `rsv_port`, `rsv_key`, `rsv_type`.
`status` and `aborted` are the answer of the last command: its SCSI status, and
the port whose queued tasks PREEMPT AND ABORT aborted (what an abort does to
`cmd_queue` is the clear of `LunTasks`).

All commands of a unit run in its luworker under `lu->mutex`, so that each is
one step. A handler is an operator from the state to the set of results it can
have, since the RESERVE and RELEASE commands call the PERSISTENT RESERVE OUT
function twice: `LegacyReserve` and `LegacyRelease` are compositions of
`RegisterIgnore`, `Reserve` and `Release`. The actions `DoRegister` ...
`DoLegacyRelease` pick the parameters and commit one result; `Command` is the
check before a command that reads or writes; `Restart` loses everything.

* `Nexuses` are pairs of an initiator port and a target port. A registration
  made with ALL_TG_PT matches every target port (`Of`).
* `invalid` stands for every unsupported type and scope; a reservation thus
  always has scope 0, and `rsv_scope` is left out.
* SPEC_I_PT with a list is always answered with CHECK CONDITION, since the
  list is parsed from its own length field (`istgt_lu_disk.c` 3299-3392); the
  model has the empty list.
* Sense data and the texts of PERSISTENT RESERVE IN are left out; REGISTER AND
  MOVE and other service actions are rejected without a change.
* Allocation does not fail, and `istgt_lu_disk_queue_abort_ITL` succeeds.

What PREEMPT does with `pr_generation`, with an `rkey` that is not checked
under a reservation of all registrants, and with registrations removed before
the request is rejected, is modelled as it is.

### Runs

| Run | Instance | Question |
|---|---|---|
| `reservation` | 2 ports of one initiator with 2 keys, 1 port of another with 1, one target port | the invariant of the proofs, exclusive writing, RELEASE undoes RESERVE, what each command may change |

A table of two (`MaxReserve`) is full as soon as two ports are registered, and
leaves the third without room; generations modulo 2 tell a changed generation
from the last. `Foreign = FALSE` says that an initiator sends its own keys as
its reservation key and as its new key (the key to preempt may be any): access
goes by key, so that one who registers with the key of another is let in, as SPC
has it for a shared key. Only `ExclusiveWrite`, a part of `LegacyRoundTrip` and
`Owned` depend on it. The two ports of the initiator share its keys and are
symmetric. `Inv` and the other properties for several target ports, larger tables and foreign keys are left to the
theorems, which hold for every value; TLC is only there to find a false
statement before it is proved.

Properties: `Inv` (its parts that matter are `OnePerNexus` and
`InForceIsComplete`: a NULL `rsv_port` would be compared), `ReRegisterFits` (a full table never costs a nexus its
registration), `ExclusiveWrite`, `LegacyRoundTrip`, and the action properties
`RefusedKeepsReservation`, `GenerationMarks`, `PreemptedAreGone`. There is no
fairness: nothing has to happen here, and no state is without a next one.

### Where the code differs from what it says

3. `DoReserve`: RESERVE with key 0 from a registered port is
   answered GOOD ("establish reservation by key"), but `rsv_key` is then 0,
   which means that there is no reservation.
4. `DoPreempt` (`Others`): "remove other registrations" keeps those through
   the same target port and those for all target ports.

31. `Of`, `Find`, `Allows`: a port that registers through one target port and, with
    ALL_TG_PT, through another has two registrations that match the nexus with the
    first (`OnePerNexus` counts a registration for the nexus that made it). RESERVE
    and RELEASE look for one with the key that is sent, the check of a command takes the first. When
    the reservation goes by the key of the second, its "reservation holder"
    (`istgt_lu_disk.c` 3480) is refused. With two `TargetPorts` in the instance of the
    run, TLC finds `HolderIsLetIn` violated in three states: RESERVE(6) through one
    port, then REGISTER AND IGNORE EXISTING KEY for all target ports through the
    other, with the first key as the one to replace.

### Proofs

`PersistentReservationProofs` proves, for all ports, keys, table sizes and
generation counts that satisfy the assumptions named in the module, each
property above. The inductive
invariant is `Sound`:

    Sound(s) == Typed(s) /\ OneEach(s) /\ Complete(s) /\ Owned(s)

`ExclusiveWrite` is not inductive: that the key a nexus is found under belongs
to the holder needs the owner of every key in the table (`Owned`), also of those
that are not the reservation's now. Since two commands are compositions, the
lemmas are about operators, not actions: each handler leads from a sound state
to results that are a `Step`, which is `Sound` again and has the relations of
the action properties; `Step` composes. `Removal`, `Entering`, `Renewing`,
`Holding` and `TakingOver` say it of the parts that handlers share.

| Theorem | Says |
|---|---|
| `Soundness` | `Spec => []Inv`, the invariant |
| `TypeCorrect`, `RegisteredOnce`, `ReservationComplete` | `TypeOK`, `OnePerNexus`, `InForceIsComplete` |
| `WriterIsHolder` | `ExclusiveWrite` |
| `ReRegistration` | `ReRegisterFits`: a selection that leaves an entry out is shorter |
| `ReleaseUndoesReserve` | `LegacyRoundTrip` |
| `RefusalKeeps`, `GenerationCounts`, `PreemptionRemoves` | the action properties |

`LegacyRoundTrip` is about commands that were not sent yet, so that the lemmas give
the exact result of each half: `NewEntry`, what `RegisterIgnore` leaves for a nexus
that had no registration, and `LegacyReserved`, what a RESERVE that is answered
GOOD leaves where there was no reservation.

## 5. `CmdWindow`: numbering over the connections of a session

### State and actions

`ExpCmdSN`, `MaxCmdSN` and `req_mcs_cond` are fields of the session, `StatSN`
and `result_queue` of each connection. `wk` says where a worker is and `pdu`
which command it has; `wout` and `sout` are the responses, already numbered,
that worker and sender are writing. `queued` is what the logical unit has of a
connection (its inner life is `LunTasks`). Counters count from the login on;
the code's 32-bit registers are `SN(x) = (First + x) % Mod`, and the code's
comparisons `SN32_LT` and `SN32_GT` see those only.

* *worker*: reading a command (`ReadCommand` for SCSI and NOP-Out, `ReadText`,
  `ReadTask`), the wait for its turn (`McsTest`, `McsTimeOut`), the delivery of
  a SCSI command (`Deliver`, a critical section after the one of the test),
  the responses (`AnswerNow`, `AnswerNop`, `AnswerText`, `AnswerTask`,
  `AnswerDone`; `WorkerWrite` sends them), aborts (`AbortTask`), the way out
  (`HangUp`, `Leave`).
* *logical unit and sender*: `TaskDone`, `SenderTake`, `SenderWrite`.
* *initiator and network* (external): `Send` numbers commands over all
  connections and keeps to the window it knows, `Receive` acknowledges,
  `Cut` breaks a connection and loses the end of what was sent over it.

An immediate command has no number of its own (`Own`), and each handler tells it
apart for itself: the tests (`Outside`, `Early`), the window (`Opens`) and
`ExpCmdSN` (`Number`). `ReadText` and `AnswerText` do not, as the code reads the
bit from the wrong place (observation 30): they test every Text against the
window and count it.

`at` says what became of each command and `refused` that one was refused; no
guard reads them.

Abstractions: all connections are there from the start. Errors that end a
connection besides those of the numbering (a failed execution, an unsupported
command, a reset by task management, a logout) are the break of a connection.
Reject is not there, nor are R2T and the target's own NOP-In, which use no
number. The clear at the end of a connection goes by the initiator port: it
drops queued tasks of every connection of the session, except what is in
execution (`Executed`). Spurious wake-ups of `mcs_cond` are left out: they lead
back to the same test.

### Runs

| Run | Instance | Question |
|---|---|---|
| `window_mcs` | 3 connections, depth 3, SCSI, 4 commands, 2 breaks, time-outs, no senders | order, nothing passed over (`InOrder`), no lost wake-up, with several workers asleep |
| `window_single` | 1 connection, SCSI, NOP-Out and task management, 2 immediate commands, no sender | no refusal, order of responses, slots given back |
| `window_kinds` | 2 connections, all kinds, 2 commands with a number and 1 immediate, aborts, 1 break, senders | `Basis`, the invariant of the proofs: types, `req_mcs_cond` while someone sleeps |
| `window_live` | 2 connections, SCSI, senders, fair | arrival, the window opens again |

Registers have 4 bits (`Half = 8`) and start at 14, so that they wrap after
two commands; the queue depth is 2 or 3, so that the window closes and opens
again within four commands (`window_kinds` has two, as each kind on each
connection costs more states than a further command shows: two put one worker to sleep
while the other delivers, answers or leaves), and the assumption `2 * QueueDepth < Half`, which
the code meets with 255 and 2^31, holds. Two connections let one command
overtake another; three let two workers wait for different commands when the
broadcast comes. Who numbers a response makes no difference to the order of
SCSI commands, so that `window_mcs` affords three connections without senders;
`window_live` has senders. `CHECK_DEADLOCK FALSE`: the initiator stops after
`MaxCmds`.

The properties hold for what the runs name and not beyond, and this is a
result: with NOP-Out, Text or task management besides SCSI on several
connections the order is not kept, since those do not wait for their turn; so
it is with an immediate command, refused when others are on their way over
another connection; with sender threads `NothingRefused` and `StatInOrder`
fail; with Text or aborts `StatInOrder` and `WindowKept` do. A response to an
immediate command does not open the window but moves `StatSN`: with more than
`QueueDepth + 1` immediate commands the initiator may acknowledge so late that
`AckLags` refuses its next command, and `NothingRefused` fails (with a queue depth
of 2 at the fourth; `window_single` has two).

Fairness (`window_live`): weak for the steps of threads, the network and the
logical unit, which executes whatever it has; strong for `AnswerDone`, since a
turn of the worker looks at the socket and then at the pipe. None for the
initiator's commands, for time-outs and for breaks; the run has no time-outs
and no breaks, as one of either may lose a command.

### Where the code differs from what it says

5. `AnswerNop`, `SenderTake`: with sender threads, a NOP-Out and the next command both
   move `ExpCmdSN` past the NOP-Out, and a later command is refused.
6. `WritePdu`, `WriteDirect`, `SenderTake`: with sender threads ("StatSN,
   ExpCmdSN, MaxCmdSN are set in the sender thread", `ChangeLog.jp` 170), the
   worker still numbers SCSI and Text responses itself; they leave out of order.
   A NOP-Out is answered through the queue, without a number yet, a SCSI response is
   numbered and put behind it, and the sender numbers the first after the second
   (`StatInOrder` is violated in ten states with one connection, SCSI and NOP-Out).
7. `ReadText`: Text sets `StatSN` back to a number that responses on their way
   already carry ("StarPort have a bug", but any initiator that sends before it
   has read everything meets it).
8. `ReadTask`: task management resets `ExpCmdSN` in case commands were lost
   (`ChangeLog.jp` 745), also when they are only on their way over another
   connection; they are refused when they arrive.
9. `AbortTask`: a cleared task gets no response, and only a response gives its
   slot of the window back, so that the window stays narrower.
10. `Leave`: the removal of a connection ("cleanup for multiple connecsions")
    does not wake the worker that waits for what was lost with it; after the
    time-out (`McsTimeOut`) the last connection ends too.

30. `ReadText`, `AnswerText`: `istgt_iscsi_op_text` takes the I bit from bit 7 of
    the first byte (`istgt_iscsi.c` 2342), which is reserved, where the other handlers take bit
    6 (2853, 3277, 3462). An immediate Text moves `ExpCmdSN` and `MaxCmdSN` on as if it had a
    number of its own ("fixed: CmdSN was advanced for PDUs marked immediate",
    `ChangeLog.jp` 802), so that the next command, which has the number that was
    passed, is refused. With Text and one immediate command in the instance of
    `window_single`, TLC finds `ExpectedNotPassed` violated.

### Proofs

`CmdWindowProofs` proves, for every set of connections, `Half`, `QueueDepth`
and `First` that satisfy the assumptions named in the module, and for every
selection of `Kinds`:

| Theorem | Says |
|---|---|
| `SerialOrder` | `LT` and `GT`, which see only the registers, are the order of counters less than `Half` apart, wherever the register wraps |
| `BasisHolds` | `Basis`, from which follow `TypeCorrect` (`TypeOK`: no count falls below zero, what a worker executes is a command, what it writes is numbered) and |
| `WakeupIsOwed` | `WakeupOwed`: `req_mcs_cond` is positive while a worker sleeps |

and for `Kinds \subseteq {"scsi", "ping"}`, the commands that wait for their
turn (the section above says how NOP-Out with an answer, Text and task
management break the order), with any number of connections, immediate
commands, breaks, time-outs and with or without senders:

| Theorem | Says |
|---|---|
| `OrderInvariance` | `OrderInv`, from which follow |
| `TakenInOrder` | `InOrder`: delivered once, in the order of the numbers, nothing passed over unless it was lost, never two workers with the same turn |
| `SleepersWait` | `NoLostWakeup`: who sleeps on `mcs_cond` waits for a turn that has not come |

    Basis == TypeOK /\ InHand /\ WakeupOwed

No part is inductive alone: that a worker which has left the loop holds a
command, and one that writes a numbered response (`InHand`), is what gives the
handlers their types; and `req_mcs_cond` stays a natural number because it is
tested before it is decremented. For `WakeupOwed` the broadcast matters more
than the count: a delivery that decrements it leaves nobody asleep, every other
step that changes `wk` either counts (`McsTest`) or does not add a sleeper.
There is one lemma for each action; frame lemmas hold what steps of a worker
have in common (`HandFrame` for reading and testing, `WorkerFrame` and
`AnsweringBasis` for answering and leaving).

    Order    == Custody /\ SentIs /\ Turns /\ Promised
    OrderInv == Basis /\ Order

The difficulty is that the worker sees registers of `2 * Half` values. What it
compares is the number of a command with `ExpCmdSN` and `MaxCmdSN`, and the
comparison is right when they are less than `Half` apart (`SerialOrder`). That
they are is a property of the whole session: `MaxCmdSN` moves with each answer
(`Opened`), what was answered was delivered and is below `ExpCmdSN` (`Turns`),
so that `MaxCmdSN` is at most `ExpCmdSN + QueueDepth - 1`; every response that is
written, queued or under way promises no more than that (`Told`), so that
nothing the initiator sent is beyond (`Allowed`). For a number to be below
`ExpCmdSN` only if delivered or lost, no number may be in two places: `Custody`
says that `at` agrees with the inboxes, the hands of the workers, the logical
unit and the result queues. A number that was let in is then `ExpCmdSN` itself,
and it is passed over by `Check` (an expected number ahead, when only one
connection is left) only if what is missing was lost with another connection.
Between the test and `Deliver` the mutex is free; that no other worker takes the
same turn meanwhile holds because the number is in one hand only, and that the
others still sleep rightly because only `Deliver` moves `ExpCmdSN`.

The third part is about the window and the responses, for a session of one connection
`c` as in `window_single`:

    Single(c) == Conns = {c}, no senders, no aborts, no breaks, no Text,
                 MaxImms <= QueueDepth + 1
    SteadyInv(c) == Basis /\ Calm(c) /\ InLine(c) /\ AllSound(c) /\ OpenIs(c)
                          /\ StatIs(c) /\ ImmsIs(c)

| Theorem | Says |
|---|---|
| `SteadyInvariance` | `Single(c)` implies `Spec => []SteadyInv(c)`, from which follow |
| `NoneRefused` | `NothingRefused`: no comparison of serial numbers fails for an initiator that keeps to its window, wherever the registers wrap |
| `StatInTurn` | `StatInOrder`: responses leave in the order of `StatSN`, each number once |
| `WindowGivenBack` | `WindowKept`: what is open and what is still promised are `QueueDepth` together |

The hypotheses are those of the run, with any queue depth, width of the registers,
first number, number of commands and selection of the other kinds; the section on
runs says what fails without each. `MaxImms`
bounds all immediate commands of a session; the bound is exact for the model: with
one more TLC finds a refusal. It stands for commands that are not yet acknowledged,
which is what the difference in `AckLags` counts.

`NothingRefused` says that three tests (`Early`, `Outside`, `AckLags`) never refuse, on values that only the
whole session ties together. `InLine` is the order: the commands in
the inbox are numbered from `ExpCmdSN` (after the one in hand) without a gap up to
the initiator's next number (`Chain`, an immediate command uses none). `OpenIs` is the
account of the window: each number that was let in is still open or has moved
`MaxCmdSN`; `WindowKept` follows, and that nothing beyond the window is sent.
`StatIs` is the account of the responses: `StatSN` is what is acknowledged, what is on
its way and what is being written, in that order, and each promises at most
`QueueDepth` commands beyond its own number. `ImmsIs` bounds how far responses that
open no window let `StatSN` run ahead. So all numbers compared are at most
`2 * QueueDepth` apart, which is less than `Half`, `SerialOrder` applies and each
test of the worker has the right outcome (`HeadIsFine`).

Only model-checked: `EveryCommandArrives` and `WindowReopens` (liveness).

## 6. `DataTransfer`: the data of commands

### State and actions

One connection with one logical unit. `pc` says whether the worker polls,
drains the commands that were set aside (`pending_pdus`), is inside
`istgt_iscsi_transfer_out`, whose locals are `x`, or has left. `r2t_tasks` are
the slots for R2Ts that are out; `task_queue`, `lu_queue` and `lu` are the
worker's and the logical unit's side of a task (the handshake itself is
`LunTasks`); `stored` is what was executed. `reused` is a history variable: the tag
of a refused write whose slot was left behind was used again (observation 13).
Lengths count blocks, a buffer is
the sequence of the blocks written to it, so that data of another command or at
another place is seen.

* *worker*: `ReadPdu` (a command, with its slot and its first R2T, or a Data-Out
  that is filed in a slot), `ExecutePending`, `TaskResponse` (Data-In and
  status), `StartTransfer` (from a slot or from the immediate data),
  `TransferR2T` and `TransferRead` (one turn of the loop of `transfer_out`; what
  belongs to others is filed or set aside).
* *logical unit*: `TakeTask` (a write whose data all came with its command is
  executed without asking the worker, another goes through the transfer), `Execute`.
* *initiator* (external, keeps to the protocol): `SendCommand` with any amount
  of immediate data and a tag that no command without status has, `SendData` in
  pieces of any size that fits a segment, for a command that is refused only as
  long as its tag is not used again.

### Run

`data_mixed` has four writes and a read with lengths 5, 2, 6, 2 and 1, and the last has
the tag of the first: it is used again after the first was executed, or
refused with or without a slot, and the last write may come whole. Two slots (`MaxR2T`) for up to
three commands at a time (`QueueDepth`) leave one write without; a first burst of
1, a burst of 2 and a segment of 2 give writes that need none, one or several
R2Ts, and a read of several segments of which the last is short. The run has
`InitialR2T = Yes`, for a reason below.

Properties: `Bookkeeping` (types; commands set aside are executed before the
worker polls again; a slot is in use once, for a command that waits for its data or
was refused, observation 13; R2Ts are numbered without a gap), `RightData` (a write is executed with all of its own
data, each block at its place), `Conforms` (an initiator that keeps to the
protocol is never rejected or disconnected, whatever arrives in between),
`ReadWhole` (the segments of a read are what there is, in order, and end as they
should), the action property `R2TsFollow` (one R2T at a time, each where the last
ended), and under fairness `EveryCommandAnswered`. All of them say
nothing once `reused` is TRUE: they do not hold then.

Fairness: weak for the worker, for the logical unit, and for the data that R2Ts asked
for, without which a transfer rightly waits; none for new commands. Which of its
socket and its pipe the worker serves first is not assumed: commands are finitely
many, so that the socket does not keep it for ever.

`CHECK_DEADLOCK FALSE`: the initiator stops after its commands. Not modelled:
aborts of a transfer (their effect on the task is in `LunTasks`), the sender
thread, unsolicited Data-Out, digests.

### Where the code differs from what it says

11. `NeedsSlot`, `NeedsR2T`: with `InitialR2T = No` a write whose immediate data
    is shorter than the first burst gets no R2T; with the F bit set ("final"),
    nobody sends anything (`istgt_iscsi.c` 4060) and the transfer hangs until it
    times out.
12. `op_data`: unsolicited Data-Out has no slot and is rejected, although
    `InitialR2T = No` invites it.
13. `op_scsi`: the slot of a command that the logical unit refuses is not taken
    back (`Leftover`). Its tag is free once the initiator has the status, and the
    next command with that tag meets the slot (`istgt_iscsi.c` 3985): its transfer
    starts with the data, the offset and the DataSN of the refused one, or its
    Data-Out is filed there. The properties say what holds until then. Without that
    condition (`OwnData` and `NotDropped` as invariants of `data_mixed`, with a last
    write of two blocks) TLC finds a write executed with a block of the refused one,
    and a connection dropped over a Data-Out whose DataSN is right, each in 15 states.

### Proofs

`DataTransferProofs`, for every sequence of commands, of any length and with any
tags, for all burst lengths, segments and limits that satisfy
`CommandAssumption`, `BurstAssumption`, `LimitAssumption`, `FlagAssumption` and
`NoneAssumption`, and for both values of `InitialR2T`:

    Guarded == reused \/ IInv
    IInv == /\ TypeOK /\ NotDropped /\ OwnData
            /\ InOrder /\ Immediate /\ Places /\ Tags /\ SlotsFit /\ XferFits /\ Idle /\ Reads
            /\ Window

`Conforms` is `reused \/ NotDropped`, `RightData` is `reused \/ OwnData`; the invariant
is `Guarded`, which a step that sets `reused` keeps trivially and every other
step by `IInv`. `OwnData` and `NotDropped` speak of the target only, but whether the next PDU
fits depends on what is on its way. What the invariant adds:

* `Chain(q, r, c, sn, pos, end)` says it of the data of one command: the PDUs in
  `q`, then what the R2T `r` still asks for, go on from DataSN `sn` and offset
  `pos` without a gap to `end`, where the only F bit is. It does not count the
  PDUs: each is the first, or one goes before it that ends where it
  starts, and that is enough to say what happens when the initiator sends
  one (`ChainAppendOwn`), the target reads the first (`ChainTailOwn`) or the last
  is read (`ChainDone`).
* `SlotsFit` and `XferFits` tie a slot or the transfer in progress to its chain:
  `DataSN`, the bytes it has, `R2TSN` and the end of what was asked for. `MoveOn`
  (a slot becomes the transfer) and `NextR2T` lead from one to the other. `Idle`
  says that nothing is on its way for a command that has neither.
* `InOrder` (`Stream`): commands that are set aside, then those on their way, have
  consecutive numbers. `Places`: a command is in one queue at a time.
* `Tags`: of two commands with the same tag the earlier is neither without status
  nor refused with a slot left behind (`Live`), which is why a slot found by tag is
  the slot of the command. This is what the reuse of such a tag breaks.
* `Window`: commands without status are at most `QueueDepth`, so that those set aside
  fit `MaxPending` (`FewPending`).
* `Reads`: what a read has got follows from its status (`TransferInFacts`).

| Theorem | Says |
|---|---|
| `DataInvariance` | `Spec => []Guarded` |
| `DataIsRight` | `RightData` |
| `NobodyIsDropped` | `Conforms` |
| `BooksAreKept` | `Bookkeeping` |
| `ReadsGetAll` | `ReadWhole` |
| `R2TsInTurn` | the action property `R2TsFollow` |

That the theorems hold without `InitialR2T = Yes` does not contradict observation
11: a write nobody asks data for hangs, which no safety property sees. Only
model-checked: `EveryCommandAnswered` (liveness).

## 7. `Login`, `ParamNegotiation`, `LuAccess`: who gets in, and on what terms

### State and actions

`conn` is what `conn` and its session keep of the login: the phase, `full`,
`authenticated`, the CHAP phase and challenge, the parameters, and the variables
the transfers use (`used`). `setup` is a configuration: of the target, of its
unit's access control, and whether the initiator has the secret and is honest.
`ini` is what the initiator was told: phase, challenge, the last answer for each
key, the portal groups listed.

`ParamNegotiation` is `istgt_iscsi_negotiate_params` as a function
(`Negotiate`), `LuAccess` is the match of names, netmasks and portal groups
(`lu_access` for a login, `lu_sendtargets` for discovery). `Login` calls both:
`op_login` is one function made of `Refusal`, `Started`, `Negotiate`, `Stage`
(CHAP is `auth_params`), `Transit` and `Updated`, in the order of the code, since
what an earlier part changed stays when a later one refuses. The actions are
`Login` and `Text` (request and response in one step, as the worker serves one
PDU at a time), `Connect` and `Disconnect`. An honest initiator discovers the
target, then logs in through a portal group that was listed (`Honest...`);
another sends any of `Pdus` and `Texts` in any order.

Assumptions: the initiator names itself and the type of the session in its first
PDU only; secrets are known or not; a challenge is a number. The second and later
connections of a session are in `Registry`.

### Run

`login` has about 400 configurations: four authentication setups with an
initiator that sends anything, and honest initiators with every combination of
authentication, and with every mapping of two portal groups to two initiator
groups over four lists of names and three of netmasks. Two challenges and two
connections are enough for an answer to an old challenge and for discovery
followed by a login.

Properties: `Authentic` (no full feature phase without the secret where CHAP is
required; one response for each challenge), `InStep` (types; initiator and target
agree on the phase), `Agreement` (each answer fits what was offered and what the
target had; what the transfers use is what the initiator was last told), the
action property `NeverLoosened`, and `LoginSucceeds` (an honest initiator that
was listed gets in, whatever it offers but a first burst above its burst, observation 18), under weak fairness of the honest initiator's steps. The
worker needs none: it answers in the same step.

### Where the code differs from what it says

14. `Chosen`: `strsepq` cuts the target's list in place, so that only the first
    value offered is compared with all of it and the later ones with its first.
15. `AgreedIsUsed` speaks of keys that were negotiated: a key that is never
    offered keeps the target's configured value, also where the standard has a
    default (`MaxRecvDataSegmentLength`).
16. `AuthResponse`: `authenticated` stays set when the mutual part fails
    (`istgt_iscsi.c` 1319). The login of that PDU is refused; a later one may go
    on. No property speaks of mutual CHAP.
17. `Updated`: a text negotiation changes the parameters of the session, but only
    the connection it came on copies them; the other connections keep the old
    burst lengths. (One connection here; see `istgt_iscsi_copy_param2var`.)
18. `Updated`: first burst and burst are checked against each other after the
    response was sent, and the connection is closed then.
19. `lu_visible`, `pg_visible`: a name that is denied in the mapping of another
    portal group hides a target that a login would reach.
20. `lu_sendtargets`: discovery looks at names only, so that a unit is listed to
    an initiator whose address is refused later; `LoginSucceeds` is stated where
    no netmask is configured (`MaskFree`).

### Proofs

`LoginProofs`, for every set of configurations, PDUs and texts, every
configuration of the parameters and every access control:

| Theorem | Says |
|---|---|
| `AuthenticLogin` | `Authentic` |
| `OnlyTighter` | `NeverLoosened` |
| `LoginInStep` | `InStep` |
| `AgreementReached` | `Agreement` |

Assumptions (all named in `Login` and `ParamNegotiation`): the F, or T, bit is a
bit, and an authentication PDU carries an algorithm or a name and a response; an
offer is a sequence, in which a list has a first name and a declared alias is one
of `Aliases` (`OffersAssumption`); the configuration sets parameters within their bounds, and neither the authentication
method nor the digest (`istgt_create_sess` does not).

`Authentic` is not inductive. Its invariant, `SoundConn`, says what closes each
way around CHAP where it is required: the only method the target has left is CHAP
(`Forced`), so that `Negotiate` cannot choose None and the security phase cannot
be passed without a response; `req_auth` refuses an operational phase at the
start; `authenticated` and `full` are never set without the secret; before the
first PDU nothing is negotiated. It is kept by each function of `op_login` in
turn, one lemma each (`StartedBusy`, `NegotiatedBusy`, `ChapBusy`, `StageBusy`,
`TransitBusy`, `UpdatedSound`). `NeverLoosened` needs that the numbers and flags
keep their types (`Typed`), since an offer is compared with the current value;
`NegotiateTighter` is the step, from `ResultTighter` for one key.

`InStep` and `Agreement` relate what the target has to what the initiator was told,
over PDUs that are refused after parts of them took effect. Their invariant is
`SoundLogin /\ Informed`: the phase the initiator was told is the target's, what
it was told last for a key is what the target has for it, and in full feature what
the transfers use is that too (`Told`, `InUse`), each kept by `Updated` and the
functions before it in turn. `TypedConn` says which values each key can have, without which
an answer could not be compared with what was offered and configured.

Only model-checked: `LoginSucceeds` (liveness).

## 8. `Registry`: connections, sessions and shutdown

### State and actions

`g_conns` and its mutex; for each connection where its worker is (`pc`), its
`state`, `pipe`, `port`, session and whether it is in full feature; the sessions
with their connections; the table of TSIHs and `last_tsih`; `main`, the thread
that accepts and shuts down. Connections are numbered in the order they arrive.
A step ends where a thread has to wait for `g_conns_mutex`, sleeps with it, or
polls again.

* *acceptor*: `Accept`.
* *worker*: `LoginNew`, `LoginMore`, then `DropMark` and `DropEnd`
  (`istgt_iscsi_drop_old_conns`, which marks, sleeps with the mutex held, and may
  join) or `JoinSess` (`istgt_append_sess`); `FullFeature`, `NewTsih`, `NoTsih`
  (the end of the login and `istgt_lu_allocate_tsih`); `Reset`, `ResetMark`,
  `ResetEnd` (`istgt_iscsi_drop_all_conns`); `Lost`, `Leave` and `Deregister`
  (the way out).
* *main thread*: `Stop`, `StopConns`, `MarkAll`, `Shutdown`.

### Run

`registry` checks three configurations in one: three connections of a port with
two connections in a session and a shutdown; four connections of one port with
single-connection sessions, which drop each other; three connections of two ports
of one initiator with two slots for them. TSIHs count modulo 3 with one retry, so
that the search wraps, meets zero and gives up; two entries are fewer than the
sessions there can be.

Properties: `Linked` (types; a connection is registered once and until it goes;
`sess->conns` and `conn->sess` agree; a session fits its limit and its port, and
is freed with its last connection), `TsihOwned` (no two sessions of a port share
a TSIH, an entry is given back with its session), `OldSessionDropped` (of two
connections that opened a session for the same port one is exiting), and under fairness
`ExitingEnds`.

Fairness: weak for the main thread and for each worker; none for initiators, the
acceptor and `Stop`.

Assumed: an unlock of a mutex that another thread owns fails (observation 28), and
the join of a detached thread returns at once, as on POSIX systems (observation
24). Not modelled: failures of `pthread_create` and `kqueue`, discovery sessions.

### Where the code differs from what it says

21. `JoinSess` between `DropMark` and `DropEnd` of another login: a connection
    that is appended to the old session then is not dropped ("drop old sess by
    the initiator", `istgt_iscsi.c` 1808).
22. `DropMark`: two logins of one port at a time mark each other as exiting, and
    both may go.
23. `NewTsih`: the search for a TSIH gives up after ten retries, although one may
    be free.
24. `Joined`: the Windows port waits without limit for a detached thread
    (`istgt_platform_win32.c` 249); with `g_conns_mutex` held, which that thread
    needs in order to end, nobody goes on.
25. `ResetEnd`: `istgt_iscsi_drop_all_conns` writes "E" to its own pipe
    (`istgt_iscsi.c` 5968), not to those of the others.
26. `Shutdown`: after ten seconds the mutexes are destroyed and the units freed
    although workers may still run (`istgt_iscsi.c` 6235).
27. `istgt_lu_shutdown_unit` broadcasts `queue_cond` without `queue_mutex`
    (`istgt_lu.c` 2060), so that a luworker may sleep through it, and frees the
    disk before it joins the luworker (`istgt_lu.c` 2038). Not in a model.
28. `worker_cleanup` unlocks `g_conns_mutex` and the session's mutex whoever owns
    them (`istgt_iscsi.c` 4600-4613).
29. `istgt_create_conn`: when `pthread_create` fails the connection is freed and
    stays in `g_conns`; when `kqueue` fails the worker leaves without removing it.
    Not in a model.

### Proofs

`RegistryProofs`, for every finite set of connections, any ports, limits and table
size under `NoneAssumption`, `FiniteAssumption`, `NumberAssumption` and
`ConfigAssumption`:

    IInv == Linked /\ TsihOwned /\ OldSessionDropped /\ Phases /\ Holds /\ Told

| Theorem | Says |
|---|---|
| `RegistryInvariance` | `Spec => []IInv` |
| `ConnectionsLinked` | `Linked` |
| `TsihsOwned` | `TsihOwned` |
| `OldSessionsDropped` | `OldSessionDropped` |

`Phases` says at which points of a login a connection has a session and that its port
is the session's; a session is named after the connection that opened it.
`OldSessionDropped` needs two more: `DropMark` marks the openers of a port's
sessions and then sleeps, and the login that sleeps opens its own session in
`DropEnd`. That no other opens one meanwhile is `Holds` (the mutex is held by who
sleeps with it), and that those marked stay marked is `Told`. The TSIH search needs
that a finite set of free numbers has a least (`LeastMember`), and that a retry
finds only free ones.

Only model-checked: `ExitingEnds` (liveness).

## 9. Not modelled

* The SCSI command set (formatting of pages without shared state), the backing
  store (`pread`, `pwrite`), the configuration parser (runs once at the start),
  the platform wrappers, MD5 and CRC32C (pure functions over bytes).
* The write cache, COMPARE AND WRITE and WRITE SAME. The write buffer is never
  filled in this build: `req_write_cache` is only ever reset, and the calls of
  `istgt_lu_disk_write_cache` (`istgt_lu_disk.c` 4909-4920, 5089-5100) are under
  `#if 0`. The commands of a unit run one after the other, in its one luworker
  (`istgt_lu.c` 1991) or, with a `QueueDepth` of 0, in the workers under
  `lu->mutex` (2228), so no two of them interleave; the rest is block I/O.
* Units with a `QueueDepth` of 0: no queue, no luworker and no handshake.
* The end of the luworkers at shutdown, aborts in the middle of a transfer,
  unsolicited Data-Out, the redirection of a login.

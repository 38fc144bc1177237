----------------------------- MODULE CmdWindow ------------------------------
(***************************************************************************)
(* Command numbering in a session with several connections.  The initiator *)
(* numbers its commands (CmdSN) over all connections and may send up to    *)
(* the MaxCmdSN it knows; the workers let a command in when its number is  *)
(* ExpCmdSN, make it wait on mcs_cond when it came before its turn, and    *)
(* close the connection when its number is outside the window.  Responses  *)
(* open the window again and are numbered for each connection (StatSN), by *)
(* the worker or, with UseSender, partly by the sender thread.             *)
(*                                                                         *)
(* A critical section of sess->mutex is one step.  Counters count from the *)
(* login on; the code has them as serial numbers modulo 2 * Half (Half =   *)
(* 2^31) and compares those: SN(x) is the register for the counter x.      *)
(* pdu.n is the CmdSN of a command; an immediate one has that of the next. *)
(* The initiator and the network are external: it counts and acknowledges  *)
(* correctly, connections keep the order and may break.  Spurious wake-ups *)
(* of mcs_cond, the logout and PDUs that use no number are left out.       *)
(* at and refused are auxiliary, no guard reads them: at[n] is where       *)
(* command n is, unsent, in an inbox, in the hand of a worker, lost before *)
(* delivery, or delivered: executed now, queued in the logical unit, in a  *)
(* result_queue, answered, or dropped without an answer.                   *)
(***************************************************************************)
EXTENDS Integers, Sequences, FiniteSets

CONSTANTS
  Conns,        \* the connections of the session
  Half,         \* SN32_CMPMAX
  QueueDepth,   \* conn->queue_depth
  First,        \* the register value of counter 0
  Kinds,        \* what the initiator sends: "scsi", "nop", "ping" (a NOP-Out
                \* that wants no answer), "text", "task" (management)
  UseSender,    \* ISTGT_USE_SENDER_THREAD
  Abort,        \* task management finds tasks to abort
  TimeOuts,     \* the wait on mcs_cond may time out
  MaxCmds,      \* bound on the commands with a number of their own
  MaxImms,      \* bound on immediate commands, which use the next number
  MaxCuts,      \* bound on broken connections
  None

Mod == 2 * Half
Serial == 0 .. Mod - 1

ASSUME ConnsAssumption == IsFiniteSet(Conns)
ASSUME HalfAssumption == Half \in Nat \ {0}
ASSUME DepthAssumption == QueueDepth \in Nat \ {0} /\ 2 * QueueDepth < Half
ASSUME FirstAssumption == First \in Serial
ASSUME BoundAssumption == MaxCmds \in Nat /\ MaxImms \in Nat /\ MaxCuts \in Nat
ASSUME FlagAssumption == UseSender \in BOOLEAN /\ Abort \in BOOLEAN /\ TimeOuts \in BOOLEAN

VARIABLES
  ExpCmdSN, MaxCmdSN, req_mcs_cond,   \* of the session
  StatSN,        \* of each connection
  wk,            \* where each worker is
  pdu,           \* the command it has in hand
  wout, sout,    \* the numbered response that worker and sender write
  queued,        \* SCSI tasks in the logical unit: CmdSNs, and how many immediate
  result_queue,  \* responses for the sender
  inbox, wire,   \* PDUs on their way to the target and back
  cut,           \* broken connections
  nextN, imms,   \* the initiator: commands sent,
  texted,        \* connections that sent their only Text (a bound),
  winSN, ack,    \* the MaxCmdSN it knows, the StatSN it expects
  at, refused

sessVars == <<ExpCmdSN, MaxCmdSN, req_mcs_cond>>
outVars  == <<wout, sout, queued, result_queue>>
workVars == <<wk, pdu>>
netVars  == <<inbox, wire, cut>>
initVars == <<nextN, imms, texted, winSN, ack>>
auxVars  == <<at, refused>>
vars == <<sessVars, StatSN, outVars, workVars, netVars, initVars, auxVars>>

-----------------------------------------------------------------------------
SN32_LT(s, t) == \/ s < t /\ t - s < Half
                 \/ s > t /\ s - t > Half
SN32_GT(s, t) == \/ s < t /\ t - s > Half
                 \/ s > t /\ s - t < Half

SN(x)    == (First + x) % Mod
LT(x, y) == SN32_LT(SN(x), SN(y))
GT(x, y) == SN32_GT(SN(x), SN(y))

AllKinds == {"scsi", "nop", "ping", "text", "task"}
Numbers  == 0 .. MaxCmds - 1
Rsp      == [stat: Nat, max: Nat]

ASSUME KindsAssumption == Kinds \subseteq AllKinds

(* idle: in the loop; mcs: to take the mutex for the test of the wait;     *)
(* asleep: on mcs_cond; held: past the test, to take the mutex again; now: *)
(* executed at once; write: writing its response; exit: out of the loop;   *)
(* gone: removed from the session.                                         *)
Places  == {"idle", "mcs", "asleep", "held", "now", "write", "exit", "gone"}
Own(p)  == IF p.imm THEN {} ELSE {p.n}
Command == {p \in [kind: AllKinds, imm: BOOLEAN, n: Nat, ack: Nat] :
              Own(p) \subseteq Numbers}

(* RESPONSE and REQUPDPDU get their numbers from the sender, REQPDU has    *)
(* them.                                                                   *)
Result == [type: {"RESPONSE", "REQPDU", "REQUPDPDU"}, own: SUBSET Numbers,
           rsp: Rsp \cup {None}]

Fates == ({"unsent", "lost", "answered", "dropped"} \X {None})
         \cup ({"inbox", "hand", "now", "queued", "result"} \X Conns)

TypeOK ==
  /\ ExpCmdSN \in Nat /\ MaxCmdSN \in Nat /\ req_mcs_cond \in Nat
  /\ StatSN \in [Conns -> Nat]
  /\ wk \in [Conns -> Places]
  /\ pdu \in [Conns -> Command \cup {None}]
  /\ wout \in [Conns -> Rsp \cup {None}] /\ sout \in [Conns -> Rsp \cup {None}]
  /\ queued \in [Conns -> [own: SUBSET Numbers, imm: Nat]]
  /\ result_queue \in [Conns -> Seq(Result)]
  /\ inbox \in [Conns -> Seq(Command)] /\ wire \in [Conns -> Seq(Rsp)]
  /\ cut \in SUBSET Conns
  /\ nextN \in Nat /\ imms \in Nat /\ texted \in SUBSET Conns /\ winSN \in Nat
  /\ ack \in [Conns -> Nat]
  /\ at \in [Numbers -> Fates] /\ refused \in BOOLEAN

Init ==
  /\ ExpCmdSN = 0 /\ MaxCmdSN = QueueDepth - 1 /\ req_mcs_cond = 0
  /\ StatSN = [c \in Conns |-> 0]
  /\ wk = [c \in Conns |-> "idle"] /\ pdu = [c \in Conns |-> None]
  /\ wout = [c \in Conns |-> None] /\ sout = [c \in Conns |-> None]
  /\ queued = [c \in Conns |-> [own |-> {}, imm |-> 0]]
  /\ result_queue = [c \in Conns |-> <<>>]
  /\ inbox = [c \in Conns |-> <<>>] /\ wire = [c \in Conns |-> <<>>]
  /\ cut = {}
  /\ nextN = 0 /\ imms = 0 /\ texted = {}
  /\ winSN = QueueDepth - 1 /\ ack = [c \in Conns |-> 0]
  /\ at = [n \in Numbers |-> <<"unsent", None>>] /\ refused = FALSE

Connections == Cardinality({c \in Conns : wk[c] # "gone"})

Move(S, place, c) == at' = [n \in Numbers |-> IF n \in S THEN <<place, c>> ELSE at[n]]
OwnIn(s) == UNION {Own(s[i]) : i \in DOMAIN s}

-----------------------------------------------------------------------------
(* The initiator and the network.                                          *)

(* It sends what its window allows; an immediate command carries the       *)
(* number of the next command and does not use it up.                      *)
Send(c, k, imm) ==
  /\ c \notin cut /\ (k = "ping" => imm)
  /\ IF k = "text" THEN c \notin texted /\ texted' = texted \cup {c}
                   ELSE UNCHANGED texted
  /\ IF imm
       THEN imms < MaxImms /\ imms' = imms + 1 /\ UNCHANGED <<nextN, at>>
       ELSE /\ nextN < MaxCmds /\ nextN <= winSN
            /\ nextN' = nextN + 1 /\ Move({nextN}, "inbox", c) /\ UNCHANGED imms
  /\ inbox' = [inbox EXCEPT ![c] =
       Append(@, [kind |-> k, imm |-> imm, n |-> nextN, ack |-> ack[c]])]
  /\ UNCHANGED <<sessVars, StatSN, outVars, workVars, wire, cut, winSN, ack, refused>>

Receive(c) ==
  /\ wire[c] # <<>>
  /\ LET r == Head(wire[c]) IN
     /\ wire' = [wire EXCEPT ![c] = Tail(@)]
     /\ ack' = [ack EXCEPT ![c] = IF r.stat = @ THEN @ + 1 ELSE @]
     /\ winSN' = IF r.max > winSN THEN r.max ELSE winSN
  /\ UNCHANGED <<sessVars, StatSN, outVars, workVars, inbox, cut, nextN, imms, texted, auxVars>>

(* A connection breaks: the end of what was sent over it does not arrive.  *)
Cut(c) ==
  /\ c \notin cut /\ Cardinality(cut) < MaxCuts
  /\ cut' = cut \cup {c}
  /\ \E i \in 0 .. Len(inbox[c]) :
       /\ inbox' = [inbox EXCEPT ![c] = SubSeq(@, 1, i)]
       /\ Move(OwnIn(SubSeq(inbox[c], i + 1, Len(inbox[c]))), "lost", None)
  /\ wire' = [wire EXCEPT ![c] = <<>>]
  /\ UNCHANGED <<sessVars, StatSN, outVars, workVars, initVars, refused>>

-----------------------------------------------------------------------------
(* The workers: receiving a command.                                       *)

Refuse(c, p) ==
  /\ wk' = [wk EXCEPT ![c] = "exit"]
  /\ refused' = TRUE /\ Move(Own(p), "lost", None)

FaultyOutside(p) ==   \* an off-by-one at the end of the window
  IF p.imm THEN SN(p.n) # SN(ExpCmdSN)
           ELSE LT(p.n, ExpCmdSN) \/ ~LT(p.n, MaxCmdSN)

OutsideWindow(n) == LT(n, ExpCmdSN) \/ GT(n, MaxCmdSN)
Outside(p) == IF p.imm THEN SN(p.n) # SN(ExpCmdSN) ELSE OutsideWindow(p.n)

FaultyAcked(c, p) == p.ack   \* back as well, as Text does

(* ExpStatSN moves StatSN on, but never back; only Text does.              *)
Acked(c, p) == IF GT(p.ack, StatSN[c]) THEN p.ack ELSE StatSN[c]

(* More responses without acknowledgement than commands can be open.       *)
AckLags(c, p, exp) ==
  LT(p.ack + MaxCmdSN - exp + 1 + QueueDepth, Acked(c, p))

(* The test of a SCSI command or a NOP-Out under the mutex.  SCSI: a       *)
(* command ahead of its turn that need not wait skips those before it.     *)
Check(c, p) ==
  LET exp == IF p.kind = "scsi" /\ ~p.imm THEN p.n ELSE ExpCmdSN IN
  /\ IF Outside(p)
       THEN Refuse(c, p) /\ UNCHANGED <<ExpCmdSN, StatSN>>
       ELSE /\ ExpCmdSN' = exp
            /\ StatSN' = [StatSN EXCEPT ![c] = Acked(c, p)]
            /\ IF AckLags(c, p, exp)
                 THEN Refuse(c, p)
                 ELSE /\ wk' = [wk EXCEPT ![c] = "held"]
                      /\ Move(Own(p), "hand", c) /\ UNCHANGED refused
  /\ UNCHANGED MaxCmdSN

Early(p) == p.kind = "scsi" /\ ~p.imm /\ GT(p.n, ExpCmdSN)

(* The next command is read; p.kind says which handler gets it.            *)
Take(c) ==
  /\ wk[c] = "idle" /\ inbox[c] # <<>>
  /\ pdu' = [pdu EXCEPT ![c] = Head(inbox[c])]
  /\ inbox' = [inbox EXCEPT ![c] = Tail(@)]
  /\ UNCHANGED <<req_mcs_cond, outVars, wire, cut, initVars>>

ReadCommand(c) ==
  /\ Take(c)
  /\ pdu'[c].kind \in {"scsi", "nop", "ping"}
  /\ IF Early(pdu'[c]) /\ Connections > 1
       THEN /\ wk' = [wk EXCEPT ![c] = "mcs"]
            /\ Move(Own(pdu'[c]), "hand", c)
            /\ UNCHANGED <<ExpCmdSN, MaxCmdSN, StatSN, refused>>
       ELSE Check(c, pdu'[c])

(* Text: StatSN is set to ExpStatSN, back too.  The handler reads the I bit*)
(* from a reserved bit, so that an immediate one is not told apart.        *)
ReadText(c) ==
  /\ Take(c)
  /\ LET p == pdu'[c] IN
     /\ p.kind = "text"
     /\ IF OutsideWindow(p.n)
          THEN Refuse(c, p) /\ UNCHANGED StatSN
          ELSE /\ wk' = [wk EXCEPT ![c] = "held"]
               /\ StatSN' = [StatSN EXCEPT ![c] = p.ack]
               /\ Move(Own(p), "hand", c) /\ UNCHANGED refused
  /\ UNCHANGED <<ExpCmdSN, MaxCmdSN>>

(* Task management: whatever the number, it becomes ExpCmdSN.              *)
ReadTask(c) ==
  /\ Take(c)
  /\ LET p == pdu'[c] IN
     /\ p.kind = "task"
     /\ ExpCmdSN' = p.n
     /\ StatSN' = [StatSN EXCEPT ![c] = Acked(c, p)]
     /\ Move(Own(p), "hand", c)
  /\ wk' = [wk EXCEPT ![c] = "held"]
  /\ UNCHANGED <<MaxCmdSN, refused>>

(* The loop around pthread_cond_timedwait, with the mutex.                 *)
McsTest(c) ==
  /\ wk[c] = "mcs"
  /\ IF Early(pdu[c])
       THEN /\ wk' = [wk EXCEPT ![c] = "asleep"]
            /\ req_mcs_cond' = req_mcs_cond + 1
            /\ UNCHANGED <<ExpCmdSN, MaxCmdSN, StatSN, auxVars>>
       ELSE Check(c, pdu[c]) /\ UNCHANGED req_mcs_cond
  /\ UNCHANGED <<outVars, pdu, netVars, initVars>>

FaultyMcsTimeOut(c) ==   \* after a time-out it goes on without the test
  /\ TimeOuts /\ wk[c] = "asleep"
  /\ Check(c, pdu[c])
  /\ UNCHANGED <<req_mcs_cond, outVars, pdu, netVars, initVars>>

McsTimeOut(c) ==
  /\ TimeOuts /\ wk[c] = "asleep"
  /\ IF Early(pdu[c])
       THEN Refuse(c, pdu[c]) /\ UNCHANGED <<ExpCmdSN, MaxCmdSN, StatSN>>
       ELSE Check(c, pdu[c])
  /\ UNCHANGED <<req_mcs_cond, outVars, pdu, netVars, initVars>>

-----------------------------------------------------------------------------
(* The workers: executing and answering.                                   *)

Wakes(p) == ~p.imm /\ req_mcs_cond > 0

FaultyAwake(p) ==   \* the counter is tested after it was decremented
  [d \in Conns |-> IF Wakes(p) /\ req_mcs_cond > 1 /\ wk[d] = "asleep" THEN "mcs" ELSE wk[d]]

FaultyAwake_signal(p) ==   \* pthread_cond_signal: wakes one of those that wait
  LET first == CHOOSE d \in Conns : wk[d] = "asleep" IN
  [d \in Conns |-> IF Wakes(p) /\ wk[d] = "asleep" /\ d = first THEN "mcs" ELSE wk[d]]

Awake(p) == [d \in Conns |-> IF Wakes(p) /\ wk[d] = "asleep" THEN "mcs" ELSE wk[d]]

Waiting(p) == IF Wakes(p) THEN req_mcs_cond - 1 ELSE req_mcs_cond

(* The mutex was released after the test: ExpCmdSN moves on and those that *)
(* wait are woken.  The command goes to the logical unit or, executed at   *)
(* once, gets its response.                                                *)
Deliver(c) ==
  /\ wk[c] = "held" /\ pdu[c].kind = "scsi"
  /\ LET p == pdu[c] IN
     /\ ExpCmdSN' = IF p.imm THEN ExpCmdSN ELSE ExpCmdSN + 1
     /\ req_mcs_cond' = Waiting(p)
     /\ \/ /\ queued' = [queued EXCEPT ![c] =
                [own |-> @.own \cup Own(p), imm |-> IF p.imm THEN @.imm + 1 ELSE @.imm]]
           /\ wk' = [Awake(p) EXCEPT ![c] = "idle"]
           /\ Move(Own(p), "queued", c)
        \/ /\ wk' = [Awake(p) EXCEPT ![c] = "now"]
           /\ Move(Own(p), "now", c) /\ UNCHANGED queued
  /\ UNCHANGED <<MaxCmdSN, StatSN, wout, sout, result_queue, pdu, netVars, initVars, refused>>

FaultyOpens(own) == 1           \* for immediate commands too
FaultyOpens_never(own) == 0     \* the window is not given back

Opens(own) == IF own = {} THEN 0 ELSE 1

(* A response gets its StatSN and, when the command had a number of its    *)
(* own, opens the window by one.  Only NOP-Out, Text and task management   *)
(* move ExpCmdSN on here (advance).                                        *)
Number(c, own, advance) ==
  /\ StatSN' = [StatSN EXCEPT ![c] = @ + 1]
  /\ MaxCmdSN' = MaxCmdSN + Opens(own)
  /\ ExpCmdSN' = IF advance /\ own # {} THEN ExpCmdSN + 1 ELSE ExpCmdSN
  /\ Move(own, "answered", None)
NumberedRsp(c) == [stat |-> StatSN[c], max |-> MaxCmdSN']

Post(c, type, own, rsp) ==
  result_queue' = [result_queue EXCEPT ![c] =
                     Append(@, [type |-> type, own |-> own, rsp |-> rsp])]
WriteDirect(c) ==
  /\ wout' = [wout EXCEPT ![c] = NumberedRsp(c)]
  /\ wk' = [wk EXCEPT ![c] = "write"]
  /\ UNCHANGED result_queue
(* istgt_iscsi_write_pdu *)
WritePdu(c) ==
  IF UseSender
    THEN /\ Post(c, "REQPDU", {}, NumberedRsp(c))
         /\ wk' = [wk EXCEPT ![c] = "idle"] /\ UNCHANGED wout
    ELSE WriteDirect(c)

(* Executed at once: with data the status goes out in the last Data-In,    *)
(* which is never queued.                                                  *)
AnswerNow(c) ==
  /\ wk[c] = "now"
  /\ Number(c, Own(pdu[c]), FALSE)
  /\ WritePdu(c) \/ WriteDirect(c)
  /\ UNCHANGED <<req_mcs_cond, pdu, sout, queued, netVars, initVars, refused>>

(* NOP-Out and task management: numbered by the sender if there is one.    *)
NumberUpd(c, own) ==
  IF UseSender
    THEN /\ Post(c, "REQUPDPDU", own, None)
         /\ wk' = [wk EXCEPT ![c] = "idle"]
         /\ Move(own, "result", c)
         /\ UNCHANGED <<StatSN, MaxCmdSN, ExpCmdSN, wout>>
    ELSE Number(c, own, TRUE) /\ WriteDirect(c)

AnswerNop(c) ==
  /\ wk[c] = "held" /\ pdu[c].kind = "nop"
  /\ NumberUpd(c, Own(pdu[c]))
  /\ UNCHANGED <<req_mcs_cond, pdu, sout, queued, netVars, initVars, refused>>

EndPing(c) ==
  /\ wk[c] = "held" /\ pdu[c].kind = "ping"
  /\ wk' = [wk EXCEPT ![c] = "idle"]
  /\ UNCHANGED <<sessVars, StatSN, outVars, pdu, netVars, initVars, auxVars>>

(* An immediate Text, too, moves ExpCmdSN and opens the window.            *)
AnswerText(c) ==
  /\ wk[c] = "held" /\ pdu[c].kind = "text"
  /\ StatSN' = [StatSN EXCEPT ![c] = @ + 1]
  /\ MaxCmdSN' = MaxCmdSN + 1 /\ ExpCmdSN' = ExpCmdSN + 1
  /\ Move(Own(pdu[c]), "answered", None)
  /\ WritePdu(c)
  /\ UNCHANGED <<req_mcs_cond, pdu, sout, queued, netVars, initVars, refused>>

(* The clear and the response are two critical sections.                   *)
AnswerTask(c) ==
  /\ wk[c] = "held" /\ pdu[c].kind = "task"
  /\ NumberUpd(c, Own(pdu[c]))
  /\ UNCHANGED <<req_mcs_cond, pdu, sout, queued, netVars, initVars, refused>>

(* A task of the logical unit, immediate or with the CmdSN in own.         *)
TaskOf(c, own) ==
  IF own = {} THEN queued[c].imm > 0 ELSE own \subseteq queued[c].own
EndTask(c, own) ==
  queued' = [queued EXCEPT ![c] =
    [own |-> @.own \ own, imm |-> IF own = {} THEN @.imm - 1 ELSE @.imm]]
OwnSets == {{}} \cup {{n} : n \in Numbers}

(* Task management clears tasks of any connection of the session, which    *)
(* get no response.                                                        *)
AbortTask(c) ==
  /\ Abort /\ wk[c] = "held" /\ pdu[c].kind = "task"
  /\ \E d \in Conns : \E own \in OwnSets :
       TaskOf(d, own) /\ EndTask(d, own) /\ Move(own, "dropped", None)
  /\ UNCHANGED <<sessVars, StatSN, wout, sout, result_queue, workVars, netVars, initVars, refused>>

(* Without sender the worker answers for the logical unit.                 *)
AnswerDone(c, own) ==
  /\ ~UseSender /\ wk[c] = "idle" /\ TaskOf(c, own)
  /\ EndTask(c, own)
  /\ Number(c, own, FALSE) /\ WriteDirect(c)
  /\ UNCHANGED <<req_mcs_cond, pdu, sout, netVars, initVars, refused>>

ToWire(c, r) == wire' = [wire EXCEPT ![c] = IF c \in cut THEN <<>> ELSE Append(@, r)]

WorkerWrite(c) ==
  /\ wk[c] = "write"
  /\ ToWire(c, wout[c])
  /\ wout' = [wout EXCEPT ![c] = None]
  /\ wk' = [wk EXCEPT ![c] = IF c \in cut THEN "exit" ELSE "idle"]
  /\ UNCHANGED <<sessVars, StatSN, pdu, sout, queued, result_queue, inbox, cut, initVars, auxVars>>

(* Seen before what is still to be read, or after it.                      *)
HangUp(c) ==
  /\ wk[c] = "idle" /\ c \in cut
  /\ wk' = [wk EXCEPT ![c] = "exit"]
  /\ UNCHANGED <<sessVars, StatSN, pdu, outVars, netVars, initVars, auxVars>>

Posted(c) == UNION {result_queue[c][i].own : i \in DOMAIN result_queue[c]}

(* The clear of worker_cleanup goes by the initiator port, so that it      *)
(* drops the tasks of all connections of the session, except those that    *)
(* are executed: these stay, unless they are of the connection itself.     *)
Executed(c, own, imm) ==
  [d \in Conns |-> IF d = c THEN [own |-> {}, imm |-> 0]
                   ELSE [own |-> queued[d].own \cap own,
                         imm |-> IF queued[d].imm > imm THEN imm ELSE queued[d].imm]]

(* worker_cleanup: tasks and responses are dropped, the connection leaves  *)
(* the session.                                                            *)
Leave(c) ==
  /\ wk[c] = "exit"
  /\ wk' = [wk EXCEPT ![c] = "gone"]
  /\ \E own \in SUBSET UNION {queued[d].own : d \in Conns}, imm \in 0 .. imms :
       queued' = Executed(c, own, imm)
  /\ result_queue' = [result_queue EXCEPT ![c] = <<>>]
  /\ sout' = [sout EXCEPT ![c] = None] /\ wout' = [wout EXCEPT ![c] = None]
  /\ at' = [n \in Numbers |->
       IF n \in OwnIn(inbox[c]) THEN <<"lost", None>>
       ELSE IF n \in Posted(c) \/ \E d \in Conns : n \in queued[d].own \ queued'[d].own
         THEN <<"dropped", None>>
         ELSE at[n]]
  /\ inbox' = [inbox EXCEPT ![c] = <<>>] /\ wire' = [wire EXCEPT ![c] = <<>>]
  /\ cut' = cut \cup {c}
  /\ UNCHANGED <<sessVars, StatSN, pdu, initVars, refused>>

-----------------------------------------------------------------------------
(* The logical unit and the senders.                                       *)

TaskDone(c, own) ==
  /\ UseSender /\ TaskOf(c, own)
  /\ EndTask(c, own)
  /\ Post(c, "RESPONSE", own, None) /\ Move(own, "result", c)
  /\ UNCHANGED <<sessVars, StatSN, wout, sout, workVars, netVars, initVars, refused>>

SenderTake(c) ==
  /\ sout[c] = None /\ result_queue[c] # <<>> /\ wk[c] # "gone"
  /\ LET r == Head(result_queue[c]) IN
     IF r.type = "REQPDU"
       THEN /\ sout' = [sout EXCEPT ![c] = r.rsp]
            /\ UNCHANGED <<StatSN, MaxCmdSN, ExpCmdSN, at>>
       ELSE /\ Number(c, r.own, r.type = "REQUPDPDU")
            /\ sout' = [sout EXCEPT ![c] = NumberedRsp(c)]
  /\ result_queue' = [result_queue EXCEPT ![c] = Tail(@)]
  /\ UNCHANGED <<req_mcs_cond, wout, queued, workVars, netVars, initVars, refused>>

SenderWrite(c) ==
  /\ sout[c] # None
  /\ ToWire(c, sout[c])
  /\ sout' = [sout EXCEPT ![c] = None]
  /\ UNCHANGED <<sessVars, StatSN, workVars, wout, queued, result_queue, inbox, cut,
                 initVars, auxVars>>

-----------------------------------------------------------------------------
Worker(c) ==
  \/ ReadCommand(c) \/ ReadText(c) \/ ReadTask(c) \/ McsTest(c) \/ McsTimeOut(c)
  \/ Deliver(c) \/ AnswerNow(c) \/ AnswerNop(c) \/ EndPing(c) \/ AnswerText(c)
  \/ AbortTask(c) \/ AnswerTask(c) \/ \E own \in OwnSets : AnswerDone(c, own)
  \/ WorkerWrite(c) \/ HangUp(c) \/ Leave(c)

Sender(c) == SenderTake(c) \/ SenderWrite(c)

Initiator(c) ==
  \/ \E k \in Kinds, i \in BOOLEAN : Send(c, k, i)
  \/ Receive(c) \/ Cut(c)

Next == \E c \in Conns :
  \/ Worker(c) \/ Sender(c) \/ Initiator(c)
  \/ \E own \in OwnSets : TaskDone(c, own)

Spec == Init /\ [][Next]_vars

(* Threads run, the network delivers, the logical unit executes; mutexes   *)
(* that are held briefly are obtained.  Nothing is assumed of the          *)
(* initiator's commands, of the time-out and of broken connections.        *)
Fairness ==
  \A c \in Conns :
    /\ WF_vars(ReadCommand(c) \/ ReadText(c) \/ ReadTask(c))
    /\ WF_vars(McsTest(c)) /\ WF_vars(Deliver(c)) /\ WF_vars(AnswerNow(c))
    /\ WF_vars(AnswerNop(c) \/ EndPing(c) \/ AnswerText(c) \/ AnswerTask(c))
    /\ SF_vars(\E own \in OwnSets : AnswerDone(c, own))
    /\ WF_vars(\E own \in OwnSets : TaskDone(c, own))
    /\ WF_vars(WorkerWrite(c)) /\ WF_vars(HangUp(c)) /\ WF_vars(Leave(c))
    /\ WF_vars(SenderTake(c)) /\ WF_vars(SenderWrite(c)) /\ WF_vars(Receive(c))
FairSpec == Spec /\ Fairness

-----------------------------------------------------------------------------
Holds(c) == wk[c] = "held" /\ ~pdu[c].imm
Delivered == {n \in Numbers : at[n][1] \in {"now", "queued", "result", "answered", "dropped"}}
Lost      == {n \in Numbers : at[n][1] = "lost"}

(* A command about to be delivered comes after all that were delivered:    *)
(* each is delivered once and in the order in which the initiator numbered *)
(* them, whatever connections they came by.                                *)
Fresh == \A c \in Conns : Holds(c) => \A m \in Delivered : m < pdu[c].n

(* ... and nothing is passed over: what comes before it was delivered, or  *)
(* lost with a connection.                                                 *)
Gapless ==
  \A c \in Conns : Holds(c) => \A m \in 0 .. pdu[c].n - 1 : m \in Delivered \cup Lost

(* While a worker sleeps on mcs_cond, the next delivery wakes it ...       *)
WakeupOwed == \A c \in Conns : wk[c] = "asleep" => req_mcs_cond > 0

(* ... and the turn of its command has not come yet.                       *)
NoLostWakeup == \A c \in Conns : wk[c] = "asleep" => Early(pdu[c])

(* Two workers are never past the test with the same turn.                 *)
OneTurn == \A c, d \in Conns : Holds(c) /\ Holds(d) => c = d

(* All three: the commands of the session are taken in their order.        *)
InOrder == Fresh /\ Gapless /\ OneTurn

(* A worker that has a command in hand has one, and one that writes has    *)
(* something to write.                                                     *)
InHand ==
  \A c \in Conns :
    /\ wk[c] \in {"mcs", "asleep", "held", "now"} => pdu[c] \in Command
    /\ wk[c] = "write" => wout[c] \in Rsp

(* The inductive invariant of the proofs, for every kind of command: types *)
(* (no count falls below zero), what is in hand, and the wake-up owed to   *)
(* each worker that sleeps.                                                *)
Basis == TypeOK /\ InHand /\ WakeupOwed

(* Commands that were let in and whose response has no number yet.         *)
Unanswered(c) ==
  queued[c].own \cup (IF wk[c] = "now" THEN Own(pdu[c]) ELSE {})
  \cup (UNION {result_queue[c][i].own : i \in {j \in DOMAIN result_queue[c] :
                                                result_queue[c][j].type = "RESPONSE"}})
Open   == Cardinality(UNION {Unanswered(c) : c \in Conns})
Window == MaxCmdSN - ExpCmdSN + 1

(* The target promises as many commands as its queue depth, no more and,   *)
(* while no connection is lost and no task aborted, no fewer: the window   *)
(* that a command took is given back.                                      *)
WindowKept == Window + Open = QueueDepth

(* No command of an initiator that keeps to the rules is refused.          *)
NothingRefused == ~refused

(* The target expects no number that the initiator has passed: an immediate*)
(* command does not move ExpCmdSN on.  It does not hold: an immediate Text *)
(* does.                                                                   *)
ExpectedNotPassed == ExpCmdSN <= nextN

(* The responses of a connection leave in the order of their StatSN, each  *)
(* number once.                                                            *)
StatInOrder ==
  \A c \in Conns : \A i \in DOMAIN wire[c] : wire[c][i].stat = ack[c] + i - 1

(* Every command that was sent is delivered, unless it is lost.            *)
EveryCommandArrives ==
  \A n \in Numbers : (n < nextN) ~> (n \in Delivered \cup Lost)

(* The window the initiator knows opens again and again.                   *)
WindowReopens == []<>(nextN <= winSN)
=============================================================================

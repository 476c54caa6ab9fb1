----------------------------- MODULE KukaSession ----------------------------
(***************************************************************************)
(* A KUKA slot over a working session: toolpath runs, single moves, Puppet *)
(* Mode, Stop, Cancel and Play, reconnecting, and what each of them leaves *)
(* on the controller for the next one.  KukaStream looks inside one stream *)
(* after another and lets nothing interrupt them; here a stream is coarse  *)
(* and everything that may interrupt it is there.                          *)
(*                                                                         *)
(* Actors: Blender's main thread (operators, and the tick of each SendPath *)
(* modal), the thread of each run's first and return move, the thread of   *)
(* Stop or Cancel, and the interpreter of mq_stream.  Runs are numbered in *)
(* the order of their clicks.                                              *)
(*                                                                         *)
(* Timing assumption (KukaStream does without it): the interpreter gets    *)
(* through the handler of a single move between two writes of the driver;  *)
(* it may be halted inside one.                                            *)
(***************************************************************************)
EXTENDS Naturals, FiniteSets

CONSTANTS
  Ring,        (* slots of MQ_PT                                           *)
  Total,       (* points of a toolpath                                     *)
  MaxRuns,     (* bound on toolpath runs                                   *)
  MaxOthers,   (* bound on single moves, puppet starts, stops and plays    *)
  MaxDrivers,  (* bound on connections                                     *)
  Mishaps      (* which of the mishaps below may happen, one in a session  *)

ASSUME SessionConstants ==
  /\ {Ring, Total, MaxDrivers} \subseteq Nat \ {0}
  /\ {MaxRuns, MaxOthers} \subseteq Nat
  /\ Mishaps \subseteq {"raced", "entered", "moved", "resumed", "reconnected"}

VARIABLES
  (* $CONFIG.DAT, and the interpreter *)
  MQ_ACTION, MQ_CMD_ID, MQ_DONE_ID, MQ_E6POS,
  MQ_PT, MQ_RD_IDX, MQ_WR_IDX, MQ_PT_CNT, program, pc, MQ_I,
  (* the slot: motion_active_label set, motion_abort_requested, Puppet Mode *)
  label, abort, realtime_puppet_active, edited,
  (* the driver object of the connection, by number *)
  driver, _cmd_id, _rt_puppet_active,
  (* per run: modal, the thread of its single move, driver object, command, *)
  (* points written; and the thread of Stop or Cancel *)
  phase, thread, mine, cmd, written, job,
  (* history: operations used, the run of the stream command, commands      *)
  (* outstanding by a click, first poses moved to, what went wrong *)
  runs, others, streaming, armed, reached, mishaps

command  == <<MQ_ACTION, MQ_CMD_ID, MQ_DONE_ID, MQ_E6POS>>
ring     == <<MQ_PT, MQ_RD_IDX, MQ_WR_IDX, MQ_PT_CNT>>
interp   == <<program, pc, MQ_I>>
slot     == <<label, abort, realtime_puppet_active, edited>>
conn     == <<driver, _cmd_id, _rt_puppet_active>>
modals   == <<phase, thread, mine, cmd, written>>
history  == <<runs, others, streaming, armed, reached, mishaps>>
vars     == <<command, ring, interp, slot, conn, modals, job, history>>

Runs      == 1..MaxRuns
ZeroFrame == <<0, 0>>

Smaller(a, b) == IF a < b THEN a ELSE b

(* The timing assumption: no write of the driver meets a single move's handler. *)
Settled == ~(program = "running" /\ pc = "move")

(* A thread that has the writes of a move still to make.                    *)
Writing(r) == thread[r] \in {"pose", "id", "action"}

InModal(r) == phase[r] # "none"

(* A command written and not yet seen by the interpreter.                   *)
Pending == MQ_ACTION \in {3, 10} /\ pc = "loop"

Click == others < MaxOthers /\ others' = others + 1

(* What the code leaves to good timing or to the user: a click that meets   *)
(* writes under way ("raced"), Puppet Mode entered before an earlier Stop   *)
(* is through ("entered"), a single move in Puppet Mode ("moved"), a        *)
(* program resumed inside a handler, a driver replaced.                     *)
Note(what, if) ==
  /\ mishaps' = IF if THEN mishaps \cup {what} ELSE mishaps
  /\ mishaps' \subseteq Mishaps /\ Cardinality(mishaps') <= 1

-----------------------------------------------------------------------------
(* Operators: commands                                                     *)

(* A click on a motion operator meets a Stop that is not through, or an     *)
(* earlier modal that has not had its next tick.                            *)
TooSoon == job # "none" \/ \E r \in Runs : InModal(r)

Run ==
  /\ runs < MaxRuns /\ ~label /\ ~realtime_puppet_active
  /\ LET r == runs + 1
     IN  /\ runs' = r
         /\ phase' = [phase EXCEPT ![r] = "move_to_first"]
         /\ thread' = [thread EXCEPT ![r] = "pose"]
         /\ mine' = [mine EXCEPT ![r] = driver]
  /\ abort' = FALSE /\ label' = TRUE /\ edited' = FALSE /\ armed' = TRUE
  /\ Note("raced", TooSoon)
  /\ UNCHANGED <<command, ring, interp, realtime_puppet_active, conn, cmd, written, job,
                 others, streaming, reached>>

(* MoveToTarget does not wait: the three writes, then it returns.           *)
MoveToTarget ==
  /\ ~label /\ Settled /\ Click
  /\ MQ_E6POS' = 0
  /\ _cmd_id' = _cmd_id + 1 /\ MQ_CMD_ID' = _cmd_id + 1
  /\ MQ_ACTION' = 3
  /\ armed' = TRUE
  /\ IF TooSoon THEN Note("raced", TRUE) ELSE Note("moved", realtime_puppet_active)
  /\ UNCHANGED <<MQ_DONE_ID, ring, interp, slot, driver, _rt_puppet_active, modals, job,
                 runs, streaming, reached>>

EnterPuppet ==
  /\ Settled
  /\ MQ_E6POS' = 0 /\ MQ_ACTION' = 20
  /\ _rt_puppet_active' = TRUE
  /\ armed' = TRUE
  /\ UNCHANGED <<MQ_CMD_ID, MQ_DONE_ID, ring, interp, label, abort, edited, driver, _cmd_id,
                 modals, job, runs, streaming, reached>>

RealTimePuppetStart ==
  /\ ~label /\ ~realtime_puppet_active /\ Click
  /\ EnterPuppet
  /\ realtime_puppet_active' = TRUE
  /\ Note("entered", TooSoon)

(* A puppet tick writes MQ_E6POS only, unless the driver has left the mode. *)
PuppetTick ==
  /\ realtime_puppet_active /\ ~_rt_puppet_active
  /\ EnterPuppet
  /\ UNCHANGED <<realtime_puppet_active, others, mishaps>>

(* Available whenever the slot is connected.                                *)
RealTimePuppetStop ==
  /\ Settled /\ Click
  /\ realtime_puppet_active' = FALSE /\ _rt_puppet_active' = FALSE
  /\ MQ_ACTION' = 0
  /\ Note("raced", Pending \/ \E r \in Runs : Writing(r))
  /\ UNCHANGED <<MQ_CMD_ID, MQ_DONE_ID, MQ_E6POS, ring, interp, label, abort, edited, driver,
                 _cmd_id, modals, job, runs, streaming, armed, reached>>

(* The topology of the mesh is changed under a run.                         *)
EditTopology ==
  /\ label /\ ~edited
  /\ edited' = TRUE
  /\ UNCHANGED <<command, ring, interp, label, abort, realtime_puppet_active, conn, modals,
                 job, history>>

-----------------------------------------------------------------------------
(* Operators: Stop, Cancel, Play, reconnecting                             *)

(* Mutant: the modals are not told.                                         *)
StopWithoutAbort(kind) ==
  /\ job = "none" /\ Click
  /\ realtime_puppet_active' = FALSE
  /\ job' = kind
  /\ label' = FALSE
  /\ Note("raced", \E r \in Runs : Writing(r))
  /\ UNCHANGED <<command, ring, interp, abort, edited, conn, modals, runs, streaming, armed, reached>>

(* Mutant: Puppet Mode goes on in Blender.                                  *)
StopKeepsPuppet(kind) ==
  /\ job = "none" /\ Click
  /\ abort' = TRUE
  /\ job' = kind
  /\ label' = FALSE
  /\ Note("raced", \E r \in Runs : Writing(r))
  /\ UNCHANGED <<command, ring, interp, realtime_puppet_active, edited, conn, modals, runs,
                 streaming, armed, reached>>

(* Stop and Cancel differ in what their thread ends with.  A second click   *)
(* while the thread runs is not modelled.                                   *)
KukaStop(kind) ==
  /\ job = "none" /\ Click
  /\ abort' = TRUE
  /\ realtime_puppet_active' = FALSE
  /\ job' = kind
  /\ label' = FALSE
  /\ Note("raced", \E r \in Runs : Writing(r))
  /\ UNCHANGED <<command, ring, interp, edited, conn, modals, runs, streaming, armed, reached>>

(* Mutant: the pending command is left in place.                            *)
JobKeepsAction ==
  /\ job \in {"stop", "cancel"} /\ Settled
  /\ job' = IF job = "stop" THEN "stopping" ELSE "cancelling"
  /\ _rt_puppet_active' = FALSE
  /\ armed' = FALSE
  /\ UNCHANGED <<command, ring, interp, slot, driver, _cmd_id, modals,
                 runs, others, streaming, reached, mishaps>>

(* realtime_puppet_stop: MQ_ACTION = 0.                                     *)
JobDisarms ==
  /\ job \in {"stop", "cancel"} /\ Settled
  /\ job' = IF job = "stop" THEN "stopping" ELSE "cancelling"
  /\ _rt_puppet_active' = FALSE
  /\ MQ_ACTION' = 0
  /\ armed' = FALSE
  /\ UNCHANGED <<MQ_CMD_ID, MQ_DONE_ID, MQ_E6POS, ring, interp, slot, driver, _cmd_id, modals,
                 runs, others, streaming, reached, mishaps>>

(* stop_program or cancel_program; the program has to run to be stopped.    *)
JobHalts ==
  /\ job \in {"stopping", "cancelling"}
  /\ job' = "none"
  /\ program' = IF job = "cancelling" THEN "reset"
                ELSE IF program = "running" THEN "stopped" ELSE program
  /\ UNCHANGED <<command, ring, pc, MQ_I, slot, conn, modals, history>>

(* A stopped program goes on where it was, a reset one starts from its top. *)
KukaPlay ==
  /\ program # "running" /\ job = "none" /\ Click
  /\ program' = "running"
  /\ pc' = IF program = "reset" THEN "boot" ELSE pc
  /\ Note("resumed", pc' \notin {"boot", "loop"})
  /\ UNCHANGED <<command, ring, MQ_I, slot, conn, modals, job, runs, streaming, armed, reached>>

(* disconnect_slot and connect_slot: a new driver object.  The job's next   *)
(* call on the old one raises, and the job ends; modals and label stay.     *)
Reconnect ==
  /\ driver < MaxDrivers
  /\ driver' = driver + 1 /\ _cmd_id' = 0 /\ _rt_puppet_active' = FALSE
  /\ realtime_puppet_active' = FALSE
  /\ job' = "none"
  /\ Note("reconnected", TRUE)
  /\ UNCHANGED <<command, ring, interp, label, abort, edited, modals, runs, others, streaming,
                 armed, reached>>

-----------------------------------------------------------------------------
(* The thread of a run's first or return move: move_to_pose_ptp            *)

ThreadStep(r, from, to) ==
  /\ thread[r] = from
  /\ thread' = [thread EXCEPT ![r] = to]
  /\ UNCHANGED <<ring, interp, slot, driver, _rt_puppet_active, phase, mine, written, job,
                 runs, others, streaming, armed, reached, mishaps>>

Connected(r) == mine[r] = driver

WritePose(r) ==
  /\ Connected(r) /\ Settled
  /\ ThreadStep(r, "pose", "id")
  /\ MQ_E6POS' = IF phase[r] = "move_to_first" THEN r ELSE 0
  /\ UNCHANGED <<MQ_ACTION, MQ_CMD_ID, MQ_DONE_ID, _cmd_id, cmd>>

WriteId(r) ==
  /\ Connected(r) /\ Settled
  /\ ThreadStep(r, "id", "action")
  /\ _cmd_id' = _cmd_id + 1 /\ MQ_CMD_ID' = _cmd_id + 1
  /\ cmd' = [cmd EXCEPT ![r] = _cmd_id + 1]
  /\ UNCHANGED <<MQ_ACTION, MQ_DONE_ID, MQ_E6POS>>

WriteAction(r) ==
  /\ Connected(r) /\ Settled
  /\ ThreadStep(r, "action", "await")
  /\ MQ_ACTION' = 3
  /\ UNCHANGED <<MQ_CMD_ID, MQ_DONE_ID, MQ_E6POS, _cmd_id, cmd>>

(* Mutant: one acknowledgement too early.                                   *)
AwaitDoneEarly(r) ==
  /\ Connected(r) /\ MQ_DONE_ID + 1 >= cmd[r]
  /\ ThreadStep(r, "await", "ok")
  /\ UNCHANGED <<command, _cmd_id, cmd>>

AwaitDone(r) ==
  /\ Connected(r) /\ MQ_DONE_ID >= cmd[r]
  /\ ThreadStep(r, "await", "ok")
  /\ UNCHANGED <<command, _cmd_id, cmd>>

(* 30 s without the acknowledgement; what was written stays written.        *)
AwaitTimesOut(r) ==
  /\ ThreadStep(r, "await", "error")
  /\ UNCHANGED <<command, _cmd_id, cmd>>

(* A write on a driver that was disconnected: in the middle of the move its *)
(* error is returned; before it, _ensure raises and ends the thread with    *)
(* nothing reported.                                                        *)
WriteFails(r) ==
  /\ ~Connected(r)
  /\ \/ ThreadStep(r, "pose", "dead")
     \/ ThreadStep(r, "id", "error")
     \/ ThreadStep(r, "action", "error")
  /\ UNCHANGED <<command, _cmd_id, cmd>>

Thread(r) == WritePose(r) \/ WriteId(r) \/ WriteAction(r) \/ AwaitDone(r)
             \/ AwaitTimesOut(r) \/ WriteFails(r)

-----------------------------------------------------------------------------
(* A tick of a run's modal                                                 *)

CleanUp(r) ==
  /\ phase' = [phase EXCEPT ![r] = "none"]
  /\ label' = FALSE
  /\ UNCHANGED <<command, ring, interp, abort, realtime_puppet_active, edited, conn, thread,
                 mine, cmd, written, job, history>>

(* The abort flag comes before anything else.                               *)
TickAborts(r)   == InModal(r) /\ abort /\ CleanUp(r)

(* Mutant: an error of the return move is not looked at.                    *)
TickFailsAtFirst(r) == phase[r] = "move_to_first" /\ ~abort
                       /\ thread[r] = "error" /\ CleanUp(r)

TickFails(r)    == phase[r] \in {"move_to_first", "returning"} /\ ~abort
                   /\ thread[r] = "error" /\ CleanUp(r)

TickReturned(r) == phase[r] = "returning" /\ ~abort /\ thread[r] = "ok" /\ CleanUp(r)

(* The mesh is read again; a stream_start on a closed driver is an error.   *)
TickNoStart(r) ==
  /\ phase[r] = "move_to_first" /\ ~abort /\ thread[r] = "ok" /\ ~Connected(r)
  /\ CleanUp(r)

FillFrom(r, k, n) ==
  [i \in 1..Ring |->
     LET ks == {j \in k..(k + n - 1) : ((j - 1) % Ring) + 1 = i}
     IN  IF ks = {} THEN MQ_PT[i] ELSE <<r, CHOOSE j \in ks : TRUE>>]

(* Mutant: the stream goes out without its points.                          *)
StreamWithoutPoints(r) ==
  /\ phase[r] = "move_to_first" /\ ~abort /\ thread[r] = "ok" /\ Connected(r) /\ Settled
  /\ phase' = [phase EXCEPT ![r] = "streaming"]
  /\ written' = [written EXCEPT ![r] = Smaller(Ring, Total)]
  /\ MQ_PT_CNT' = Total /\ MQ_RD_IDX' = 1
  /\ MQ_WR_IDX' = Smaller(Ring, Total) + 1
  /\ _cmd_id' = _cmd_id + 1 /\ MQ_CMD_ID' = _cmd_id + 1
  /\ cmd' = [cmd EXCEPT ![r] = _cmd_id + 1]
  /\ MQ_ACTION' = 10
  /\ streaming' = r
  /\ edited' = FALSE
  /\ UNCHANGED <<MQ_DONE_ID, MQ_E6POS, MQ_PT, interp, label, abort, realtime_puppet_active, driver,
                 _rt_puppet_active, thread, mine, job, runs, others, armed, reached, mishaps>>

(* stream_start on the main thread: count, read index, the first ringful,   *)
(* write index, command.  The mesh is taken as it is now.                   *)
TickStarts(r) ==
  /\ phase[r] = "move_to_first" /\ ~abort /\ thread[r] = "ok" /\ Connected(r) /\ Settled
  /\ phase' = [phase EXCEPT ![r] = "streaming"]
  /\ written' = [written EXCEPT ![r] = Smaller(Ring, Total)]
  /\ MQ_PT_CNT' = Total /\ MQ_RD_IDX' = 1
  /\ MQ_PT' = FillFrom(r, 1, Smaller(Ring, Total))
  /\ MQ_WR_IDX' = Smaller(Ring, Total) + 1
  /\ _cmd_id' = _cmd_id + 1 /\ MQ_CMD_ID' = _cmd_id + 1
  /\ cmd' = [cmd EXCEPT ![r] = _cmd_id + 1]
  /\ MQ_ACTION' = 10
  /\ streaming' = r
  /\ edited' = FALSE
  /\ UNCHANGED <<MQ_DONE_ID, MQ_E6POS, interp, label, abort, realtime_puppet_active, driver,
                 _rt_puppet_active, thread, mine, job, runs, others, armed, reached, mishaps>>

(* stream_refill; with another topology there is nothing to refill with.    *)
TickRefills(r) ==
  /\ phase[r] = "streaming" /\ ~abort /\ Connected(r) /\ ~edited
  /\ LET used == IF written[r] + 1 > MQ_RD_IDX THEN written[r] + 1 - MQ_RD_IDX ELSE 0
         n == Smaller(Ring - used, Total - written[r])
     IN  /\ used < Ring /\ n > 0
         /\ MQ_PT' = FillFrom(r, written[r] + 1, n)
         /\ MQ_WR_IDX' = written[r] + n + 1
         /\ written' = [written EXCEPT ![r] = @ + n]
  /\ UNCHANGED <<command, MQ_RD_IDX, MQ_PT_CNT, interp, slot, conn, phase, thread, mine, cmd,
                 job, history>>

(* stream_is_done: the return move gets its thread.                         *)
TickReturns(r) ==
  /\ phase[r] = "streaming" /\ ~abort /\ Connected(r)
  /\ written[r] = Total /\ MQ_DONE_ID >= cmd[r]
  /\ phase' = [phase EXCEPT ![r] = "returning"]
  /\ thread' = [thread EXCEPT ![r] = "pose"]
  /\ UNCHANGED <<command, ring, interp, slot, conn, mine, cmd, written, job, history>>

Tick(r) == TickAborts(r) \/ TickFails(r) \/ TickReturned(r) \/ TickNoStart(r)
           \/ TickStarts(r) \/ TickRefills(r) \/ TickReturns(r)

-----------------------------------------------------------------------------
(* The interpreter of mq_stream                                            *)

Interpret(from, to) ==
  /\ program = "running"
  /\ pc = from /\ pc' = to
  /\ UNCHANGED <<program, MQ_CMD_ID, MQ_E6POS, MQ_PT, MQ_WR_IDX, MQ_PT_CNT, slot, conn, modals,
                 job, runs, others, streaming, armed, mishaps>>

(* The ring and the acknowledgement are reset; the command, its number and  *)
(* the indices of the ring are not.                                         *)
Boot ==
  /\ program = "running" /\ pc = "boot" /\ pc' = "loop"
  /\ MQ_PT' = [i \in 1..Ring |-> ZeroFrame]
  /\ MQ_DONE_ID' = 0 /\ MQ_I' = 0
  /\ UNCHANGED <<MQ_ACTION, MQ_CMD_ID, MQ_E6POS, MQ_RD_IDX, MQ_WR_IDX, MQ_PT_CNT, program,
                 slot, conn, modals, job, history>>

Accept ==
  \/ /\ MQ_ACTION = 3 /\ Interpret("loop", "move")
     /\ UNCHANGED <<MQ_ACTION, MQ_DONE_ID, MQ_RD_IDX, MQ_I, reached>>
  \/ /\ MQ_ACTION = 10 /\ Interpret("loop", "stream") /\ MQ_I' = 0
     /\ UNCHANGED <<MQ_ACTION, MQ_DONE_ID, MQ_RD_IDX, reached>>
  \/ /\ MQ_ACTION = 20 /\ Interpret("loop", "puppet")
     /\ UNCHANGED <<MQ_ACTION, MQ_DONE_ID, MQ_RD_IDX, MQ_I, reached>>

FinishMove ==
  /\ Interpret("move", "loop")
  /\ reached' = reached \cup {MQ_E6POS}
  /\ MQ_DONE_ID' = MQ_CMD_ID /\ MQ_ACTION' = 0
  /\ UNCHANGED <<MQ_RD_IDX, MQ_I>>

NextSlot == IF MQ_I + 1 > Ring THEN 1 ELSE MQ_I + 1

StreamPoint ==
  /\ MQ_RD_IDX # MQ_WR_IDX
  /\ MQ_I' = NextSlot
  /\ MQ_RD_IDX' = MQ_RD_IDX + 1
  /\ Interpret("stream", IF MQ_RD_IDX' = MQ_WR_IDX /\ MQ_RD_IDX' < MQ_PT_CNT
                         THEN "wait" ELSE "stream")
  /\ UNCHANGED <<MQ_ACTION, MQ_DONE_ID, reached>>

WaitFor ==
  /\ MQ_WR_IDX > MQ_RD_IDX
  /\ Interpret("wait", "stream")
  /\ UNCHANGED <<MQ_ACTION, MQ_DONE_ID, MQ_RD_IDX, MQ_I, reached>>

FinishStream ==
  /\ MQ_RD_IDX = MQ_WR_IDX
  /\ Interpret("stream", "loop")
  /\ MQ_DONE_ID' = MQ_CMD_ID /\ MQ_ACTION' = 0
  /\ UNCHANGED <<MQ_RD_IDX, MQ_I, reached>>

(* WHILE MQ_ACTION == 20: no acknowledgement, and MQ_ACTION is left alone.  *)
LeavePuppet ==
  /\ MQ_ACTION # 20
  /\ Interpret("puppet", "loop")
  /\ UNCHANGED <<MQ_ACTION, MQ_DONE_ID, MQ_RD_IDX, MQ_I, reached>>

MqStream == Boot \/ Accept \/ FinishMove \/ StreamPoint \/ WaitFor \/ FinishStream \/ LeavePuppet

-----------------------------------------------------------------------------
Init ==
  /\ MQ_ACTION = 0 /\ MQ_CMD_ID = 0 /\ MQ_DONE_ID = 0 /\ MQ_E6POS = 0
  /\ MQ_PT = [i \in 1..Ring |-> ZeroFrame]
  /\ MQ_RD_IDX = 0 /\ MQ_WR_IDX = 0 /\ MQ_PT_CNT = 0
  /\ program = "running" /\ pc = "loop" /\ MQ_I = 0
  /\ label = FALSE /\ abort = FALSE /\ realtime_puppet_active = FALSE /\ edited = FALSE
  /\ driver = 1 /\ _cmd_id = 0 /\ _rt_puppet_active = FALSE
  /\ phase = [r \in Runs |-> "none"] /\ thread = [r \in Runs |-> "none"]
  /\ mine = [r \in Runs |-> 0] /\ cmd = [r \in Runs |-> 0] /\ written = [r \in Runs |-> 0]
  /\ job = "none"
  /\ runs = 0 /\ others = 0 /\ streaming = 0 /\ armed = FALSE /\ reached = {} /\ mishaps = {}

Operator == Run \/ MoveToTarget \/ RealTimePuppetStart \/ PuppetTick \/ RealTimePuppetStop
            \/ EditTopology \/ KukaStop("stop") \/ KukaStop("cancel") \/ KukaPlay \/ Reconnect

Job == JobDisarms \/ JobHalts

Next == Operator \/ Job \/ MqStream \/ \E r \in Runs : Thread(r) \/ Tick(r)

Spec == Init /\ [][Next]_vars

(* Threads are scheduled, Blender keeps ticking, a program that runs keeps  *)
(* running; what the user does is free.                                     *)
FairSpec ==
  /\ Spec
  /\ WF_vars(Job) /\ WF_vars(MqStream) /\ WF_vars(PuppetTick)
  /\ \A r \in Runs : WF_vars(Thread(r)) /\ WF_vars(Tick(r))

-----------------------------------------------------------------------------
(* Properties                                                              *)

(* Type invariant of the controller, the slot, the runs and the history.    *)
TypeOK ==
  /\ MQ_ACTION \in {0, 3, 10, 20}
  /\ {MQ_CMD_ID, MQ_DONE_ID, MQ_RD_IDX, MQ_WR_IDX, _cmd_id} \subseteq Nat
  /\ MQ_E6POS \in {0} \cup Runs /\ MQ_PT_CNT \in {0, Total} /\ MQ_I \in 0..Ring
  /\ MQ_PT \in [1..Ring -> ({0} \cup Runs) \X (0..Total)]
  /\ program \in {"running", "stopped", "reset"}
  /\ pc \in {"boot", "loop", "move", "stream", "wait", "puppet"}
  /\ {label, abort, realtime_puppet_active, edited, _rt_puppet_active, armed} \subseteq BOOLEAN
  /\ driver \in 1..MaxDrivers
  /\ phase \in [Runs -> {"none", "move_to_first", "streaming", "returning"}]
  /\ thread \in [Runs -> {"none", "pose", "id", "action", "await", "ok", "error", "dead"}]
  /\ mine \in [Runs -> 0..MaxDrivers] /\ cmd \in [Runs -> Nat] /\ written \in [Runs -> 0..Total]
  /\ job \in {"none", "stop", "cancel", "stopping", "cancelling"}
  /\ runs \in 0..MaxRuns /\ others \in 0..MaxOthers /\ streaming \in {0} \cup Runs
  /\ reached \subseteq {0} \cup Runs
  /\ mishaps \subseteq Mishaps

(* _wait_cmd_done "polls MQ_DONE_ID until it matches": a toolpath is only   *)
(* streamed once the robot was sent to its first point.                     *)
FirstMoveMade == \A r \in Runs : phase[r] \in {"streaming", "returning"} => r \in reached

(* ... unless the driver was replaced, the program resumed inside a handler *)
(* or a click met writes under way: then an acknowledgement may be another  *)
(* command's.                                                               *)
FirstMoveMadeUndisturbed ==
  mishaps \subseteq {"moved"} => FirstMoveMade

(* After Stop or Cancel, nothing that was commanded before is begun, when   *)
(* and however the program is started again: the job clears the command     *)
(* before it halts the program, and only a new click sends another.         *)
StopDisarms ==
  [][pc = "loop" /\ pc' \in {"move", "stream", "puppet"} => armed \/ "raced" \in mishaps]_vars

(* What the interpreter takes from the ring is the next point of the stream *)
(* it was given, not the zero frame of a restart nor another run's point.   *)
OwnPoints ==
  pc = "stream" /\ MQ_RD_IDX # MQ_WR_IDX /\ mishaps \subseteq {"moved"}
    => MQ_PT[NextSlot] = <<streaming, MQ_RD_IDX>>

(* The label that keeps motions apart is truthful: a run under way shows it *)
(* or is about to see the abort flag, and no slot is locked by a label      *)
(* whose run is over.                                                       *)
LabelTruthful ==
  /\ label => \E r \in Runs : InModal(r)
  /\ "raced" \notin mishaps => \A r \in Runs : InModal(r) => label \/ abort

(* While Blender shows Puppet Mode running, the controller follows or will: *)
(* stopping the program by other means takes Blender out of it.             *)
PuppetFollows ==
  realtime_puppet_active /\ mishaps = {} => MQ_ACTION = 20

(* A run ends, with success or with an error, and gives its label back, if  *)
(* the program keeps running and nobody touches the mesh's topology.        *)
RunEnds ==
  \A r \in Runs :
    InModal(r) ~> ~InModal(r) \/ edited \/ program # "running" \/ mishaps # {}
=============================================================================

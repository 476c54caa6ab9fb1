----------------------------- MODULE KukaStream -----------------------------
(***************************************************************************)
(* KUKA Dynamic Sync: one "Run Toolpath" after another, from the driver's  *)
(* side (KUKADriver.move_to_pose_ptp, stream_start, stream_refill,         *)
(* stream_is_done, driven by the SendPath modal) and from the controller's *)
(* side (the generated KRL program mq_stream).                             *)
(*                                                                         *)
(* The two sides share the global variables of $CONFIG.DAT and nothing     *)
(* else.  Every read or write by the driver is one C3 Bridge transaction,  *)
(* hence one step; the KRL interpreter takes one step per statement that   *)
(* touches a shared variable.  The interpreter is the ADVANCE run: it      *)
(* plans motion blocks up to Advance ahead of the robot, and TRIGGERs fire *)
(* in the MAIN run, when the robot starts into the block.  WAIT FOR and    *)
(* WAIT SEC stop the advance run: they end when nothing planned is left.   *)
(*                                                                         *)
(* A motion target is [cmd, k]: the k-th waypoint of the stream command    *)
(* cmd, k = 0 standing for the single target of a PTP command.             *)
(***************************************************************************)
EXTENDS Naturals, Sequences

CONSTANTS
  Ring,      (* slots of MQ_PT, as generated and as used by the driver     *)
  Advance,   (* $ADVANCE: blocks the interpreter may plan ahead            *)
  Totals,    (* lengths a toolpath may have                                *)
  MaxRuns,   (* bound on the number of runs                                *)
  MayFail    (* whether a write may fail and a run may be given up         *)

ASSUME ConstantsAssumption ==
  /\ Ring \in Nat \ {0}
  /\ Advance \in Nat \ {0}
  /\ Totals \subseteq Nat \ {0}
  /\ MaxRuns \in Nat
  /\ MayFail \in BOOLEAN

VARIABLES
  (* $CONFIG.DAT *)
  MQ_ACTION, MQ_CMD_ID, MQ_DONE_ID, MQ_E6POS,
  MQ_PT, MQ_RD_IDX, MQ_WR_IDX, MQ_PT_CNT, IDX,
  (* the interpreter of mq_stream, and the robot *)
  pc, MQ_I, planned,
  (* the driver and the modal operator that calls it *)
  step, phase, runs, cmd_id, sid, total, written, todo, seen,
  (* history: the last waypoint planned, the last one the robot started on *)
  handed, begun

command == <<MQ_ACTION, MQ_CMD_ID, MQ_DONE_ID, MQ_E6POS>>
ring    == <<MQ_PT, MQ_RD_IDX, MQ_WR_IDX, MQ_PT_CNT>>
robot   == <<pc, MQ_I, planned, IDX, handed, begun>>
run     == <<phase, runs, cmd_id>>
stream  == <<sid, total, written, todo, seen>>
vars    == <<command, ring, robot, step, run, stream>>

Target == [cmd : Nat, k : Nat]

(* MQ_PT is zeroed when mq_stream starts; the zero frame is nobody's point. *)
ZeroFrame == [cmd |-> 0, k |-> 0]

(* MQ_PT index, 1-based, of the k-th waypoint: (i % ring_size) + 1, i = k-1. *)
Slot(k) == ((k - 1) % Ring) + 1

Smaller(a, b) == IF a < b THEN a ELSE b

(* The driver gets from one of its statements to the next.                  *)
Step(from, to) == step = from /\ step' = to

-----------------------------------------------------------------------------
(* The driver: single PTP commands, before and after the stream            *)

StartRun ==
  /\ Step("idle", "pose")
  /\ runs < MaxRuns
  /\ runs' = runs + 1
  /\ phase' = "move_to_first"
  /\ UNCHANGED <<command, ring, robot, cmd_id, stream>>

WritePose ==
  /\ Step("pose", "moveId")
  /\ MQ_E6POS' = cmd_id + 1
  /\ UNCHANGED <<MQ_ACTION, MQ_CMD_ID, MQ_DONE_ID, ring, robot, run, stream>>

(* _next_cmd_id, and the number goes out as MQ_CMD_ID.                      *)
WriteCmdId(from, to) ==
  /\ Step(from, to)
  /\ cmd_id' = cmd_id + 1
  /\ MQ_CMD_ID' = cmd_id + 1
  /\ UNCHANGED <<MQ_ACTION, MQ_DONE_ID, MQ_E6POS, ring, robot, phase, runs, stream>>

WriteAction(from, to, action) ==
  /\ Step(from, to)
  /\ MQ_ACTION' = action
  /\ UNCHANGED <<MQ_CMD_ID, MQ_DONE_ID, MQ_E6POS, ring, robot, run, stream>>

MoveId     == WriteCmdId("moveId", "moveAction")
MoveAction == WriteAction("moveAction", "await", 3)

(* Mutant: waits for an acknowledgement beyond its own command.             *)
AwaitBeyond ==
  /\ step = "await"
  /\ MQ_DONE_ID > cmd_id
  /\ \/ phase = "move_to_first" /\ step' = "count" /\ UNCHANGED phase
     \/ phase = "returning" /\ step' = "idle" /\ phase' = "none"
  /\ UNCHANGED <<command, ring, robot, runs, cmd_id, stream>>

(* _wait_cmd_done returns; the modal moves on to its next phase.            *)
AwaitDone ==
  /\ step = "await"
  /\ MQ_DONE_ID >= cmd_id
  /\ \/ phase = "move_to_first" /\ step' = "count" /\ UNCHANGED phase
     \/ phase = "returning" /\ step' = "idle" /\ phase' = "none"
  /\ UNCHANGED <<command, ring, robot, runs, cmd_id, stream>>

-----------------------------------------------------------------------------
(* The driver: stream_start                                                *)

StartCount ==
  /\ Step("count", "rewind")
  /\ phase' = "streaming"
  /\ \E n \in Totals : total' = n /\ MQ_PT_CNT' = n
  /\ written' = 0
  /\ sid' = cmd_id + 1
  /\ UNCHANGED <<command, MQ_PT, MQ_RD_IDX, MQ_WR_IDX, robot,
                 runs, cmd_id, todo, seen>>

(* Mutant: the read index of the previous stream is left in place.          *)
StartNoRewind ==
  /\ Step("rewind", "fill")
  /\ todo' = Smaller(Ring, total)
  /\ UNCHANGED <<command, ring, robot, run, sid, total, written, seen>>

StartRewind ==
  /\ Step("rewind", "fill")
  /\ MQ_RD_IDX' = 1
  /\ todo' = Smaller(Ring, total)
  /\ UNCHANGED <<command, MQ_PT, MQ_WR_IDX, MQ_PT_CNT, robot, run,
                 sid, total, written, seen>>

(* One waypoint into its slot; the write index follows the last one.        *)
WriteSlot(from, to) ==
  /\ step = from
  /\ MQ_PT' = [MQ_PT EXCEPT ![Slot(written + 1)] = [cmd |-> sid, k |-> written + 1]]
  /\ written' = written + 1
  /\ todo' = todo - 1
  /\ step' = IF todo = 1 THEN to ELSE from
  /\ UNCHANGED <<command, MQ_RD_IDX, MQ_WR_IDX, MQ_PT_CNT, robot, run,
                 sid, total, seen>>

WriteWrIdx(from, to) ==
  /\ Step(from, to)
  /\ MQ_WR_IDX' = written + 1
  /\ UNCHANGED <<command, MQ_PT, MQ_RD_IDX, MQ_PT_CNT, robot, run, stream>>

StartFill   == WriteSlot("fill", "startWr")
StartWrIdx  == WriteWrIdx("startWr", "streamId")
StreamId    == WriteCmdId("streamId", "streamAction")
StartAction == WriteAction("streamAction", "feed", 10)

-----------------------------------------------------------------------------
(* The driver: refilling the ring while the robot consumes it              *)

ReadRdIdx ==
  /\ Step("feed", "refill")
  /\ written < total
  /\ seen' = MQ_RD_IDX
  /\ UNCHANGED <<command, ring, robot, run, sid, total, written, todo>>

(* Mutant: one slot too many.                                               *)
FreeSlotsPlusOne(rd) ==
  LET used == IF written > rd THEN written - rd ELSE 0
  IN  IF Ring > used THEN Ring - used ELSE 0

(* Mutant: what the robot consumed is not given back.                       *)
FreeSlotsOnce(rd) == IF Ring > written THEN Ring - written ELSE 0

(* Slots stream_refill takes to be free, having seen MQ_RD_IDX = rd.        *)
FreeSlots(rd) ==
  LET used == IF written + 1 > rd THEN written + 1 - rd ELSE 0
  IN  IF Ring > used THEN Ring - used ELSE 0

PlanRefill ==
  /\ step = "refill"
  /\ todo' = Smaller(FreeSlots(seen), total - written)
  /\ step' = IF todo' = 0 THEN "feed" ELSE "slot"
  /\ UNCHANGED <<command, ring, robot, run, sid, total, written, seen>>

RefillSlot  == WriteSlot("slot", "publish")
RefillWrIdx == WriteWrIdx("publish", "feed")

(* Mutant: done as soon as all is written.                                  *)
StreamIsWritten ==
  /\ Step("feed", "pose")
  /\ written = total
  /\ phase' = "returning"
  /\ UNCHANGED <<command, ring, robot, runs, cmd_id, stream>>

(* All points written: stream_is_done, then the return move.                *)
StreamIsDone ==
  /\ Step("feed", "pose")
  /\ written = total
  /\ MQ_DONE_ID >= cmd_id
  /\ phase' = "returning"
  /\ UNCHANGED <<command, ring, robot, runs, cmd_id, stream>>

(* A write fails, with or without effect, or _wait_cmd_done times out: the  *)
(* run ends with its error and the controller is left as it is.  What Stop  *)
(* writes, and what a later run makes of the state left behind, is not part *)
(* of this module.                                                          *)
GiveUp ==
  /\ MayFail
  /\ step \notin {"idle", "refill", "failed"}
  /\ step' = "failed"
  /\ UNCHANGED <<command, ring, robot, run, stream>>

-----------------------------------------------------------------------------
(* The controller: mq_stream, in the advance run                           *)

(* The driver's side and the main run are untouched.                        *)
Interpret(from, to) ==
  /\ pc = from
  /\ pc' = to
  /\ UNCHANGED <<step, run, stream, MQ_CMD_ID, MQ_E6POS, MQ_PT, MQ_WR_IDX, MQ_PT_CNT, begun>>

(* The main loop sees no command and does WAIT SEC.                         *)
Idle ==
  /\ MQ_ACTION = 0
  /\ Interpret("loop", "idle")
  /\ UNCHANGED <<MQ_ACTION, MQ_DONE_ID, MQ_RD_IDX, MQ_I, planned, IDX, handed>>

WakeUp ==
  /\ planned = <<>>
  /\ Interpret("idle", "loop")
  /\ UNCHANGED <<MQ_ACTION, MQ_DONE_ID, MQ_RD_IDX, MQ_I, planned, IDX, handed>>

(* The main loop sees a command.                                            *)
AcceptMove ==
  /\ MQ_ACTION = 3
  /\ Interpret("loop", "move")
  /\ UNCHANGED <<MQ_ACTION, MQ_DONE_ID, MQ_RD_IDX, MQ_I, planned, IDX, handed>>

(* Mutant: the waypoint index of the previous stream is left in place.      *)
AcceptKeepingIdx ==
  /\ MQ_ACTION = 10
  /\ Interpret("loop", "while")
  /\ MQ_I' = 0
  /\ UNCHANGED <<MQ_ACTION, MQ_DONE_ID, MQ_RD_IDX, planned, IDX, handed>>

AcceptStream ==
  /\ MQ_ACTION = 10
  /\ Interpret("loop", "while")
  /\ MQ_I' = 0
  /\ IDX' = 0
  /\ UNCHANGED <<MQ_ACTION, MQ_DONE_ID, MQ_RD_IDX, planned, handed>>

(* A motion statement is planned while fewer than $ADVANCE blocks wait.     *)
Plan(target) ==
  /\ Len(planned) < Advance
  /\ planned' = Append(planned, target)

PlanMove ==
  /\ Interpret("move", "ack")
  /\ Plan([cmd |-> MQ_E6POS, k |-> 0])
  /\ UNCHANGED <<MQ_ACTION, MQ_DONE_ID, MQ_RD_IDX, MQ_I, IDX, handed>>

(* WHILE MQ_RD_IDX <> MQ_WR_IDX, and the wrap-around counter of its body.   *)
NextPoint ==
  /\ MQ_RD_IDX # MQ_WR_IDX
  /\ Interpret("while", "plan")
  /\ MQ_I' = IF MQ_I + 1 > Ring THEN 1 ELSE MQ_I + 1
  /\ UNCHANGED <<MQ_ACTION, MQ_DONE_ID, MQ_RD_IDX, planned, IDX, handed>>

PlanPoint ==
  /\ Interpret("plan", "bump")
  /\ Plan(MQ_PT[MQ_I])
  /\ handed' = MQ_PT[MQ_I]
  /\ UNCHANGED <<MQ_ACTION, MQ_DONE_ID, MQ_RD_IDX, MQ_I, IDX>>

Bump ==
  /\ Interpret("bump", "check")
  /\ MQ_RD_IDX' = MQ_RD_IDX + 1
  /\ UNCHANGED <<MQ_ACTION, MQ_DONE_ID, MQ_I, planned, IDX, handed>>

(* Mutant: an empty ring always ends the stream.                            *)
NeverCaughtUp == FALSE

(* Caught up with the producer before the last point: wait for more.        *)
CaughtUp == MQ_RD_IDX = MQ_WR_IDX /\ MQ_RD_IDX < MQ_PT_CNT

Check ==
  /\ Interpret("check", IF CaughtUp THEN "wait" ELSE "while")
  /\ UNCHANGED <<MQ_ACTION, MQ_DONE_ID, MQ_RD_IDX, MQ_I, planned, IDX, handed>>

WaitFor ==
  /\ MQ_WR_IDX > MQ_RD_IDX
  /\ planned = <<>>
  /\ Interpret("wait", "while")
  /\ UNCHANGED <<MQ_ACTION, MQ_DONE_ID, MQ_RD_IDX, MQ_I, planned, IDX, handed>>

EndWhile ==
  /\ MQ_RD_IDX = MQ_WR_IDX
  /\ Interpret("while", "ack")
  /\ UNCHANGED <<MQ_ACTION, MQ_DONE_ID, MQ_RD_IDX, MQ_I, planned, IDX, handed>>

(* The end of every handler: MQ_DONE_ID = MQ_CMD_ID, then MQ_ACTION = 0.    *)
Acknowledge ==
  /\ Interpret("ack", "release")
  /\ MQ_DONE_ID' = MQ_CMD_ID
  /\ UNCHANGED <<MQ_ACTION, MQ_RD_IDX, MQ_I, planned, IDX, handed>>

Release ==
  /\ Interpret("release", "loop")
  /\ MQ_ACTION' = 0
  /\ UNCHANGED <<MQ_DONE_ID, MQ_RD_IDX, MQ_I, planned, IDX, handed>>

(* The main run: the robot starts into the next block, whose TRIGGER fires. *)
StartBlock ==
  /\ planned # <<>>
  /\ planned' = Tail(planned)
  /\ IF Head(planned).k > 0
     THEN IDX' = IDX + 1 /\ begun' = Head(planned)
     ELSE UNCHANGED <<IDX, begun>>
  /\ UNCHANGED <<command, ring, pc, MQ_I, handed, step, run, stream>>

-----------------------------------------------------------------------------
Init ==
  /\ MQ_ACTION = 0 /\ MQ_CMD_ID = 0 /\ MQ_DONE_ID = 0 /\ MQ_E6POS = 0
  /\ MQ_PT = [i \in 1..Ring |-> ZeroFrame]
  /\ MQ_RD_IDX = 0 /\ MQ_WR_IDX = 0 /\ MQ_PT_CNT = 0 /\ IDX = 0
  /\ pc = "loop" /\ MQ_I = 0 /\ planned = <<>>
  /\ step = "idle" /\ phase = "none" /\ runs = 0 /\ cmd_id = 0
  /\ sid = 0 /\ total = 0 /\ written = 0 /\ todo = 0 /\ seen = 0
  /\ handed = ZeroFrame /\ begun = ZeroFrame

Move        == WritePose \/ MoveId \/ MoveAction \/ AwaitDone
StreamStart == StartCount \/ StartRewind \/ StartFill \/ StartWrIdx
               \/ StreamId \/ StartAction
Refill      == ReadRdIdx \/ PlanRefill \/ RefillSlot \/ RefillWrIdx
Driver      == Move \/ StreamStart \/ Refill \/ StreamIsDone

HandleMove   == AcceptMove \/ PlanMove
HandleStream == AcceptStream \/ NextPoint \/ PlanPoint \/ Bump \/ Check
                \/ WaitFor \/ EndWhile
MqStream     == Idle \/ WakeUp \/ HandleMove \/ HandleStream \/ Acknowledge \/ Release

Next == StartRun \/ Driver \/ GiveUp \/ MqStream \/ StartBlock

Spec == Init /\ [][Next]_vars

(* The timer keeps ticking and the waiting thread polling; the interpreter  *)
(* and the robot keep running.  Starting and giving up a run are choices.   *)
Fairness == WF_vars(Driver) /\ WF_vars(MqStream) /\ WF_vars(StartBlock)

FairSpec == Spec /\ Fairness

(* A new command takes the driver several transactions with the controller; *)
(* under this timing assumption the interpreter gets from an acknowledgement *)
(* to its WAIT SEC in the meantime.                                         *)
Parking == pc = "release" \/ (pc = "loop" /\ MQ_ACTION = 0)

PromptNext == IF Parking THEN MqStream \/ StartBlock ELSE Next

PromptSpec == Init /\ [][PromptNext]_vars /\ Fairness

-----------------------------------------------------------------------------
(* Properties                                                              *)

Steps == {"idle", "pose", "moveId", "moveAction", "await", "count", "rewind",
          "fill", "startWr", "streamId", "streamAction", "feed", "refill",
          "slot", "publish", "failed"}

Pcs == {"loop", "idle", "move", "while", "plan", "bump", "check", "wait", "ack", "release"}

(* Type invariant of the shared globals, the interpreter and the driver.    *)
TypeOK ==
  /\ MQ_ACTION \in {0, 3, 10}
  /\ MQ_CMD_ID \in Nat /\ MQ_DONE_ID \in Nat /\ MQ_E6POS \in Nat
  /\ MQ_PT \in [1..Ring -> Target]
  /\ MQ_RD_IDX \in Nat /\ MQ_WR_IDX \in Nat /\ MQ_PT_CNT \in Nat /\ IDX \in Nat
  /\ pc \in Pcs /\ MQ_I \in 0..Ring /\ planned \in Seq(Target)
  /\ step \in Steps
  /\ phase \in {"none", "move_to_first", "streaming", "returning"}
  /\ runs \in Nat /\ cmd_id \in Nat /\ sid \in Nat /\ total \in Nat
  /\ written \in Nat /\ todo \in Nat /\ seen \in Nat
  /\ handed \in Target /\ begun \in Target

(* What the interpreter reads from the ring is the waypoint it is due: the  *)
(* slot at MQ_I holds point MQ_RD_IDX of the stream being executed, neither *)
(* a point of an earlier lap or run, nor one overwritten by a refill.       *)
RightPoint == pc = "plan" => MQ_PT[MQ_I] = [cmd |-> sid, k |-> MQ_RD_IDX]

(* The write and read indices never cross and never lap: the ring holds     *)
(* the points from MQ_RD_IDX to written, at most Ring of them, of which the *)
(* driver has published all or all but those of the refill under way.       *)
InHandler == pc \in {"while", "plan", "bump", "check", "wait"}

RingWindow ==
  InHandler => /\ MQ_RD_IDX <= MQ_WR_IDX
               /\ MQ_WR_IDX <= written + 1
               /\ written + 1 <= MQ_RD_IDX + Ring

(* The robot starts into the waypoints of a run in order, one by one, and   *)
(* never goes back to an earlier run.                                       *)
Follows(next, prev) ==
  \/ next.cmd = prev.cmd /\ next.k = prev.k + 1
  \/ next.cmd > prev.cmd /\ next.k = 1

StartsInOrder == [][Follows(begun', begun)]_begun

(* A run that goes on to its return move has had all its waypoints planned, *)
(* or all but the last.                                                     *)
DoneMissesAtMostLast ==
  phase = "returning" => handed.cmd = sid /\ handed.k + 1 >= total

(* stream_is_done: "Check if the robot finished executing all queued        *)
(* points."  Read for the points themselves: all were planned.              *)
DoneMeansAllPlanned ==
  phase = "returning" => handed = [cmd |-> sid, k |-> total]

(* The same sentence read for the motion: when the driver takes a stream    *)
(* for done, the robot has at least started into the last planned point.    *)
DoneMeansReached ==
  [][phase = "streaming" /\ phase' = "returning" => begun = handed]_vars

(* IDX is the number of the waypoint the robot is at, as the end effector   *)
(* and run_idx assume: it is cleared by the interpreter, which may be ahead *)
(* of the robot, and counted by the TRIGGERs, which are not.                *)
IdxTracksMotion == begun.cmd = sid => IDX = begun.k

(* A stream the controller has accepted is acknowledged, unless the driver  *)
(* gives it up: consumer and producer never wait for each other for ever.   *)
StreamCompletes ==
  pc = "while" ~> MQ_DONE_ID = sid \/ step = "failed"

(* A run comes to its end, return move included, unless it is given up: no  *)
(* command is lost between the two ends of a handler and no wait is in vain. *)
RunCompletes == step = "pose" ~> step \in {"idle", "failed"}

(* The promise of the whole: the waypoints of a path reach the planner in   *)
(* order and exactly once, and completion is reported at most one early.    *)
PlannedSoFar == IF handed.cmd = sid THEN handed.k ELSE 0

Status ==
  IF phase = "streaming" THEN IF step = "failed" THEN "aborted" ELSE "open"
  ELSE IF sid = 0 THEN "none" ELSE "complete"

Delivery == INSTANCE PathDelivery WITH
  Capacity <- Ring, Lengths <- Totals, Dropped <- 1,
  sent <- written, planned <- PlannedSoFar, status <- Status

ImplementsPathDelivery == Delivery!Spec
=============================================================================

----------------------------- MODULE KukaProgram -----------------------------
(***************************************************************************)
(* "Stream to Robot": an exported KRL program, read back from its text, is *)
(* fed to mq_stream by a thread of its own (stream_krl_text), under a      *)
(* modal that only waits for it, beside the Stop button.                   *)
(*                                                                         *)
(* Program p is the p-th execution of the operator.  What is left of its   *)
(* text is its length in LIN moves and whether PTP moves stand before and  *)
(* after them; each LIN may carry values of variables (its events), which  *)
(* are written ahead of it.  stream_start, a refill and mq_stream's        *)
(* handlers are one step each: KukaStream has their insides.  The calls    *)
(* that move MQ_RD_IDX and the job's reading of it are not.                *)
(***************************************************************************)
EXTENDS Naturals

CONSTANTS
  Ring,        (* effective_ring_size, that of the uploaded mq_stream       *)
  Plans,       (* what _classify_krl_commands may return                    *)
  MaxPrograms, (* bound on the programs streamed                            *)
  MaxStops,    (* bound on the times Stop is pressed                        *)
  Overlap      (* a program may begin over what another has left: nothing   *)
               (* in the code prevents it                                   *)

ASSUME ProgramConstants ==
  /\ Ring \in Nat \ {0} /\ MaxPrograms \in Nat /\ MaxStops \in Nat
  /\ Overlap \in BOOLEAN
  /\ Plans \subseteq [before : BOOLEAN, points : Nat \ {0}, after : BOOLEAN]

VARIABLES
  (* the slot: motion_active_label # ""; the Stop button's thread           *)
  label, stopJob, stops,
  (* the jobs; the driver's command counter                                 *)
  programs, job, _cmd_id,
  (* the controller: the variables of mq_stream, where it is ("off" when    *)
  (* no program runs) and its wrap-around counter                           *)
  MQ_ACTION, MQ_CMD_ID, MQ_DONE_ID, MQ_PT, MQ_RD_IDX, MQ_WR_IDX, MQ_PT_CNT, pc, MQ_I,
  (* history: the last waypoint planned; the job was at work at a Stop      *)
  handed, stopped

slot        == <<label, stopJob, stops>>
jobs        == <<programs, job, _cmd_id>>
command     == <<MQ_ACTION, MQ_CMD_ID, MQ_DONE_ID>>
ring        == <<MQ_PT, MQ_RD_IDX, MQ_WR_IDX, MQ_PT_CNT>>
interp      == <<pc, MQ_I>>
traces      == <<handed, stopped>>
programVars == <<slot, jobs, command, ring, interp, traces>>

Program   == 1..MaxPrograms
ZeroFrame == [of |-> 0, k |-> 0]
NoJob     == [at |-> "none", plan |-> [before |-> FALSE, points |-> 1, after |-> FALSE],
              written |-> 0, told |-> 0, rd |-> 0, cmd |-> 0]

AtWork(p) == job[p].at \notin {"none", "over", "failed", "closed"}

Smaller(a, b) == IF a < b THEN a ELSE b

Slot(k) == ((k - 1) % Ring) + 1

-----------------------------------------------------------------------------
(* The operator, its modal and Stop                                        *)

(* What an earlier program may leave: its job, its command, its Stop.       *)
Left == (\E p \in Program : AtWork(p)) \/ stopJob # "none" \/ pc = "stream" \/ MQ_ACTION # 0

(* KukaStreamExportedProgram.execute.                                       *)
Start ==
  /\ ~label /\ programs < MaxPrograms
  /\ Overlap \/ ~Left
  /\ programs' = programs + 1
  /\ \E plan \in Plans :
       job' = [job EXCEPT ![programs + 1] = [NoJob EXCEPT !.at = "load", !.plan = plan]]
  /\ label' = TRUE
  /\ UNCHANGED <<stopJob, stops, _cmd_id, command, ring, interp, traces>>

(* The modal finds the job done, and takes the label away: whosever it is.  *)
Close(p) ==
  /\ job[p].at \in {"over", "failed"}
  /\ job' = [job EXCEPT ![p].at = "closed"]
  /\ label' = FALSE
  /\ UNCHANGED <<stopJob, stops, programs, _cmd_id, command, ring, interp, traces>>

Hit == stopped' = [p \in Program |-> stopped[p] \/ AtWork(p)]

(* KukaStopProgram.execute: the abort flag it raises is not looked at here. *)
Stop ==
  /\ stopJob = "none" /\ stopJob' = "disarm"
  /\ stops < MaxStops /\ stops' = stops + 1
  /\ label' = FALSE
  /\ Hit
  /\ UNCHANGED <<jobs, command, ring, interp, handed>>

Disarm ==
  /\ stopJob = "disarm" /\ stopJob' = "halt"
  /\ MQ_ACTION' = 0
  /\ Hit
  /\ UNCHANGED <<label, stops, jobs, MQ_CMD_ID, MQ_DONE_ID, ring, interp, handed>>

Halt ==
  /\ stopJob = "halt" /\ stopJob' = "none"
  /\ pc' = "off"
  /\ Hit
  /\ UNCHANGED <<label, stops, jobs, command, ring, MQ_I, handed>>

-----------------------------------------------------------------------------
(* The job: stream_krl_text                                                *)

Outside == UNCHANGED <<slot, programs, traces>>

Goes(p, from, to) == job[p].at = from /\ job' = [job EXCEPT ![p].at = to]

(* Upload, select and play; mq_stream begins with an empty ring and nothing *)
(* acknowledged if it was not running, and is asked nothing if it was.      *)
Load(p) ==
  /\ Goes(p, "load", IF job[p].plan.before THEN "before" ELSE "prepare")
  /\ IF pc = "off"
     THEN /\ pc' = "loop" /\ MQ_I' = 0 /\ MQ_DONE_ID' = 0
          /\ MQ_PT' = [i \in 1..Ring |-> ZeroFrame]
     ELSE UNCHANGED <<interp, MQ_DONE_ID, MQ_PT>>
  /\ UNCHANGED <<_cmd_id, MQ_ACTION, MQ_CMD_ID, MQ_RD_IDX, MQ_WR_IDX, MQ_PT_CNT>> /\ Outside

(* A PTP move goes out as a command of its own and is waited for.           *)
Command(p, action) ==
  /\ _cmd_id' = _cmd_id + 1
  /\ MQ_CMD_ID' = _cmd_id + 1 /\ MQ_ACTION' = action
  /\ UNCHANGED MQ_DONE_ID

SendMove(p) ==
  /\ job[p].at \in {"before", "after"}
  /\ Command(p, 1)
  /\ job' = [job EXCEPT ![p].cmd = _cmd_id + 1,
                        ![p].at = IF job[p].at = "before" THEN "moving" ELSE "leaving"]
  /\ UNCHANGED <<ring, interp>> /\ Outside

(* Mutant: a command's own number does not count as its acknowledgement.    *)
AcknowledgedBeyond(p) == MQ_DONE_ID > job[p].cmd

Acknowledged(p) == MQ_DONE_ID >= job[p].cmd

MoveDone(p) ==
  /\ Acknowledged(p)
  /\ Goes(p, "moving", "prepare") \/ Goes(p, "leaving", "over")
  /\ UNCHANGED <<_cmd_id, command, ring, interp>> /\ Outside

(* The events of the waypoints that open the stream, all before it.         *)
Tell(p) == job' = [job EXCEPT ![p].told = @ + 1]

Initial(p) == Smaller(Ring, job[p].plan.points)

TellInitial(p) ==
  /\ job[p].at = "prepare" /\ job[p].told < Initial(p)
  /\ Tell(p)
  /\ UNCHANGED <<_cmd_id, command, ring, interp>> /\ Outside

Filled(p, from, upto) ==
  [i \in 1..Ring |-> LET ks == {k \in from..upto : Slot(k) = i}
                     IN  IF ks = {} THEN MQ_PT[i] ELSE [of |-> p, k |-> CHOOSE k \in ks : TRUE]]

StreamStart(p) ==
  /\ job[p].at = "prepare" /\ job[p].told = Initial(p)
  /\ MQ_PT_CNT' = job[p].plan.points /\ MQ_RD_IDX' = 1
  /\ MQ_PT' = Filled(p, 1, Initial(p))
  /\ MQ_WR_IDX' = Initial(p) + 1
  /\ Command(p, 10)
  /\ job' = [job EXCEPT ![p].at = "feed", ![p].written = Initial(p), ![p].cmd = _cmd_id + 1]
  /\ UNCHANGED interp /\ Outside

(* MQ_RD_IDX is read, or read again and again.                              *)
ReadRdIdx(p) ==
  /\ job[p].at = "feed" /\ job[p].written < job[p].plan.points
  /\ job' = [job EXCEPT ![p].at = "tell", ![p].rd = MQ_RD_IDX]
  /\ UNCHANGED <<_cmd_id, command, ring, interp>> /\ Outside

(* Mutant: the events of a ring's worth, from a read index counted from 1.  *)
TellUpToLess(p) == Smaller(job[p].rd + Ring - 2, job[p].plan.points)

(* The waypoints whose events are due by the read index just seen: two more *)
(* than the ring can take.                                                  *)
TellUpTo(p) == Smaller(job[p].rd + Ring + 1, job[p].plan.points)

TellNext(p) ==
  /\ job[p].at = "tell" /\ job[p].told < TellUpTo(p)
  /\ Tell(p)
  /\ UNCHANGED <<_cmd_id, command, ring, interp>> /\ Outside

FreeSlots(p) ==
  LET wr == job[p].written + 1
      used == IF wr > job[p].rd THEN wr - job[p].rd ELSE 0
  IN  IF Ring > used THEN Ring - used ELSE 0

Refill(p) ==
  LET upto == Smaller(job[p].written + FreeSlots(p), job[p].plan.points) IN
  /\ job[p].at = "tell" /\ job[p].told >= TellUpTo(p)
  /\ MQ_PT' = Filled(p, job[p].written + 1, upto)
  /\ MQ_WR_IDX' = IF FreeSlots(p) > 0 THEN upto + 1 ELSE MQ_WR_IDX
  /\ job' = [job EXCEPT ![p].at = "feed", ![p].written = upto]
  /\ UNCHANGED <<_cmd_id, command, MQ_RD_IDX, MQ_PT_CNT, interp>> /\ Outside

StreamDone(p) ==
  /\ job[p].written = job[p].plan.points /\ Acknowledged(p)
  /\ Goes(p, "feed", IF job[p].plan.after THEN "after" ELSE "over")
  /\ UNCHANGED <<_cmd_id, command, ring, interp>> /\ Outside

(* A write fails, or a command is waited for too long.  The loop that reads *)
(* MQ_RD_IDX ends for neither.                                              *)
Fail(p) ==
  /\ \/ job[p].at \notin {"none", "feed", "over", "failed", "closed"}
     \/ job[p].at = "feed" /\ job[p].written = job[p].plan.points
  /\ job' = [job EXCEPT ![p].at = "failed"]
  /\ UNCHANGED <<_cmd_id, command, ring, interp>> /\ Outside

Job(p) == \/ Load(p) \/ SendMove(p) \/ MoveDone(p) \/ TellInitial(p) \/ StreamStart(p)
          \/ ReadRdIdx(p) \/ TellNext(p) \/ Refill(p) \/ StreamDone(p)

-----------------------------------------------------------------------------
(* mq_stream                                                               *)

Driver == UNCHANGED <<slot, jobs, MQ_CMD_ID, MQ_PT, MQ_WR_IDX, MQ_PT_CNT, stopped>>

Acknowledge == MQ_DONE_ID' = MQ_CMD_ID /\ MQ_ACTION' = 0

Move ==
  /\ pc = "loop" /\ MQ_ACTION = 1
  /\ Acknowledge
  /\ UNCHANGED <<MQ_RD_IDX, interp, handed>> /\ Driver

Accept ==
  /\ pc = "loop" /\ MQ_ACTION = 10
  /\ pc' = "stream" /\ MQ_I' = 0
  /\ UNCHANGED <<MQ_ACTION, MQ_DONE_ID, MQ_RD_IDX, handed>> /\ Driver

Plan ==
  /\ pc = "stream" /\ MQ_RD_IDX # MQ_WR_IDX
  /\ MQ_I' = IF MQ_I + 1 > Ring THEN 1 ELSE MQ_I + 1
  /\ handed' = MQ_PT[MQ_I']
  /\ MQ_RD_IDX' = MQ_RD_IDX + 1
  /\ UNCHANGED <<pc, MQ_ACTION, MQ_DONE_ID>> /\ Driver

(* Caught up: it waits, unless the last point alone, or none, is missing.   *)
Finish ==
  /\ pc = "stream" /\ MQ_RD_IDX = MQ_WR_IDX /\ MQ_RD_IDX >= MQ_PT_CNT
  /\ pc' = "loop"
  /\ Acknowledge
  /\ UNCHANGED <<MQ_I, MQ_RD_IDX, handed>> /\ Driver

MqStream == Move \/ Accept \/ Plan \/ Finish

-----------------------------------------------------------------------------
ProgramInit ==
  /\ label = FALSE /\ stopJob = "none" /\ stops = 0
  /\ programs = 0 /\ job = [p \in Program |-> NoJob] /\ _cmd_id = 0
  /\ MQ_ACTION = 0 /\ MQ_CMD_ID = 0 /\ MQ_DONE_ID = 0
  /\ MQ_PT = [i \in 1..Ring |-> ZeroFrame]
  /\ MQ_RD_IDX = 0 /\ MQ_WR_IDX = 0 /\ MQ_PT_CNT = 0 /\ pc = "off" /\ MQ_I = 0
  /\ handed = ZeroFrame /\ stopped = [p \in Program |-> FALSE]

ProgramNext ==
  \/ Start \/ Stop \/ Disarm \/ Halt
  \/ \E p \in Program : Close(p) \/ Job(p) \/ Fail(p)
  \/ MqStream

ProgramSpec == ProgramInit /\ [][ProgramNext]_programVars

(* Threads are scheduled, a running mq_stream runs, and reading MQ_RD_IDX   *)
(* succeeds in the end.  Failures and clicks have no fairness.              *)
ProgramFairSpec ==
  /\ ProgramSpec
  /\ \A p \in Program : WF_programVars(Job(p)) /\ WF_programVars(Close(p))
  /\ WF_programVars(MqStream)
  /\ WF_programVars(Disarm \/ Halt)

-----------------------------------------------------------------------------
(* Properties                                                              *)

(* mq_stream plans the waypoint it is due, of the program whose command it  *)
(* has, and not before the values that waypoint carries have been written,  *)
(* although the job hands out both by an index that has moved on.           *)
EventsBeforePoints ==
  handed # ZeroFrame =>
    /\ handed.k <= job[handed.of].told
    /\ pc = "stream" /\ MQ_RD_IDX > 1 =>
         handed.k = MQ_RD_IDX - 1 /\ job[handed.of].cmd = MQ_CMD_ID

(* A program comes to its end, the moves after its path included, whether   *)
(* it fills the ring or goes round it: unless it is stopped, which leaves   *)
(* its job at work.                                                         *)
ProgramEnds ==
  \A p \in Program :
    job[p].at = "load" ~> job[p].at = "closed" \/ stopped[p]

(* "Mark motion active so Puppet Mode (and other toolpath ops) stay         *)
(* disabled while this stream runs."                                        *)
LabelWhileStreaming == (\E p \in Program : AtWork(p)) => label
=============================================================================

------------------------------- MODULE PathJob -------------------------------
(***************************************************************************)
(* "Run Toolpath" on a UR and on an xArm: the modal of SendPath, the thread *)
(* that moves to the first point, along the path and back (_job), and the  *)
(* thread of the Stop buttons.  The drivers' blocking calls are modelled by *)
(* what they do when the robot is stopped under them: ur_rtde's moveL, with *)
(* the control script restarted by _run_motion, and the xArm SDK's          *)
(* set_position, which polls the arm's state.                               *)
(*                                                                         *)
(* On the xArm, Puppet Mode, Teach Mode and Reset are here too: they change *)
(* the mode and the state the job's moves depend on.  They run to their end *)
(* on the main thread; a set_state(4) of the Stop thread in between has the *)
(* effect of one before them.  MoveTo and Go Home are left out.             *)
(***************************************************************************)
EXTENDS Naturals

CONSTANTS
  Robots,      (* subset of {"UR", "XARM"}                                 *)
  Points,      (* number of points of the path                             *)
  MaxRuns, MaxStops, MaxOthers  (* bounds on what the user presses         *)

ASSUME JobConstants ==
  /\ Robots \subseteq {"UR", "XARM"}
  /\ Points \in Nat \ {0} /\ {MaxRuns, MaxStops, MaxOthers} \subseteq Nat

VARIABLES
  robot,
  (* the slot: motion_abort_requested, motion_active_label # "",            *)
  (* realtime_puppet_active, freedrive_active                               *)
  abort, busy, puppet, freedrive,
  (* per run: the modal and its thread *)
  runs, modal, job,
  (* the robot: takes motion commands (xArm: state # 4; UR: the control     *)
  (* script runs), the xArm's mode, and the run whose motion it executes    *)
  ready, mode, executing,
  (* the Stop threads, and the other buttons pressed *)
  stops, stopper, others,
  (* history: a stop job ended while the run's thread was at work; a move   *)
  (* of the run was cut short; what else happened to it                     *)
  halted, short, disturbed

slot  == <<abort, busy, puppet, freedrive>>
run   == <<runs, modal, job>>
arm   == <<ready, mode, executing>>
stopIO == <<stops, stopper>>
past  == <<halted, short, disturbed>>
vars  == <<robot, slot, run, arm, stopIO, others, past>>

Run     == 1..MaxRuns
Stopper == 1..MaxStops

(* Moves of a job: the first, the path (one call on a UR, one a point on an *)
(* xArm), the return.                                                       *)
Calls == IF robot = "UR" THEN 3 ELSE Points + 2

Working(r) == job[r].at \in {"call", "wait", "again"}

-----------------------------------------------------------------------------
(* SendPath                                                                *)

(* A run begins before the modal and the thread of the last one, and of a   *)
(* Stop, have ended.  Nothing but busy keeps the user from that.            *)
TooSoon ==
  \/ \E r \in Run : modal[r] = "waiting" \/ Working(r)
  \/ \E s \in Stopper : stopper[s] \notin {"none", "ended"}

RunToolpath ==
  /\ ~busy /\ ~puppet
  /\ runs < MaxRuns
  /\ runs' = runs + 1
  /\ abort' = FALSE /\ busy' = TRUE
  /\ modal' = [modal EXCEPT ![runs + 1] = "waiting"]
  /\ job' = [job EXCEPT ![runs + 1] = [at |-> "call", call |-> 1, error |-> FALSE]]
  /\ disturbed' = IF TooSoon THEN disturbed \cup {"raced"} ELSE disturbed
  /\ UNCHANGED <<robot, puppet, freedrive, arm, stopIO, others, halted, short>>

(* _send_path_cleanup                                                       *)
CleanUp(r, result) ==
  /\ modal' = [modal EXCEPT ![r] = result]
  /\ busy' = FALSE
  /\ UNCHANGED <<robot, abort, puppet, freedrive, runs, job, arm, stopIO, others, past>>

(* Mutant: the abort flag is for KUKA only.                                 *)
TickUnaborted(r) ==
  /\ modal[r] = "waiting" /\ job[r].at = "done"
  /\ CleanUp(r, IF job[r].error THEN "error" ELSE "ok")

(* A tick of the modal: an abort first, then the end of the thread, which   *)
(* nobody tells that the modal has left.                                    *)
Tick(r) ==
  /\ modal[r] = "waiting"
  /\ \/ abort /\ CleanUp(r, "error")
     \/ ~abort /\ job[r].at = "done" /\ CleanUp(r, IF job[r].error THEN "error" ELSE "ok")

-----------------------------------------------------------------------------
(* The thread of a run                                                     *)

Thread == UNCHANGED <<robot, slot, runs, modal, stopIO, others, halted, disturbed>>

(* Mutant: the thread does not say that it is done.                         *)
FailsQuietly(r) == job' = [job EXCEPT ![r].error = TRUE]

Fails(r) == job' = [job EXCEPT ![r].at = "done", ![r].error = TRUE]

Returns(r) ==
  job' = [job EXCEPT ![r] = IF job[r].call < Calls
                            THEN [@ EXCEPT !.at = "call", !.call = job[r].call + 1]
                            ELSE [@ EXCEPT !.at = "done"]]

Commands(r, at) ==
  /\ ready' = TRUE /\ executing' = r
  /\ job' = [job EXCEPT ![r].at = at]
  /\ UNCHANGED mode

(* Mutant: the arm's state is not looked at.                                *)
CallXArmUnchecked(r) ==
  /\ robot = "XARM" /\ job[r].at = "call"
  /\ Commands(r, "wait")
  /\ UNCHANGED short /\ Thread

(* set_position: STATE_NOT_READY unless the arm takes motion commands.      *)
CallXArm(r) ==
  /\ robot = "XARM" /\ job[r].at = "call"
  /\ IF ready THEN Commands(r, "wait") ELSE Fails(r) /\ UNCHANGED arm
  /\ UNCHANGED short /\ Thread

(* The wait for the move: a stopped arm is an error; one that is neither    *)
(* stopped nor moving has, for all the SDK knows, arrived.                  *)
WaitXArm(r) ==
  /\ robot = "XARM" /\ job[r].at = "wait"
  /\ IF ready
     THEN /\ Returns(r)
          /\ short' = IF executing = r THEN short ELSE short \cup {r}
          /\ executing' = IF executing = r THEN 0 ELSE executing
     ELSE Fails(r) /\ UNCHANGED <<short, executing>>
  /\ UNCHANGED <<ready, mode>> /\ Thread

(* _ensure_control_program restarts a script that does not run, if it can.  *)
CallUr(r) ==
  /\ robot = "UR" /\ job[r].at = "call"
  /\ \/ Commands(r, "wait")
     \/ ~ready /\ Fails(r) /\ UNCHANGED arm
  /\ UNCHANGED short /\ Thread

(* moveL comes back: the move is made, or it was cut short, which its       *)
(* result, that nobody looks at, may say ...                                *)
MoveLReturns(r) ==
  /\ Returns(r)
  /\ short' = IF executing = r THEN short ELSE short \cup {r}
  /\ executing' = IF executing = r THEN 0 ELSE executing
  /\ UNCHANGED <<ready, mode>>

(* ... or an exception does: if it is about the script, the script is       *)
(* restarted and the move made once more (_run_motion).                     *)
MoveLRaises(r) ==
  /\ ~ready
  /\ \/ Fails(r) /\ UNCHANGED arm
     \/ job[r].at = "wait" /\ Commands(r, "again")
  /\ UNCHANGED short

WaitUr(r) ==
  /\ robot = "UR" /\ job[r].at \in {"wait", "again"}
  /\ MoveLReturns(r) \/ MoveLRaises(r)
  /\ Thread

Job(r) == CallXArm(r) \/ WaitXArm(r) \/ CallUr(r) \/ WaitUr(r)

-----------------------------------------------------------------------------
(* Stop: the flags on the main thread, the calls in a thread               *)

(* Mutant: Stop leaves the label to the modal, and forgets the flag.        *)
StopForgetsAbort ==
  /\ stops < MaxStops
  /\ stops' = stops + 1
  /\ busy' = FALSE /\ puppet' = FALSE
  /\ stopper' = [stopper EXCEPT ![stops + 1] = "motion"]
  /\ UNCHANGED <<robot, abort, freedrive, run, arm, others, past>>

Stop ==
  /\ stops < MaxStops
  /\ stops' = stops + 1
  /\ abort' = TRUE /\ busy' = FALSE /\ puppet' = FALSE
  /\ stopper' = [stopper EXCEPT ![stops + 1] = "motion"]
  /\ UNCHANGED <<robot, freedrive, run, arm, others, past>>

StopperAt(s, from, to) ==
  /\ stopper[s] = from
  /\ stopper' = [stopper EXCEPT ![s] = to]
  /\ halted' = IF to = "ended" THEN halted \cup {r \in Run : Working(r)} ELSE halted
  /\ UNCHANGED <<robot, slot, run, mode, stops, others, short, disturbed>>

(* UR: stopJ and stopL brake, the control script running on; then the       *)
(* Dashboard, if it answers, stops the script.                              *)
StopMotionUr(s) ==
  /\ robot = "UR" /\ StopperAt(s, "motion", "program")
  /\ executing' = 0 /\ UNCHANGED ready

StopProgramUr(s) ==
  /\ robot = "UR" /\ StopperAt(s, "program", "ended")
  /\ \/ ready' = FALSE /\ executing' = 0
     \/ UNCHANGED <<ready, executing>>

(* xArm: emergency_stop is set_state(4), again until the state is 4.        *)
StopXArm(s) ==
  /\ robot = "XARM" /\ StopperAt(s, "motion", "check")
  /\ ready' = FALSE /\ executing' = 0

StopXArmChecks(s) ==
  /\ robot = "XARM" /\ StopperAt(s, "check", IF ready THEN "motion" ELSE "ended")
  /\ UNCHANGED <<ready, executing>>

StopJob(s) == StopMotionUr(s) \/ StopProgramUr(s) \/ StopXArm(s) \/ StopXArmChecks(s)

-----------------------------------------------------------------------------
(* The other buttons of an xArm.  A call of the SDK may fail.               *)

Pressed(what) ==
  /\ robot = "XARM"
  /\ others < MaxOthers /\ others' = others + 1
  /\ disturbed' = disturbed \cup what
  /\ UNCHANGED <<robot, abort, busy, run, stopIO, halted, short>>

(* set_state(0) makes the arm take commands, whoever stopped it.            *)
Enabling == IF \E r \in Run : Working(r) THEN {"reenabled"} ELSE {}

PuppetStart ==
  /\ ~puppet /\ ~busy
  /\ \/ Pressed(Enabling) /\ puppet' = TRUE /\ mode' = "servo" /\ ready' = TRUE
     \/ Pressed({"failed"}) /\ mode' = "servo" /\ UNCHANGED <<puppet, ready>>
  /\ UNCHANGED <<freedrive, executing>>

(* Mutant: the arm is enabled, but left in servo mode.                      *)
PuppetStopKeepsMode ==
  /\ Pressed(Enabling) /\ ready' = TRUE
  /\ puppet' = FALSE /\ executing' = 0
  /\ UNCHANGED <<mode, freedrive>>

(* Stop Puppet Mode, which is there at any time: state 4, mode 0, state 0.  *)
PuppetStop ==
  /\ \/ Pressed(Enabling) /\ mode' = "position" /\ ready' = TRUE
     \/ Pressed({"failed"} \cup Enabling) /\ UNCHANGED mode /\ ready' = TRUE
     \/ Pressed({"failed"}) /\ mode' = "position" /\ ready' = FALSE
  /\ puppet' = FALSE /\ executing' = 0
  /\ UNCHANGED freedrive

(* Teach Mode toggles, also under a run.  The flag is taken back on error.  *)
TeachMode ==
  /\ \/ /\ Pressed(Enabling \cup {"taught"})
        /\ freedrive' = ~freedrive /\ ready' = TRUE
        /\ mode' = IF freedrive THEN "position" ELSE "teach"
     \/ /\ Pressed({"failed"})
        /\ mode' = IF freedrive THEN "position" ELSE "teach"
        /\ UNCHANGED <<freedrive, ready>>
  /\ UNCHANGED <<puppet, executing>>

Reset ==
  /\ Pressed(Enabling) /\ mode' = "position" /\ ready' = TRUE
  /\ UNCHANGED <<puppet, freedrive, executing>>

-----------------------------------------------------------------------------
Init ==
  /\ robot \in Robots
  /\ abort = FALSE /\ busy = FALSE /\ puppet = FALSE /\ freedrive = FALSE
  /\ runs = 0 /\ modal = [r \in Run |-> "none"]
  /\ job = [r \in Run |-> [at |-> "none", call |-> 1, error |-> FALSE]]
  /\ ready \in IF robot = "XARM" THEN {TRUE} ELSE BOOLEAN
  /\ mode = "position" /\ executing = 0
  /\ stops = 0 /\ stopper = [s \in Stopper |-> "none"] /\ others = 0
  /\ halted = {} /\ short = {} /\ disturbed = {}

Other == PuppetStart \/ PuppetStop \/ TeachMode \/ Reset

Next ==
  \/ RunToolpath \/ Stop \/ Other
  \/ \E r \in Run : Tick(r) \/ Job(r)
  \/ \E s \in Stopper : StopJob(s)

Spec == Init /\ [][Next]_vars

(* The timer of a modal keeps firing; threads are scheduled, and the calls  *)
(* they block in end.                                                       *)
FairSpec ==
  /\ Spec
  /\ \A r \in Run : WF_vars(Tick(r)) /\ WF_vars(Job(r))
  /\ \A s \in Stopper : WF_vars(StopJob(s))

-----------------------------------------------------------------------------
(* Properties                                                              *)

(* Type invariant of the slot, the runs, the robot and the Stop threads.    *)
TypeOK ==
  /\ robot \in Robots
  /\ {abort, busy, puppet, freedrive, ready} \subseteq BOOLEAN
  /\ runs \in 0..MaxRuns /\ modal \in [Run -> {"none", "waiting", "ok", "error"}]
  /\ job \in [Run -> [at : {"none", "call", "wait", "again", "done"},
                      call : 1..Calls, error : BOOLEAN]]
  /\ mode \in {"position", "servo", "teach"} /\ executing \in 0..MaxRuns
  /\ stops \in 0..MaxStops
  /\ stopper \in [Stopper -> {"none", "motion", "program", "check", "ended"}]
  /\ others \in 0..MaxOthers
  /\ halted \subseteq Run /\ short \subseteq Run
  /\ disturbed \subseteq {"raced", "reenabled", "failed", "taught"}

Moves(r) == executing # r /\ executing' = r

(* "Stop UR motion/program", "immediately halt all xArm motion": the run    *)
(* that was going when the Stop thread did its work makes no further move.  *)
StopHalts == [][\A r \in halted : ~Moves(r)]_vars

(* On an xArm it does not, unless Puppet Mode, Teach Mode or Reset enabled  *)
(* the arm again before the run's thread had seen it stopped.               *)
StopHaltsXArm ==
  [][robot = "XARM" /\ "reenabled" \notin disturbed' => \A r \in halted : ~Moves(r)]_vars

(* The slot is busy exactly while a modal that Stop has not ended waits,    *)
(* as long as no run was started too soon.                                  *)
BusyTruthful ==
  "raced" \notin disturbed =>
    (busy <=> ~abort /\ \E r \in Run : modal[r] = "waiting")

(* "Path sent" is reported for a path that was run to its end and back.     *)
SentMeansRun ==
  disturbed \cap {"raced", "reenabled"} = {} =>
    \A r \in Run : modal[r] = "ok" => job[r].call = Calls /\ r \notin short

(* No thread of a run moves an xArm that Puppet Mode has left in servo      *)
(* mode, and none moves under Puppet Mode: not even after a Stop that ended *)
(* a Puppet Mode, as long as no call of the SDK has failed.                 *)
NoPathInServoMode ==
  [][\A r \in Run : Moves(r) => mode # "servo" \/ disturbed \cap {"failed", "reenabled", "raced"} # {}]_vars

(* A run ends, with the slot free again.                                    *)
RunEnds == \A r \in Run : modal[r] = "waiting" ~> modal[r] # "waiting"
=============================================================================

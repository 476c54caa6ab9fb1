------------------------------ MODULE UrServo -------------------------------
(***************************************************************************)
(* "Run Toolpath (Buffered)" on a UR: the modal operator SendPathQueueUR,  *)
(* the threads of its blocking moves, the servo worker of URDriver with    *)
(* its waypoint queue, and the background job of the Stop button.          *)
(*                                                                         *)
(* Run r is the r-th execution of the operator; it starts at most one      *)
(* servo stream, st[r], driven by at most one worker thread.  Everything   *)
(* on Blender's main thread (operators, timer ticks) runs one at a time;   *)
(* a tick that has to wait for the worker, or fills the queue while the    *)
(* worker empties it, is several steps, with main recording how far it is. *)
(* A segment is one servoL call: interpolation is left out.  The queued    *)
(* writes of custom variables are not part of this module.                 *)
(***************************************************************************)
EXTENDS Integers, FiniteSets

CONSTANTS
  Ring,      (* ring_buffer_size; the queue holds twice as many waypoints  *)
  Totals,    (* lengths a toolpath may have                                *)
  MaxRuns,   (* bound on the number of runs                                *)
  MaxStops,  (* bound on the number of times Stop is pressed               *)
  Faults     (* what may go wrong, see below                               *)

(* "move": a run fails in or after its first move, or in its return move.   *)
(* "servo": servoL raises.  "slow": the worker outlives the join's timeout  *)
(* of 2 s.  "late": a run starts while the job of an earlier Stop is still  *)
(* at work.  "rerun": a run starts before the modal of a stopped run has    *)
(* had its next tick.                                                       *)
ASSUME UrConstants ==
  /\ Ring \in Nat \ {0} /\ MaxRuns \in Nat /\ MaxStops \in Nat
  /\ Totals \subseteq Nat \ {0}
  /\ Faults \subseteq {"move", "servo", "slow", "late", "rerun"}

VARIABLES
  (* the slot: motion_abort_requested, motion_active_label # "", run_idx *)
  abort, busy, run_idx,
  (* per run: phase of the modal, its blocking move, its stream, its worker *)
  runs, phase, moved, st, worker,
  (* the driver's reference to the current stream; 0 is None *)
  _servo_state,
  (* the main thread, and the jobs of the Stop button *)
  main, stops, job,
  (* history: the run was going when Stop was pressed *)
  stopped

slot   == <<abort, busy, run_idx>>
modal  == <<runs, phase, moved, stopped>>
servo  == <<st, worker>>
stopIO == <<stops, job>>
vars   == <<slot, modal, servo, _servo_state, main, stopIO>>

Run      == 1..MaxRuns
Job      == 1..MaxStops
QueueMax == 2 * Ring
NoStream == [total |-> 0, written |-> 0, popped |-> 0, completed |-> 0,
             stop |-> FALSE, error |-> FALSE]
Free     == [at |-> "free", run |-> 0, then |-> "free", old |-> 0]

Active(r) == phase[r] \in {"move_to_first", "streaming", "returning"}

-----------------------------------------------------------------------------
(* _servo_cleanup on the main thread: stop the current stream if there is  *)
(* one, wait for its worker, forget it; then go on.                        *)

CleanupThen(r, then) ==
  IF _servo_state = 0
  THEN main' = [at |-> then, run |-> r, then |-> then, old |-> 0] /\ UNCHANGED st
  ELSE /\ st' = [st EXCEPT ![_servo_state].stop = TRUE]
       /\ main' = [at |-> "join", run |-> r, then |-> then, old |-> _servo_state]

Joined(old) == worker[old] = "ended" \/ "slow" \in Faults

Join ==
  /\ main.at = "join"
  /\ Joined(main.old)
  /\ _servo_state' = 0
  /\ main' = [main EXCEPT !.at = main.then]
  /\ UNCHANGED <<slot, modal, servo, stopIO>>

-----------------------------------------------------------------------------
(* The operators                                                           *)

(* SendPathQueueUR.execute: the abort flag is cleared, the first move goes  *)
(* to a thread.                                                             *)
Start ==
  /\ main = Free
  /\ ~busy
  /\ runs < MaxRuns
  /\ "rerun" \in Faults \/ \A r \in Run : ~Active(r)
  /\ "late" \in Faults \/ \A j \in Job : job[j].pc \in {"none", "ended"}
  /\ runs' = runs + 1
  /\ abort' = FALSE
  /\ busy' = TRUE
  /\ phase' = [phase EXCEPT ![runs + 1] = "move_to_first"]
  /\ moved' = [moved EXCEPT ![runs + 1] = "busy"]
  /\ UNCHANGED <<run_idx, servo, _servo_state, main, stopIO, stopped>>

(* URStopProgram.execute: the flag first, the driver calls in a thread.     *)
Stop ==
  /\ main = Free
  /\ stops < MaxStops
  /\ stops' = stops + 1
  /\ abort' = TRUE
  /\ busy' = FALSE
  /\ job' = [job EXCEPT ![stops + 1].pc = "abort"]
  /\ stopped' = [r \in Run |-> stopped[r] \/ Active(r)]
  /\ UNCHANGED <<run_idx, runs, phase, moved, servo, _servo_state, main>>

-----------------------------------------------------------------------------
(* The timer ticks of the modal of run r                                   *)

Tick(r) == main = Free /\ Active(r)

Unchanged == UNCHANGED <<slot, modal, worker, _servo_state, stopIO>>

Aborted(r) == Tick(r) /\ abort /\ CleanupThen(r, "error") /\ Unchanged

(* The mesh may be unreadable, or RTDE control gone, after a good move.     *)
FirstMoveLeadsTo(r, then) ==
  IF then = "start" THEN moved[r] = "done" ELSE moved[r] = "failed" \/ "move" \in Faults

(* Mutant: the abort flag is looked at while streaming only.                *)
FirstMoveOverAborted(r) ==
  /\ Tick(r) /\ phase[r] = "move_to_first"
  /\ moved[r] # "busy"
  /\ \E then \in {"start", "error"} : FirstMoveLeadsTo(r, then) /\ CleanupThen(r, then)
  /\ Unchanged

(* The first move is over: stream_start begins with a cleanup.              *)
FirstMoveOver(r) ==
  /\ Tick(r) /\ ~abort /\ phase[r] = "move_to_first"
  /\ moved[r] # "busy"
  /\ \E then \in {"start", "error"} : FirstMoveLeadsTo(r, then) /\ CleanupThen(r, then)
  /\ Unchanged

ServoFailed(r) ==
  /\ Tick(r) /\ ~abort /\ phase[r] = "streaming"
  /\ st[r].error
  /\ CleanupThen(r, "error")
  /\ Unchanged

StreamingTick(r, at) ==
  /\ Tick(r) /\ ~abort /\ phase[r] = "streaming"
  /\ ~st[r].error
  /\ main' = [at |-> at, run |-> r, then |-> "free", old |-> 0]
  /\ UNCHANGED <<slot, modal, servo, _servo_state, stopIO>>

Refill(r) == st[r].written < st[r].total /\ StreamingTick(r, "put")

AllWritten(r) == st[r].written = st[r].total /\ StreamingTick(r, "isDone")

ReturnOver(r) ==
  /\ Tick(r) /\ ~abort /\ phase[r] = "returning"
  /\ moved[r] # "busy"
  /\ CleanupThen(r, IF moved[r] = "failed" THEN "error" ELSE "ok")
  /\ Unchanged

-----------------------------------------------------------------------------
(* The rest of a tick                                                      *)

(* stream_start: a new stream, its queue prefilled, then its worker.        *)
NewStream ==
  /\ main.at = "start"
  /\ main' = [main EXCEPT !.at = "prefill"]
  /\ \E n \in Totals : st' = [st EXCEPT ![main.run] = [NoStream EXCEPT !.total = n]]
  /\ UNCHANGED <<slot, modal, worker, _servo_state, stopIO>>

Put(r) == st' = [st EXCEPT ![r].written = @ + 1]

Prefill ==
  LET r == main.run IN
  /\ main.at = "prefill"
  /\ st[r].written < st[r].total /\ st[r].written < Ring
  /\ Put(r)
  /\ UNCHANGED <<slot, modal, worker, _servo_state, main, stopIO>>

(* Mutant: the driver does not remember the stream.                         *)
LaunchUnremembered ==
  LET r == main.run IN
  /\ main.at = "prefill"
  /\ st[r].written = st[r].total \/ st[r].written = Ring
  /\ worker' = [worker EXCEPT ![r] = "loop"]
  /\ phase' = [phase EXCEPT ![r] = "streaming"]
  /\ run_idx' = 0
  /\ main' = Free
  /\ UNCHANGED <<abort, busy, runs, moved, stopped, st, _servo_state, stopIO>>

Launch ==
  LET r == main.run IN
  /\ main.at = "prefill"
  /\ st[r].written = st[r].total \/ st[r].written = Ring
  /\ worker' = [worker EXCEPT ![r] = "loop"]
  /\ _servo_state' = r
  /\ phase' = [phase EXCEPT ![r] = "streaming"]
  /\ run_idx' = 0
  /\ main' = Free
  /\ UNCHANGED <<abort, busy, runs, moved, stopped, st, stopIO>>

(* Mutant: one waypoint too many.                                           *)
InQueueLessOne(r) == st[r].written - st[r].popped - 1

InQueue(r) == st[r].written - st[r].popped

(* stream_refill: one waypoint after the other until the queue is full.     *)
RefillPut ==
  LET r == main.run IN
  /\ main.at = "put"
  /\ st[r].written < st[r].total /\ InQueue(r) < QueueMax
  /\ Put(r)
  /\ UNCHANGED <<slot, modal, worker, _servo_state, main, stopIO>>

(* Mutant: the index follows what was taken from the queue.                 *)
WpTaken(r) == st[r].popped

WpDone(r) == st[r].completed

(* set_idx: the waypoint in effect, clamped to the run's range.             *)
InEffect(r) == IF WpDone(r) < st[r].total THEN WpDone(r) ELSE st[r].total - 1

(* The refill ends with the run index, unless the worker has failed.        *)
RefillOver ==
  LET r == main.run IN
  /\ main.at = "put"
  /\ st[r].written = st[r].total \/ InQueue(r) = QueueMax
  /\ IF st[r].error
     THEN CleanupThen(r, "error") /\ UNCHANGED run_idx
     ELSE main' = Free /\ run_idx' = InEffect(r) /\ UNCHANGED st
  /\ UNCHANGED <<abort, busy, modal, worker, _servo_state, stopIO>>

(* Mutant: done when everything has been queued.                            *)
StreamIsQueued(r) == st[r].error \/ st[r].written >= st[r].total

(* Mutant: done is what is done before the last point.                      *)
StreamIsBeyond(r) == st[r].error \/ st[r].completed > st[r].total

stream_is_done(r) ==
  st[r].error \/ (st[r].written >= st[r].total /\ st[r].completed >= st[r].total)

NotDone ==
  /\ main.at = "isDone"
  /\ ~stream_is_done(main.run)
  /\ main' = Free
  /\ UNCHANGED <<slot, modal, servo, _servo_state, stopIO>>

Done ==
  LET r == main.run IN
  /\ main.at = "isDone"
  /\ stream_is_done(r)
  /\ run_idx' = st[r].total - 1
  /\ CleanupThen(r, "return")
  /\ UNCHANGED <<abort, busy, modal, worker, _servo_state, stopIO>>

Return ==
  /\ main.at = "return"
  /\ phase' = [phase EXCEPT ![main.run] = "returning"]
  /\ moved' = [moved EXCEPT ![main.run] = "busy"]
  /\ main' = Free
  /\ UNCHANGED <<slot, runs, stopped, servo, _servo_state, stopIO>>

(* The end of _ur_queue_cleanup.                                            *)
Finish ==
  /\ main.at \in {"ok", "error"}
  /\ phase' = [phase EXCEPT ![main.run] = main.at]
  /\ busy' = FALSE
  /\ run_idx' = -1
  /\ main' = Free
  /\ UNCHANGED <<abort, runs, moved, stopped, servo, _servo_state, stopIO>>

-----------------------------------------------------------------------------
(* The other threads                                                       *)

(* The blocking move of run r ends.                                         *)
MoveEnds(r) ==
  /\ moved[r] = "busy"
  /\ \E result \in {"done", "failed"} :
       /\ result = "failed" => "move" \in Faults \/ abort
       /\ moved' = [moved EXCEPT ![r] = result]
  /\ UNCHANGED <<slot, runs, phase, stopped, servo, _servo_state, main, stopIO>>

Others == UNCHANGED <<slot, modal, _servo_state, main, stopIO>>

(* The worker: leave if told to, else take a waypoint if it has reached the *)
(* last one and the queue holds another; then servoL, towards it or on the  *)
(* spot.                                                                    *)
WorkerLoop(r) ==
  /\ worker[r] = "loop"
  /\ IF st[r].stop
     THEN worker' = [worker EXCEPT ![r] = "ended"] /\ UNCHANGED st
     ELSE /\ worker' = [worker EXCEPT ![r] = "servo"]
          /\ st' = [st EXCEPT ![r].popped = IF InQueue(r) > 0 THEN @ + 1 ELSE @]
  /\ Others

WorkerServo(r) ==
  /\ worker[r] = "servo"
  /\ \/ /\ worker' = [worker EXCEPT ![r] = "loop"]
        /\ st' = [st EXCEPT ![r].completed = st[r].popped]
     \/ /\ "servo" \in Faults
        /\ worker' = [worker EXCEPT ![r] = "ended"]
        /\ st' = [st EXCEPT ![r].error = TRUE]
  /\ Others

Worker(r) == WorkerLoop(r) \/ WorkerServo(r)

(* The stop job: stream_abort, that is _servo_cleanup with a reason, on a   *)
(* thread of its own.                                                       *)
JobAbort(j) ==
  /\ job[j].pc = "abort"
  /\ IF _servo_state = 0
     THEN job' = [job EXCEPT ![j].pc = "ended"] /\ UNCHANGED st
     ELSE /\ job' = [job EXCEPT ![j] = [pc |-> "join", old |-> _servo_state]]
          /\ st' = [st EXCEPT ![_servo_state].stop = TRUE, ![_servo_state].error = TRUE]
  /\ UNCHANGED <<slot, modal, worker, _servo_state, main, stops>>

JobJoin(j) ==
  /\ job[j].pc = "join"
  /\ Joined(job[j].old)
  /\ job' = [job EXCEPT ![j].pc = "forget"]
  /\ UNCHANGED <<slot, modal, servo, _servo_state, main, stops>>

JobForget(j) ==
  /\ job[j].pc = "forget"
  /\ job' = [job EXCEPT ![j].pc = "ended"]
  /\ _servo_state' = 0
  /\ UNCHANGED <<slot, modal, servo, main, stops>>

StopJob(j) == JobAbort(j) \/ JobJoin(j) \/ JobForget(j)

-----------------------------------------------------------------------------
Init ==
  /\ abort = FALSE /\ busy = FALSE /\ run_idx = -1
  /\ runs = 0
  /\ phase = [r \in Run |-> "none"] /\ moved = [r \in Run |-> "none"]
  /\ st = [r \in Run |-> NoStream] /\ worker = [r \in Run |-> "none"]
  /\ _servo_state = 0
  /\ main = Free
  /\ stops = 0 /\ job = [j \in Job |-> [pc |-> "none", old |-> 0]]
  /\ stopped = [r \in Run |-> FALSE]

Modal(r) == \/ Aborted(r) \/ FirstMoveOver(r) \/ ServoFailed(r) \/ Refill(r)
            \/ AllWritten(r) \/ ReturnOver(r)

RestOfTick == \/ Join \/ NewStream \/ Prefill \/ Launch \/ RefillPut \/ RefillOver
              \/ NotDone \/ Done \/ Return \/ Finish

Next == \/ Start \/ Stop \/ RestOfTick
        \/ \E r \in Run : Modal(r) \/ MoveEnds(r) \/ Worker(r)
        \/ \E j \in Job : StopJob(j)

Spec == Init /\ [][Next]_vars

(* The main thread ends what it began and the timer keeps ticking; threads  *)
(* are scheduled and blocking moves end.                                    *)
FairSpec ==
  /\ Spec
  /\ WF_vars(RestOfTick)
  /\ \A r \in Run : WF_vars(Modal(r)) /\ WF_vars(MoveEnds(r)) /\ WF_vars(Worker(r))
  /\ \A j \in Job : WF_vars(StopJob(j))

-----------------------------------------------------------------------------
(* Properties                                                              *)

Streams == [total : Nat, written : Nat, popped : Nat, completed : Nat,
            stop : BOOLEAN, error : BOOLEAN]

(* Type invariant; in every stream the worker is at most one waypoint ahead *)
(* of what it has completed, and the queue within its bound.                *)
TypeOK ==
  /\ abort \in BOOLEAN /\ busy \in BOOLEAN /\ run_idx \in Nat \cup {-1}
  /\ runs \in 0..MaxRuns
  /\ phase \in [Run -> {"none", "move_to_first", "streaming", "returning", "ok", "error"}]
  /\ moved \in [Run -> {"none", "busy", "done", "failed"}]
  /\ st \in [Run -> Streams]
  /\ \A r \in Run : /\ st[r].popped - st[r].completed \in 0..1
                    /\ InQueue(r) \in 0..QueueMax
                    /\ st[r].written <= st[r].total
  /\ worker \in [Run -> {"none", "loop", "servo", "ended"}]
  /\ _servo_state \in 0..MaxRuns
  /\ main \in [at : {"free", "join", "start", "prefill", "put", "isDone", "return", "ok", "error"},
               run : 0..MaxRuns, then : {"free", "start", "return", "ok", "error"}, old : 0..MaxRuns]
  /\ stops \in 0..MaxStops
  /\ job \in [Job -> [pc : {"none", "abort", "join", "forget", "ended"}, old : 0..MaxRuns]]
  /\ stopped \in [Run -> BOOLEAN]

(* stream_is_done: "True when all waypoints are written and fully           *)
(* executed."  A run goes on to its return move only then; or when servoL   *)
(* has failed since the tick looked for an error, for that counts as done.  *)
DoneMeansExecuted ==
  \A r \in Run : phase[r] \in {"returning", "ok"} =>
                  st[r].completed = st[r].total \/ st[r].error

(* A run that is over, however it ended, has left no worker that goes on    *)
(* commanding the robot; and no two workers ever do at the same time.       *)
OverMeansStopped ==
  /\ \A r \in Run : phase[r] \in {"returning", "ok", "error"} => worker[r] \in {"none", "ended"}
  /\ Cardinality({r \in Run : worker[r] \in {"loop", "servo"}}) <= 1

(* A run that was going when Stop was pressed begins no further motion:     *)
(* neither its stream nor its return move, whatever its moves come to.      *)
StopIsFinal ==
  [][\A r \in Run : stopped[r] =>
       /\ worker[r] = "none" => worker'[r] = "none"
       /\ moved'[r] = "busy" => moved[r] = "busy"]_vars

(* While streaming, run_idx never names a waypoint beyond the one the robot *)
(* is moving into, as long as its servo worker has not failed.              *)
RunIdxNeverAhead ==
  \A r \in Run : phase[r] = "streaming" /\ ~st[r].error => run_idx <= st[r].completed

(* A run ends: neither its modal nor its worker waits for ever.             *)
RunEnds == \A r \in Run : phase[r] = "move_to_first" ~> phase[r] \in {"ok", "error"}

(* The servo stream delivers a path: waypoints sent in order into a queue   *)
(* of 2*Ring, one more with the worker, and, unlike the KUKA stream, none   *)
(* is missing from a path it takes for complete without an error.           *)
Opened == {r \in Run : st[r].total > 0}
Cur    == CHOOSE r \in Opened : \A q \in Opened : q <= r
Of(field) == IF Opened = {} THEN 0 ELSE field

Status ==
  IF Opened = {} THEN "none"
  ELSE IF phase[Cur] \in {"returning", "ok"} /\ ~st[Cur].error THEN "complete"
  ELSE IF phase[Cur] \notin {"returning", "ok", "error"} THEN "open"
  ELSE IF st[Cur].completed = st[Cur].total THEN "complete" ELSE "aborted"

Delivery == INSTANCE PathDelivery WITH
  Capacity <- QueueMax + 1, Lengths <- Totals, Dropped <- 0,
  total <- Of(st[Cur].total), sent <- Of(st[Cur].written),
  planned <- Of(st[Cur].completed), status <- Status

ImplementsPathDelivery == Delivery!Spec
=============================================================================

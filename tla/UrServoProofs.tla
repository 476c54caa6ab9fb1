---------------------------- MODULE UrServoProofs ---------------------------
(* Theorems about UrServo, for every size of the queue, every path length   *)
(* and any number of runs and stops.                                        *)
EXTENDS UrServo, FiniteSetTheorems, TLAPS

-----------------------------------------------------------------------------
(* The inductive invariant.                                                *)

(* TypeOK in three parts.                                                  *)
SlotOK ==
  /\ abort \in BOOLEAN /\ busy \in BOOLEAN /\ run_idx \in Nat \cup {-1}
  /\ runs \in 0..MaxRuns
  /\ phase \in [Run -> {"none", "move_to_first", "streaming", "returning", "ok", "error"}]
  /\ moved \in [Run -> {"none", "busy", "done", "failed"}]
  /\ worker \in [Run -> {"none", "loop", "servo", "ended"}]
  /\ _servo_state \in 0..MaxRuns
  /\ stops \in 0..MaxStops
  /\ job \in [Job -> [pc : {"none", "abort", "join", "forget", "ended"}, old : 0..MaxRuns]]
  /\ stopped \in [Run -> BOOLEAN]

MainOK ==
  main \in [at : {"free", "join", "start", "prefill", "put", "isDone", "return", "ok", "error"},
            run : 0..MaxRuns, then : {"free", "start", "return", "ok", "error"}, old : 0..MaxRuns]

StreamsOK ==
  /\ st \in [Run -> Streams]
  /\ \A r \in Run : /\ st[r].popped - st[r].completed \in 0..1
                    /\ InQueue(r) \in 0..QueueMax
                    /\ st[r].written <= st[r].total

(* Where the main thread is going: past a join, what follows it.            *)
Goal == IF main.at = "join" THEN main.then ELSE main.at

(* A worker that has not begun has taken nothing; between two calls of      *)
(* servoL it has completed what it has taken; there is none before the      *)
(* first move is over.                                                      *)
Counted ==
  \A r \in Run :
    /\ worker[r] = "none" => st[r].popped = 0 /\ st[r].completed = 0
    /\ worker[r] = "loop" => st[r].popped = st[r].completed
    /\ phase[r] \in {"none", "move_to_first"} => worker[r] = "none"

(* Runs are numbered in order.                                              *)
Numbered == \A r \in Run : r > runs => phase[r] = "none" /\ ~stopped[r]

(* A tick under way is that of an active run, in the phase it goes on from. *)
Executed(r) == st[r].completed = st[r].total \/ st[r].error

Placed ==
  main.at # "free" =>
    /\ main.run \in Run /\ Active(main.run)
    /\ Goal # "free"
    /\ Goal \in {"start", "prefill"} => phase[main.run] = "move_to_first"
    /\ Goal \in {"put", "isDone", "return"} => phase[main.run] = "streaming"
    /\ Goal = "return" => Executed(main.run)
    /\ Goal = "ok" => phase[main.run] = "returning"

(* Once Stop has been pressed a tick only ends its run.                     *)
Aborting == abort => Goal \in {"free", "error"}

IInv == SlotOK /\ MainOK /\ StreamsOK /\ Counted /\ Numbered /\ Placed /\ Aborting
        /\ DoneMeansExecuted

-----------------------------------------------------------------------------
(* What the steps do to streams.                                           *)

(* A cleanup touches no count and no error, and goes where it is told.      *)
SameCounts ==
  \A q \in Run : /\ st'[q].total = st[q].total /\ st'[q].written = st[q].written
                /\ st'[q].popped = st[q].popped /\ st'[q].completed = st[q].completed

SameErrors == \A q \in Run : st'[q].error = st[q].error

LEMMA CleanupEffect ==
  ASSUME SlotOK, MainOK, StreamsOK,
         NEW r \in Run, NEW then \in {"start", "return", "ok", "error"}, CleanupThen(r, then)
  PROVE  /\ st' \in [Run -> Streams] /\ SameCounts /\ SameErrors
         /\ MainOK' /\ main'.run = r /\ Goal' = then
         /\ main'.at \in {"join", then}
         /\ main'.at = "join" => main'.old = _servo_state /\ _servo_state # 0
         /\ main'.at = then => _servo_state = 0
<1>1. CASE _servo_state = 0
  <2>1. main' = [at |-> then, run |-> r, then |-> then, old |-> 0] /\ st' = st
    BY <1>1 DEF CleanupThen
  <2>. QED
    BY <1>1, <2>1, UrConstants DEF MainOK, StreamsOK, SameCounts, SameErrors, Goal, Run
<1>2. CASE _servo_state # 0
  <2>1. /\ st' = [st EXCEPT ![_servo_state].stop = TRUE]
        /\ main' = [at |-> "join", run |-> r, then |-> then, old |-> _servo_state]
        /\ _servo_state \in Run
    BY <1>2, UrConstants DEF CleanupThen, SlotOK, Run
  <2>2. st' \in [Run -> Streams] /\ SameCounts /\ SameErrors
    BY <2>1 DEF StreamsOK, Streams, SameCounts, SameErrors
  <2>. QED
    BY <1>2, <2>1, <2>2, UrConstants DEF MainOK, Goal, Run
<1>. QED
  BY <1>1, <1>2

(* Counts that stay are in bounds as before.                                *)
LEMMA SameCountsOK ==
  ASSUME StreamsOK, st' \in [Run -> Streams], SameCounts
  PROVE  StreamsOK'
<1>. QED
  BY DEF StreamsOK, SameCounts, InQueue, QueueMax

(* One more waypoint is queued.                                             *)
LEMMA PutEffect ==
  ASSUME StreamsOK, NEW r \in Run, Put(r)
  PROVE  /\ st' \in [Run -> Streams] /\ SameErrors
         /\ \A q \in Run : st'[q].total = st[q].total /\ st'[q].popped = st[q].popped
                          /\ st'[q].completed = st[q].completed
         /\ \A q \in Run \ {r} : st'[q] = st[q]
         /\ st'[r].written = st[r].written + 1
<1>. QED
  BY DEF StreamsOK, Streams, Put, SameErrors

(* A worker takes a waypoint from its queue, or completes one, or fails.    *)
LEMMA WorkerEffect ==
  ASSUME SlotOK, StreamsOK, NEW r \in Run, Worker(r)
  PROVE  /\ st' \in [Run -> Streams]
         /\ \A q \in Run : /\ st'[q].total = st[q].total /\ st'[q].written = st[q].written
                          /\ st[q].error => st'[q].error
         /\ \A q \in Run \ {r} : st'[q] = st[q]
         /\ worker[r] = "loop" =>
              /\ st'[r].completed = st[r].completed
              /\ st'[r].popped \in {st[r].popped, st[r].popped + 1}
              /\ st'[r].popped = st[r].popped + 1 => InQueue(r) > 0
              /\ worker'[r] = "servo" \/ worker'[r] = "ended"
         /\ worker[r] = "servo" =>
              /\ st'[r].popped = st[r].popped
              /\ st'[r].completed \in {st[r].completed, st[r].popped}
              /\ \/ worker'[r] = "loop" /\ st'[r].completed = st[r].popped
                 \/ worker'[r] = "ended"
<1>1. CASE WorkerLoop(r)
  <2>1. CASE st[r].stop
    <3>1. worker[r] = "loop" /\ worker'[r] = "ended" /\ st' = st
      BY <1>1, <2>1 DEF WorkerLoop, SlotOK
    <3>. QED
      BY <3>1 DEF StreamsOK, Streams
  <2>2. CASE ~st[r].stop
    <3>1. st' = [st EXCEPT ![r].popped = IF InQueue(r) > 0 THEN st[r].popped + 1 ELSE st[r].popped]
      BY <1>1, <2>2 DEF WorkerLoop
    <3>2. worker[r] = "loop" /\ worker'[r] = "servo"
      BY <1>1, <2>2 DEF WorkerLoop, SlotOK
    <3>. QED
      BY <3>1, <3>2 DEF StreamsOK, Streams
  <2>. QED
    BY <2>1, <2>2
<1>2. CASE WorkerServo(r)
  <2>1. CASE worker' = [worker EXCEPT ![r] = "loop"] /\ st' = [st EXCEPT ![r].completed = st[r].popped]
    BY <1>2, <2>1 DEF WorkerServo, SlotOK, StreamsOK, Streams
  <2>2. CASE worker' = [worker EXCEPT ![r] = "ended"] /\ st' = [st EXCEPT ![r].error = TRUE]
    <3>1. worker[r] = "servo" /\ worker'[r] = "ended"
      BY <1>2, <2>2 DEF WorkerServo, SlotOK
    <3>. QED
      BY <2>2, <3>1 DEF StreamsOK, Streams
  <2>. QED
    BY <1>2, <2>1, <2>2 DEF WorkerServo
<1>. QED
  BY <1>1, <1>2 DEF Worker

(* The job of Stop sets flags only.                                         *)
LEMMA JobEffect ==
  ASSUME SlotOK, StreamsOK, NEW j \in Job, JobAbort(j)
  PROVE  /\ st' \in [Run -> Streams] /\ SameCounts
         /\ \A q \in Run : st[q].error => st'[q].error
<1>1. CASE _servo_state = 0
  BY <1>1 DEF JobAbort, StreamsOK, SameCounts
<1>2. CASE _servo_state # 0
  <2>1. _servo_state \in Run
    BY <1>2, UrConstants DEF SlotOK, Run
  <2>2. st' = [st EXCEPT ![_servo_state].stop = TRUE, ![_servo_state].error = TRUE]
    BY <1>2 DEF JobAbort
  <2>. QED
    BY <2>1, <2>2 DEF StreamsOK, Streams, SameCounts
<1>. QED
  BY <1>1, <1>2

(* A new stream belongs to a run whose worker has not begun.                *)
LEMMA NewStreamEffect ==
  ASSUME MainOK, StreamsOK, Placed, NewStream
  PROVE  /\ main.run \in Run /\ phase[main.run] = "move_to_first"
         /\ st' \in [Run -> Streams]
         /\ \A q \in Run \ {main.run} : st'[q] = st[q]
         /\ st'[main.run].written = 0 /\ st'[main.run].popped = 0 /\ st'[main.run].completed = 0
<1>1. main.run \in Run /\ phase[main.run] = "move_to_first"
  BY DEF NewStream, Placed, Goal
<1>2. PICK n \in Totals : st' = [st EXCEPT ![main.run] = [NoStream EXCEPT !.total = n]]
  BY DEF NewStream
<1>3. n \in Nat
  BY UrConstants
<1>. QED
  BY <1>1, <1>2, <1>3 DEF StreamsOK, Streams, NoStream

-----------------------------------------------------------------------------
(* Each conjunct of the invariant is kept by every step.                    *)

(* Every step keeps the types of the slot, the modals and the threads.      *)
LEMMA SlotOKStep ==
  ASSUME IInv, [Next]_vars
  PROVE  SlotOK'
<1>. USE DEF IInv, slot, modal, servo, stopIO
<1>1. CASE Start
  <2>1. runs + 1 \in Run /\ runs' = runs + 1
    BY <1>1, UrConstants DEF Start, SlotOK, Run
  <2>2. /\ phase' \in [Run -> {"none", "move_to_first", "streaming", "returning", "ok", "error"}]
        /\ moved' \in [Run -> {"none", "busy", "done", "failed"}]
    BY <1>1 DEF Start, SlotOK
  <2>3. abort' \in BOOLEAN /\ busy' \in BOOLEAN
    BY <1>1 DEF Start
  <2>4. UNCHANGED <<run_idx, worker, _servo_state, stops, job, stopped>>
    BY <1>1 DEF Start
  <2>5. runs' \in 0..MaxRuns
    BY <2>1, UrConstants DEF Run
  <2>. QED
    BY <2>2, <2>3, <2>4, <2>5 DEF SlotOK
<1>2. CASE Stop
  <2>1. stopped' \in [Run -> BOOLEAN]
    BY <1>2 DEF Stop
  <2>2. /\ job' = [job EXCEPT ![stops + 1].pc = "abort"] /\ stops' = stops + 1
        /\ stops < MaxStops
    BY <1>2 DEF Stop
  <2>3. job' \in [Job -> [pc : {"none", "abort", "join", "forget", "ended"}, old : 0..MaxRuns]]
    BY <2>2 DEF SlotOK
  <2>4. stops' \in 0..MaxStops
    BY <2>2, UrConstants DEF SlotOK
  <2>. QED
    <3>1. abort' \in BOOLEAN /\ busy' \in BOOLEAN
      BY <1>2 DEF Stop
    <3>2. /\ run_idx' \in Nat \cup {-1} /\ runs' \in 0..MaxRuns /\ _servo_state' \in 0..MaxRuns
          /\ phase' \in [Run -> {"none", "move_to_first", "streaming", "returning", "ok", "error"}]
          /\ moved' \in [Run -> {"none", "busy", "done", "failed"}]
          /\ worker' \in [Run -> {"none", "loop", "servo", "ended"}]
      BY <1>2 DEF Stop, SlotOK
    <3>. QED
      BY ONLY <2>1, <2>3, <2>4, <3>1, <3>2 DEF SlotOK
<1>3. CASE Join
  BY <1>3, UrConstants DEF Join, SlotOK, Run, Job, Placed, MainOK
<1>4. CASE NewStream
  BY <1>4, UrConstants DEF NewStream, SlotOK, Run, Job, Placed, MainOK
<1>5. CASE Prefill
  BY <1>5, UrConstants DEF Prefill, Put, SlotOK, Run, Job, Placed, MainOK
<1>6. CASE Launch
  BY <1>6, UrConstants DEF Launch, SlotOK, Placed, MainOK, Run
<1>7. CASE RefillPut
  BY <1>7, UrConstants DEF RefillPut, Put, SlotOK, Run, Job, Placed, MainOK
<1>8. CASE RefillOver
  <2>1. main.run \in Run
    BY <1>8 DEF RefillOver, Placed
  <2>2. InEffect(main.run) \in Nat \cup {-1}
    BY <2>1 DEF InEffect, WpDone, StreamsOK, Streams
  <2>. QED
    BY <1>8, <2>2 DEF RefillOver, SlotOK
<1>9. CASE NotDone
  BY <1>9, UrConstants DEF NotDone, SlotOK, Run, Job, Placed, MainOK
<1>10. CASE Done
  <2>1. main.run \in Run
    BY <1>10 DEF Done, Placed
  <2>2. st[main.run].total - 1 \in Nat \cup {-1}
    BY <2>1 DEF StreamsOK, Streams
  <2>. QED
    BY <1>10, <2>2 DEF Done, SlotOK
<1>11. CASE Return
  BY <1>11, UrConstants DEF Return, SlotOK, Run, Job, Placed, MainOK
<1>12. CASE Finish
  BY <1>12, UrConstants DEF Finish, SlotOK, Run, Job, Placed, MainOK
<1>13. ASSUME NEW r \in Run, Aborted(r) PROVE SlotOK'
  BY <1>13, UrConstants DEF Aborted, Tick, Unchanged, SlotOK, Run, Job, Placed, MainOK
<1>14. ASSUME NEW r \in Run, FirstMoveOver(r) PROVE SlotOK'
  BY <1>14, UrConstants DEF FirstMoveOver, Tick, Unchanged, SlotOK, Run, Job, Placed, MainOK
<1>15. ASSUME NEW r \in Run, ServoFailed(r) PROVE SlotOK'
  BY <1>15, UrConstants DEF ServoFailed, Tick, Unchanged, SlotOK, Run, Job, Placed, MainOK
<1>16. ASSUME NEW r \in Run, Refill(r) PROVE SlotOK'
  BY <1>16, UrConstants DEF Refill, StreamingTick, Tick, SlotOK, Run, Job, Placed, MainOK
<1>17. ASSUME NEW r \in Run, AllWritten(r) PROVE SlotOK'
  BY <1>17, UrConstants DEF AllWritten, StreamingTick, Tick, SlotOK, Run, Job, Placed, MainOK
<1>18. ASSUME NEW r \in Run, ReturnOver(r) PROVE SlotOK'
  BY <1>18, UrConstants DEF ReturnOver, Tick, Unchanged, SlotOK, Run, Job, Placed, MainOK
<1>19. ASSUME NEW r \in Run, MoveEnds(r) PROVE SlotOK'
  BY <1>19, UrConstants DEF MoveEnds, SlotOK, Run, Job, Placed, MainOK
<1>20. ASSUME NEW r \in Run, WorkerLoop(r) PROVE SlotOK'
  BY <1>20, UrConstants DEF WorkerLoop, Others, SlotOK, Run, Job, Placed, MainOK
<1>21. ASSUME NEW r \in Run, WorkerServo(r) PROVE SlotOK'
  BY <1>21, UrConstants DEF WorkerServo, Others, SlotOK, Run, Job, Placed, MainOK
<1>22. ASSUME NEW j \in Job, JobAbort(j) PROVE SlotOK'
  <2>1. job' \in [Job -> [pc : {"none", "abort", "join", "forget", "ended"}, old : 0..MaxRuns]]
    <3>1. \/ job' = [job EXCEPT ![j].pc = "ended"]
          \/ job' = [job EXCEPT ![j] = [pc |-> "join", old |-> _servo_state]]
      BY <1>22 DEF JobAbort
    <3>. QED
      BY <3>1 DEF SlotOK
  <2>. QED
    BY <1>22, <2>1 DEF JobAbort, SlotOK
<1>23. ASSUME NEW j \in Job, JobJoin(j) PROVE SlotOK'
  BY <1>23, UrConstants DEF JobJoin, SlotOK, Run, Job, Placed, MainOK
<1>24. ASSUME NEW j \in Job, JobForget(j) PROVE SlotOK'
  BY <1>24, UrConstants DEF JobForget, SlotOK, Run, Job, Placed, MainOK
<1>25. CASE UNCHANGED vars
  BY <1>25, UrConstants DEF vars, SlotOK, Run, Job, Placed, MainOK
<1>. QED
  BY <1>1, <1>2, <1>3, <1>4, <1>5, <1>6, <1>7, <1>8, <1>9, <1>10, <1>11, <1>12, <1>13,
     <1>14, <1>15, <1>16, <1>17, <1>18, <1>19, <1>20, <1>21, <1>22, <1>23, <1>24, <1>25
     DEF Next, RestOfTick, Modal, Worker, StopJob

(* Every step keeps the type of the main thread's place.                    *)
LEMMA MainOKStep ==
  ASSUME IInv, [Next]_vars
  PROVE  MainOK'
<1>. USE DEF IInv, slot, modal, servo, stopIO
<1>1. CASE Start
  BY <1>1, UrConstants DEF Start, MainOK, Free, Run
<1>2. CASE Stop
  BY <1>2, UrConstants DEF Stop, MainOK, Free, Run
<1>3. CASE Join
  BY <1>3, UrConstants DEF Join, MainOK, Free, Run
<1>4. CASE NewStream
  BY <1>4, UrConstants DEF NewStream, MainOK, Free, Run
<1>5. CASE Prefill
  BY <1>5, UrConstants DEF Prefill, Put, MainOK, Free, Run
<1>6. CASE Launch
  BY <1>6, UrConstants DEF Launch, MainOK, Free, Run
<1>7. CASE RefillPut
  BY <1>7, UrConstants DEF RefillPut, Put, MainOK, Free, Run
<1>8. CASE RefillOver
  BY <1>8, CleanupEffect, UrConstants DEF RefillOver, MainOK, Free, Placed
<1>9. CASE NotDone
  BY <1>9, UrConstants DEF NotDone, MainOK, Free, Run
<1>10. CASE Done
  BY <1>10, CleanupEffect DEF Done, Placed
<1>11. CASE Return
  BY <1>11, UrConstants DEF Return, MainOK, Free, Run
<1>12. CASE Finish
  BY <1>12, UrConstants DEF Finish, MainOK, Free, Run
<1>13. ASSUME NEW r \in Run, Aborted(r) PROVE MainOK'
  BY <1>13, CleanupEffect DEF Aborted, Tick, Unchanged
<1>14. ASSUME NEW r \in Run, FirstMoveOver(r) PROVE MainOK'
  BY <1>14, CleanupEffect DEF FirstMoveOver, Tick, Unchanged
<1>15. ASSUME NEW r \in Run, ServoFailed(r) PROVE MainOK'
  BY <1>15, CleanupEffect DEF ServoFailed, Tick, Unchanged
<1>16. ASSUME NEW r \in Run, Refill(r) PROVE MainOK'
  BY <1>16, UrConstants DEF Refill, StreamingTick, Tick, MainOK, Free, Run
<1>17. ASSUME NEW r \in Run, AllWritten(r) PROVE MainOK'
  BY <1>17, UrConstants DEF AllWritten, StreamingTick, Tick, MainOK, Free, Run
<1>18. ASSUME NEW r \in Run, ReturnOver(r) PROVE MainOK'
  BY <1>18, CleanupEffect DEF ReturnOver, Tick, Unchanged
<1>19. ASSUME NEW r \in Run, MoveEnds(r) PROVE MainOK'
  BY <1>19, UrConstants DEF MoveEnds, MainOK, Free, Run
<1>20. ASSUME NEW r \in Run, WorkerLoop(r) PROVE MainOK'
  BY <1>20, UrConstants DEF WorkerLoop, Others, MainOK, Free, Run
<1>21. ASSUME NEW r \in Run, WorkerServo(r) PROVE MainOK'
  BY <1>21, UrConstants DEF WorkerServo, Others, MainOK, Free, Run
<1>22. ASSUME NEW j \in Job, JobAbort(j) PROVE MainOK'
  BY <1>22, UrConstants DEF JobAbort, MainOK, Free, Run
<1>23. ASSUME NEW j \in Job, JobJoin(j) PROVE MainOK'
  BY <1>23, UrConstants DEF JobJoin, MainOK, Free, Run
<1>24. ASSUME NEW j \in Job, JobForget(j) PROVE MainOK'
  BY <1>24, UrConstants DEF JobForget, MainOK, Free, Run
<1>25. CASE UNCHANGED vars
  BY <1>25, UrConstants DEF vars, MainOK, Free, Run
<1>. QED
  BY <1>1, <1>2, <1>3, <1>4, <1>5, <1>6, <1>7, <1>8, <1>9, <1>10, <1>11, <1>12, <1>13,
     <1>14, <1>15, <1>16, <1>17, <1>18, <1>19, <1>20, <1>21, <1>22, <1>23, <1>24, <1>25
     DEF Next, RestOfTick, Modal, Worker, StopJob

(* Every step keeps the types and bounds of the streams.                    *)
LEMMA StreamsOKStep ==
  ASSUME IInv, [Next]_vars
  PROVE  StreamsOK'
<1>. USE DEF IInv, slot, modal, servo, stopIO
<1>1. CASE Start
  BY <1>1 DEF Start, StreamsOK, InQueue, QueueMax
<1>2. CASE Stop
  BY <1>2 DEF Stop, StreamsOK, InQueue, QueueMax
<1>3. CASE Join
  BY <1>3 DEF Join, StreamsOK, InQueue, QueueMax
<1>4. CASE NewStream
  <2>1. st'[main.run].written <= st'[main.run].total
    BY <1>4, NewStreamEffect DEF Streams
  <2>. QED
    BY <1>4, <2>1, NewStreamEffect, UrConstants DEF StreamsOK, InQueue, QueueMax
<1>5. CASE Prefill
  <2>1. main.run \in Run /\ st[main.run].written < st[main.run].total /\ st[main.run].written < Ring
    BY <1>5 DEF Prefill, Placed
  <2>2. Put(main.run)
    BY <1>5 DEF Prefill
  <2>. QED
    BY <2>1, <2>2, PutEffect, UrConstants DEF StreamsOK, Streams, InQueue, QueueMax
<1>6. CASE Launch
  BY <1>6 DEF Launch, StreamsOK, InQueue, QueueMax
<1>7. CASE RefillPut
  <2>1. main.run \in Run /\ st[main.run].written < st[main.run].total /\ InQueue(main.run) < QueueMax
    BY <1>7 DEF RefillPut, Placed
  <2>2. Put(main.run)
    BY <1>7 DEF RefillPut
  <2>. QED
    BY <2>1, <2>2, PutEffect, UrConstants DEF StreamsOK, Streams, InQueue, QueueMax
<1>8. CASE RefillOver
  <2>1. CASE st[main.run].error
    BY <1>8, <2>1, CleanupEffect, SameCountsOK DEF RefillOver, Placed
  <2>2. CASE UNCHANGED st
    BY <2>2 DEF StreamsOK, InQueue
  <2>. QED
    BY <1>8, <2>1, <2>2 DEF RefillOver
<1>9. CASE NotDone
  BY <1>9 DEF NotDone, StreamsOK, InQueue, QueueMax
<1>10. CASE Done
  BY <1>10, CleanupEffect, SameCountsOK DEF Done, Placed
<1>11. CASE Return
  BY <1>11 DEF Return, StreamsOK, InQueue, QueueMax
<1>12. CASE Finish
  BY <1>12 DEF Finish, StreamsOK, InQueue, QueueMax
<1>13. ASSUME NEW r \in Run, Aborted(r) PROVE StreamsOK'
  BY <1>13, CleanupEffect, SameCountsOK DEF Aborted, Tick, Unchanged
<1>14. ASSUME NEW r \in Run, FirstMoveOver(r) PROVE StreamsOK'
  BY <1>14, CleanupEffect, SameCountsOK DEF FirstMoveOver, Tick, Unchanged
<1>15. ASSUME NEW r \in Run, ServoFailed(r) PROVE StreamsOK'
  BY <1>15, CleanupEffect, SameCountsOK DEF ServoFailed, Tick, Unchanged
<1>16. ASSUME NEW r \in Run, Refill(r) PROVE StreamsOK'
  BY <1>16 DEF Refill, StreamingTick, Tick, StreamsOK, InQueue, QueueMax
<1>17. ASSUME NEW r \in Run, AllWritten(r) PROVE StreamsOK'
  BY <1>17 DEF AllWritten, StreamingTick, Tick, StreamsOK, InQueue, QueueMax
<1>18. ASSUME NEW r \in Run, ReturnOver(r) PROVE StreamsOK'
  BY <1>18, CleanupEffect, SameCountsOK DEF ReturnOver, Tick, Unchanged
<1>19. ASSUME NEW r \in Run, MoveEnds(r) PROVE StreamsOK'
  BY <1>19 DEF MoveEnds, StreamsOK, InQueue, QueueMax
<1>20. ASSUME NEW r \in Run, WorkerLoop(r) PROVE StreamsOK'
  BY <1>20, WorkerEffect, UrConstants DEF WorkerLoop, Worker, Counted, StreamsOK, Streams, InQueue, QueueMax
<1>21. ASSUME NEW r \in Run, WorkerServo(r) PROVE StreamsOK'
  BY <1>21, WorkerEffect, UrConstants DEF WorkerServo, Worker, Counted, StreamsOK, Streams, InQueue, QueueMax
<1>22. ASSUME NEW j \in Job, JobAbort(j) PROVE StreamsOK'
  BY <1>22, JobEffect, SameCountsOK
<1>23. ASSUME NEW j \in Job, JobJoin(j) PROVE StreamsOK'
  BY <1>23 DEF JobJoin, StreamsOK, InQueue, QueueMax
<1>24. ASSUME NEW j \in Job, JobForget(j) PROVE StreamsOK'
  BY <1>24 DEF JobForget, StreamsOK, InQueue, QueueMax
<1>25. CASE UNCHANGED vars
  BY <1>25 DEF vars, StreamsOK, InQueue, QueueMax
<1>. QED
  BY <1>1, <1>2, <1>3, <1>4, <1>5, <1>6, <1>7, <1>8, <1>9, <1>10, <1>11, <1>12, <1>13,
     <1>14, <1>15, <1>16, <1>17, <1>18, <1>19, <1>20, <1>21, <1>22, <1>23, <1>24, <1>25
     DEF Next, RestOfTick, Modal, Worker, StopJob

(* Every step keeps the worker's counts.                                    *)
LEMMA CountedStep ==
  ASSUME IInv, [Next]_vars
  PROVE  Counted'
<1>. USE DEF IInv, slot, modal, servo, stopIO
<1>1. CASE Start
  BY <1>1, UrConstants DEF Start, Counted, SlotOK, Placed, Active, Goal, Numbered
<1>2. CASE Stop
  BY <1>2, UrConstants DEF Stop, Counted, SlotOK, Placed, Active, Goal, Numbered
<1>3. CASE Join
  BY <1>3, UrConstants DEF Join, Counted, SlotOK, Placed, Active, Goal, Numbered
<1>4. CASE NewStream
  BY <1>4, NewStreamEffect DEF NewStream, Counted
<1>5. CASE Prefill
  BY <1>5, PutEffect DEF Prefill, Placed, Counted
<1>6. CASE Launch
  <2>1. main.run \in Run /\ worker[main.run] = "none"
    BY <1>6 DEF Launch, Placed, Goal, Counted
  <2>. QED
    BY <1>6, <2>1 DEF Launch, Counted, SlotOK
<1>7. CASE RefillPut
  BY <1>7, PutEffect DEF RefillPut, Placed, Counted
<1>8. CASE RefillOver
  <2>1. CASE st[main.run].error
    BY <1>8, <2>1, CleanupEffect DEF RefillOver, Placed, Counted, SameCounts
  <2>2. CASE UNCHANGED st
    BY <1>8, <2>2 DEF RefillOver, Counted
  <2>. QED
    BY <1>8, <2>1, <2>2 DEF RefillOver
<1>9. CASE NotDone
  BY <1>9, UrConstants DEF NotDone, Counted, SlotOK, Placed, Active, Goal, Numbered
<1>10. CASE Done
  BY <1>10, CleanupEffect DEF Done, Placed, Counted, SameCounts
<1>11. CASE Return
  BY <1>11, UrConstants DEF Return, Counted, SlotOK, Placed, Active, Goal, Numbered
<1>12. CASE Finish
  BY <1>12, UrConstants DEF Finish, Counted, SlotOK, Placed, Active, Goal, Numbered
<1>13. ASSUME NEW r \in Run, Aborted(r) PROVE Counted'
  BY <1>13, CleanupEffect DEF Aborted, Tick, Unchanged, Counted, SameCounts
<1>14. ASSUME NEW r \in Run, FirstMoveOver(r) PROVE Counted'
  BY <1>14, CleanupEffect DEF FirstMoveOver, Tick, Unchanged, Counted, SameCounts
<1>15. ASSUME NEW r \in Run, ServoFailed(r) PROVE Counted'
  BY <1>15, CleanupEffect DEF ServoFailed, Tick, Unchanged, Counted, SameCounts
<1>16. ASSUME NEW r \in Run, Refill(r) PROVE Counted'
  BY <1>16, UrConstants DEF Refill, StreamingTick, Tick, Counted, SlotOK, Placed, Active, Goal, Numbered
<1>17. ASSUME NEW r \in Run, AllWritten(r) PROVE Counted'
  BY <1>17, UrConstants DEF AllWritten, StreamingTick, Tick, Counted, SlotOK, Placed, Active, Goal, Numbered
<1>18. ASSUME NEW r \in Run, ReturnOver(r) PROVE Counted'
  BY <1>18, CleanupEffect DEF ReturnOver, Tick, Unchanged, Counted, SameCounts
<1>19. ASSUME NEW r \in Run, MoveEnds(r) PROVE Counted'
  BY <1>19, UrConstants DEF MoveEnds, Counted, SlotOK, Placed, Active, Goal, Numbered
<1>20. ASSUME NEW r \in Run, WorkerLoop(r) PROVE Counted'
  BY <1>20, WorkerEffect DEF WorkerLoop, Others, Worker, Counted, SlotOK
<1>21. ASSUME NEW r \in Run, WorkerServo(r) PROVE Counted'
  BY <1>21, WorkerEffect DEF WorkerServo, Others, Worker, Counted, SlotOK
<1>22. ASSUME NEW j \in Job, JobAbort(j) PROVE Counted'
  BY <1>22, JobEffect DEF JobAbort, Counted, SameCounts
<1>23. ASSUME NEW j \in Job, JobJoin(j) PROVE Counted'
  BY <1>23, UrConstants DEF JobJoin, Counted, SlotOK, Placed, Active, Goal, Numbered
<1>24. ASSUME NEW j \in Job, JobForget(j) PROVE Counted'
  BY <1>24, UrConstants DEF JobForget, Counted, SlotOK, Placed, Active, Goal, Numbered
<1>25. CASE UNCHANGED vars
  BY <1>25, UrConstants DEF vars, Counted, SlotOK, Placed, Active, Goal, Numbered
<1>. QED
  BY <1>1, <1>2, <1>3, <1>4, <1>5, <1>6, <1>7, <1>8, <1>9, <1>10, <1>11, <1>12, <1>13,
     <1>14, <1>15, <1>16, <1>17, <1>18, <1>19, <1>20, <1>21, <1>22, <1>23, <1>24, <1>25
     DEF Next, RestOfTick, Modal, Worker, StopJob

(* Every step keeps the numbering.                                          *)
LEMMA NumberedStep ==
  ASSUME IInv, [Next]_vars
  PROVE  Numbered'
<1>. USE DEF IInv, slot, modal, servo, stopIO
<1>1. CASE Start
  BY <1>1, UrConstants DEF Start, Numbered, SlotOK, Placed, Active, MainOK, Run
<1>2. CASE Stop
  BY <1>2, UrConstants DEF Stop, Numbered, SlotOK, Placed, Active, MainOK, Run
<1>3. CASE Join
  BY <1>3, UrConstants DEF Join, Numbered, SlotOK, Placed, Active, MainOK, Run
<1>4. CASE NewStream
  BY <1>4, UrConstants DEF NewStream, Numbered, SlotOK, Placed, Active, MainOK, Run
<1>5. CASE Prefill
  BY <1>5, UrConstants DEF Prefill, Put, Numbered, SlotOK, Placed, Active, MainOK, Run
<1>6. CASE Launch
  BY <1>6, UrConstants DEF Launch, Numbered, SlotOK, Placed, Active, MainOK, Run
<1>7. CASE RefillPut
  BY <1>7, UrConstants DEF RefillPut, Put, Numbered, SlotOK, Placed, Active, MainOK, Run
<1>8. CASE RefillOver
  BY <1>8, UrConstants DEF RefillOver, Numbered, SlotOK, Placed, Active, MainOK, Run
<1>9. CASE NotDone
  BY <1>9, UrConstants DEF NotDone, Numbered, SlotOK, Placed, Active, MainOK, Run
<1>10. CASE Done
  BY <1>10, UrConstants DEF Done, Numbered, SlotOK, Placed, Active, MainOK, Run
<1>11. CASE Return
  BY <1>11, UrConstants DEF Return, Numbered, SlotOK, Placed, Active, MainOK, Run
<1>12. CASE Finish
  BY <1>12, UrConstants DEF Finish, Numbered, SlotOK, Placed, Active, MainOK, Run
<1>13. ASSUME NEW r \in Run, Aborted(r) PROVE Numbered'
  BY <1>13, UrConstants DEF Aborted, Tick, Unchanged, Numbered, SlotOK, Placed, Active, MainOK, Run
<1>14. ASSUME NEW r \in Run, FirstMoveOver(r) PROVE Numbered'
  BY <1>14, UrConstants DEF FirstMoveOver, Tick, Unchanged, Numbered, SlotOK, Placed, Active, MainOK, Run
<1>15. ASSUME NEW r \in Run, ServoFailed(r) PROVE Numbered'
  BY <1>15, UrConstants DEF ServoFailed, Tick, Unchanged, Numbered, SlotOK, Placed, Active, MainOK, Run
<1>16. ASSUME NEW r \in Run, Refill(r) PROVE Numbered'
  BY <1>16, UrConstants DEF Refill, StreamingTick, Tick, Numbered, SlotOK, Placed, Active, MainOK, Run
<1>17. ASSUME NEW r \in Run, AllWritten(r) PROVE Numbered'
  BY <1>17, UrConstants DEF AllWritten, StreamingTick, Tick, Numbered, SlotOK, Placed, Active, MainOK, Run
<1>18. ASSUME NEW r \in Run, ReturnOver(r) PROVE Numbered'
  BY <1>18, UrConstants DEF ReturnOver, Tick, Unchanged, Numbered, SlotOK, Placed, Active, MainOK, Run
<1>19. ASSUME NEW r \in Run, MoveEnds(r) PROVE Numbered'
  BY <1>19, UrConstants DEF MoveEnds, Numbered, SlotOK, Placed, Active, MainOK, Run
<1>20. ASSUME NEW r \in Run, WorkerLoop(r) PROVE Numbered'
  BY <1>20, UrConstants DEF WorkerLoop, Others, Numbered, SlotOK, Placed, Active, MainOK, Run
<1>21. ASSUME NEW r \in Run, WorkerServo(r) PROVE Numbered'
  BY <1>21, UrConstants DEF WorkerServo, Others, Numbered, SlotOK, Placed, Active, MainOK, Run
<1>22. ASSUME NEW j \in Job, JobAbort(j) PROVE Numbered'
  BY <1>22, UrConstants DEF JobAbort, Numbered, SlotOK, Placed, Active, MainOK, Run
<1>23. ASSUME NEW j \in Job, JobJoin(j) PROVE Numbered'
  BY <1>23, UrConstants DEF JobJoin, Numbered, SlotOK, Placed, Active, MainOK, Run
<1>24. ASSUME NEW j \in Job, JobForget(j) PROVE Numbered'
  BY <1>24, UrConstants DEF JobForget, Numbered, SlotOK, Placed, Active, MainOK, Run
<1>25. CASE UNCHANGED vars
  BY <1>25, UrConstants DEF vars, Numbered, SlotOK, Placed, Active, MainOK, Run
<1>. QED
  BY <1>1, <1>2, <1>3, <1>4, <1>5, <1>6, <1>7, <1>8, <1>9, <1>10, <1>11, <1>12, <1>13,
     <1>14, <1>15, <1>16, <1>17, <1>18, <1>19, <1>20, <1>21, <1>22, <1>23, <1>24, <1>25
     DEF Next, RestOfTick, Modal, Worker, StopJob

(* Every step keeps ticks in place.                                         *)
LEMMA PlacedStep ==
  ASSUME IInv, [Next]_vars
  PROVE  Placed'
<1>. USE DEF IInv, slot, modal, servo, stopIO
<1>1. CASE Start
  BY <1>1 DEF Start, Placed, Goal, Active, Executed, MainOK, SlotOK, Free
<1>2. CASE Stop
  BY <1>2 DEF Stop, Placed, Goal, Active, Executed, MainOK, SlotOK, Free
<1>3. CASE Join
  BY <1>3 DEF Join, Placed, Goal, Active, Executed, MainOK, SlotOK, Free
<1>4. CASE NewStream
  BY <1>4, NewStreamEffect DEF NewStream, MainOK, Placed, Goal, Active, Executed
<1>5. CASE Prefill
  BY <1>5, PutEffect DEF Prefill, SameErrors, Placed, Goal, Active, Executed
<1>6. CASE Launch
  BY <1>6 DEF Launch, Placed, Goal, Active, Executed, MainOK, SlotOK, Free
<1>7. CASE RefillPut
  BY <1>7, PutEffect DEF RefillPut, SameErrors, Placed, Goal, Active, Executed
<1>8. CASE RefillOver
  <2>1. CASE st[main.run].error
    BY <1>8, <2>1, CleanupEffect DEF RefillOver, SameCounts, SameErrors, Placed, Goal, Active, Executed
  <2>2. CASE main' = Free
    BY <2>2 DEF Placed, Free
  <2>. QED
    BY <1>8, <2>1, <2>2 DEF RefillOver
<1>9. CASE NotDone
  BY <1>9 DEF NotDone, Placed, Goal, Active, Executed, MainOK, SlotOK, Free
<1>10. CASE Done
  <2>1. main.run \in Run /\ phase[main.run] = "streaming" /\ Executed(main.run)
    <3>1. /\ main.run \in Run /\ phase[main.run] = "streaming"
          /\ st[main.run].error \/ st[main.run].completed >= st[main.run].total
      BY <1>10 DEF Done, stream_is_done, Placed, Goal
    <3>2. st[main.run].completed <= st[main.run].total
      BY <3>1, UrConstants DEF StreamsOK, Streams, InQueue, QueueMax
    <3>. QED
      BY <3>1, <3>2 DEF Executed, StreamsOK, Streams
  <2>. QED
    BY <1>10, <2>1, CleanupEffect DEF Done, SameCounts, SameErrors, Placed, Goal, Active, Executed
<1>11. CASE Return
  BY <1>11 DEF Return, Placed, Goal, Active, Executed, MainOK, SlotOK, Free
<1>12. CASE Finish
  BY <1>12 DEF Finish, Placed, Goal, Active, Executed, MainOK, SlotOK, Free
<1>13. ASSUME NEW r \in Run, Aborted(r) PROVE Placed'
  BY <1>13, CleanupEffect DEF Aborted, Tick, Unchanged, SameCounts, SameErrors, Placed, Goal, Active, Executed
<1>14. ASSUME NEW r \in Run, FirstMoveOver(r) PROVE Placed'
  BY <1>14, CleanupEffect DEF FirstMoveOver, Tick, Unchanged, SameCounts, SameErrors, Placed, Goal, Active, Executed
<1>15. ASSUME NEW r \in Run, ServoFailed(r) PROVE Placed'
  BY <1>15, CleanupEffect DEF ServoFailed, Tick, Unchanged, SameCounts, SameErrors, Placed, Goal, Active, Executed
<1>16. ASSUME NEW r \in Run, Refill(r) PROVE Placed'
  BY <1>16 DEF Refill, StreamingTick, Tick, Placed, Goal, Active, Executed, MainOK, SlotOK, Free
<1>17. ASSUME NEW r \in Run, AllWritten(r) PROVE Placed'
  BY <1>17 DEF AllWritten, StreamingTick, Tick, Placed, Goal, Active, Executed, MainOK, SlotOK, Free
<1>18. ASSUME NEW r \in Run, ReturnOver(r) PROVE Placed'
  BY <1>18, CleanupEffect DEF ReturnOver, Tick, Unchanged, SameCounts, SameErrors, Placed, Goal, Active, Executed
<1>19. ASSUME NEW r \in Run, MoveEnds(r) PROVE Placed'
  BY <1>19 DEF MoveEnds, Placed, Goal, Active, Executed, MainOK, SlotOK, Free
<1>20. ASSUME NEW r \in Run, WorkerLoop(r) PROVE Placed'
  <2>1. ASSUME NEW q \in Run, Executed(q) PROVE Executed(q)'
    BY <1>20, <2>1, WorkerEffect DEF WorkerLoop, Worker, Executed, StreamsOK, Streams, InQueue, QueueMax, Counted
  <2>. QED
    BY <1>20, <2>1 DEF WorkerLoop, Others, Placed, Goal, Active
<1>21. ASSUME NEW r \in Run, WorkerServo(r) PROVE Placed'
  <2>1. ASSUME NEW q \in Run, Executed(q) PROVE Executed(q)'
    BY <1>21, <2>1, WorkerEffect DEF WorkerServo, Worker, Executed, StreamsOK, Streams, InQueue, QueueMax, Counted
  <2>. QED
    BY <1>21, <2>1 DEF WorkerServo, Others, Placed, Goal, Active
<1>22. ASSUME NEW j \in Job, JobAbort(j) PROVE Placed'
  BY <1>22, JobEffect DEF JobAbort, SameCounts, Placed, Goal, Active, Executed
<1>23. ASSUME NEW j \in Job, JobJoin(j) PROVE Placed'
  BY <1>23 DEF JobJoin, Placed, Goal, Active, Executed, MainOK, SlotOK, Free
<1>24. ASSUME NEW j \in Job, JobForget(j) PROVE Placed'
  BY <1>24 DEF JobForget, Placed, Goal, Active, Executed, MainOK, SlotOK, Free
<1>25. CASE UNCHANGED vars
  BY <1>25 DEF vars, Placed, Goal, Active, Executed, MainOK, SlotOK, Free
<1>. QED
  BY <1>1, <1>2, <1>3, <1>4, <1>5, <1>6, <1>7, <1>8, <1>9, <1>10, <1>11, <1>12, <1>13,
     <1>14, <1>15, <1>16, <1>17, <1>18, <1>19, <1>20, <1>21, <1>22, <1>23, <1>24, <1>25
     DEF Next, RestOfTick, Modal, Worker, StopJob

(* Every step keeps an aborted tick on its way out.                         *)
LEMMA AbortingStep ==
  ASSUME IInv, [Next]_vars
  PROVE  Aborting'
<1>. USE DEF IInv, slot, modal, servo, stopIO
<1>1. CASE Start
  BY <1>1 DEF Start, Aborting, MainOK, Goal, Free
<1>2. CASE Stop
  BY <1>2 DEF Stop, Aborting, MainOK, Goal, Free
<1>3. CASE Join
  BY <1>3 DEF Join, Aborting, MainOK, Goal, Free
<1>4. CASE NewStream
  BY <1>4 DEF NewStream, Aborting, MainOK, Goal, Free
<1>5. CASE Prefill
  BY <1>5 DEF Prefill, Put, Aborting, MainOK, Goal, Free
<1>6. CASE Launch
  BY <1>6 DEF Launch, Aborting, MainOK, Goal, Free
<1>7. CASE RefillPut
  BY <1>7 DEF RefillPut, Put, Aborting, MainOK, Goal, Free
<1>8. CASE RefillOver
  <2>1. CASE st[main.run].error
    BY <1>8, <2>1, CleanupEffect DEF RefillOver, Placed, Aborting
  <2>2. CASE main' = Free
    BY <2>2 DEF Aborting, Goal, Free
  <2>. QED
    BY <1>8, <2>1, <2>2 DEF RefillOver
<1>9. CASE NotDone
  BY <1>9 DEF NotDone, Aborting, MainOK, Goal, Free
<1>10. CASE Done
  BY <1>10, CleanupEffect DEF Done, Placed, Aborting, Goal
<1>11. CASE Return
  BY <1>11 DEF Return, Aborting, MainOK, Goal, Free
<1>12. CASE Finish
  BY <1>12 DEF Finish, Aborting, MainOK, Goal, Free
<1>13. ASSUME NEW r \in Run, Aborted(r) PROVE Aborting'
  BY <1>13, CleanupEffect DEF Aborted, Tick, Unchanged, Aborting
<1>14. ASSUME NEW r \in Run, FirstMoveOver(r) PROVE Aborting'
  BY <1>14, CleanupEffect DEF FirstMoveOver, Tick, Unchanged, Aborting
<1>15. ASSUME NEW r \in Run, ServoFailed(r) PROVE Aborting'
  BY <1>15, CleanupEffect DEF ServoFailed, Tick, Unchanged, Aborting
<1>16. ASSUME NEW r \in Run, Refill(r) PROVE Aborting'
  BY <1>16 DEF Refill, StreamingTick, Tick, Aborting, MainOK, Goal, Free
<1>17. ASSUME NEW r \in Run, AllWritten(r) PROVE Aborting'
  BY <1>17 DEF AllWritten, StreamingTick, Tick, Aborting, MainOK, Goal, Free
<1>18. ASSUME NEW r \in Run, ReturnOver(r) PROVE Aborting'
  BY <1>18, CleanupEffect DEF ReturnOver, Tick, Unchanged, Aborting
<1>19. ASSUME NEW r \in Run, MoveEnds(r) PROVE Aborting'
  BY <1>19 DEF MoveEnds, Aborting, MainOK, Goal, Free
<1>20. ASSUME NEW r \in Run, WorkerLoop(r) PROVE Aborting'
  BY <1>20 DEF WorkerLoop, Others, Aborting, MainOK, Goal, Free
<1>21. ASSUME NEW r \in Run, WorkerServo(r) PROVE Aborting'
  BY <1>21 DEF WorkerServo, Others, Aborting, MainOK, Goal, Free
<1>22. ASSUME NEW j \in Job, JobAbort(j) PROVE Aborting'
  BY <1>22 DEF JobAbort, Aborting, MainOK, Goal, Free
<1>23. ASSUME NEW j \in Job, JobJoin(j) PROVE Aborting'
  BY <1>23 DEF JobJoin, Aborting, MainOK, Goal, Free
<1>24. ASSUME NEW j \in Job, JobForget(j) PROVE Aborting'
  BY <1>24 DEF JobForget, Aborting, MainOK, Goal, Free
<1>25. CASE UNCHANGED vars
  BY <1>25 DEF vars, Aborting, MainOK, Goal, Free
<1>. QED
  BY <1>1, <1>2, <1>3, <1>4, <1>5, <1>6, <1>7, <1>8, <1>9, <1>10, <1>11, <1>12, <1>13,
     <1>14, <1>15, <1>16, <1>17, <1>18, <1>19, <1>20, <1>21, <1>22, <1>23, <1>24, <1>25
     DEF Next, RestOfTick, Modal, Worker, StopJob

(* Every step keeps finished runs executed.                                 *)
LEMMA DoneMeansExecutedStep ==
  ASSUME IInv, [Next]_vars
  PROVE  DoneMeansExecuted'
<1>. USE DEF IInv, slot, modal, servo, stopIO
<1>1. CASE Start
  BY <1>1 DEF Start, DoneMeansExecuted, Placed, Goal, Executed, SlotOK, MainOK
<1>2. CASE Stop
  BY <1>2 DEF Stop, DoneMeansExecuted, Placed, Goal, Executed, SlotOK, MainOK
<1>3. CASE Join
  BY <1>3 DEF Join, DoneMeansExecuted, Placed, Goal, Executed, SlotOK, MainOK
<1>4. CASE NewStream
  BY <1>4, NewStreamEffect DEF NewStream, DoneMeansExecuted
<1>5. CASE Prefill
  BY <1>5, PutEffect DEF Prefill, Placed, SameErrors, DoneMeansExecuted
<1>6. CASE Launch
  BY <1>6 DEF Launch, DoneMeansExecuted, Placed, Goal, Executed, SlotOK, MainOK
<1>7. CASE RefillPut
  BY <1>7, PutEffect DEF RefillPut, Placed, SameErrors, DoneMeansExecuted
<1>8. CASE RefillOver
  <2>1. CASE st[main.run].error
    BY <1>8, <2>1, CleanupEffect DEF RefillOver, Placed, SameCounts, SameErrors, DoneMeansExecuted
  <2>2. CASE UNCHANGED st
    BY <1>8, <2>2 DEF RefillOver, DoneMeansExecuted
  <2>. QED
    BY <1>8, <2>1, <2>2 DEF RefillOver
<1>9. CASE NotDone
  BY <1>9 DEF NotDone, DoneMeansExecuted, Placed, Goal, Executed, SlotOK, MainOK
<1>10. CASE Done
  BY <1>10, CleanupEffect DEF Done, Placed, SameCounts, SameErrors, DoneMeansExecuted
<1>11. CASE Return
  BY <1>11 DEF Return, DoneMeansExecuted, Placed, Goal, Executed, SlotOK, MainOK
<1>12. CASE Finish
  BY <1>12 DEF Finish, DoneMeansExecuted, Placed, Goal, Executed, SlotOK, MainOK
<1>13. ASSUME NEW r \in Run, Aborted(r) PROVE DoneMeansExecuted'
  BY <1>13, CleanupEffect DEF Aborted, Tick, Unchanged, SameCounts, SameErrors, DoneMeansExecuted
<1>14. ASSUME NEW r \in Run, FirstMoveOver(r) PROVE DoneMeansExecuted'
  BY <1>14, CleanupEffect DEF FirstMoveOver, Tick, Unchanged, SameCounts, SameErrors, DoneMeansExecuted
<1>15. ASSUME NEW r \in Run, ServoFailed(r) PROVE DoneMeansExecuted'
  BY <1>15, CleanupEffect DEF ServoFailed, Tick, Unchanged, SameCounts, SameErrors, DoneMeansExecuted
<1>16. ASSUME NEW r \in Run, Refill(r) PROVE DoneMeansExecuted'
  BY <1>16 DEF Refill, StreamingTick, Tick, DoneMeansExecuted, Placed, Goal, Executed, SlotOK, MainOK
<1>17. ASSUME NEW r \in Run, AllWritten(r) PROVE DoneMeansExecuted'
  BY <1>17 DEF AllWritten, StreamingTick, Tick, DoneMeansExecuted, Placed, Goal, Executed, SlotOK, MainOK
<1>18. ASSUME NEW r \in Run, ReturnOver(r) PROVE DoneMeansExecuted'
  BY <1>18, CleanupEffect DEF ReturnOver, Tick, Unchanged, SameCounts, SameErrors, DoneMeansExecuted
<1>19. ASSUME NEW r \in Run, MoveEnds(r) PROVE DoneMeansExecuted'
  BY <1>19 DEF MoveEnds, DoneMeansExecuted, Placed, Goal, Executed, SlotOK, MainOK
<1>20. ASSUME NEW r \in Run, WorkerLoop(r) PROVE DoneMeansExecuted'
  <2>1. ASSUME NEW q \in Run, Executed(q) PROVE Executed(q)'
    BY <1>20, <2>1, WorkerEffect DEF WorkerLoop, Worker, Executed, StreamsOK, Streams, InQueue, QueueMax, Counted
  <2>. QED
    BY <1>20, <2>1 DEF WorkerLoop, Others, Executed, DoneMeansExecuted
<1>21. ASSUME NEW r \in Run, WorkerServo(r) PROVE DoneMeansExecuted'
  <2>1. ASSUME NEW q \in Run, Executed(q) PROVE Executed(q)'
    BY <1>21, <2>1, WorkerEffect DEF WorkerServo, Worker, Executed, StreamsOK, Streams, InQueue, QueueMax, Counted
  <2>. QED
    BY <1>21, <2>1 DEF WorkerServo, Others, Executed, DoneMeansExecuted
<1>22. ASSUME NEW j \in Job, JobAbort(j) PROVE DoneMeansExecuted'
  BY <1>22, JobEffect DEF JobAbort, SameCounts, DoneMeansExecuted
<1>23. ASSUME NEW j \in Job, JobJoin(j) PROVE DoneMeansExecuted'
  BY <1>23 DEF JobJoin, DoneMeansExecuted, Placed, Goal, Executed, SlotOK, MainOK
<1>24. ASSUME NEW j \in Job, JobForget(j) PROVE DoneMeansExecuted'
  BY <1>24 DEF JobForget, DoneMeansExecuted, Placed, Goal, Executed, SlotOK, MainOK
<1>25. CASE UNCHANGED vars
  BY <1>25 DEF vars, DoneMeansExecuted, Placed, Goal, Executed, SlotOK, MainOK
<1>. QED
  BY <1>1, <1>2, <1>3, <1>4, <1>5, <1>6, <1>7, <1>8, <1>9, <1>10, <1>11, <1>12, <1>13,
     <1>14, <1>15, <1>16, <1>17, <1>18, <1>19, <1>20, <1>21, <1>22, <1>23, <1>24, <1>25
     DEF Next, RestOfTick, Modal, Worker, StopJob
-----------------------------------------------------------------------------
(* The theorems.                                                           *)

LEMMA Inductive == Spec => []IInv
<1>1. Init => IInv
  <2>. SUFFICES ASSUME Init PROVE IInv
    OBVIOUS
  <2>. USE UrConstants DEF Init, Free, NoStream
  <2>1. MainOK
    BY DEF MainOK
  <2>4. SlotOK
    <3>1. job \in [Job -> [pc : {"none", "abort", "join", "forget", "ended"}, old : 0..MaxRuns]]
      OBVIOUS
    <3>2. stops \in 0..MaxStops /\ runs \in 0..MaxRuns /\ _servo_state \in 0..MaxRuns
      OBVIOUS
    <3>. QED
      BY <3>1, <3>2 DEF SlotOK
  <2>2. StreamsOK
    BY DEF StreamsOK, Streams, InQueue, QueueMax
  <2>3. Counted /\ Numbered /\ Placed /\ Aborting /\ DoneMeansExecuted
    BY DEF Counted, Numbered, Placed, Aborting, DoneMeansExecuted, Goal
  <2>. QED
    BY <2>1, <2>2, <2>3, <2>4 DEF IInv
<1>2. IInv /\ [Next]_vars => IInv'
  BY SlotOKStep, MainOKStep, StreamsOKStep, CountedStep, NumberedStep, PlacedStep, AbortingStep,
     DoneMeansExecutedStep DEF IInv
<1>. QED
  BY <1>1, <1>2, PTL DEF Spec

(* The types are kept, and in every stream the worker is at most one        *)
(* waypoint ahead of what it has completed and the queue within its bound.  *)
THEOREM TypeCorrect == Spec => []TypeOK
<1>1. IInv => TypeOK
  BY DEF IInv, TypeOK, SlotOK, MainOK, StreamsOK
<1>. QED
  BY <1>1, Inductive, PTL

(* A run goes on to its return move only when its whole path was executed   *)
(* or servoL has failed, whatever else goes wrong.                          *)
THEOREM DoneExecuted == Spec => []DoneMeansExecuted
<1>1. IInv => DoneMeansExecuted
  BY DEF IInv
<1>. QED
  BY <1>1, Inductive, PTL
-----------------------------------------------------------------------------
(* No run starts before the modal of a stopped one has ticked.              *)

(* One run at a time, and a stopped one still to be told.                   *)
Solo == \A q, r \in Run : Active(q) /\ Active(r) => q = r

Untold == \A r \in Run : stopped[r] /\ Active(r) => abort

(* Every step keeps active runs alone.                                      *)
LEMMA SoloStep ==
  ASSUME IInv, "rerun" \notin Faults, Solo, [Next]_vars
  PROVE  Solo'
<1>. USE DEF slot, modal, servo, stopIO
<1>1. CASE Start
  BY <1>1 DEF Start, Solo, Active, IInv, SlotOK, Numbered, Placed
<1>2. CASE Stop
  BY <1>2 DEF Stop, Solo, Active, IInv, SlotOK, Numbered, Placed
<1>3. CASE Join
  BY <1>3 DEF Join, Solo, Active, IInv, SlotOK, Numbered, Placed
<1>4. CASE NewStream
  BY <1>4 DEF NewStream, Solo, Active, IInv, SlotOK, Numbered, Placed
<1>5. CASE Prefill
  BY <1>5 DEF Prefill, Put, Solo, Active, IInv, SlotOK, Numbered, Placed
<1>6. CASE Launch
  BY <1>6 DEF Launch, Solo, Active, IInv, SlotOK, Numbered, Placed
<1>7. CASE RefillPut
  BY <1>7 DEF RefillPut, Put, Solo, Active, IInv, SlotOK, Numbered, Placed
<1>8. CASE RefillOver
  BY <1>8 DEF RefillOver, Solo, Active, IInv, SlotOK, Numbered, Placed
<1>9. CASE NotDone
  BY <1>9 DEF NotDone, Solo, Active, IInv, SlotOK, Numbered, Placed
<1>10. CASE Done
  BY <1>10 DEF Done, Solo, Active, IInv, SlotOK, Numbered, Placed
<1>11. CASE Return
  BY <1>11 DEF Return, Solo, Active, IInv, SlotOK, Numbered, Placed
<1>12. CASE Finish
  BY <1>12 DEF Finish, Solo, Active, IInv, SlotOK, Numbered, Placed
<1>13. ASSUME NEW r \in Run, Aborted(r) PROVE Solo'
  BY <1>13 DEF Aborted, Tick, Unchanged, Solo, Active, IInv, SlotOK, Numbered, Placed
<1>14. ASSUME NEW r \in Run, FirstMoveOver(r) PROVE Solo'
  BY <1>14 DEF FirstMoveOver, Tick, Unchanged, Solo, Active, IInv, SlotOK, Numbered, Placed
<1>15. ASSUME NEW r \in Run, ServoFailed(r) PROVE Solo'
  BY <1>15 DEF ServoFailed, Tick, Unchanged, Solo, Active, IInv, SlotOK, Numbered, Placed
<1>16. ASSUME NEW r \in Run, Refill(r) PROVE Solo'
  BY <1>16 DEF Refill, StreamingTick, Tick, Solo, Active, IInv, SlotOK, Numbered, Placed
<1>17. ASSUME NEW r \in Run, AllWritten(r) PROVE Solo'
  BY <1>17 DEF AllWritten, StreamingTick, Tick, Solo, Active, IInv, SlotOK, Numbered, Placed
<1>18. ASSUME NEW r \in Run, ReturnOver(r) PROVE Solo'
  BY <1>18 DEF ReturnOver, Tick, Unchanged, Solo, Active, IInv, SlotOK, Numbered, Placed
<1>19. ASSUME NEW r \in Run, MoveEnds(r) PROVE Solo'
  BY <1>19 DEF MoveEnds, Solo, Active, IInv, SlotOK, Numbered, Placed
<1>20. ASSUME NEW r \in Run, WorkerLoop(r) PROVE Solo'
  BY <1>20 DEF WorkerLoop, Others, Solo, Active, IInv, SlotOK, Numbered, Placed
<1>21. ASSUME NEW r \in Run, WorkerServo(r) PROVE Solo'
  BY <1>21 DEF WorkerServo, Others, Solo, Active, IInv, SlotOK, Numbered, Placed
<1>22. ASSUME NEW j \in Job, JobAbort(j) PROVE Solo'
  BY <1>22 DEF JobAbort, Solo, Active, IInv, SlotOK, Numbered, Placed
<1>23. ASSUME NEW j \in Job, JobJoin(j) PROVE Solo'
  BY <1>23 DEF JobJoin, Solo, Active, IInv, SlotOK, Numbered, Placed
<1>24. ASSUME NEW j \in Job, JobForget(j) PROVE Solo'
  BY <1>24 DEF JobForget, Solo, Active, IInv, SlotOK, Numbered, Placed
<1>25. CASE UNCHANGED vars
  BY <1>25 DEF vars, Solo, Active, IInv, SlotOK, Numbered, Placed
<1>. QED
  BY <1>1, <1>2, <1>3, <1>4, <1>5, <1>6, <1>7, <1>8, <1>9, <1>10, <1>11, <1>12, <1>13,
     <1>14, <1>15, <1>16, <1>17, <1>18, <1>19, <1>20, <1>21, <1>22, <1>23, <1>24, <1>25
     DEF Next, RestOfTick, Modal, Worker, StopJob

(* Every step keeps stopped runs to be told.                                *)
LEMMA UntoldStep ==
  ASSUME IInv, "rerun" \notin Faults, Solo, Untold, [Next]_vars
  PROVE  Untold'
<1>. USE DEF slot, modal, servo, stopIO
<1>1. CASE Start
  BY <1>1 DEF Start, Untold, Active, IInv, SlotOK, Numbered, Placed
<1>2. CASE Stop
  BY <1>2 DEF Stop, Untold, Active, IInv, SlotOK, Numbered, Placed
<1>3. CASE Join
  BY <1>3 DEF Join, Untold, Active, IInv, SlotOK, Numbered, Placed
<1>4. CASE NewStream
  BY <1>4 DEF NewStream, Untold, Active, IInv, SlotOK, Numbered, Placed
<1>5. CASE Prefill
  BY <1>5 DEF Prefill, Put, Untold, Active, IInv, SlotOK, Numbered, Placed
<1>6. CASE Launch
  BY <1>6 DEF Launch, Untold, Active, IInv, SlotOK, Numbered, Placed
<1>7. CASE RefillPut
  BY <1>7 DEF RefillPut, Put, Untold, Active, IInv, SlotOK, Numbered, Placed
<1>8. CASE RefillOver
  BY <1>8 DEF RefillOver, Untold, Active, IInv, SlotOK, Numbered, Placed
<1>9. CASE NotDone
  BY <1>9 DEF NotDone, Untold, Active, IInv, SlotOK, Numbered, Placed
<1>10. CASE Done
  BY <1>10 DEF Done, Untold, Active, IInv, SlotOK, Numbered, Placed
<1>11. CASE Return
  BY <1>11 DEF Return, Untold, Active, IInv, SlotOK, Numbered, Placed
<1>12. CASE Finish
  BY <1>12 DEF Finish, Untold, Active, IInv, SlotOK, Numbered, Placed
<1>13. ASSUME NEW r \in Run, Aborted(r) PROVE Untold'
  BY <1>13 DEF Aborted, Tick, Unchanged, Untold, Active, IInv, SlotOK, Numbered, Placed
<1>14. ASSUME NEW r \in Run, FirstMoveOver(r) PROVE Untold'
  BY <1>14 DEF FirstMoveOver, Tick, Unchanged, Untold, Active, IInv, SlotOK, Numbered, Placed
<1>15. ASSUME NEW r \in Run, ServoFailed(r) PROVE Untold'
  BY <1>15 DEF ServoFailed, Tick, Unchanged, Untold, Active, IInv, SlotOK, Numbered, Placed
<1>16. ASSUME NEW r \in Run, Refill(r) PROVE Untold'
  BY <1>16 DEF Refill, StreamingTick, Tick, Untold, Active, IInv, SlotOK, Numbered, Placed
<1>17. ASSUME NEW r \in Run, AllWritten(r) PROVE Untold'
  BY <1>17 DEF AllWritten, StreamingTick, Tick, Untold, Active, IInv, SlotOK, Numbered, Placed
<1>18. ASSUME NEW r \in Run, ReturnOver(r) PROVE Untold'
  BY <1>18 DEF ReturnOver, Tick, Unchanged, Untold, Active, IInv, SlotOK, Numbered, Placed
<1>19. ASSUME NEW r \in Run, MoveEnds(r) PROVE Untold'
  BY <1>19 DEF MoveEnds, Untold, Active, IInv, SlotOK, Numbered, Placed
<1>20. ASSUME NEW r \in Run, WorkerLoop(r) PROVE Untold'
  BY <1>20 DEF WorkerLoop, Others, Untold, Active, IInv, SlotOK, Numbered, Placed
<1>21. ASSUME NEW r \in Run, WorkerServo(r) PROVE Untold'
  BY <1>21 DEF WorkerServo, Others, Untold, Active, IInv, SlotOK, Numbered, Placed
<1>22. ASSUME NEW j \in Job, JobAbort(j) PROVE Untold'
  BY <1>22 DEF JobAbort, Untold, Active, IInv, SlotOK, Numbered, Placed
<1>23. ASSUME NEW j \in Job, JobJoin(j) PROVE Untold'
  BY <1>23 DEF JobJoin, Untold, Active, IInv, SlotOK, Numbered, Placed
<1>24. ASSUME NEW j \in Job, JobForget(j) PROVE Untold'
  BY <1>24 DEF JobForget, Untold, Active, IInv, SlotOK, Numbered, Placed
<1>25. CASE UNCHANGED vars
  BY <1>25 DEF vars, Untold, Active, IInv, SlotOK, Numbered, Placed
<1>. QED
  BY <1>1, <1>2, <1>3, <1>4, <1>5, <1>6, <1>7, <1>8, <1>9, <1>10, <1>11, <1>12, <1>13,
     <1>14, <1>15, <1>16, <1>17, <1>18, <1>19, <1>20, <1>21, <1>22, <1>23, <1>24, <1>25
     DEF Next, RestOfTick, Modal, Worker, StopJob

(* Every step keeps run_idx behind the robot.                               *)
LEMMA RunIdxNeverAheadStep ==
  ASSUME IInv, "rerun" \notin Faults, Solo, RunIdxNeverAhead, [Next]_vars
  PROVE  RunIdxNeverAhead'
<1>. USE DEF slot, modal, servo, stopIO
<1>1. CASE Start
  BY <1>1 DEF Start, RunIdxNeverAhead, IInv, SlotOK
<1>2. CASE Stop
  BY <1>2 DEF Stop, RunIdxNeverAhead, IInv, SlotOK
<1>3. CASE Join
  BY <1>3 DEF Join, RunIdxNeverAhead, IInv, SlotOK
<1>4. CASE NewStream
  BY <1>4, NewStreamEffect DEF NewStream, RunIdxNeverAhead, IInv
<1>5. CASE Prefill
  BY <1>5, PutEffect DEF Prefill, RunIdxNeverAhead, SameErrors, IInv, Placed
<1>6. CASE Launch
  <2>1. main.run \in Run /\ phase[main.run] = "move_to_first"
    BY <1>6 DEF Launch, IInv, Placed, Goal
  <2>2. ASSUME NEW q \in Run PROVE phase'[q] = "streaming" => q = main.run
    BY <1>6, <2>1 DEF Launch, Solo, Active, IInv, SlotOK
  <2>. QED
    BY <1>6, <2>1, <2>2 DEF Launch, RunIdxNeverAhead, IInv, StreamsOK, Streams
<1>7. CASE RefillPut
  BY <1>7, PutEffect DEF RefillPut, RunIdxNeverAhead, SameErrors, IInv, Placed
<1>8. CASE RefillOver
  <2>1. main.run \in Run /\ phase[main.run] = "streaming"
    BY <1>8 DEF RefillOver, IInv, Placed, Goal
  <2>2. CASE st[main.run].error
    BY <1>8, <2>1, <2>2, CleanupEffect DEF RefillOver, RunIdxNeverAhead, SameCounts, SameErrors, IInv
  <2>3. CASE ~st[main.run].error
    <3>1. InEffect(main.run) <= st[main.run].completed
      BY <2>1 DEF InEffect, WpDone, IInv, StreamsOK, Streams
    <3>2. run_idx' = InEffect(main.run) /\ UNCHANGED <<st, phase>>
      BY <1>8, <2>3 DEF RefillOver
    <3>. QED
      BY <2>1, <3>1, <3>2 DEF RunIdxNeverAhead, Solo, Active
  <2>. QED
    BY <2>2, <2>3
<1>9. CASE NotDone
  BY <1>9 DEF NotDone, RunIdxNeverAhead, IInv, SlotOK
<1>10. CASE Done
  <2>1. main.run \in Run /\ phase[main.run] = "streaming"
    BY <1>10 DEF Done, IInv, Placed, Goal
  <2>2. ~st[main.run].error => st[main.run].total - 1 <= st[main.run].completed
    BY <1>10, <2>1 DEF Done, stream_is_done, IInv, StreamsOK, Streams
  <2>3. SameCounts /\ SameErrors /\ run_idx' = st[main.run].total - 1 /\ UNCHANGED phase
    BY <1>10, <2>1, CleanupEffect DEF Done, IInv
  <2>. QED
    BY <2>1, <2>2, <2>3 DEF RunIdxNeverAhead, SameCounts, SameErrors, Solo, Active
<1>11. CASE Return
  BY <1>11 DEF Return, RunIdxNeverAhead, IInv, SlotOK
<1>12. CASE Finish
  <2>1. main.run \in Run /\ Active(main.run)
    BY <1>12 DEF Finish, IInv, Placed
  <2>2. ASSUME NEW q \in Run PROVE phase'[q] # "streaming"
    BY <1>12, <2>1 DEF Finish, Solo, Active, IInv, SlotOK
  <2>. QED
    BY <2>2 DEF RunIdxNeverAhead
<1>13. ASSUME NEW r \in Run, Aborted(r) PROVE RunIdxNeverAhead'
  BY <1>13, CleanupEffect DEF Aborted, Tick, Unchanged, RunIdxNeverAhead, SameCounts, SameErrors, IInv
<1>14. ASSUME NEW r \in Run, FirstMoveOver(r) PROVE RunIdxNeverAhead'
  BY <1>14, CleanupEffect DEF FirstMoveOver, Tick, Unchanged, RunIdxNeverAhead, SameCounts, SameErrors, IInv
<1>15. ASSUME NEW r \in Run, ServoFailed(r) PROVE RunIdxNeverAhead'
  BY <1>15, CleanupEffect DEF ServoFailed, Tick, Unchanged, RunIdxNeverAhead, SameCounts, SameErrors, IInv
<1>16. ASSUME NEW r \in Run, Refill(r) PROVE RunIdxNeverAhead'
  BY <1>16 DEF Refill, StreamingTick, Tick, RunIdxNeverAhead, IInv, SlotOK
<1>17. ASSUME NEW r \in Run, AllWritten(r) PROVE RunIdxNeverAhead'
  BY <1>17 DEF AllWritten, StreamingTick, Tick, RunIdxNeverAhead, IInv, SlotOK
<1>18. ASSUME NEW r \in Run, ReturnOver(r) PROVE RunIdxNeverAhead'
  BY <1>18, CleanupEffect DEF ReturnOver, Tick, Unchanged, RunIdxNeverAhead, SameCounts, SameErrors, IInv
<1>19. ASSUME NEW r \in Run, MoveEnds(r) PROVE RunIdxNeverAhead'
  BY <1>19 DEF MoveEnds, RunIdxNeverAhead, IInv, SlotOK
<1>20. ASSUME NEW r \in Run, WorkerLoop(r) PROVE RunIdxNeverAhead'
  <2>1. ASSUME NEW q \in Run PROVE st'[q].completed >= st[q].completed /\ (st[q].error => st'[q].error)
    <3>1. CASE q = r
      BY <1>20, <3>1, WorkerEffect, UrConstants
         DEF WorkerLoop, Worker, IInv, StreamsOK, Streams, InQueue, QueueMax
    <3>2. CASE q # r
      BY <1>20, <3>2, WorkerEffect DEF WorkerLoop, Worker, IInv, StreamsOK, Streams
    <3>. QED
      BY <3>1, <3>2
  <2>2. UNCHANGED <<phase, run_idx>>
    BY <1>20 DEF WorkerLoop, Others
  <2>3. ASSUME NEW q \in Run PROVE run_idx \in Int /\ st[q].completed \in Int /\ st'[q].completed \in Int
    BY <1>20, WorkerEffect DEF WorkerLoop, Worker, IInv, SlotOK, StreamsOK, Streams
  <2>. QED
    BY <2>1, <2>2, <2>3 DEF RunIdxNeverAhead
<1>21. ASSUME NEW r \in Run, WorkerServo(r) PROVE RunIdxNeverAhead'
  <2>1. ASSUME NEW q \in Run PROVE st'[q].completed >= st[q].completed /\ (st[q].error => st'[q].error)
    <3>1. CASE q = r
      BY <1>21, <3>1, WorkerEffect, UrConstants
         DEF WorkerServo, Worker, IInv, StreamsOK, Streams, InQueue, QueueMax
    <3>2. CASE q # r
      BY <1>21, <3>2, WorkerEffect DEF WorkerServo, Worker, IInv, StreamsOK, Streams
    <3>. QED
      BY <3>1, <3>2
  <2>2. UNCHANGED <<phase, run_idx>>
    BY <1>21 DEF WorkerServo, Others
  <2>3. ASSUME NEW q \in Run PROVE run_idx \in Int /\ st[q].completed \in Int /\ st'[q].completed \in Int
    BY <1>21, WorkerEffect DEF WorkerServo, Worker, IInv, SlotOK, StreamsOK, Streams
  <2>. QED
    BY <2>1, <2>2, <2>3 DEF RunIdxNeverAhead
<1>22. ASSUME NEW j \in Job, JobAbort(j) PROVE RunIdxNeverAhead'
  BY <1>22, JobEffect DEF JobAbort, RunIdxNeverAhead, SameCounts, IInv
<1>23. ASSUME NEW j \in Job, JobJoin(j) PROVE RunIdxNeverAhead'
  BY <1>23 DEF JobJoin, RunIdxNeverAhead, IInv, SlotOK
<1>24. ASSUME NEW j \in Job, JobForget(j) PROVE RunIdxNeverAhead'
  BY <1>24 DEF JobForget, RunIdxNeverAhead, IInv, SlotOK
<1>25. CASE UNCHANGED vars
  BY <1>25 DEF vars, RunIdxNeverAhead, IInv, SlotOK
<1>. QED
  BY <1>1, <1>2, <1>3, <1>4, <1>5, <1>6, <1>7, <1>8, <1>9, <1>10, <1>11, <1>12, <1>13,
     <1>14, <1>15, <1>16, <1>17, <1>18, <1>19, <1>20, <1>21, <1>22, <1>23, <1>24, <1>25
     DEF Next, RestOfTick, Modal, Worker, StopJob

(* While streaming, run_idx never names a waypoint beyond the one the robot *)
(* is moving into, unless a run may start before a stopped one has ended or *)
(* the worker has failed.                                                   *)
THEOREM IdxNeverAhead == "rerun" \notin Faults => (Spec => []RunIdxNeverAhead)
<1>. SUFFICES ASSUME "rerun" \notin Faults PROVE Spec => []RunIdxNeverAhead
  OBVIOUS
<1>1. Init => Solo /\ RunIdxNeverAhead
  BY DEF Init, Solo, RunIdxNeverAhead, Active
<1>2. IInv /\ Solo /\ RunIdxNeverAhead /\ [Next]_vars => (Solo /\ RunIdxNeverAhead)'
  BY SoloStep, RunIdxNeverAheadStep
<1>. QED
  BY <1>1, <1>2, Inductive, PTL DEF Spec

(* A run that was going when Stop was pressed begins no further motion, on  *)
(* the same condition.                                                      *)
THEOREM StopFinal == "rerun" \notin Faults => (Spec => StopIsFinal)
<1>. SUFFICES ASSUME "rerun" \notin Faults PROVE Spec => StopIsFinal
  OBVIOUS
<1>. DEFINE Final(r) == /\ worker[r] = "none" => worker'[r] = "none"
                        /\ moved'[r] = "busy" => moved[r] = "busy"
<1>1. Init => Solo /\ Untold
  BY DEF Init, Solo, Untold, Active
<1>2. IInv /\ Solo /\ Untold /\ [Next]_vars => (Solo /\ Untold)'
  BY SoloStep, UntoldStep
<1>3. ASSUME IInv, Untold, [Next]_vars, NEW r \in Run, stopped[r] PROVE Final(r)

  <2>1. CASE Start
    <3>1. r # runs + 1
      BY <1>3 DEF IInv, Numbered, SlotOK, Run
    <3>. QED
      BY <1>3, <2>1, <3>1 DEF Start, IInv, SlotOK, servo
  <2>2. CASE Stop
    BY <1>3, <2>2 DEF Stop, IInv, SlotOK, slot, modal, servo, stopIO
  <2>3. CASE Join
    BY <1>3, <2>3 DEF Join, IInv, SlotOK, slot, modal, servo, stopIO
  <2>4. CASE NewStream
    BY <1>3, <2>4 DEF NewStream, IInv, SlotOK, slot, modal, servo, stopIO
  <2>5. CASE Prefill
    BY <1>3, <2>5 DEF Prefill, Put, IInv, SlotOK, slot, modal, servo, stopIO
  <2>6. CASE Launch
    <3>1. main.run \in Run /\ Active(main.run) /\ ~abort
      BY <1>3, <2>6 DEF Launch, IInv, Placed, Aborting, Goal
    <3>2. r # main.run
      BY <1>3, <3>1 DEF Untold
    <3>. QED
      BY <1>3, <2>6, <3>2 DEF Launch, IInv, SlotOK, slot, modal, servo, stopIO
  <2>7. CASE RefillPut
    BY <1>3, <2>7 DEF RefillPut, Put, IInv, SlotOK, slot, modal, servo, stopIO
  <2>8. CASE RefillOver
    BY <1>3, <2>8 DEF RefillOver, IInv, SlotOK, slot, modal, servo, stopIO
  <2>9. CASE NotDone
    BY <1>3, <2>9 DEF NotDone, IInv, SlotOK, slot, modal, servo, stopIO
  <2>10. CASE Done
    BY <1>3, <2>10 DEF Done, IInv, SlotOK, slot, modal, servo, stopIO
  <2>11. CASE Return
    <3>1. main.run \in Run /\ Active(main.run) /\ ~abort
      BY <1>3, <2>11 DEF Return, IInv, Placed, Aborting, Goal
    <3>2. r # main.run
      BY <1>3, <3>1 DEF Untold
    <3>. QED
      BY <1>3, <2>11, <3>2 DEF Return, IInv, SlotOK, slot, modal, servo, stopIO
  <2>12. CASE Finish
    BY <1>3, <2>12 DEF Finish, IInv, SlotOK, slot, modal, servo, stopIO
  <2>13. ASSUME NEW q \in Run, Aborted(q) PROVE Final(r)
    BY <1>3, <2>13 DEF Aborted, Tick, Unchanged, IInv, SlotOK, slot, modal, servo, stopIO
  <2>14. ASSUME NEW q \in Run, FirstMoveOver(q) PROVE Final(r)
    BY <1>3, <2>14 DEF FirstMoveOver, Tick, Unchanged, IInv, SlotOK, slot, modal, servo, stopIO
  <2>15. ASSUME NEW q \in Run, ServoFailed(q) PROVE Final(r)
    BY <1>3, <2>15 DEF ServoFailed, Tick, Unchanged, IInv, SlotOK, slot, modal, servo, stopIO
  <2>16. ASSUME NEW q \in Run, Refill(q) PROVE Final(r)
    BY <1>3, <2>16 DEF Refill, StreamingTick, Tick, IInv, SlotOK, slot, modal, servo, stopIO
  <2>17. ASSUME NEW q \in Run, AllWritten(q) PROVE Final(r)
    BY <1>3, <2>17 DEF AllWritten, StreamingTick, Tick, IInv, SlotOK, slot, modal, servo, stopIO
  <2>18. ASSUME NEW q \in Run, ReturnOver(q) PROVE Final(r)
    BY <1>3, <2>18 DEF ReturnOver, Tick, Unchanged, IInv, SlotOK, slot, modal, servo, stopIO
  <2>19. ASSUME NEW q \in Run, MoveEnds(q) PROVE Final(r)
    BY <1>3, <2>19 DEF MoveEnds, IInv, SlotOK, slot, modal, servo, stopIO
  <2>20. ASSUME NEW q \in Run, WorkerLoop(q) PROVE Final(r)
    BY <1>3, <2>20 DEF WorkerLoop, Others, IInv, SlotOK, slot, modal, servo, stopIO
  <2>21. ASSUME NEW q \in Run, WorkerServo(q) PROVE Final(r)
    BY <1>3, <2>21 DEF WorkerServo, Others, IInv, SlotOK, slot, modal, servo, stopIO
  <2>22. ASSUME NEW j \in Job, JobAbort(j) PROVE Final(r)
    BY <1>3, <2>22 DEF JobAbort, IInv, SlotOK, slot, modal, servo, stopIO
  <2>23. ASSUME NEW j \in Job, JobJoin(j) PROVE Final(r)
    BY <1>3, <2>23 DEF JobJoin, IInv, SlotOK, slot, modal, servo, stopIO
  <2>24. ASSUME NEW j \in Job, JobForget(j) PROVE Final(r)
    BY <1>3, <2>24 DEF JobForget, IInv, SlotOK, slot, modal, servo, stopIO
  <2>25. CASE UNCHANGED vars
    BY <1>3, <2>25 DEF vars, IInv, SlotOK, slot, modal, servo, stopIO
  <2>. QED
    BY <1>3, <2>1, <2>2, <2>3, <2>4, <2>5, <2>6, <2>7, <2>8, <2>9, <2>10,
       <2>11, <2>12, <2>13, <2>14, <2>15, <2>16, <2>17, <2>18, <2>19, <2>20, <2>21, <2>22, <2>23, <2>24, <2>25
       DEF Next, RestOfTick, Modal, Worker, StopJob
<1>4. IInv /\ Untold /\ [Next]_vars => [\A r \in Run : stopped[r] => Final(r)]_vars
  BY <1>3
<1>. QED
  BY <1>1, <1>2, <1>4, Inductive, PTL DEF Spec, StopIsFinal

-----------------------------------------------------------------------------
(* Workers end within the join, and no run starts while a Stop job works.   *)

(* The driver knows the stream whose worker is running.                     *)
Linked == \A r \in Run : worker[r] \in {"loop", "servo"} => _servo_state = r

(* After its cleanup a tick finds no stream.                                *)
Cleaned ==
  /\ main.at \in {"start", "prefill", "return", "ok", "error"} => _servo_state = 0
  /\ main.at = "join" => _servo_state \in {0, main.old}

(* A Stop job is at work only while the flag is up; it forgets the stream it *)
(* has stopped, or none.                                                    *)
JobsLinked ==
  \A j \in Job :
    /\ job[j].pc \notin {"none", "ended"} => abort
    /\ job[j].pc \in {"join", "forget"} => job[j].old \in Run /\ _servo_state \in {0, job[j].old}
    /\ job[j].pc = "forget" => worker[job[j].old] = "ended"

Ended == \A r \in Run : phase[r] \in {"returning", "ok", "error"} => worker[r] \in {"none", "ended"}

WInv == Linked /\ Cleaned /\ JobsLinked /\ Ended

(* Every step keeps the running worker known.                               *)
LEMMA LinkedStep ==
  ASSUME IInv, Faults \cap {"slow", "late"} = {}, WInv, [Next]_vars
  PROVE  Linked'
<1>. USE DEF slot, modal, servo, stopIO
<1>1. CASE Start
  BY <1>1 DEF Start, Linked, WInv, IInv, SlotOK
<1>2. CASE Stop
  BY <1>2 DEF Stop, Linked, WInv, IInv, SlotOK
<1>3. CASE Join
  BY <1>3 DEF Join, Joined, Linked, WInv, Cleaned
<1>4. CASE NewStream
  BY <1>4 DEF NewStream, Linked, WInv, IInv, SlotOK
<1>5. CASE Prefill
  BY <1>5 DEF Prefill, Put, Linked, WInv, IInv, SlotOK
<1>6. CASE Launch
  <2>1. main.run \in Run /\ _servo_state = 0 /\ 0 \notin Run
    BY <1>6, UrConstants DEF Launch, WInv, Cleaned, IInv, Placed, Run
  <2>2. ASSUME NEW q \in Run PROVE worker[q] \notin {"loop", "servo"}
    BY <2>1 DEF WInv, Linked
  <2>. QED
    BY <1>6, <2>1, <2>2 DEF Launch, Linked, IInv, SlotOK
<1>7. CASE RefillPut
  BY <1>7 DEF RefillPut, Put, Linked, WInv, IInv, SlotOK
<1>8. CASE RefillOver
  BY <1>8 DEF RefillOver, Linked, WInv, IInv, SlotOK
<1>9. CASE NotDone
  BY <1>9 DEF NotDone, Linked, WInv, IInv, SlotOK
<1>10. CASE Done
  BY <1>10 DEF Done, Linked, WInv, IInv, SlotOK
<1>11. CASE Return
  BY <1>11 DEF Return, Linked, WInv, IInv, SlotOK
<1>12. CASE Finish
  BY <1>12 DEF Finish, Linked, WInv, IInv, SlotOK
<1>13. ASSUME NEW r \in Run, Aborted(r) PROVE Linked'
  BY <1>13 DEF Aborted, Tick, Unchanged, Linked, WInv, IInv, SlotOK
<1>14. ASSUME NEW r \in Run, FirstMoveOver(r) PROVE Linked'
  BY <1>14 DEF FirstMoveOver, Tick, Unchanged, Linked, WInv, IInv, SlotOK
<1>15. ASSUME NEW r \in Run, ServoFailed(r) PROVE Linked'
  BY <1>15 DEF ServoFailed, Tick, Unchanged, Linked, WInv, IInv, SlotOK
<1>16. ASSUME NEW r \in Run, Refill(r) PROVE Linked'
  BY <1>16 DEF Refill, StreamingTick, Tick, Linked, WInv, IInv, SlotOK
<1>17. ASSUME NEW r \in Run, AllWritten(r) PROVE Linked'
  BY <1>17 DEF AllWritten, StreamingTick, Tick, Linked, WInv, IInv, SlotOK
<1>18. ASSUME NEW r \in Run, ReturnOver(r) PROVE Linked'
  BY <1>18 DEF ReturnOver, Tick, Unchanged, Linked, WInv, IInv, SlotOK
<1>19. ASSUME NEW r \in Run, MoveEnds(r) PROVE Linked'
  BY <1>19 DEF MoveEnds, Linked, WInv, IInv, SlotOK
<1>20. ASSUME NEW r \in Run, WorkerLoop(r) PROVE Linked'
  BY <1>20 DEF WorkerLoop, Others, Linked, WInv, IInv, SlotOK
<1>21. ASSUME NEW r \in Run, WorkerServo(r) PROVE Linked'
  BY <1>21 DEF WorkerServo, Others, Linked, WInv, IInv, SlotOK
<1>22. ASSUME NEW j \in Job, JobAbort(j) PROVE Linked'
  BY <1>22 DEF JobAbort, Linked, WInv, IInv, SlotOK
<1>23. ASSUME NEW j \in Job, JobJoin(j) PROVE Linked'
  BY <1>23 DEF JobJoin, Linked, WInv, IInv, SlotOK
<1>24. ASSUME NEW j \in Job, JobForget(j) PROVE Linked'
  BY <1>24 DEF JobForget, Linked, WInv, JobsLinked
<1>25. CASE UNCHANGED vars
  BY <1>25 DEF vars, Linked, WInv, IInv, SlotOK
<1>. QED
  BY <1>1, <1>2, <1>3, <1>4, <1>5, <1>6, <1>7, <1>8, <1>9, <1>10, <1>11, <1>12, <1>13,
     <1>14, <1>15, <1>16, <1>17, <1>18, <1>19, <1>20, <1>21, <1>22, <1>23, <1>24, <1>25
     DEF Next, RestOfTick, Modal, Worker, StopJob

(* Every step keeps ticks cleaned up.                                       *)
LEMMA CleanedStep ==
  ASSUME IInv, Faults \cap {"slow", "late"} = {}, WInv, [Next]_vars
  PROVE  Cleaned'
<1>. USE DEF slot, modal, servo, stopIO
<1>1. CASE Start
  BY <1>1 DEF Start, Cleaned, WInv, IInv, MainOK, Free
<1>2. CASE Stop
  BY <1>2 DEF Stop, Cleaned, WInv, IInv, MainOK, Free
<1>3. CASE Join
  BY <1>3 DEF Join, Cleaned, WInv, IInv, MainOK, Free
<1>4. CASE NewStream
  BY <1>4 DEF NewStream, Cleaned, WInv, IInv, MainOK, Free
<1>5. CASE Prefill
  BY <1>5 DEF Prefill, Put, Cleaned, WInv, IInv, MainOK, Free
<1>6. CASE Launch
  BY <1>6 DEF Launch, Cleaned, WInv, IInv, MainOK, Free
<1>7. CASE RefillPut
  BY <1>7 DEF RefillPut, Put, Cleaned, WInv, IInv, MainOK, Free
<1>8. CASE RefillOver
  BY <1>8, CleanupEffect DEF RefillOver, IInv, Cleaned, Placed, Free
<1>9. CASE NotDone
  BY <1>9 DEF NotDone, Cleaned, WInv, IInv, MainOK, Free
<1>10. CASE Done
  BY <1>10, CleanupEffect DEF Done, IInv, Cleaned, Placed
<1>11. CASE Return
  BY <1>11 DEF Return, Cleaned, WInv, IInv, MainOK, Free
<1>12. CASE Finish
  BY <1>12 DEF Finish, Cleaned, WInv, IInv, MainOK, Free
<1>13. ASSUME NEW r \in Run, Aborted(r) PROVE Cleaned'
  BY <1>13, CleanupEffect DEF Aborted, Tick, Unchanged, IInv, Cleaned
<1>14. ASSUME NEW r \in Run, FirstMoveOver(r) PROVE Cleaned'
  BY <1>14, CleanupEffect DEF FirstMoveOver, Tick, Unchanged, IInv, Cleaned
<1>15. ASSUME NEW r \in Run, ServoFailed(r) PROVE Cleaned'
  BY <1>15, CleanupEffect DEF ServoFailed, Tick, Unchanged, IInv, Cleaned
<1>16. ASSUME NEW r \in Run, Refill(r) PROVE Cleaned'
  BY <1>16 DEF Refill, StreamingTick, Tick, Cleaned, WInv, IInv, MainOK, Free
<1>17. ASSUME NEW r \in Run, AllWritten(r) PROVE Cleaned'
  BY <1>17 DEF AllWritten, StreamingTick, Tick, Cleaned, WInv, IInv, MainOK, Free
<1>18. ASSUME NEW r \in Run, ReturnOver(r) PROVE Cleaned'
  BY <1>18, CleanupEffect DEF ReturnOver, Tick, Unchanged, IInv, Cleaned
<1>19. ASSUME NEW r \in Run, MoveEnds(r) PROVE Cleaned'
  BY <1>19 DEF MoveEnds, Cleaned, WInv, IInv, MainOK, Free
<1>20. ASSUME NEW r \in Run, WorkerLoop(r) PROVE Cleaned'
  BY <1>20 DEF WorkerLoop, Others, Cleaned, WInv, IInv, MainOK, Free
<1>21. ASSUME NEW r \in Run, WorkerServo(r) PROVE Cleaned'
  BY <1>21 DEF WorkerServo, Others, Cleaned, WInv, IInv, MainOK, Free
<1>22. ASSUME NEW j \in Job, JobAbort(j) PROVE Cleaned'
  BY <1>22 DEF JobAbort, Cleaned, WInv, IInv, MainOK, Free
<1>23. ASSUME NEW j \in Job, JobJoin(j) PROVE Cleaned'
  BY <1>23 DEF JobJoin, Cleaned, WInv, IInv, MainOK, Free
<1>24. ASSUME NEW j \in Job, JobForget(j) PROVE Cleaned'
  BY <1>24 DEF JobForget, Cleaned, WInv, IInv, MainOK, Free
<1>25. CASE UNCHANGED vars
  BY <1>25 DEF vars, Cleaned, WInv, IInv, MainOK, Free
<1>. QED
  BY <1>1, <1>2, <1>3, <1>4, <1>5, <1>6, <1>7, <1>8, <1>9, <1>10, <1>11, <1>12, <1>13,
     <1>14, <1>15, <1>16, <1>17, <1>18, <1>19, <1>20, <1>21, <1>22, <1>23, <1>24, <1>25
     DEF Next, RestOfTick, Modal, Worker, StopJob

(* Every step keeps Stop jobs with their stream.                            *)
LEMMA JobsLinkedStep ==
  ASSUME IInv, Faults \cap {"slow", "late"} = {}, WInv, [Next]_vars
  PROVE  JobsLinked'
<1>. USE DEF slot, modal, servo, stopIO
<1>1. CASE Start
  BY <1>1 DEF Start, JobsLinked, WInv, IInv, SlotOK, Job
<1>2. CASE Stop
  BY <1>2 DEF Stop, JobsLinked, WInv, IInv, SlotOK, Job
<1>3. CASE Join
  BY <1>3 DEF Join, JobsLinked, WInv, IInv, SlotOK, Job
<1>4. CASE NewStream
  BY <1>4 DEF NewStream, JobsLinked, WInv, IInv, SlotOK, Job
<1>5. CASE Prefill
  BY <1>5 DEF Prefill, Put, JobsLinked, WInv, IInv, SlotOK, Job
<1>6. CASE Launch
  BY <1>6 DEF Launch, JobsLinked, WInv, IInv, SlotOK, Aborting, Goal
<1>7. CASE RefillPut
  BY <1>7 DEF RefillPut, Put, JobsLinked, WInv, IInv, SlotOK, Job
<1>8. CASE RefillOver
  BY <1>8 DEF RefillOver, JobsLinked, WInv, IInv, SlotOK, Job
<1>9. CASE NotDone
  BY <1>9 DEF NotDone, JobsLinked, WInv, IInv, SlotOK, Job
<1>10. CASE Done
  BY <1>10 DEF Done, JobsLinked, WInv, IInv, SlotOK, Job
<1>11. CASE Return
  BY <1>11 DEF Return, JobsLinked, WInv, IInv, SlotOK, Job
<1>12. CASE Finish
  BY <1>12 DEF Finish, JobsLinked, WInv, IInv, SlotOK, Job
<1>13. ASSUME NEW r \in Run, Aborted(r) PROVE JobsLinked'
  BY <1>13 DEF Aborted, Tick, Unchanged, JobsLinked, WInv, IInv, SlotOK, Job
<1>14. ASSUME NEW r \in Run, FirstMoveOver(r) PROVE JobsLinked'
  BY <1>14 DEF FirstMoveOver, Tick, Unchanged, JobsLinked, WInv, IInv, SlotOK, Job
<1>15. ASSUME NEW r \in Run, ServoFailed(r) PROVE JobsLinked'
  BY <1>15 DEF ServoFailed, Tick, Unchanged, JobsLinked, WInv, IInv, SlotOK, Job
<1>16. ASSUME NEW r \in Run, Refill(r) PROVE JobsLinked'
  BY <1>16 DEF Refill, StreamingTick, Tick, JobsLinked, WInv, IInv, SlotOK, Job
<1>17. ASSUME NEW r \in Run, AllWritten(r) PROVE JobsLinked'
  BY <1>17 DEF AllWritten, StreamingTick, Tick, JobsLinked, WInv, IInv, SlotOK, Job
<1>18. ASSUME NEW r \in Run, ReturnOver(r) PROVE JobsLinked'
  BY <1>18 DEF ReturnOver, Tick, Unchanged, JobsLinked, WInv, IInv, SlotOK, Job
<1>19. ASSUME NEW r \in Run, MoveEnds(r) PROVE JobsLinked'
  BY <1>19 DEF MoveEnds, JobsLinked, WInv, IInv, SlotOK, Job
<1>20. ASSUME NEW r \in Run, WorkerLoop(r) PROVE JobsLinked'
  BY <1>20 DEF WorkerLoop, Others, JobsLinked, WInv, IInv, SlotOK, Job
<1>21. ASSUME NEW r \in Run, WorkerServo(r) PROVE JobsLinked'
  BY <1>21 DEF WorkerServo, Others, JobsLinked, WInv, IInv, SlotOK, Job
<1>22. ASSUME NEW j \in Job, JobAbort(j) PROVE JobsLinked'
  <2>1. \/ _servo_state = 0 /\ job' = [job EXCEPT ![j].pc = "ended"]
        \/ _servo_state # 0 /\ job' = [job EXCEPT ![j] = [pc |-> "join", old |-> _servo_state]]
    BY <1>22 DEF JobAbort
  <2>2. _servo_state # 0 => _servo_state \in Run
    BY UrConstants DEF IInv, SlotOK, Run
  <2>3. UNCHANGED <<abort, worker, _servo_state>> /\ abort
    BY <1>22 DEF JobAbort, WInv, JobsLinked
  <2>. QED
    BY <2>1, <2>2, <2>3 DEF JobsLinked, WInv, IInv, SlotOK
<1>23. ASSUME NEW j \in Job, JobJoin(j) PROVE JobsLinked'
  BY <1>23 DEF JobJoin, Joined, JobsLinked, WInv, IInv, SlotOK
<1>24. ASSUME NEW j \in Job, JobForget(j) PROVE JobsLinked'
  BY <1>24 DEF JobForget, JobsLinked, WInv, IInv, SlotOK, Job
<1>25. CASE UNCHANGED vars
  BY <1>25 DEF vars, JobsLinked, WInv, IInv, SlotOK, Job
<1>. QED
  BY <1>1, <1>2, <1>3, <1>4, <1>5, <1>6, <1>7, <1>8, <1>9, <1>10, <1>11, <1>12, <1>13,
     <1>14, <1>15, <1>16, <1>17, <1>18, <1>19, <1>20, <1>21, <1>22, <1>23, <1>24, <1>25
     DEF Next, RestOfTick, Modal, Worker, StopJob

(* Every step keeps workers of runs that are over ended.                    *)
LEMMA EndedStep ==
  ASSUME IInv, Faults \cap {"slow", "late"} = {}, WInv, [Next]_vars
  PROVE  Ended'
<1>. USE DEF slot, modal, servo, stopIO
<1>1. CASE Start
  BY <1>1 DEF Start, Ended, WInv, IInv, SlotOK
<1>2. CASE Stop
  BY <1>2 DEF Stop, Ended, WInv, IInv, SlotOK
<1>3. CASE Join
  BY <1>3 DEF Join, Ended, WInv, IInv, SlotOK
<1>4. CASE NewStream
  BY <1>4 DEF NewStream, Ended, WInv, IInv, SlotOK
<1>5. CASE Prefill
  BY <1>5 DEF Prefill, Put, Ended, WInv, IInv, SlotOK
<1>6. CASE Launch
  BY <1>6 DEF Launch, Ended, WInv, IInv, SlotOK, Placed, Goal, Active
<1>7. CASE RefillPut
  BY <1>7 DEF RefillPut, Put, Ended, WInv, IInv, SlotOK
<1>8. CASE RefillOver
  BY <1>8 DEF RefillOver, Ended, WInv, IInv, SlotOK
<1>9. CASE NotDone
  BY <1>9 DEF NotDone, Ended, WInv, IInv, SlotOK
<1>10. CASE Done
  BY <1>10 DEF Done, Ended, WInv, IInv, SlotOK
<1>11. CASE Return
  BY <1>11 DEF Return, Ended, WInv, Linked, Cleaned, IInv, SlotOK, Run
<1>12. CASE Finish
  BY <1>12 DEF Finish, Ended, WInv, Linked, Cleaned, IInv, SlotOK, Run
<1>13. ASSUME NEW r \in Run, Aborted(r) PROVE Ended'
  BY <1>13 DEF Aborted, Tick, Unchanged, Ended, WInv, IInv, SlotOK
<1>14. ASSUME NEW r \in Run, FirstMoveOver(r) PROVE Ended'
  BY <1>14 DEF FirstMoveOver, Tick, Unchanged, Ended, WInv, IInv, SlotOK
<1>15. ASSUME NEW r \in Run, ServoFailed(r) PROVE Ended'
  BY <1>15 DEF ServoFailed, Tick, Unchanged, Ended, WInv, IInv, SlotOK
<1>16. ASSUME NEW r \in Run, Refill(r) PROVE Ended'
  BY <1>16 DEF Refill, StreamingTick, Tick, Ended, WInv, IInv, SlotOK
<1>17. ASSUME NEW r \in Run, AllWritten(r) PROVE Ended'
  BY <1>17 DEF AllWritten, StreamingTick, Tick, Ended, WInv, IInv, SlotOK
<1>18. ASSUME NEW r \in Run, ReturnOver(r) PROVE Ended'
  BY <1>18 DEF ReturnOver, Tick, Unchanged, Ended, WInv, IInv, SlotOK
<1>19. ASSUME NEW r \in Run, MoveEnds(r) PROVE Ended'
  BY <1>19 DEF MoveEnds, Ended, WInv, IInv, SlotOK
<1>20. ASSUME NEW r \in Run, WorkerLoop(r) PROVE Ended'
  BY <1>20 DEF WorkerLoop, Others, Ended, WInv, IInv, SlotOK
<1>21. ASSUME NEW r \in Run, WorkerServo(r) PROVE Ended'
  BY <1>21 DEF WorkerServo, Others, Ended, WInv, IInv, SlotOK
<1>22. ASSUME NEW j \in Job, JobAbort(j) PROVE Ended'
  BY <1>22 DEF JobAbort, Ended, WInv, IInv, SlotOK
<1>23. ASSUME NEW j \in Job, JobJoin(j) PROVE Ended'
  BY <1>23 DEF JobJoin, Ended, WInv, IInv, SlotOK
<1>24. ASSUME NEW j \in Job, JobForget(j) PROVE Ended'
  BY <1>24 DEF JobForget, Ended, WInv, IInv, SlotOK
<1>25. CASE UNCHANGED vars
  BY <1>25 DEF vars, Ended, WInv, IInv, SlotOK
<1>. QED
  BY <1>1, <1>2, <1>3, <1>4, <1>5, <1>6, <1>7, <1>8, <1>9, <1>10, <1>11, <1>12, <1>13,
     <1>14, <1>15, <1>16, <1>17, <1>18, <1>19, <1>20, <1>21, <1>22, <1>23, <1>24, <1>25
     DEF Next, RestOfTick, Modal, Worker, StopJob

(* A run that is over has left no worker that goes on commanding the robot, *)
(* and no two workers ever do, as long as workers end within the join and   *)
(* no run starts while the job of an earlier Stop is at work.               *)
THEOREM OverStopped == Faults \cap {"slow", "late"} = {} => (Spec => []OverMeansStopped)
<1>. SUFFICES ASSUME Faults \cap {"slow", "late"} = {} PROVE Spec => []OverMeansStopped
  OBVIOUS
<1>1. Init => WInv
  BY DEF Init, WInv, Linked, Cleaned, JobsLinked, Ended, Free
<1>2. IInv /\ WInv /\ [Next]_vars => WInv'
  BY LinkedStep, CleanedStep, JobsLinkedStep, EndedStep DEF WInv
<1>3. WInv => OverMeansStopped
  <2>. SUFFICES ASSUME WInv PROVE OverMeansStopped
    OBVIOUS
  <2>. DEFINE running == {r \in Run : worker[r] \in {"loop", "servo"}}
  <2>1. running \subseteq {_servo_state}
    BY DEF WInv, Linked
  <2>2. IsFiniteSet({_servo_state}) /\ Cardinality({_servo_state}) = 1
    BY FS_Singleton
  <2>3. Cardinality(running) <= 1
    BY <2>1, <2>2, FS_Subset
  <2>. QED
    BY <2>3 DEF OverMeansStopped, WInv, Ended
<1>. QED
  BY <1>1, <1>2, <1>3, Inductive, PTL DEF Spec

-----------------------------------------------------------------------------
(* Refinement: the latest run is the one whose stream counts.               *)

Latest == \A r \in Run : Active(r) => r = runs

(* A stream is opened by the run that is at work, before its phase says so. *)
Opening ==
  /\ \A r \in Run :
       /\ st[r].total > 0 => r <= runs /\ phase[r] # "none"
       /\ st[r].total > 0 /\ phase[r] = "move_to_first" => main.at = "prefill"
  /\ \E c \in Nat : /\ \A r \in Opened : r <= c
                    /\ Opened # {} => c \in Opened


(* No total is changed, but by the stream that is opened.                   *)
SameTotals == \A q \in Run : st'[q].total = st[q].total

LEMMA TotalsEffect ==
  ASSUME IInv, [Next]_vars, ~NewStream
  PROVE  SameTotals
<1>. USE DEF IInv, slot, modal, servo, stopIO, SameTotals
<1>1. CASE Start \/ Stop \/ Join \/ Launch \/ NotDone \/ Return \/ Finish
  BY <1>1 DEF Start, Stop, Join, Launch, NotDone, Return, Finish
<1>2. CASE Prefill \/ RefillPut
  BY <1>2, PutEffect DEF Prefill, RefillPut, Placed
<1>3. CASE RefillOver \/ Done
  BY <1>3, CleanupEffect DEF RefillOver, Done, Placed, SameCounts
<1>4. ASSUME NEW r \in Run, Modal(r) PROVE SameTotals
  BY <1>4, CleanupEffect DEF Modal, Aborted, FirstMoveOver, ServoFailed, Refill, AllWritten,
     ReturnOver, StreamingTick, SameCounts
<1>5. ASSUME NEW r \in Run, MoveEnds(r) PROVE SameTotals
  BY <1>5 DEF MoveEnds
<1>6. ASSUME NEW r \in Run, Worker(r) PROVE SameTotals
  <2>1. \/ UNCHANGED st
        \/ \E n : st' = [st EXCEPT ![r].popped = n]
        \/ st' = [st EXCEPT ![r].completed = st[r].popped]
        \/ st' = [st EXCEPT ![r].error = TRUE]
    BY <1>6 DEF Worker, WorkerLoop, WorkerServo
  <2>2. st \in [Run -> Streams]
    BY DEF StreamsOK
  <2>. QED
    BY <2>1, <2>2 DEF Streams
<1>7. ASSUME NEW j \in Job, StopJob(j) PROVE SameTotals
  BY <1>7, JobEffect DEF StopJob, JobJoin, JobForget, SameCounts
<1>8. CASE UNCHANGED vars
  BY <1>8 DEF vars
<1>. QED
  BY <1>1, <1>2, <1>3, <1>4, <1>5, <1>6, <1>7, <1>8 DEF Next, RestOfTick

(* Every step but the start of a run keeps its number, and no phase is      *)
(* entered but by an active run.                                            *)
LEMMA PhaseEffect ==
  ASSUME IInv, [Next]_vars, ~Start
  PROVE  /\ runs' = runs
         /\ \A q \in Run : \/ phase'[q] = phase[q]
                           \/ q = main.run /\ Active(q) /\ phase'[q] \notin {"none", "move_to_first"}
<1>. USE DEF slot, modal, servo, stopIO
<1>1. ASSUME Stop \/ Join \/ NewStream \/ Prefill \/ RefillPut \/ RefillOver \/ NotDone \/ Done
      PROVE  UNCHANGED <<runs, phase>>
  BY <1>1 DEF Stop, Join, NewStream, Prefill, RefillPut, RefillOver, NotDone, Done
<1>2. ASSUME Launch \/ Return \/ Finish
      PROVE  /\ runs' = runs /\ main.run \in Run /\ Active(main.run)
             /\ \E to \in {"streaming", "returning", "ok", "error"} :
                  phase' = [phase EXCEPT ![main.run] = to]
  BY <1>2 DEF Launch, Return, Finish, IInv, Placed
<1>3. ASSUME NEW r \in Run, Modal(r) PROVE UNCHANGED <<runs, phase>>
  BY <1>3 DEF Modal, Aborted, FirstMoveOver, ServoFailed, Refill, AllWritten,
     ReturnOver, StreamingTick, Unchanged
<1>4. ASSUME NEW r \in Run, MoveEnds(r) \/ Worker(r) PROVE UNCHANGED <<runs, phase>>
  BY <1>4 DEF MoveEnds, Worker, WorkerLoop, WorkerServo, Others
<1>5. ASSUME NEW j \in Job, StopJob(j) PROVE UNCHANGED <<runs, phase>>
  BY <1>5 DEF StopJob, JobAbort, JobJoin, JobForget
<1>6. vars' = vars => UNCHANGED <<runs, phase>>
  BY DEF vars
<1>7. \/ UNCHANGED <<runs, phase>>
      \/ Launch \/ Return \/ Finish
  BY <1>1, <1>3, <1>4, <1>5, <1>6 DEF Next, RestOfTick
<1>8. phase \in [Run -> {"none", "move_to_first", "streaming", "returning", "ok", "error"}]
  BY DEF IInv, SlotOK
<1>9. CASE UNCHANGED <<runs, phase>>
  BY <1>9
<1>10. CASE Launch \/ Return \/ Finish
  <2>1. PICK to \in {"streaming", "returning", "ok", "error"} : phase' = [phase EXCEPT ![main.run] = to]
    BY <1>2, <1>10
  <2>. QED
    BY <1>2, <1>8, <1>10, <2>1
<1>. QED
  BY <1>7, <1>9, <1>10

LEMMA LatestStep ==
  ASSUME IInv, "rerun" \notin Faults, Latest, [Next]_vars
  PROVE  Latest'
<1>1. CASE Start
  BY <1>1 DEF Start, Latest, Active, IInv, SlotOK, Run
<1>2. CASE ~Start
  BY <1>2, PhaseEffect DEF Latest, Active
<1>. QED
  BY <1>1, <1>2

LEMMA OpeningStep ==
  ASSUME IInv, Latest, Opening, [Next]_vars
  PROVE  Opening'
<1>1. CASE NewStream
  <2>. DEFINE r == main.run
  <2>1. r \in Run /\ r = runs /\ phase[r] = "move_to_first" /\ main'.at = "prefill"
    BY <1>1, NewStreamEffect DEF Latest, Active, IInv, NewStream, MainOK
  <2>2. PICK n \in Totals : st' = [st EXCEPT ![r] = [NoStream EXCEPT !.total = n]]
    BY <1>1 DEF NewStream
  <2>3. st'[r].total > 0 /\ \A q \in Run \ {r} : st'[q] = st[q]
    BY <2>1, <2>2, UrConstants DEF IInv, StreamsOK, NoStream
  <2>4. UNCHANGED <<phase, runs>>
    BY <1>1 DEF NewStream, modal
  <2>5. Opened' = Opened \cup {r}
    BY <2>1, <2>3 DEF Opened
  <2>6. \A q \in Opened : q <= r
    BY <2>1 DEF Opening, Opened
  <2>7. r \in Nat /\ \A q \in Opened' : q <= r
    BY <2>1, <2>5, <2>6 DEF Run
  <2>8. ASSUME NEW q \in Run, st'[q].total > 0
        PROVE  q <= runs' /\ phase'[q] # "none" /\ main'.at = "prefill"
    BY <2>1, <2>3, <2>4, <2>8 DEF Opening, Run
  <2>. QED
    BY <2>5, <2>7, <2>8 DEF Opening
<1>2. CASE ~NewStream
  <2>1. SameTotals /\ Opened' = Opened
    BY <1>2, TotalsEffect DEF SameTotals, Opened
  <2>2. ASSUME NEW q \in Run, st'[q].total > 0
        PROVE  q <= runs' /\ phase'[q] # "none"
    <3>1. st[q].total > 0 /\ q <= runs /\ phase[q] # "none"
      BY <2>1, <2>2 DEF SameTotals, Opening
    <3>2. CASE Start
      <4>1. runs' = runs + 1 /\ q # runs + 1 /\ phase'[q] = phase[q]
        BY <3>1, <3>2 DEF Start, IInv, SlotOK, Run
      <4>. QED
        BY <3>1, <4>1 DEF IInv, SlotOK, Run
    <3>3. CASE ~Start
      BY <3>1, <3>3, PhaseEffect
    <3>. QED
      BY <3>2, <3>3
  <2>3. ASSUME NEW q \in Run, st'[q].total > 0, phase'[q] = "move_to_first"
        PROVE  main'.at = "prefill"
    <3>1. st[q].total > 0 /\ q <= runs
      BY <2>1, <2>3 DEF SameTotals, Opening
    <3>2. phase[q] = "move_to_first"
      <4>1. CASE Start
        BY <2>3, <3>1, <4>1 DEF Start, IInv, SlotOK, Run
      <4>2. CASE ~Start
        BY <2>3, <4>2, PhaseEffect
      <4>. QED
        BY <4>1, <4>2
    <3>3. main.at = "prefill" /\ main.run = q
      <4>1. main.at = "prefill" /\ Active(main.run) /\ main.run \in Run
        BY <3>1, <3>2 DEF Opening, IInv, Placed
      <4>. QED
        BY <3>2, <4>1 DEF Latest, Active
    <3>4. \/ UNCHANGED main
          \/ Launch
      <4>1. main # Free
        BY <3>3 DEF Free
      <4>. QED
        BY <1>2, <3>3, <4>1 DEF Next, RestOfTick, Start, Stop, Join, Prefill, RefillPut, RefillOver,
           NotDone, Done, Return, Finish, Modal, Aborted, FirstMoveOver, ServoFailed, Refill,
           AllWritten, ReturnOver, StreamingTick, Tick, MoveEnds, Worker, WorkerLoop,
           WorkerServo, Others, StopJob, JobAbort, JobJoin, JobForget, vars
    <3>5. ~Launch
      BY <2>3, <3>3 DEF Launch, IInv, SlotOK
    <3>. QED
      BY <3>3, <3>4, <3>5
  <2>. QED
    BY <2>1, <2>2, <2>3 DEF Opening
<1>. QED
  BY <1>1, <1>2

(* What the status of a path is, for the run that streams it.               *)
StatusOf(r) ==
  IF phase[r] \in {"returning", "ok"} /\ ~st[r].error THEN "complete"
  ELSE IF phase[r] \notin {"returning", "ok", "error"} THEN "open"
  ELSE IF st[r].completed = st[r].total THEN "complete" ELSE "aborted"

LEMMA LargestUnique ==
  ASSUME NEW S \in SUBSET Nat, NEW c \in S, \A q \in S : q <= c
  PROVE  (CHOOSE r \in S : \A q \in S : q <= r) = c
<1>1. ASSUME NEW d \in S, \A q \in S : q <= d PROVE d = c
  BY <1>1
<1>. QED
  BY <1>1

(* The current stream is one that was opened.                               *)
LEMMA CurOpened ==
  ASSUME Opening, Opened # {}
  PROVE  Cur \in Opened /\ Cur \in Run
<1>1. PICK c \in Opened : \A r \in Opened : r <= c
  BY DEF Opening
<1>2. Opened \in SUBSET Nat /\ Opened \subseteq Run
  BY DEF Opened, Run
<1>3. Cur = c
  BY <1>1, <1>2, LargestUnique DEF Cur
<1>. QED
  BY <1>2, <1>3

(* It is the one of the run at work, if that has opened one.                *)
LEMMA CurActive ==
  ASSUME Latest, Opening, NEW r \in Opened, Active(r)
  PROVE  Cur = r
<1>1. Opened \in SUBSET Nat /\ r \in Run
  BY DEF Opened, Run
<1>2. \A q \in Opened : q <= r
  BY <1>1 DEF Latest, Opening, Opened
<1>. QED
  BY <1>1, <1>2, LargestUnique DEF Cur

LEMMA SameOpened ==
  ASSUME SameTotals
  PROVE  Opened' = Opened /\ Cur' = Cur
<1>1. Opened' = Opened
  BY DEF SameTotals, Opened
<1>. QED
  BY <1>1 DEF Cur

(* What PathDelivery sees does not change, if the current stream does not.  *)
LEMMA SameView ==
  ASSUME Opening, SameTotals,
         \A q \in Opened : q = Cur =>
           st'[q].written = st[q].written /\ st'[q].completed = st[q].completed
           /\ StatusOf(q)' = StatusOf(q)
  PROVE  UNCHANGED Delivery!vars
<1>1. Opened' = Opened /\ Cur' = Cur
  BY SameOpened
<1>2. CASE Opened = {}
  BY <1>1, <1>2 DEF Delivery!vars, Of, Status
<1>3. CASE Opened # {}
  <2>1. Cur \in Opened /\ Cur \in Run
    BY <1>3, CurOpened
  <2>2. st'[Cur].total = st[Cur].total
    BY <2>1 DEF SameTotals
  <2>3. st'[Cur].written = st[Cur].written /\ st'[Cur].completed = st[Cur].completed
        /\ StatusOf(Cur)' = StatusOf(Cur)
    BY <1>1, <2>1
  <2>4. Status = StatusOf(Cur) /\ Status' = StatusOf(Cur)'
    BY <1>1, <1>3 DEF Status, StatusOf
  <2>. QED
    BY <1>1, <1>3, <2>2, <2>3, <2>4 DEF Delivery!vars, Of
<1>. QED
  BY <1>2, <1>3

(* A waypoint is sent.                                                      *)
LEMMA PutSends ==
  ASSUME IInv, Latest, Opening, Prefill \/ RefillPut
  PROVE  Delivery!Send
<1>. DEFINE r == main.run
<1>1. /\ r \in Run /\ Active(r) /\ phase[r] \in {"move_to_first", "streaming"}
      /\ st[r].written < st[r].total /\ Put(r)
      /\ st[r].written < Ring \/ InQueue(r) < QueueMax
      /\ UNCHANGED phase
  BY DEF Prefill, RefillPut, IInv, Placed, Goal, modal
<1>2. /\ st[r] \in Streams /\ st[r].popped - st[r].completed \in 0..1
      /\ st[r].written \in Nat /\ st[r].completed \in Nat /\ st[r].total \in Nat /\ st[r].popped \in Nat
      /\ InQueue(r) = st[r].written - st[r].popped
  BY <1>1 DEF IInv, StreamsOK, Streams, InQueue
<1>3. r \in Opened /\ Cur = r
  BY <1>1, <1>2, CurActive DEF Opened
<1>4. /\ st'[r].total = st[r].total /\ st'[r].completed = st[r].completed
      /\ st'[r].written = st[r].written + 1 /\ SameTotals
  BY <1>1, PutEffect DEF IInv, SameTotals
<1>5. Opened' = Opened /\ Cur' = r
  BY <1>3, <1>4, SameOpened
<1>6. Status = "open" /\ Status' = "open"
  BY <1>1, <1>3, <1>5 DEF Status
<1>7. st[r].written - st[r].completed < QueueMax + 1
  BY <1>1, <1>2, UrConstants DEF QueueMax
<1>. QED
  BY <1>1, <1>3, <1>4, <1>5, <1>6, <1>7 DEF Delivery!Send, Of

(* A path is opened.                                                        *)
LEMMA NewStreamOpens ==
  ASSUME IInv, Latest, Opening, NewStream
  PROVE  Delivery!Open
<1>. DEFINE r == main.run
<1>1. r \in Run /\ r = runs /\ phase[r] = "move_to_first" /\ Active(r) /\ main.at = "start"
      /\ UNCHANGED phase
  BY NewStreamEffect DEF Latest, Active, IInv, NewStream, modal
<1>2. PICK n \in Totals : st' = [st EXCEPT ![r] = [NoStream EXCEPT !.total = n]]
  BY DEF NewStream
<1>3. /\ st'[r].total = n /\ st'[r].written = 0 /\ st'[r].completed = 0 /\ n \in Nat \ {0}
      /\ \A q \in Run \ {r} : st'[q] = st[q]
  BY <1>1, <1>2, UrConstants DEF IInv, StreamsOK, NoStream
<1>4. r \notin Opened /\ \A q \in Opened : q <= r
  BY <1>1 DEF Opening, Opened
<1>5. Opened' = Opened \cup {r}
  BY <1>1, <1>3 DEF Opened
<1>6. Opened' \in SUBSET Nat /\ r \in Opened' /\ \A q \in Opened' : q <= r
  BY <1>1, <1>4, <1>5 DEF Opened, Run
<1>7. Cur' = r
  BY <1>6, LargestUnique DEF Cur
<1>8. Status # "open"
  <2>1. CASE Opened = {}
    BY <2>1 DEF Status
  <2>2. CASE Opened # {}
    <3>1. Cur \in Opened /\ Cur \in Run /\ Cur # r
      BY <1>4, <2>2, CurOpened
    <3>2. phase[Cur] \in {"ok", "error"}
      BY <1>1, <3>1 DEF Latest, Active, Opening, Opened, IInv, SlotOK
    <3>. QED
      BY <2>2, <3>2 DEF Status
  <2>. QED
    BY <2>1, <2>2
<1>9. Status' = "open"
  BY <1>1, <1>6, <1>7 DEF Status
<1>. QED
  BY <1>3, <1>6, <1>7, <1>8, <1>9 DEF Delivery!Open, Of

(* A path is completed or given up when its run leaves the phase it is      *)
(* streamed in.                                                             *)
LEMMA LeavingEnds ==
  ASSUME IInv, Latest, Opening, Return \/ Finish
  PROVE  [Delivery!Next]_(Delivery!vars)
<1>0. PICK r \in Run : r = main.run
  BY DEF Return, Finish, IInv, Placed
<1>1. /\ r \in Run /\ Active(r) /\ UNCHANGED st
      /\ \/ phase' = [phase EXCEPT ![r] = "returning"] /\ phase[r] = "streaming" /\ Executed(r)
         \/ phase' = [phase EXCEPT ![r] = "ok"] /\ phase[r] = "returning"
         \/ phase' = [phase EXCEPT ![r] = "error"]
  BY <1>0 DEF Return, Finish, IInv, Placed, Goal, servo
<1>2. /\ SameTotals
      /\ \A q \in Run \ {r} : phase'[q] = phase[q]
      /\ st \in [Run -> Streams]
  BY <1>1 DEF SameTotals, IInv, SlotOK, StreamsOK
<1>3. CASE r \notin Opened \/ StatusOf(r)' = StatusOf(r)
  <2>1. ASSUME NEW q \in Opened PROVE StatusOf(q)' = StatusOf(q)
    <3>1. CASE q = r
      BY <1>3, <3>1
    <3>2. CASE q # r
      BY <1>1, <1>2, <3>2 DEF StatusOf, Opened
    <3>. QED
      BY <3>1, <3>2
  <2>. QED
    BY <1>1, <1>2, <2>1, SameView
<1>4. CASE r \in Opened /\ StatusOf(r)' # StatusOf(r)
  <2>1. Cur = r /\ Opened' = Opened /\ Cur' = r
    BY <1>1, <1>2, <1>4, CurActive, SameOpened
  <2>2. Status = StatusOf(r) /\ Status' = StatusOf(r)'
    BY <1>4, <2>1 DEF Status, StatusOf
  <2>3. phase'[r] \in {"returning", "ok", "error"}
    BY <1>1 DEF IInv, SlotOK
  <2>4. StatusOf(r) = "open"
    <3>1. CASE phase[r] = "returning"
      BY <1>1, <1>4, <3>1 DEF StatusOf, IInv, SlotOK, DoneMeansExecuted
    <3>2. CASE phase[r] # "returning"
      BY <1>1, <3>2 DEF Active, StatusOf
    <3>. QED
      BY <3>1, <3>2
  <2>5. \/ StatusOf(r)' = "complete" /\ st[r].completed = st[r].total
        \/ StatusOf(r)' = "aborted"
    BY <1>1, <2>3, <2>4 DEF StatusOf, Executed, IInv, SlotOK
  <2>6. Of(st[Cur].total)' = Of(st[Cur].total) /\ Of(st[Cur].written)' = Of(st[Cur].written)
        /\ Of(st[Cur].completed)' = Of(st[Cur].completed)
    BY <1>1, <2>1 DEF Of
  <2>7. st[r].completed \in Nat /\ st[r].total \in Nat
    BY <1>1, <1>2 DEF Streams
  <2>8. CASE StatusOf(r)' = "complete" /\ st[r].completed = st[r].total
    <3>1. Of(st[Cur].completed) + 0 >= Of(st[Cur].total)
      BY <1>4, <2>1, <2>7, <2>8 DEF Of
    <3>. QED
      BY <2>2, <2>4, <2>6, <2>8, <3>1 DEF Delivery!Next, Delivery!Complete
  <2>9. CASE StatusOf(r)' = "aborted"
    BY <2>2, <2>4, <2>6, <2>9 DEF Delivery!Next, Delivery!Abort
  <2>. QED
    BY <2>5, <2>8, <2>9
<1>. QED
  BY <1>3, <1>4

(* The worker completes a waypoint, or fails.                               *)
LEMMA ServoPlans ==
  ASSUME IInv, Latest, Opening, Ended, NEW r \in Run, WorkerServo(r)
  PROVE  [Delivery!Next]_(Delivery!vars)
<1>1. /\ UNCHANGED phase /\ phase[r] \notin {"returning", "ok", "error"}
      /\ \/ st' = [st EXCEPT ![r].completed = st[r].popped]
         \/ st' = [st EXCEPT ![r].error = TRUE]
  BY DEF WorkerServo, Others, modal, Ended
<1>2. /\ st \in [Run -> Streams] /\ st[r].popped - st[r].completed \in 0..1
      /\ st[r].written - st[r].popped >= 0
  BY UrConstants DEF IInv, StreamsOK, InQueue, QueueMax
<1>3. /\ SameTotals
      /\ \A q \in Run : st'[q].written = st[q].written
      /\ \A q \in Run \ {r} : st'[q] = st[q]
  BY <1>1, <1>2 DEF SameTotals, Streams
<1>4. \A q \in Run : StatusOf(q)' = StatusOf(q)
  BY <1>1, <1>3 DEF StatusOf
<1>5. CASE st'[r].completed = st[r].completed \/ r \notin Opened \/ r # Cur
  BY <1>3, <1>4, <1>5, SameView DEF Opened
<1>6. CASE st'[r].completed # st[r].completed /\ r \in Opened /\ r = Cur
  <2>1. st'[r].completed = st[r].completed + 1 /\ st[r].completed < st[r].written
    BY <1>1, <1>2, <1>6 DEF Streams
  <2>2. Opened' = Opened /\ Cur' = r
    BY <1>3, <1>6, SameOpened
  <2>3. Status' = Status
    BY <1>4, <1>6, <2>2 DEF Status, StatusOf
  <2>. QED
    BY <1>3, <1>6, <2>1, <2>2, <2>3 DEF Of, SameTotals, Delivery!Next, Delivery!Plan
<1>. QED
  BY <1>5, <1>6

(* Every step is one of PathDelivery or leaves it where it is.              *)
LEMMA StepRefines ==
  ASSUME IInv, Latest, Opening, Ended, [Next]_vars
  PROVE  [Delivery!Next]_(Delivery!vars)
<1>. DEFINE Seen(q) == st'[q].written = st[q].written /\ st'[q].completed = st[q].completed
                       /\ StatusOf(q)' = StatusOf(q)
<1>. USE DEF slot, modal, servo, stopIO
<1>1. CASE NewStream
  BY <1>1, NewStreamOpens DEF Delivery!Next
<1>2. CASE Prefill \/ RefillPut
  BY <1>2, PutSends DEF Delivery!Next
<1>3. CASE Return \/ Finish
  BY <1>3, LeavingEnds
<1>4. ASSUME NEW r \in Run, WorkerServo(r) PROVE [Delivery!Next]_(Delivery!vars)
  BY <1>4, ServoPlans
<1>5. ASSUME \A q \in Run : Seen(q), ~NewStream PROVE UNCHANGED Delivery!vars
  BY <1>5, TotalsEffect, SameView DEF Opened
<1>6. ASSUME Start, NEW q \in Run PROVE Seen(q)
  BY <1>6 DEF Start, IInv, SlotOK, Numbered, StatusOf
<1>7. ASSUME Stop \/ Join \/ NotDone, NEW q \in Run PROVE Seen(q)
  BY <1>7 DEF Stop, Join, NotDone, StatusOf
<1>8. ASSUME Launch, NEW q \in Run PROVE Seen(q)
  BY <1>8 DEF Launch, StatusOf, IInv, Placed, Goal, SlotOK
<1>9. ASSUME RefillOver \/ Done, NEW q \in Run PROVE Seen(q)
  <2>1. SameCounts /\ SameErrors /\ UNCHANGED phase
    BY <1>9, CleanupEffect DEF RefillOver, Done, IInv, Placed, SameCounts, SameErrors
  <2>. QED
    BY <2>1 DEF SameCounts, SameErrors, StatusOf
<1>10. ASSUME NEW r \in Run, Modal(r), NEW q \in Run PROVE Seen(q)
  <2>1. SameCounts /\ SameErrors /\ UNCHANGED phase
    BY <1>10, CleanupEffect DEF Modal, Aborted, FirstMoveOver, ServoFailed, Refill, AllWritten,
       ReturnOver, StreamingTick, Unchanged, IInv, SameCounts, SameErrors
  <2>. QED
    BY <2>1 DEF SameCounts, SameErrors, StatusOf
<1>11. ASSUME NEW r \in Run, MoveEnds(r), NEW q \in Run PROVE Seen(q)
  BY <1>11 DEF MoveEnds, StatusOf
<1>12. ASSUME NEW r \in Run, WorkerLoop(r), NEW q \in Run PROVE Seen(q)
  <2>1. st' = st \/ \E n : st' = [st EXCEPT ![r].popped = n]
    BY <1>12 DEF WorkerLoop
  <2>2. UNCHANGED phase /\ st \in [Run -> Streams]
    BY <1>12 DEF WorkerLoop, Others, IInv, StreamsOK
  <2>. QED
    BY <2>1, <2>2 DEF StatusOf, Streams
<1>13. ASSUME NEW j \in Job, StopJob(j), NEW q \in Run PROVE Seen(q)
  <2>1. UNCHANGED phase
    BY <1>13 DEF StopJob, JobAbort, JobJoin, JobForget
  <2>2. SameCounts /\ (st[q].error => st'[q].error) /\ st'[q].error \in BOOLEAN
    BY <1>13, JobEffect DEF StopJob, JobJoin, JobForget, SameCounts, IInv, StreamsOK, Streams
  <2>. QED
    BY <2>1, <2>2 DEF SameCounts, StatusOf, IInv, DoneMeansExecuted
<1>14. ASSUME UNCHANGED vars, NEW q \in Run PROVE Seen(q)
  BY <1>14 DEF vars, StatusOf
<1>15. Start \/ Stop \/ Join \/ NotDone \/ Launch \/ RefillOver \/ Done
       \/ (\E r \in Run : Modal(r) \/ MoveEnds(r) \/ WorkerLoop(r))
       \/ (\E j \in Job : StopJob(j)) \/ UNCHANGED vars
         => \A q \in Run : Seen(q)
  BY <1>6, <1>7, <1>8, <1>9, <1>10, <1>11, <1>12, <1>13, <1>14
<1>. HIDE DEF Seen
<1>. QED
  BY <1>1, <1>2, <1>3, <1>4, <1>5, <1>15 DEF Next, RestOfTick, Worker

(* The servo stream delivers a path as PathDelivery promises, with nothing  *)
(* dropped: in order, exactly once, at most the queue and one waypoint with *)
(* the worker ahead, and complete only when all of it was executed - as     *)
(* long as workers end within the join and no run starts before the Stop    *)
(* before it is through.                                                    *)
THEOREM Refinement ==
  Faults \cap {"slow", "late", "rerun"} = {} => (Spec => ImplementsPathDelivery)
<1>. SUFFICES ASSUME Faults \cap {"slow", "late", "rerun"} = {}
              PROVE  Spec => ImplementsPathDelivery
  OBVIOUS
<1>1. Init => Latest /\ Opening /\ WInv
  <2>. SUFFICES ASSUME Init PROVE Latest /\ Opening /\ WInv
    OBVIOUS
  <2>1. Opened = {} /\ \A r \in Run : st[r].total = 0
    BY DEF Init, Opened, NoStream
  <2>. QED
    BY <2>1 DEF Init, Latest, Active, Opening, WInv, Linked, Cleaned, JobsLinked, Ended, Free
<1>2. IInv /\ WInv /\ Latest /\ Opening /\ [Next]_vars => (WInv /\ Latest /\ Opening)'
  BY LinkedStep, CleanedStep, JobsLinkedStep, EndedStep, LatestStep, OpeningStep DEF WInv
<1>3. Init => Delivery!Init
  <2>. SUFFICES ASSUME Init PROVE Delivery!Init
    OBVIOUS
  <2>1. Opened = {}
    BY DEF Init, Opened, NoStream
  <2>. QED
    BY <2>1 DEF Delivery!Init, Of, Status
<1>4. IInv /\ WInv /\ Latest /\ Opening /\ [Next]_vars => [Delivery!Next]_(Delivery!vars)
  BY StepRefines DEF WInv
<1>. QED
  BY <1>1, <1>2, <1>3, <1>4, Inductive, PTL DEF Spec, ImplementsPathDelivery, Delivery!Spec
=============================================================================

---------------------------- MODULE PathJobProofs ---------------------------
(* Theorems about PathJob, for every length of the path and any number of   *)
(* runs, stops and other buttons pressed.                                  *)
EXTENDS PathJob, TLAPS

-----------------------------------------------------------------------------
(* Type correctness, in parts.                                              *)
Jobs == [at : {"none", "call", "wait", "again", "done"}, call : 1..Calls, error : BOOLEAN]

SlotOK ==
  /\ abort \in BOOLEAN /\ busy \in BOOLEAN /\ puppet \in BOOLEAN /\ freedrive \in BOOLEAN
  /\ ready \in BOOLEAN

RobotOK ==
  /\ robot \in Robots /\ mode \in {"position", "servo", "teach"} /\ executing \in 0..MaxRuns
  /\ disturbed \subseteq {"raced", "reenabled", "failed", "taught"}

RunsOK ==
  /\ runs \in 0..MaxRuns /\ modal \in [Run -> {"none", "waiting", "ok", "error"}]
  /\ halted \subseteq Run /\ short \subseteq Run

StopOK ==
  /\ stops \in 0..MaxStops
  /\ stopper \in [Stopper -> {"none", "motion", "program", "check", "ended"}]
  /\ others \in 0..MaxOthers

JobsOK == job \in [Run -> Jobs]

LEMMA TypeParts == TypeOK <=> SlotOK /\ RobotOK /\ RunsOK /\ StopOK /\ JobsOK
  BY Zenon DEF TypeOK, SlotOK, RobotOK, RunsOK, StopOK, JobsOK, Jobs

LEMMA Bounds == MaxRuns \in Nat /\ MaxStops \in Nat /\ MaxOthers \in Nat
  BY JobConstants

LEMMA CallsType == Calls \in Nat /\ Calls >= 1
  BY JobConstants DEF Calls

(* What a step of a thread does to its job.                                 *)
Only(r) == \A q \in Run \ {r} : job'[q] = job[q]

LEMMA FailsEffect ==
  ASSUME JobsOK, NEW r \in Run, Fails(r), UNCHANGED robot
  PROVE  /\ JobsOK' /\ Only(r)
         /\ job'[r].at = "done" /\ job'[r].error = TRUE
<1>1. job' = [job EXCEPT ![r] = [job[r] EXCEPT !.at = "done", !.error = TRUE]]
  BY DEF Fails, JobsOK, Jobs
<1>2. [job[r] EXCEPT !.at = "done", !.error = TRUE] \in Jobs
  BY DEF JobsOK, Jobs
<1>3. Jobs' = Jobs
  BY DEF Jobs, Calls
<1>. QED
  BY <1>1, <1>2, <1>3 DEF JobsOK, Only, Jobs

LEMMA CommandsEffect ==
  ASSUME JobsOK, NEW r \in Run, NEW at \in {"wait", "again"}, Commands(r, at), UNCHANGED robot
  PROVE  /\ JobsOK' /\ Only(r)
         /\ job'[r].at = at /\ job'[r].error = job[r].error
         /\ ready' = TRUE /\ executing' = r /\ mode' = mode
<1>1. job' = [job EXCEPT ![r] = [job[r] EXCEPT !.at = at]]
  BY DEF Commands, JobsOK, Jobs
<1>2. [job[r] EXCEPT !.at = at] \in Jobs
  BY DEF JobsOK, Jobs
<1>3. Jobs' = Jobs
  BY DEF Jobs, Calls
<1>4. ready' = TRUE /\ executing' = r /\ mode' = mode
  BY DEF Commands
<1>. QED
  BY <1>1, <1>2, <1>3, <1>4 DEF JobsOK, Only, Jobs

LEMMA ReturnsEffect ==
  ASSUME JobsOK, NEW r \in Run, Returns(r), UNCHANGED robot
  PROVE  /\ JobsOK' /\ Only(r)
         /\ job'[r].error = job[r].error
         /\ \/ job'[r].at = "call"
            \/ job'[r].at = "done" /\ job'[r].call = Calls
<1>. DEFINE j == job[r]
            next == IF j.call < Calls THEN [j EXCEPT !.at = "call", !.call = j.call + 1]
                    ELSE [j EXCEPT !.at = "done"]
<1>1. job' = [job EXCEPT ![r] = next]
  BY Zenon DEF Returns
<1>2. j \in Jobs /\ j.call \in 1..Calls
  BY DEF JobsOK, Jobs
<1>3. /\ next \in Jobs /\ next.error = j.error
      /\ \/ next.at = "call"
         \/ next.at = "done" /\ next.call = Calls
  <2>1. CASE j.call < Calls
    <3>1. j.call + 1 \in 1..Calls
      BY <1>2, <2>1, CallsType
    <3>2. next = [j EXCEPT !.at = "call", !.call = j.call + 1]
      BY <2>1
    <3>. QED
      BY ONLY <1>2, <3>1, <3>2 DEF Jobs
  <2>2. CASE ~(j.call < Calls)
    <3>1. next = [j EXCEPT !.at = "done"]
      BY <2>2
    <3>2. j.call = Calls
      BY <1>2, <2>2, CallsType
    <3>. QED
      BY ONLY <1>2, <3>1, <3>2 DEF Jobs
  <2>. QED
    BY <2>1, <2>2
<1>5. Jobs' = Jobs
  BY DEF Jobs, Calls
<1>6. job'[r] = next
  BY <1>1 DEF JobsOK
<1>. HIDE DEF next
<1>. QED
  BY <1>1, <1>3, <1>5, <1>6 DEF JobsOK, Only

(* A thread's step is one of three.                                         *)
Moved(r) ==
  /\ job[r].at \in {"wait", "again"} /\ (robot = "XARM" => ready)
  /\ short' = (IF executing = r THEN short ELSE short \cup {r})
  /\ executing' = (IF executing = r THEN 0 ELSE executing)
  /\ UNCHANGED <<ready, mode>>

LEMMA ThreadCases ==
  ASSUME NEW r \in Run, Job(r)
  PROVE  /\ Working(r) /\ Thread
         /\ \/ Fails(r) /\ UNCHANGED <<ready, mode, executing, short>>
            \/ /\ Commands(r, "wait") \/ Commands(r, "again")
               /\ robot = "XARM" => ready
               /\ UNCHANGED short
            \/ Returns(r) /\ Moved(r)
<1>1. CASE CallXArm(r)
  BY <1>1 DEF CallXArm, Working, arm
<1>2. CASE WaitXArm(r)
  BY <1>2 DEF WaitXArm, Working, Moved
<1>3. CASE CallUr(r)
  BY <1>3 DEF CallUr, Working, arm
<1>4. CASE WaitUr(r)
  BY <1>4 DEF WaitUr, MoveLReturns, MoveLRaises, Working, Moved, arm
<1>. QED
  BY <1>1, <1>2, <1>3, <1>4 DEF Job

(* ... after which its job, and the robot, are as follows.                  *)
JobAfter(r) ==
  /\ job'[r].at # "none"
  /\ job'[r].at # "done" => job'[r].error = job[r].error
  /\ job'[r].at = "done" => \/ job'[r].error = TRUE
                            \/ job'[r].error = job[r].error /\ job'[r].call = Calls

RobotAfter(r) ==
  /\ short' \subseteq short \cup {r} /\ short \subseteq short'
  /\ r \in short' /\ r \notin short =>
       executing # r /\ job[r].at \in {"wait", "again"} /\ (robot = "XARM" => ready)
  /\ executing' \in {executing, r} \/ (executing = r /\ executing' = 0)
  /\ robot = "XARM" => ready' = ready
  /\ robot = "XARM" /\ executing' = r => executing = r \/ ready
  /\ job'[r].at \in {"wait", "again"} => executing' = r
  /\ mode' = mode

LEMMA ThreadEffect ==
  ASSUME TypeOK, NEW r \in Run, Job(r)
  PROVE  /\ JobsOK' /\ Only(r) /\ Working(r) /\ Thread
         /\ JobAfter(r) /\ RobotAfter(r)
<1>1. JobsOK /\ SlotOK /\ RunsOK
  BY TypeParts
<1>2. Thread /\ Working(r)
  BY ThreadCases
<1>3. UNCHANGED robot
  BY <1>2 DEF Thread
<1>4. CASE Fails(r) /\ UNCHANGED <<ready, mode, executing, short>>
  <2>1. JobsOK' /\ Only(r) /\ job'[r].at = "done" /\ job'[r].error = TRUE
    BY <1>1, <1>3, <1>4, FailsEffect
  <2>2. JobAfter(r)
    BY ONLY <2>1, Zenon DEF JobAfter
  <2>3. RobotAfter(r)
    BY ONLY <2>1, <1>4, Zenon DEF RobotAfter
  <2>. QED
    BY <1>2, <2>1, <2>2, <2>3
<1>5. ASSUME NEW at \in {"wait", "again"}, Commands(r, at), robot = "XARM" => ready, UNCHANGED short
      PROVE  JobsOK' /\ Only(r) /\ JobAfter(r) /\ RobotAfter(r)
  <2>1. /\ JobsOK' /\ Only(r) /\ job'[r].at = at /\ job'[r].error = job[r].error
        /\ ready' = TRUE /\ executing' = r /\ mode' = mode
    BY <1>1, <1>3, <1>5, CommandsEffect
  <2>2. JobAfter(r)
    BY ONLY <2>1, <1>5 DEF JobAfter
  <2>3. robot = "XARM" => ready' = ready
    BY <1>1, <1>5, <2>1 DEF SlotOK
  <2>4. RobotAfter(r)
    BY ONLY <2>1, <2>3, <1>5, Zenon DEF RobotAfter
  <2>. QED
    BY <2>1, <2>2, <2>4
<1>6. CASE Returns(r) /\ Moved(r)
  <2>1. /\ JobsOK' /\ Only(r) /\ job'[r].error = job[r].error
        /\ \/ job'[r].at = "call"
           \/ job'[r].at = "done" /\ job'[r].call = Calls
    BY <1>1, <1>3, <1>6, ReturnsEffect
  <2>2. JobAfter(r)
    BY ONLY <2>1 DEF JobAfter
  <2>3. RobotAfter(r)
    BY ONLY <1>6, <2>1 DEF RobotAfter, Moved
  <2>. QED
    BY <1>2, <2>1, <2>2, <2>3
<1>. QED
  BY <1>2, <1>4, <1>5, <1>6, ThreadCases

-----------------------------------------------------------------------------
LEMMA TypeInit == Init => TypeOK
<1>. SUFFICES ASSUME Init PROVE TypeOK
  OBVIOUS
<1>1. SlotOK
  BY DEF Init, SlotOK
<1>2. RobotOK /\ RunsOK /\ StopOK
  BY Bounds DEF Init, RobotOK, RunsOK, StopOK
<1>3. JobsOK
  BY CallsType DEF Init, JobsOK, Jobs
<1>. QED
  BY <1>1, <1>2, <1>3, TypeParts

LEMMA SlotStep ==
  ASSUME TypeOK, [Next]_vars
  PROVE  SlotOK'
<1>. USE TypeParts DEF SlotOK
<1>1. CASE RunToolpath
  BY <1>1 DEF RunToolpath, slot, run, arm, stopIO, past
<1>2. CASE Stop
  BY <1>2 DEF Stop, slot, run, arm, stopIO, past
<1>3. CASE PuppetStart
  BY <1>3 DEF PuppetStart, Pressed, slot, run, arm, stopIO, past
<1>4. CASE PuppetStop
  BY <1>4 DEF PuppetStop, Pressed, slot, run, arm, stopIO, past
<1>5. CASE TeachMode
  BY <1>5 DEF TeachMode, Pressed, slot, run, arm, stopIO, past
<1>6. CASE Reset
  BY <1>6 DEF Reset, Pressed, slot, run, arm, stopIO, past
<1>7. ASSUME NEW r \in Run, Tick(r) PROVE SlotOK'
  BY <1>7 DEF Tick, CleanUp, slot, run, arm, stopIO, past
<1>8. ASSUME NEW r \in Run, Job(r) PROVE SlotOK'
  <2>1. Thread /\ JobsOK'
    BY <1>8, ThreadEffect
  <2>2. ready' \in BOOLEAN
    <3>1. CASE Fails(r) /\ UNCHANGED <<ready, mode, executing, short>>
      BY <3>1
    <3>2. CASE Commands(r, "wait") \/ Commands(r, "again")
      BY <3>2 DEF Commands
    <3>3. CASE Moved(r)
      BY <3>3 DEF Moved
    <3>. QED
      BY <1>8, <3>1, <3>2, <3>3, ThreadCases
  <2>. QED
    BY <2>1, <2>2 DEF Thread, slot
<1>9. ASSUME NEW s \in Stopper, StopMotionUr(s) PROVE SlotOK'
  BY <1>9 DEF StopMotionUr, StopperAt, slot, run, arm, stopIO, past
<1>10. ASSUME NEW s \in Stopper, StopProgramUr(s) PROVE SlotOK'
  BY <1>10 DEF StopProgramUr, StopperAt, slot, run, arm, stopIO, past
<1>11. ASSUME NEW s \in Stopper, StopXArm(s) PROVE SlotOK'
  BY <1>11 DEF StopXArm, StopperAt, slot, run, arm, stopIO, past
<1>12. ASSUME NEW s \in Stopper, StopXArmChecks(s) PROVE SlotOK'
  BY <1>12 DEF StopXArmChecks, StopperAt, slot, run, arm, stopIO, past
<1>13. CASE UNCHANGED vars
  BY <1>13 DEF vars, slot, run, arm, stopIO, past
<1>. QED
  BY <1>1, <1>2, <1>3, <1>4, <1>5, <1>6, <1>7, <1>8, <1>9, <1>10, <1>11, <1>12, <1>13
     DEF Next, Other, StopJob

LEMMA RobotStep ==
  ASSUME TypeOK, [Next]_vars
  PROVE  RobotOK'
<1>. USE TypeParts, Bounds DEF RobotOK, Run
<1>1. CASE RunToolpath
  BY <1>1 DEF RunToolpath, slot, run, arm, stopIO, past
<1>2. CASE Stop
  BY <1>2 DEF Stop, slot, run, arm, stopIO, past
<1>3. CASE PuppetStart
  BY <1>3 DEF PuppetStart, Pressed, slot, run, arm, stopIO, past, Enabling
<1>4. CASE PuppetStop
  BY <1>4 DEF PuppetStop, Pressed, slot, run, arm, stopIO, past, Enabling
<1>5. CASE TeachMode
  BY <1>5 DEF TeachMode, Pressed, slot, run, arm, stopIO, past, Enabling
<1>6. CASE Reset
  BY <1>6 DEF Reset, Pressed, slot, run, arm, stopIO, past, Enabling
<1>7. ASSUME NEW r \in Run, Tick(r) PROVE RobotOK'
  BY <1>7 DEF Tick, CleanUp, slot, run, arm, stopIO, past
<1>8. ASSUME NEW r \in Run, Job(r) PROVE RobotOK'
  <2>1. Thread /\ RobotAfter(r)
    BY <1>8, ThreadEffect
  <2>2. executing' \in 0..MaxRuns
    BY <1>8, <2>1 DEF RobotAfter
  <2>3. mode' = mode
    BY <2>1 DEF RobotAfter
  <2>. QED
    BY <2>1, <2>2, <2>3 DEF Thread
<1>9. ASSUME NEW s \in Stopper, StopMotionUr(s) PROVE RobotOK'
  BY <1>9 DEF StopMotionUr, StopperAt, slot, run, arm, stopIO, past
<1>10. ASSUME NEW s \in Stopper, StopProgramUr(s) PROVE RobotOK'
  BY <1>10 DEF StopProgramUr, StopperAt, slot, run, arm, stopIO, past
<1>11. ASSUME NEW s \in Stopper, StopXArm(s) PROVE RobotOK'
  BY <1>11 DEF StopXArm, StopperAt, slot, run, arm, stopIO, past
<1>12. ASSUME NEW s \in Stopper, StopXArmChecks(s) PROVE RobotOK'
  BY <1>12 DEF StopXArmChecks, StopperAt, slot, run, arm, stopIO, past
<1>13. CASE UNCHANGED vars
  BY <1>13 DEF vars, slot, run, arm, stopIO, past
<1>. QED
  BY <1>1, <1>2, <1>3, <1>4, <1>5, <1>6, <1>7, <1>8, <1>9, <1>10, <1>11, <1>12, <1>13
     DEF Next, Other, StopJob

LEMMA RunsStep ==
  ASSUME TypeOK, [Next]_vars
  PROVE  RunsOK'
<1>. USE TypeParts, Bounds DEF RunsOK, Run
<1>1. CASE RunToolpath
  BY <1>1 DEF RunToolpath, slot, run, arm, stopIO, past
<1>2. CASE Stop
  BY <1>2 DEF Stop, slot, run, arm, stopIO, past
<1>3. CASE PuppetStart
  BY <1>3 DEF PuppetStart, Pressed, slot, run, arm, stopIO, past
<1>4. CASE PuppetStop
  BY <1>4 DEF PuppetStop, Pressed, slot, run, arm, stopIO, past
<1>5. CASE TeachMode
  BY <1>5 DEF TeachMode, Pressed, slot, run, arm, stopIO, past
<1>6. CASE Reset
  BY <1>6 DEF Reset, Pressed, slot, run, arm, stopIO, past
<1>7. ASSUME NEW r \in Run, Tick(r) PROVE RunsOK'
  BY <1>7 DEF Tick, CleanUp, slot, run, arm, stopIO, past
<1>8. ASSUME NEW r \in Run, Job(r) PROVE RunsOK'
  <2>1. Thread /\ RobotAfter(r)
    BY <1>8, ThreadEffect
  <2>2. short' \subseteq Run
    BY <1>8, <2>1 DEF RobotAfter
  <2>. QED
    BY <2>1, <2>2 DEF Thread
<1>9. ASSUME NEW s \in Stopper, StopMotionUr(s) PROVE RunsOK'
  BY <1>9 DEF StopMotionUr, StopperAt, slot, run, arm, stopIO, past
<1>10. ASSUME NEW s \in Stopper, StopProgramUr(s) PROVE RunsOK'
  BY <1>10 DEF StopProgramUr, StopperAt, slot, run, arm, stopIO, past
<1>11. ASSUME NEW s \in Stopper, StopXArm(s) PROVE RunsOK'
  BY <1>11 DEF StopXArm, StopperAt, slot, run, arm, stopIO, past
<1>12. ASSUME NEW s \in Stopper, StopXArmChecks(s) PROVE RunsOK'
  BY <1>12 DEF StopXArmChecks, StopperAt, slot, run, arm, stopIO, past
<1>13. CASE UNCHANGED vars
  BY <1>13 DEF vars, slot, run, arm, stopIO, past
<1>. QED
  BY <1>1, <1>2, <1>3, <1>4, <1>5, <1>6, <1>7, <1>8, <1>9, <1>10, <1>11, <1>12, <1>13
     DEF Next, Other, StopJob

LEMMA StopStep ==
  ASSUME TypeOK, [Next]_vars
  PROVE  StopOK'
<1>. USE TypeParts, Bounds DEF StopOK, Stopper
<1>1. CASE RunToolpath
  BY <1>1 DEF RunToolpath, slot, run, arm, stopIO, past
<1>2. CASE Stop
  BY <1>2 DEF Stop, slot, run, arm, stopIO, past
<1>3. CASE PuppetStart
  BY <1>3 DEF PuppetStart, Pressed, slot, run, arm, stopIO, past
<1>4. CASE PuppetStop
  BY <1>4 DEF PuppetStop, Pressed, slot, run, arm, stopIO, past
<1>5. CASE TeachMode
  BY <1>5 DEF TeachMode, Pressed, slot, run, arm, stopIO, past
<1>6. CASE Reset
  BY <1>6 DEF Reset, Pressed, slot, run, arm, stopIO, past
<1>7. ASSUME NEW r \in Run, Tick(r) PROVE StopOK'
  BY <1>7 DEF Tick, CleanUp, slot, run, arm, stopIO, past
<1>8. ASSUME NEW r \in Run, Job(r) PROVE StopOK'
  <2>1. Thread
    BY <1>8, ThreadEffect
  <2>. QED
    BY <2>1 DEF Thread, stopIO
<1>9. ASSUME NEW s \in Stopper, StopMotionUr(s) PROVE StopOK'
  BY <1>9 DEF StopMotionUr, StopperAt, slot, run, arm, stopIO, past
<1>10. ASSUME NEW s \in Stopper, StopProgramUr(s) PROVE StopOK'
  BY <1>10 DEF StopProgramUr, StopperAt, slot, run, arm, stopIO, past
<1>11. ASSUME NEW s \in Stopper, StopXArm(s) PROVE StopOK'
  BY <1>11 DEF StopXArm, StopperAt, slot, run, arm, stopIO, past
<1>12. ASSUME NEW s \in Stopper, StopXArmChecks(s) PROVE StopOK'
  BY <1>12 DEF StopXArmChecks, StopperAt, slot, run, arm, stopIO, past
<1>13. CASE UNCHANGED vars
  BY <1>13 DEF vars, slot, run, arm, stopIO, past
<1>. QED
  BY <1>1, <1>2, <1>3, <1>4, <1>5, <1>6, <1>7, <1>8, <1>9, <1>10, <1>11, <1>12, <1>13
     DEF Next, Other, StopJob

LEMMA JobsSame ==
  ASSUME JobsOK, UNCHANGED <<robot, job>>
  PROVE  JobsOK'
  BY DEF JobsOK, Jobs, Calls

LEMMA JobsStep ==
  ASSUME TypeOK, [Next]_vars
  PROVE  JobsOK'
<1>. USE TypeParts
<1>1. CASE RunToolpath
  <2>. DEFINE new == [at |-> "call", call |-> 1, error |-> FALSE]
  <2>1. new \in Jobs
    BY CallsType DEF Jobs
  <2>2. Jobs' = Jobs
    BY <1>1 DEF RunToolpath, Jobs, Calls
  <2>3. job' = [job EXCEPT ![runs + 1] = new]
    BY <1>1 DEF RunToolpath
  <2>. QED
    BY ONLY JobsOK, <2>1, <2>2, <2>3 DEF JobsOK
<1>2. CASE Stop
  BY <1>2, JobsSame DEF Stop, slot, run, arm, stopIO, past
<1>3. CASE PuppetStart
  BY <1>3, JobsSame DEF PuppetStart, Pressed, slot, run, arm, stopIO, past
<1>4. CASE PuppetStop
  BY <1>4, JobsSame DEF PuppetStop, Pressed, slot, run, arm, stopIO, past
<1>5. CASE TeachMode
  BY <1>5, JobsSame DEF TeachMode, Pressed, slot, run, arm, stopIO, past
<1>6. CASE Reset
  BY <1>6, JobsSame DEF Reset, Pressed, slot, run, arm, stopIO, past
<1>7. ASSUME NEW r \in Run, Tick(r) PROVE JobsOK'
  BY <1>7, JobsSame DEF Tick, CleanUp, slot, run, arm, stopIO, past
<1>8. ASSUME NEW r \in Run, Job(r) PROVE JobsOK'
  BY <1>8, ThreadEffect
<1>9. ASSUME NEW s \in Stopper, StopMotionUr(s) PROVE JobsOK'
  BY <1>9, JobsSame DEF StopMotionUr, StopperAt, slot, run, arm, stopIO, past
<1>10. ASSUME NEW s \in Stopper, StopProgramUr(s) PROVE JobsOK'
  BY <1>10, JobsSame DEF StopProgramUr, StopperAt, slot, run, arm, stopIO, past
<1>11. ASSUME NEW s \in Stopper, StopXArm(s) PROVE JobsOK'
  BY <1>11, JobsSame DEF StopXArm, StopperAt, slot, run, arm, stopIO, past
<1>12. ASSUME NEW s \in Stopper, StopXArmChecks(s) PROVE JobsOK'
  BY <1>12, JobsSame DEF StopXArmChecks, StopperAt, slot, run, arm, stopIO, past
<1>13. CASE UNCHANGED vars
  BY <1>13, JobsSame DEF vars, slot, run, arm, stopIO, past
<1>. QED
  BY <1>1, <1>2, <1>3, <1>4, <1>5, <1>6, <1>7, <1>8, <1>9, <1>10, <1>11, <1>12, <1>13
     DEF Next, Other, StopJob

LEMMA TypeStep ==
  ASSUME TypeOK, [Next]_vars
  PROVE  TypeOK'
<1>1. SlotOK' /\ RobotOK' /\ RunsOK' /\ StopOK' /\ JobsOK'
  BY SlotStep, RobotStep, RunsStep, StopStep, JobsStep
<1>. QED
  BY ONLY <1>1, Zenon DEF TypeOK, SlotOK, RobotOK, RunsOK, StopOK, JobsOK, Jobs

(* Every variable of the slot, the runs, their threads, the robot and the   *)
(* Stop threads keeps its type.                                             *)
THEOREM TypeCorrect == Spec => []TypeOK
  BY TypeInit, TypeStep, PTL DEF Spec

-----------------------------------------------------------------------------
(* The inductive invariant.                                                *)

(* Nothing is known of a run before it begins.                              *)
Fresh ==
  \A r \in Run : r > runs => /\ modal[r] = "none" /\ job[r].at = "none"
                             /\ r \notin halted /\ r \notin short

(* A thread that ends without an error has made all its calls, and a modal  *)
(* reports success only after it.                                           *)
Ended ==
  \A r \in Run : /\ job[r].error = TRUE => job[r].at = "done"
                 /\ job[r].at = "done" /\ job[r].error = FALSE => job[r].call = Calls
                 /\ modal[r] = "ok" => job[r].at = "done" /\ job[r].error = FALSE

(* Unless a run began too soon, one modal waits, one thread works, and a    *)
(* Stop at work keeps its flag.                                             *)
Stopping(s) == stopper[s] \notin {"none", "ended"}

Alone ==
  "raced" \notin disturbed =>
    /\ \A r, q \in Run : modal[r] = "waiting" /\ modal[q] = "waiting" => r = q
    /\ \A r, q \in Run : Working(r) /\ Working(q) => r = q
    /\ \A s \in Stopper : Stopping(s) => abort

(* A move that is not the one being executed is one that Stop has ended.    *)
Given(r) == modal[r] # "ok" /\ (modal[r] = "waiting" => abort)

Whole ==
  disturbed \cap {"raced", "reenabled"} = {} =>
    \A r \in Run :
      /\ job[r].at \in {"wait", "again"} /\ executing # r =>
           Given(r) \/ (robot = "XARM" /\ ~ready)
      /\ r \in short => Given(r)

(* A thread that has been halted on an xArm finds the arm stopped.          *)
Halted ==
  robot = "XARM" /\ "reenabled" \notin disturbed =>
    \A r \in halted : Working(r) => ~ready

(* An arm that takes commands in servo mode is in the hands of Puppet Mode, *)
(* or of the Stop that ended it, and no thread of a run is at work.         *)
Puppeteer ==
  /\ robot # "XARM" => mode # "servo"
  /\ disturbed \cap {"failed", "reenabled", "raced"} = {} /\ mode = "servo" /\ ready =>
       /\ puppet \/ \E s \in Stopper : Stopping(s)
       /\ \A r \in Run : ~Working(r)

IInv == TypeOK /\ Fresh /\ Ended /\ Alone /\ BusyTruthful /\ Whole /\ Halted /\ Puppeteer

(* The invariant speaks of a thread as working or not: what a step of one   *)
(* does to the others, and a beginning run to them.                         *)
LEMMA OthersWork ==
  ASSUME TypeOK, NEW r \in Run, Job(r)
  PROVE  /\ Working(r)
         /\ \A q \in Run \ {r} : (Working(q)' <=> Working(q)) /\ job'[q] = job[q]
  BY ThreadEffect DEF Only, Working

RunAfter(n) ==
  /\ n \in Run /\ ~Working(n)
  /\ job'[n] = [at |-> "call", call |-> 1, error |-> FALSE]
  /\ modal'[n] = "waiting" /\ runs' = runs + 1
  /\ \A q \in Run \ {n} : /\ modal'[q] = modal[q]
                           /\ job'[q] = job[q]
  /\ abort' = FALSE /\ ~busy /\ ~puppet /\ busy' = TRUE
  /\ "raced" \notin disturbed' => ~TooSoon /\ disturbed' = disturbed
  /\ disturbed \subseteq disturbed' /\ disturbed' \subseteq disturbed \cup {"raced"}
  /\ UNCHANGED <<robot, puppet, freedrive, arm, stopIO, others, halted, short>>

LEMMA RunEffect ==
  ASSUME TypeOK, Fresh, RunToolpath, NEW n, n = runs + 1
  PROVE  RunAfter(n)
<1>. USE DEF RunAfter
<1>1. n \in Run
  BY TypeParts, Bounds DEF RunToolpath, RunsOK, Run
<1>2. job' = [job EXCEPT ![n] = [at |-> "call", call |-> 1, error |-> FALSE]]
  BY DEF RunToolpath
<1>3. modal' = [modal EXCEPT ![n] = "waiting"]
  BY DEF RunToolpath
<1>4. job[n].at = "none"
  BY <1>1, TypeParts, Bounds DEF Fresh, RunsOK, Run
<1>5. /\ job'[n] = [at |-> "call", call |-> 1, error |-> FALSE]
      /\ modal'[n] = "waiting"
      /\ \A q \in Run \ {n} : modal'[q] = modal[q] /\ job'[q] = job[q]
  BY <1>1, <1>2, <1>3, TypeParts DEF JobsOK, RunsOK
<1>6. ~Working(n)
  BY <1>4 DEF Working
<1>8. /\ abort' = FALSE /\ ~busy /\ ~puppet /\ busy' = TRUE /\ runs' = runs + 1
      /\ UNCHANGED <<robot, puppet, freedrive, arm, stopIO, others, halted, short>>
  BY DEF RunToolpath
<1>9. /\ "raced" \notin disturbed' => ~TooSoon /\ disturbed' = disturbed
      /\ disturbed \subseteq disturbed' /\ disturbed' \subseteq disturbed \cup {"raced"}
  BY DEF RunToolpath
<1>. QED
  BY <1>1, <1>5, <1>6, <1>8, <1>9

LEMMA FreshStep ==
  ASSUME TypeOK, Fresh, [Next]_vars
  PROVE  Fresh'
<1>. USE TypeParts, Bounds DEF RunsOK, JobsOK, Fresh, Run
<1>1. CASE RunToolpath
  <2>0. PICK n : n = runs + 1
    OBVIOUS
  <2>9. RunAfter(n)
    BY <1>1, <2>0, RunEffect
  <2>7. \A q \in Run \ {n} : modal'[q] = modal[q] /\ job'[q] = job[q]
    BY ONLY <2>9 DEF RunAfter
  <2>8. /\ n \in Run /\ job'[n].at = "call" /\ job'[n].error = FALSE /\ modal'[n] = "waiting"
        /\ robot' = robot /\ stopper' = stopper /\ halted' = halted /\ short' = short
    BY ONLY <2>9 DEF RunAfter, stopIO
  <2>. SUFFICES ASSUME NEW q \in Run, q > runs'
                PROVE  /\ modal'[q] = "none" /\ job'[q].at = "none"
                       /\ q \notin halted' /\ q \notin short'
    OBVIOUS
  <2>1. runs' = runs + 1
    BY <1>1 DEF RunToolpath
  <2>2. q > runs /\ q # runs + 1
    BY <2>1
  <2>. QED
    BY ONLY <2>0, <2>2, <2>7, <2>8, Fresh DEF Fresh
<1>2. CASE Stop
  BY <1>2 DEF Stop, slot, run, arm, stopIO, past
<1>3. CASE PuppetStart
  BY <1>3 DEF PuppetStart, Pressed, slot, run, arm, stopIO, past
<1>4. CASE PuppetStop
  BY <1>4 DEF PuppetStop, Pressed, slot, run, arm, stopIO, past
<1>5. CASE TeachMode
  BY <1>5 DEF TeachMode, Pressed, slot, run, arm, stopIO, past
<1>6. CASE Reset
  BY <1>6 DEF Reset, Pressed, slot, run, arm, stopIO, past
<1>7. ASSUME NEW r \in Run, Tick(r) PROVE Fresh'
  BY <1>7 DEF Tick, CleanUp, slot, run, arm, stopIO, past
<1>8. ASSUME NEW r \in Run, Job(r) PROVE Fresh'
  <2>1. Working(r) /\ RobotAfter(r) /\ Only(r) /\ Thread
    BY <1>8, ThreadEffect
  <2>2. r <= runs
    BY <2>1 DEF Working
  <2>. QED
    BY <2>1, <2>2 DEF RobotAfter, Only, Thread
<1>9. ASSUME NEW s \in Stopper, StopMotionUr(s) PROVE Fresh'
  BY <1>9 DEF StopMotionUr, StopperAt, slot, run, arm, stopIO, past, Working
<1>10. ASSUME NEW s \in Stopper, StopProgramUr(s) PROVE Fresh'
  BY <1>10 DEF StopProgramUr, StopperAt, slot, run, arm, stopIO, past, Working
<1>11. ASSUME NEW s \in Stopper, StopXArm(s) PROVE Fresh'
  BY <1>11 DEF StopXArm, StopperAt, slot, run, arm, stopIO, past, Working
<1>12. ASSUME NEW s \in Stopper, StopXArmChecks(s) PROVE Fresh'
  BY <1>12 DEF StopXArmChecks, StopperAt, slot, run, arm, stopIO, past, Working
<1>13. CASE UNCHANGED vars
  BY <1>13 DEF vars, slot, run, arm, stopIO, past
<1>. QED
  BY <1>1, <1>2, <1>3, <1>4, <1>5, <1>6, <1>7, <1>8, <1>9, <1>10, <1>11, <1>12, <1>13
     DEF Next, Other, StopJob

LEMMA EndedStep ==
  ASSUME TypeOK, Fresh, Ended, [Next]_vars
  PROVE  Ended'
<1>. USE TypeParts, Bounds DEF RunsOK, Ended, Calls
<1>1. CASE RunToolpath
  <2>0. PICK n : n = runs + 1
    OBVIOUS
  <2>9. RunAfter(n)
    BY <1>1, <2>0, RunEffect
  <2>7. \A q \in Run \ {n} : modal'[q] = modal[q] /\ job'[q] = job[q]
    BY ONLY <2>9 DEF RunAfter
  <2>8. /\ n \in Run /\ job'[n].at = "call" /\ job'[n].error = FALSE /\ modal'[n] = "waiting"
        /\ robot' = robot /\ stopper' = stopper /\ halted' = halted /\ short' = short
    BY ONLY <2>9 DEF RunAfter, stopIO
  <2>. QED
    BY ONLY <2>7, <2>8, Ended DEF Ended, Calls
<1>2. CASE Stop
  BY <1>2 DEF Stop, slot, run, arm, stopIO, past
<1>3. CASE PuppetStart
  BY <1>3 DEF PuppetStart, Pressed, slot, run, arm, stopIO, past
<1>4. CASE PuppetStop
  BY <1>4 DEF PuppetStop, Pressed, slot, run, arm, stopIO, past
<1>5. CASE TeachMode
  BY <1>5 DEF TeachMode, Pressed, slot, run, arm, stopIO, past
<1>6. CASE Reset
  BY <1>6 DEF Reset, Pressed, slot, run, arm, stopIO, past
<1>7. ASSUME NEW r \in Run, Tick(r) PROVE Ended'
  BY <1>7 DEF Tick, CleanUp, slot, run, arm, stopIO, past
<1>8. ASSUME NEW r \in Run, Job(r) PROVE Ended'
  <2>1. Working(r) /\ JobAfter(r) /\ Only(r) /\ Thread /\ JobsOK'
    BY <1>8, ThreadEffect
  <2>2. job[r].error = FALSE
    BY <2>1 DEF Working, JobsOK, Jobs
  <2>3. modal[r] # "ok"
    BY <2>1 DEF Working
  <2>4. modal' = modal /\ robot' = robot
    BY <2>1 DEF Thread
  <2>. QED
    BY <2>1, <2>2, <2>3, <2>4 DEF JobAfter, Only, JobsOK, Jobs
<1>9. ASSUME NEW s \in Stopper, StopMotionUr(s) PROVE Ended'
  BY <1>9 DEF StopMotionUr, StopperAt, slot, run, arm, stopIO, past
<1>10. ASSUME NEW s \in Stopper, StopProgramUr(s) PROVE Ended'
  BY <1>10 DEF StopProgramUr, StopperAt, slot, run, arm, stopIO, past
<1>11. ASSUME NEW s \in Stopper, StopXArm(s) PROVE Ended'
  BY <1>11 DEF StopXArm, StopperAt, slot, run, arm, stopIO, past
<1>12. ASSUME NEW s \in Stopper, StopXArmChecks(s) PROVE Ended'
  BY <1>12 DEF StopXArmChecks, StopperAt, slot, run, arm, stopIO, past
<1>13. CASE UNCHANGED vars
  BY <1>13 DEF vars, slot, run, arm, stopIO, past
<1>. QED
  BY <1>1, <1>2, <1>3, <1>4, <1>5, <1>6, <1>7, <1>8, <1>9, <1>10, <1>11, <1>12, <1>13
     DEF Next, Other, StopJob

LEMMA AloneStep ==
  ASSUME TypeOK, Fresh, Alone, [Next]_vars
  PROVE  Alone'
<1>. USE TypeParts DEF RunsOK, StopOK, Alone, Stopping, Working
<1>1. CASE RunToolpath
  <2>0. PICK n : n = runs + 1
    OBVIOUS
  <2>9. RunAfter(n)
    BY <1>1, <2>0, RunEffect
  <2>7. \A q \in Run \ {n} : modal'[q] = modal[q] /\ job'[q] = job[q]
    BY ONLY <2>9 DEF RunAfter
  <2>8. /\ n \in Run /\ job'[n].at = "call" /\ job'[n].error = FALSE /\ modal'[n] = "waiting"
        /\ robot' = robot /\ stopper' = stopper /\ halted' = halted /\ short' = short
    BY ONLY <2>9 DEF RunAfter, stopIO
  <2>1. CASE "raced" \in disturbed'
    BY <2>1
  <2>2. CASE "raced" \notin disturbed'
    <3>1. /\ \A q \in Run : modal[q] # "waiting" /\ ~Working(q)
          /\ \A s \in Stopper : stopper[s] \in {"none", "ended"}
      BY <2>2, <2>9 DEF RunAfter, TooSoon
    <3>. QED
      BY ONLY <2>2, <2>7, <2>8, <3>1 DEF Alone, Stopping, Working
  <2>. QED
    BY <2>1, <2>2
<1>2. CASE Stop
  BY <1>2 DEF Stop, slot, run, arm, stopIO, past
<1>3. CASE PuppetStart
  BY <1>3 DEF PuppetStart, Pressed, slot, run, arm, stopIO, past
<1>4. CASE PuppetStop
  BY <1>4 DEF PuppetStop, Pressed, slot, run, arm, stopIO, past
<1>5. CASE TeachMode
  BY <1>5 DEF TeachMode, Pressed, slot, run, arm, stopIO, past
<1>6. CASE Reset
  BY <1>6 DEF Reset, Pressed, slot, run, arm, stopIO, past
<1>7. ASSUME NEW r \in Run, Tick(r) PROVE Alone'
  BY <1>7 DEF Tick, CleanUp, slot, run, arm, stopIO, past
<1>8. ASSUME NEW r \in Run, Job(r) PROVE Alone'
  <2>1. Thread
    BY <1>8, ThreadEffect
  <2>. QED
    BY <1>8, <2>1, OthersWork DEF Thread, slot, stopIO
<1>9. ASSUME NEW s \in Stopper, StopMotionUr(s) PROVE Alone'
  BY <1>9 DEF StopMotionUr, StopperAt, slot, run, arm, stopIO, past
<1>10. ASSUME NEW s \in Stopper, StopProgramUr(s) PROVE Alone'
  BY <1>10 DEF StopProgramUr, StopperAt, slot, run, arm, stopIO, past
<1>11. ASSUME NEW s \in Stopper, StopXArm(s) PROVE Alone'
  BY <1>11 DEF StopXArm, StopperAt, slot, run, arm, stopIO, past
<1>12. ASSUME NEW s \in Stopper, StopXArmChecks(s) PROVE Alone'
  BY <1>12 DEF StopXArmChecks, StopperAt, slot, run, arm, stopIO, past
<1>13. CASE UNCHANGED vars
  BY <1>13 DEF vars, slot, run, arm, stopIO, past
<1>. QED
  BY <1>1, <1>2, <1>3, <1>4, <1>5, <1>6, <1>7, <1>8, <1>9, <1>10, <1>11, <1>12, <1>13
     DEF Next, Other, StopJob

LEMMA BusyStep ==
  ASSUME TypeOK, Fresh, Alone, BusyTruthful, [Next]_vars
  PROVE  BusyTruthful'
<1>. USE TypeParts DEF SlotOK, RunsOK, BusyTruthful
<1>1. CASE RunToolpath
  <2>0. PICK n : n = runs + 1
    OBVIOUS
  <2>9. RunAfter(n)
    BY <1>1, <2>0, RunEffect
  <2>7. \A q \in Run \ {n} : modal'[q] = modal[q] /\ job'[q] = job[q]
    BY ONLY <2>9 DEF RunAfter
  <2>8. /\ n \in Run /\ job'[n].at = "call" /\ job'[n].error = FALSE /\ modal'[n] = "waiting"
        /\ robot' = robot /\ stopper' = stopper /\ halted' = halted /\ short' = short
    BY ONLY <2>9 DEF RunAfter, stopIO
  <2>. QED
    BY <2>9 DEF RunAfter
<1>2. CASE Stop
  BY <1>2 DEF Stop, slot, run, arm, stopIO, past
<1>3. CASE PuppetStart
  BY <1>3 DEF PuppetStart, Pressed, slot, run, arm, stopIO, past
<1>4. CASE PuppetStop
  BY <1>4 DEF PuppetStop, Pressed, slot, run, arm, stopIO, past
<1>5. CASE TeachMode
  BY <1>5 DEF TeachMode, Pressed, slot, run, arm, stopIO, past
<1>6. CASE Reset
  BY <1>6 DEF Reset, Pressed, slot, run, arm, stopIO, past
<1>7. ASSUME NEW r \in Run, Tick(r) PROVE BusyTruthful'
  <2>1. PICK result \in {"ok", "error"} : modal[r] = "waiting" /\ CleanUp(r, result)
    BY <1>7 DEF Tick
  <2>2. /\ modal' = [modal EXCEPT ![r] = result] /\ busy' = FALSE
        /\ disturbed' = disturbed
    BY <2>1 DEF CleanUp, past
  <2>3. "raced" \notin disturbed => \A q \in Run : modal'[q] # "waiting"
    BY <2>1, <2>2 DEF Alone
  <2>. QED
    BY <2>2, <2>3
<1>8. ASSUME NEW r \in Run, Job(r) PROVE BusyTruthful'
  <2>1. Thread
    BY <1>8, ThreadEffect
  <2>. QED
    BY <1>8, <2>1 DEF Thread, slot
<1>9. ASSUME NEW s \in Stopper, StopMotionUr(s) PROVE BusyTruthful'
  BY <1>9 DEF StopMotionUr, StopperAt, slot, run, arm, stopIO, past
<1>10. ASSUME NEW s \in Stopper, StopProgramUr(s) PROVE BusyTruthful'
  BY <1>10 DEF StopProgramUr, StopperAt, slot, run, arm, stopIO, past
<1>11. ASSUME NEW s \in Stopper, StopXArm(s) PROVE BusyTruthful'
  BY <1>11 DEF StopXArm, StopperAt, slot, run, arm, stopIO, past
<1>12. ASSUME NEW s \in Stopper, StopXArmChecks(s) PROVE BusyTruthful'
  BY <1>12 DEF StopXArmChecks, StopperAt, slot, run, arm, stopIO, past
<1>13. CASE UNCHANGED vars
  BY <1>13 DEF vars, slot, run, arm, stopIO, past
<1>. QED
  BY <1>1, <1>2, <1>3, <1>4, <1>5, <1>6, <1>7, <1>8, <1>9, <1>10, <1>11, <1>12, <1>13
     DEF Next, Other, StopJob

LEMMA WholeStep ==
  ASSUME TypeOK, Fresh, Ended, Alone, Whole, [Next]_vars
  PROVE  Whole'
<1>. USE DEF Whole, Given
<1>1. CASE RunToolpath
  <2>0. PICK n : n = runs + 1
    OBVIOUS
  <2>9. RunAfter(n)
    BY <1>1, <2>0, RunEffect
  <2>7. \A q \in Run \ {n} : modal'[q] = modal[q] /\ job'[q] = job[q]
    BY ONLY <2>9 DEF RunAfter
  <2>8. /\ n \in Run /\ job'[n].at = "call" /\ job'[n].error = FALSE /\ modal'[n] = "waiting"
        /\ robot' = robot /\ stopper' = stopper /\ halted' = halted /\ short' = short
    BY ONLY <2>9 DEF RunAfter, stopIO
  <2>6. "raced" \notin disturbed' =>
          /\ \A q \in Run : modal[q] # "waiting" /\ ~Working(q)
          /\ \A s \in Stopper : ~Stopping(s)
    BY ONLY <2>9 DEF RunAfter, TooSoon, Stopping
  <2>5. n \notin short /\ n \notin halted
    BY <2>0, <2>8, TypeParts DEF Fresh, RunsOK, Run
  <2>. SUFFICES ASSUME disturbed' \cap {"raced", "reenabled"} = {}, NEW q \in Run
                PROVE  /\ ~(job'[q].at \in {"wait", "again"})
                       /\ q \in short' => modal'[q] \notin {"ok", "waiting"}
    OBVIOUS
  <2>4. disturbed \cap {"raced", "reenabled"} = {}
    BY <2>9 DEF RunAfter
  <2>3. CASE q = n
    BY <2>3, <2>5, <2>8
  <2>2. CASE q # n
    BY <2>2, <2>4, <2>6, <2>7, <2>8 DEF Working
  <2>. QED
    BY <2>2, <2>3
<1>2. CASE Stop
  BY <1>2 DEF Stop, slot, run, arm, stopIO, past
<1>3. CASE PuppetStart
  <2>1. CASE \E q \in Run : Working(q) /\ "reenabled" \in disturbed'
    BY <2>1
  <2>2. CASE \A q \in Run : ~Working(q)
    BY <1>3, <2>2 DEF Working, PuppetStart, Pressed, slot, run, arm, stopIO, past
  <2>3. CASE "failed" \in disturbed' /\ ready' = ready /\ executing' = executing
    BY <1>3, <2>3 DEF PuppetStart, Pressed, slot, run, arm, stopIO, past
  <2>4. CASE "failed" \in disturbed' /\ ready' = FALSE
    BY <1>3, <2>4 DEF PuppetStart, Pressed, slot, run, arm, stopIO, past
  <2>. QED
    BY <1>3, <2>1, <2>2, <2>3, <2>4 DEF PuppetStart, Pressed, Enabling
<1>4. CASE PuppetStop
  <2>1. CASE \E q \in Run : Working(q) /\ "reenabled" \in disturbed'
    BY <2>1
  <2>2. CASE \A q \in Run : ~Working(q)
    BY <1>4, <2>2 DEF Working, PuppetStop, Pressed, slot, run, arm, stopIO, past
  <2>3. CASE "failed" \in disturbed' /\ ready' = ready /\ executing' = executing
    BY <1>4, <2>3 DEF PuppetStop, Pressed, slot, run, arm, stopIO, past
  <2>4. CASE "failed" \in disturbed' /\ ready' = FALSE
    BY <1>4, <2>4 DEF PuppetStop, Pressed, slot, run, arm, stopIO, past
  <2>. QED
    BY <1>4, <2>1, <2>2, <2>3, <2>4 DEF PuppetStop, Pressed, Enabling
<1>5. CASE TeachMode
  <2>1. CASE \E q \in Run : Working(q) /\ "reenabled" \in disturbed'
    BY <2>1
  <2>2. CASE \A q \in Run : ~Working(q)
    BY <1>5, <2>2 DEF Working, TeachMode, Pressed, slot, run, arm, stopIO, past
  <2>3. CASE "failed" \in disturbed' /\ ready' = ready /\ executing' = executing
    BY <1>5, <2>3 DEF TeachMode, Pressed, slot, run, arm, stopIO, past
  <2>4. CASE "failed" \in disturbed' /\ ready' = FALSE
    BY <1>5, <2>4 DEF TeachMode, Pressed, slot, run, arm, stopIO, past
  <2>. QED
    BY <1>5, <2>1, <2>2, <2>3, <2>4 DEF TeachMode, Pressed, Enabling
<1>6. CASE Reset
  <2>1. CASE \E q \in Run : Working(q) /\ "reenabled" \in disturbed'
    BY <2>1
  <2>2. CASE \A q \in Run : ~Working(q)
    BY <1>6, <2>2 DEF Working, Reset, Pressed, slot, run, arm, stopIO, past
  <2>3. CASE "failed" \in disturbed' /\ ready' = ready /\ executing' = executing
    BY <1>6, <2>3 DEF Reset, Pressed, slot, run, arm, stopIO, past
  <2>4. CASE "failed" \in disturbed' /\ ready' = FALSE
    BY <1>6, <2>4 DEF Reset, Pressed, slot, run, arm, stopIO, past
  <2>. QED
    BY <1>6, <2>1, <2>2, <2>3, <2>4 DEF Reset, Pressed, Enabling
<1>7. ASSUME NEW r \in Run, Tick(r) PROVE Whole'
  <2>1. PICK result \in {"ok", "error"} :
          /\ modal[r] = "waiting" /\ CleanUp(r, result)
          /\ result = "ok" => ~abort /\ job[r].at = "done"
    BY <1>7 DEF Tick
  <2>2. /\ modal'[r] = result /\ \A q \in Run \ {r} : modal'[q] = modal[q]
        /\ UNCHANGED <<robot, abort, job, arm, past>>
    BY <2>1, TypeParts DEF CleanUp, RunsOK
  <2>. QED
    BY <1>7, <2>1, <2>2 DEF arm, past
<1>8. ASSUME NEW r \in Run, Job(r) PROVE Whole'
  <2>1. /\ Only(r) /\ Working(r) /\ Thread /\ RobotAfter(r)
    BY <1>8, ThreadEffect
  <2>. SUFFICES ASSUME disturbed' \cap {"raced", "reenabled"} = {}, NEW q \in Run
                PROVE  /\ job'[q].at \in {"wait", "again"} /\ executing' # q =>
                            Given(q)' \/ (robot = "XARM" /\ ~ready)'
                       /\ q \in short' => Given(q)'
    OBVIOUS
  <2>2. /\ disturbed' = disturbed /\ modal' = modal /\ abort' = abort
    BY <2>1 DEF Thread, slot
  <2>3. Given(q)' <=> Given(q)
    BY <2>2
  <2>4. CASE q = r
    BY <2>1, <2>2, <2>3, <2>4 DEF RobotAfter
  <2>5. CASE q # r
    <3>1. job'[q] = job[q] /\ job[q].at \notin {"wait", "again"}
      BY <2>1, <2>2, <2>5 DEF Only, Alone, Working
    <3>2. q \in short' => q \in short
      BY <2>1, <2>5 DEF RobotAfter
    <3>. QED
      BY <2>2, <2>3, <3>1, <3>2
  <2>. QED
    BY <2>4, <2>5
<1>9. ASSUME NEW s \in Stopper, StopMotionUr(s) PROVE Whole'
  <2>1. "raced" \notin disturbed => abort
    BY <1>9 DEF Alone, Stopping, StopMotionUr, StopperAt
  <2>2. \A q \in Run : job[q].at \in {"wait", "again"} => modal[q] # "ok"
    BY DEF Ended
  <2>. QED
    BY <1>9, <2>1, <2>2 DEF StopMotionUr, StopperAt, slot, run, past
<1>10. ASSUME NEW s \in Stopper, StopProgramUr(s) PROVE Whole'
  <2>1. "raced" \notin disturbed => abort
    BY <1>10 DEF Alone, Stopping, StopProgramUr, StopperAt
  <2>2. \A q \in Run : job[q].at \in {"wait", "again"} => modal[q] # "ok"
    BY DEF Ended
  <2>. QED
    BY <1>10, <2>1, <2>2 DEF StopProgramUr, StopperAt, slot, run, past
<1>11. ASSUME NEW s \in Stopper, StopXArm(s) PROVE Whole'
  <2>1. "raced" \notin disturbed => abort
    BY <1>11 DEF Alone, Stopping, StopXArm, StopperAt
  <2>2. \A q \in Run : job[q].at \in {"wait", "again"} => modal[q] # "ok"
    BY DEF Ended
  <2>. QED
    BY <1>11, <2>1, <2>2 DEF StopXArm, StopperAt, slot, run, past
<1>12. ASSUME NEW s \in Stopper, StopXArmChecks(s) PROVE Whole'
  <2>1. "raced" \notin disturbed => abort
    BY <1>12 DEF Alone, Stopping, StopXArmChecks, StopperAt
  <2>2. \A q \in Run : job[q].at \in {"wait", "again"} => modal[q] # "ok"
    BY DEF Ended
  <2>. QED
    BY <1>12, <2>1, <2>2 DEF StopXArmChecks, StopperAt, slot, run, past
<1>13. CASE UNCHANGED vars
  BY <1>13 DEF vars, slot, run, arm, stopIO, past
<1>. QED
  BY <1>1, <1>2, <1>3, <1>4, <1>5, <1>6, <1>7, <1>8, <1>9, <1>10, <1>11, <1>12, <1>13
     DEF Next, Other, StopJob

LEMMA HaltedStep ==
  ASSUME TypeOK, Fresh, Halted, [Next]_vars
  PROVE  Halted'
<1>. USE TypeParts DEF RunsOK, Halted, Working
<1>1. CASE RunToolpath
  <2>0. PICK n : n = runs + 1
    OBVIOUS
  <2>9. RunAfter(n)
    BY <1>1, <2>0, RunEffect
  <2>7. \A q \in Run \ {n} : modal'[q] = modal[q] /\ job'[q] = job[q]
    BY ONLY <2>9 DEF RunAfter
  <2>8. /\ n \in Run /\ job'[n].at = "call" /\ job'[n].error = FALSE /\ modal'[n] = "waiting"
        /\ robot' = robot /\ stopper' = stopper /\ halted' = halted /\ short' = short
    BY ONLY <2>9 DEF RunAfter, stopIO
  <2>6. "raced" \notin disturbed' =>
          /\ \A q \in Run : modal[q] # "waiting" /\ ~Working(q)
          /\ \A s \in Stopper : ~Stopping(s)
    BY ONLY <2>9 DEF RunAfter, TooSoon, Stopping
  <2>5. n \notin short /\ n \notin halted
    BY <2>0, <2>8, TypeParts DEF Fresh, RunsOK, Run
  <2>4. disturbed \subseteq disturbed' /\ ready' = ready
    BY <2>9 DEF RunAfter, arm
  <2>. QED
    BY ONLY Halted, <2>4, <2>5, <2>7, <2>8, TypeParts, TypeOK DEF RunsOK, Halted, Working
<1>2. CASE Stop
  BY <1>2 DEF Stop, slot, run, arm, stopIO, past
<1>3. CASE PuppetStart
  <2>1. CASE \E q \in Run : Working(q) /\ "reenabled" \in disturbed'
    BY <2>1
  <2>2. CASE \A q \in Run : ~Working(q)
    BY <1>3, <2>2 DEF Working, PuppetStart, Pressed, run
  <2>3. CASE ready' = ready \/ ready' = FALSE
    BY <1>3, <2>3 DEF Working, PuppetStart, Pressed, run
  <2>. QED
    BY <1>3, <2>1, <2>2, <2>3 DEF PuppetStart, Pressed, Enabling
<1>4. CASE PuppetStop
  <2>1. CASE \E q \in Run : Working(q) /\ "reenabled" \in disturbed'
    BY <2>1
  <2>2. CASE \A q \in Run : ~Working(q)
    BY <1>4, <2>2 DEF Working, PuppetStop, Pressed, run
  <2>3. CASE ready' = ready \/ ready' = FALSE
    BY <1>4, <2>3 DEF Working, PuppetStop, Pressed, run
  <2>. QED
    BY <1>4, <2>1, <2>2, <2>3 DEF PuppetStop, Pressed, Enabling
<1>5. CASE TeachMode
  <2>1. CASE \E q \in Run : Working(q) /\ "reenabled" \in disturbed'
    BY <2>1
  <2>2. CASE \A q \in Run : ~Working(q)
    BY <1>5, <2>2 DEF Working, TeachMode, Pressed, run
  <2>3. CASE ready' = ready \/ ready' = FALSE
    BY <1>5, <2>3 DEF Working, TeachMode, Pressed, run
  <2>. QED
    BY <1>5, <2>1, <2>2, <2>3 DEF TeachMode, Pressed, Enabling
<1>6. CASE Reset
  <2>1. CASE \E q \in Run : Working(q) /\ "reenabled" \in disturbed'
    BY <2>1
  <2>2. CASE \A q \in Run : ~Working(q)
    BY <1>6, <2>2 DEF Working, Reset, Pressed, run
  <2>3. CASE ready' = ready \/ ready' = FALSE
    BY <1>6, <2>3 DEF Working, Reset, Pressed, run
  <2>. QED
    BY <1>6, <2>1, <2>2, <2>3 DEF Reset, Pressed, Enabling
<1>7. ASSUME NEW r \in Run, Tick(r) PROVE Halted'
  BY <1>7 DEF Tick, CleanUp, slot, run, arm, stopIO, past
<1>8. ASSUME NEW r \in Run, Job(r) PROVE Halted'
  <2>1. /\ Only(r) /\ Working(r) /\ Thread /\ RobotAfter(r)
    BY <1>8, ThreadEffect
  <2>2. /\ robot' = robot /\ disturbed' = disturbed /\ halted' = halted
    BY <2>1 DEF Thread
  <2>. QED
    BY <2>1, <2>2 DEF Only, RobotAfter
<1>9. ASSUME NEW s \in Stopper, StopMotionUr(s) PROVE Halted'
  BY <1>9 DEF StopMotionUr, StopperAt, slot, run, arm, stopIO, past
<1>10. ASSUME NEW s \in Stopper, StopProgramUr(s) PROVE Halted'
  BY <1>10 DEF StopProgramUr, StopperAt, slot, run, arm, stopIO, past
<1>11. ASSUME NEW s \in Stopper, StopXArm(s) PROVE Halted'
  BY <1>11 DEF StopXArm, StopperAt, slot, run, arm, stopIO, past
<1>12. ASSUME NEW s \in Stopper, StopXArmChecks(s) PROVE Halted'
  BY <1>12 DEF StopXArmChecks, StopperAt, slot, run, arm, stopIO, past
<1>13. CASE UNCHANGED vars
  BY <1>13 DEF vars, slot, run, arm, stopIO, past
<1>. QED
  BY <1>1, <1>2, <1>3, <1>4, <1>5, <1>6, <1>7, <1>8, <1>9, <1>10, <1>11, <1>12, <1>13
     DEF Next, Other, StopJob

LEMMA PuppeteerStep ==
  ASSUME TypeOK, Fresh, Puppeteer, [Next]_vars
  PROVE  Puppeteer'
<1>. USE TypeParts DEF Puppeteer
<1>1. CASE RunToolpath
  <2>0. PICK n : n = runs + 1
    OBVIOUS
  <2>9. RunAfter(n)
    BY <1>1, <2>0, RunEffect
  <2>7. \A q \in Run \ {n} : modal'[q] = modal[q] /\ job'[q] = job[q]
    BY ONLY <2>9 DEF RunAfter
  <2>8. /\ n \in Run /\ job'[n].at = "call" /\ job'[n].error = FALSE /\ modal'[n] = "waiting"
        /\ robot' = robot /\ stopper' = stopper /\ halted' = halted /\ short' = short
    BY ONLY <2>9 DEF RunAfter, stopIO
  <2>6. "raced" \notin disturbed' =>
          /\ \A q \in Run : modal[q] # "waiting" /\ ~Working(q)
          /\ \A s \in Stopper : ~Stopping(s)
    BY ONLY <2>9 DEF RunAfter, TooSoon, Stopping
  <2>5. n \notin short /\ n \notin halted
    BY <2>0, <2>8, TypeParts DEF Fresh, RunsOK, Run
  <2>4. /\ disturbed \subseteq disturbed' /\ ready' = ready /\ mode' = mode /\ ~puppet
    BY <2>9 DEF RunAfter, arm
  <2>3. ~(disturbed' \cap {"failed", "reenabled", "raced"} = {} /\ mode = "servo" /\ ready)
    BY ONLY <2>4, <2>6, Puppeteer DEF Puppeteer
  <2>2. ~(disturbed' \cap {"failed", "reenabled", "raced"} = {} /\ mode' = "servo" /\ ready')
    BY ONLY <2>3, <2>4
  <2>1. robot' # "XARM" => mode' # "servo"
    BY <2>4, <2>8
  <2>. QED
    BY ONLY <2>1, <2>2 DEF Puppeteer
<1>2. CASE Stop
  <2>1. stops + 1 \in Stopper /\ stopper'[stops + 1] = "motion"
    BY <1>2, Bounds DEF Stop, StopOK, Stopper
  <2>3. \E s \in Stopper : Stopping(s)'
    <3>1. \E s \in Stopper : stopper'[s] = "motion"
      BY <2>1
    <3>. QED
      BY <3>1 DEF Stopping
  <2>4. \A q \in Run : Working(q)' <=> Working(q)
    BY <1>2 DEF Stop, Working, run
  <2>5. UNCHANGED <<robot, mode, ready, disturbed>>
    BY <1>2 DEF Stop, arm, past
  <2>. QED
    BY ONLY <2>3, <2>4, <2>5, Puppeteer DEF Puppeteer
<1>3. CASE PuppetStart
  <2>1. CASE \E q \in Run : Working(q) /\ "reenabled" \in disturbed'
    BY <1>3, <2>1 DEF PuppetStart, Pressed
  <2>2. CASE \A q \in Run : ~Working(q)
    BY <1>3, <2>2 DEF Working, PuppetStart, Pressed, run, stopIO
  <2>3. CASE "failed" \in disturbed'
    BY <1>3, <2>3 DEF PuppetStart, Pressed
  <2>. QED
    BY <1>3, <2>1, <2>2, <2>3 DEF PuppetStart, Pressed, Enabling
<1>4. CASE PuppetStop
  <2>1. CASE \E q \in Run : Working(q) /\ "reenabled" \in disturbed'
    BY <1>4, <2>1 DEF PuppetStop, Pressed
  <2>2. CASE \A q \in Run : ~Working(q)
    BY <1>4, <2>2 DEF Working, PuppetStop, Pressed, run, stopIO
  <2>3. CASE "failed" \in disturbed'
    BY <1>4, <2>3 DEF PuppetStop, Pressed
  <2>. QED
    BY <1>4, <2>1, <2>2, <2>3 DEF PuppetStop, Pressed, Enabling
<1>5. CASE TeachMode
  <2>1. CASE \E q \in Run : Working(q) /\ "reenabled" \in disturbed'
    BY <1>5, <2>1 DEF TeachMode, Pressed
  <2>2. CASE \A q \in Run : ~Working(q)
    BY <1>5, <2>2 DEF Working, TeachMode, Pressed, run, stopIO
  <2>3. CASE "failed" \in disturbed'
    BY <1>5, <2>3 DEF TeachMode, Pressed
  <2>. QED
    BY <1>5, <2>1, <2>2, <2>3 DEF TeachMode, Pressed, Enabling
<1>6. CASE Reset
  <2>1. CASE \E q \in Run : Working(q) /\ "reenabled" \in disturbed'
    BY <1>6, <2>1 DEF Reset, Pressed
  <2>2. CASE \A q \in Run : ~Working(q)
    BY <1>6, <2>2 DEF Working, Reset, Pressed, run, stopIO
  <2>3. CASE "failed" \in disturbed'
    BY <1>6, <2>3 DEF Reset, Pressed
  <2>. QED
    BY <1>6, <2>1, <2>2, <2>3 DEF Reset, Pressed, Enabling
<1>7. ASSUME NEW r \in Run, Tick(r) PROVE Puppeteer'
  BY <1>7 DEF Tick, CleanUp, Working, Stopping, arm, past, stopIO
<1>8. ASSUME NEW r \in Run, Job(r) PROVE Puppeteer'
  <2>1. /\ Only(r) /\ Working(r) /\ Thread /\ RobotAfter(r)
    BY <1>8, ThreadEffect
  <2>2. /\ robot' = robot /\ disturbed' = disturbed /\ mode' = mode
        /\ robot = "XARM" => ready' = ready
    BY <2>1 DEF Thread, RobotAfter
  <2>. QED
    BY <2>1, <2>2
<1>9. ASSUME NEW s \in Stopper, StopMotionUr(s) PROVE Puppeteer'
  BY <1>9 DEF StopMotionUr, StopperAt, slot, run, arm, stopIO, past
<1>10. ASSUME NEW s \in Stopper, StopProgramUr(s) PROVE Puppeteer'
  BY <1>10 DEF StopProgramUr, StopperAt, slot, run, arm, stopIO, past
<1>11. ASSUME NEW s \in Stopper, StopXArm(s) PROVE Puppeteer'
  BY <1>11 DEF StopXArm, StopperAt
<1>12. ASSUME NEW s \in Stopper, StopXArmChecks(s) PROVE Puppeteer'
  <2>1. CASE ready
    <3>1. Stopping(s)'
      BY <1>12, <2>1 DEF StopXArmChecks, StopperAt, Stopping, StopOK
    <3>. QED
      BY <1>12, <3>1 DEF StopXArmChecks, StopperAt, Working, run
  <2>2. CASE ~ready
    BY <1>12, <2>2 DEF StopXArmChecks, StopperAt
  <2>. QED
    BY <2>1, <2>2
<1>13. CASE UNCHANGED vars
  BY <1>13 DEF vars, slot, run, arm, stopIO, past, Stopping, Working
<1>. QED
  BY <1>1, <1>2, <1>3, <1>4, <1>5, <1>6, <1>7, <1>8, <1>9, <1>10, <1>11, <1>12, <1>13
     DEF Next, Other, StopJob

THEOREM Inductive == Spec => []IInv
<1>1. Init => IInv
  <2>. SUFFICES ASSUME Init PROVE IInv
    OBVIOUS
  <2>1. TypeOK
    BY TypeInit
  <2>2. Fresh /\ Ended
    BY DEF Init, Fresh, Ended
  <2>3. Alone /\ BusyTruthful /\ Whole
    BY DEF Init, Alone, BusyTruthful, Whole, Working, Stopping
  <2>4. Halted /\ Puppeteer
    BY DEF Init, Halted, Puppeteer
  <2>. QED
    BY <2>1, <2>2, <2>3, <2>4 DEF IInv
<1>2. IInv /\ [Next]_vars => IInv'
  BY TypeStep, FreshStep, EndedStep, AloneStep, BusyStep, WholeStep, HaltedStep, PuppeteerStep
     DEF IInv
<1>. QED
  BY <1>1, <1>2, PTL DEF Spec

(* Unless a run was started before the last one had ended, the slot is busy *)
(* exactly while a modal that Stop has not ended waits.                     *)
THEOREM BusyIsTruthful == Spec => []BusyTruthful
<1>1. IInv => BusyTruthful
  BY DEF IInv
<1>. QED
  BY <1>1, Inductive, PTL

(* "Path sent" means that the path was run to its end and back.             *)
THEOREM SentIsRun == Spec => []SentMeansRun
<1>1. IInv => SentMeansRun
  BY DEF IInv, SentMeansRun, Whole, Given, Ended
<1>. QED
  BY <1>1, Inductive, PTL

(* Only a thread at work makes the robot move, and an xArm only when it takes*)
(* commands.                                                                *)
LEMMA MoveStep ==
  ASSUME TypeOK, NEW q \in Run, Moves(q), [Next]_vars
  PROVE  Working(q) /\ (robot = "XARM" => ready)
<1>. USE DEF Moves, Run
<1>1. CASE RunToolpath
  BY <1>1 DEF RunToolpath, slot, run, arm, stopIO, past
<1>2. CASE Stop
  BY <1>2 DEF Stop, slot, run, arm, stopIO, past
<1>3. CASE PuppetStart
  BY <1>3 DEF PuppetStart, Pressed, slot, run, arm, stopIO, past
<1>4. CASE PuppetStop
  BY <1>4 DEF PuppetStop, Pressed, slot, run, arm, stopIO, past
<1>5. CASE TeachMode
  BY <1>5 DEF TeachMode, Pressed, slot, run, arm, stopIO, past
<1>6. CASE Reset
  BY <1>6 DEF Reset, Pressed, slot, run, arm, stopIO, past
<1>7. ASSUME NEW r \in Run, Tick(r) PROVE Working(q) /\ (robot = "XARM" => ready)
  BY <1>7 DEF Tick, CleanUp, slot, run, arm, stopIO, past
<1>8. ASSUME NEW r \in Run, Job(r) PROVE Working(q) /\ (robot = "XARM" => ready)
  <2>1. /\ Working(r) /\ RobotAfter(r)
    BY <1>8, ThreadEffect
  <2>. QED
    BY <2>1 DEF RobotAfter
<1>9. ASSUME NEW s \in Stopper, StopMotionUr(s) PROVE Working(q) /\ (robot = "XARM" => ready)
  BY <1>9 DEF StopMotionUr, StopperAt, slot, run, arm, stopIO, past
<1>10. ASSUME NEW s \in Stopper, StopProgramUr(s) PROVE Working(q) /\ (robot = "XARM" => ready)
  BY <1>10 DEF StopProgramUr, StopperAt, slot, run, arm, stopIO, past
<1>11. ASSUME NEW s \in Stopper, StopXArm(s) PROVE Working(q) /\ (robot = "XARM" => ready)
  BY <1>11 DEF StopXArm, StopperAt, slot, run, arm, stopIO, past
<1>12. ASSUME NEW s \in Stopper, StopXArmChecks(s) PROVE Working(q) /\ (robot = "XARM" => ready)
  BY <1>12 DEF StopXArmChecks, StopperAt, slot, run, arm, stopIO, past
<1>13. CASE UNCHANGED vars
  BY <1>13 DEF vars, slot, run, arm, stopIO, past
<1>. QED
  BY <1>1, <1>2, <1>3, <1>4, <1>5, <1>6, <1>7, <1>8, <1>9, <1>10, <1>11, <1>12, <1>13
     DEF Next, Other, StopJob

(* What disturbed a run is not forgotten.                                   *)
LEMMA DisturbedGrows ==
  ASSUME TypeOK, [Next]_vars
  PROVE  disturbed \subseteq disturbed'
<1>1. CASE RunToolpath
  BY <1>1 DEF RunToolpath, slot, run, arm, stopIO, past
<1>2. CASE Stop
  BY <1>2 DEF Stop, slot, run, arm, stopIO, past
<1>3. CASE PuppetStart
  BY <1>3 DEF PuppetStart, Pressed, slot, run, arm, stopIO, past
<1>4. CASE PuppetStop
  BY <1>4 DEF PuppetStop, Pressed, slot, run, arm, stopIO, past
<1>5. CASE TeachMode
  BY <1>5 DEF TeachMode, Pressed, slot, run, arm, stopIO, past
<1>6. CASE Reset
  BY <1>6 DEF Reset, Pressed, slot, run, arm, stopIO, past
<1>7. ASSUME NEW r \in Run, Tick(r) PROVE disturbed \subseteq disturbed'
  BY <1>7 DEF Tick, CleanUp, slot, run, arm, stopIO, past
<1>8. ASSUME NEW r \in Run, Job(r) PROVE disturbed \subseteq disturbed'
  <2>1. Thread
    BY <1>8, ThreadEffect
  <2>. QED
    BY <2>1 DEF Thread
<1>9. ASSUME NEW s \in Stopper, StopMotionUr(s) PROVE disturbed \subseteq disturbed'
  BY <1>9 DEF StopMotionUr, StopperAt, slot, run, arm, stopIO, past
<1>10. ASSUME NEW s \in Stopper, StopProgramUr(s) PROVE disturbed \subseteq disturbed'
  BY <1>10 DEF StopProgramUr, StopperAt, slot, run, arm, stopIO, past
<1>11. ASSUME NEW s \in Stopper, StopXArm(s) PROVE disturbed \subseteq disturbed'
  BY <1>11 DEF StopXArm, StopperAt, slot, run, arm, stopIO, past
<1>12. ASSUME NEW s \in Stopper, StopXArmChecks(s) PROVE disturbed \subseteq disturbed'
  BY <1>12 DEF StopXArmChecks, StopperAt, slot, run, arm, stopIO, past
<1>13. CASE UNCHANGED vars
  BY <1>13 DEF vars, slot, run, arm, stopIO, past
<1>. QED
  BY <1>1, <1>2, <1>3, <1>4, <1>5, <1>6, <1>7, <1>8, <1>9, <1>10, <1>11, <1>12, <1>13
     DEF Next, Other, StopJob

(* On an xArm, a thread that was at work when Stop had done makes no        *)
(* further move, unless the arm was enabled again before it had seen that.  *)
THEOREM HaltsXArm == Spec => StopHaltsXArm
<1>1. IInv /\ [Next]_vars =>
        [robot = "XARM" /\ "reenabled" \notin disturbed' => \A r \in halted : ~Moves(r)]_vars
  <2>. SUFFICES ASSUME IInv, [Next]_vars, robot = "XARM", "reenabled" \notin disturbed',
                       NEW r \in halted, Moves(r)
                PROVE  FALSE
    OBVIOUS
  <2>1. r \in Run
    BY TypeParts DEF IInv, RunsOK
  <2>2. Working(r) /\ ready
    BY <2>1, MoveStep DEF IInv
  <2>3. disturbed \subseteq disturbed'
    BY DisturbedGrows DEF IInv
  <2>. QED
    BY <2>2, <2>3 DEF IInv, Halted
<1>. QED
  BY <1>1, Inductive, PTL DEF Spec, StopHaltsXArm

(* No thread of a run moves an xArm that Puppet Mode has left in servo mode.*)
THEOREM ServoMoves == Spec => NoPathInServoMode
<1>1. IInv /\ [Next]_vars =>
        [\A r \in Run : Moves(r) =>
           mode # "servo" \/ disturbed \cap {"failed", "reenabled", "raced"} # {}]_vars
  BY MoveStep DEF IInv, Puppeteer
<1>. QED
  BY <1>1, Inductive, PTL DEF Spec, NoPathInServoMode
=============================================================================

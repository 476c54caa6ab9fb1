-------------------------- MODULE KukaSessionProofs -------------------------
(* Theorems about KukaSession, for every ring, length of the path, number of *)
(* runs, clicks and drivers, and whatever mishaps there may be.             *)
EXTENDS KukaSession, TLAPS

(* The groups of variables are always looked into.                          *)
USE DEF command, ring, interp, slot, conn, modals, history, vars

LEMMA ConstantTypes ==
  /\ Ring \in Nat /\ Ring > 0 /\ Total \in Nat /\ Total > 0
  /\ MaxDrivers \in Nat /\ MaxDrivers > 0 /\ MaxRuns \in Nat /\ MaxOthers \in Nat
  BY SessionConstants

-----------------------------------------------------------------------------
(* Type correctness, in parts.                                              *)

ControllerOK ==
  /\ MQ_ACTION \in {0, 3, 10, 20}
  /\ MQ_CMD_ID \in Nat /\ MQ_DONE_ID \in Nat /\ _cmd_id \in Nat
  /\ MQ_RD_IDX \in Nat /\ MQ_WR_IDX \in Nat /\ MQ_PT_CNT \in {0, Total} /\ MQ_I \in 0..Ring
  /\ MQ_E6POS \in {0} \cup Runs /\ reached \subseteq {0} \cup Runs
  /\ program \in {"running", "stopped", "reset"}
  /\ pc \in {"boot", "loop", "move", "stream", "wait", "puppet"}

RingOK == MQ_PT \in [1..Ring -> ({0} \cup Runs) \X (0..Total)]

FlagsOK ==
  /\ label \in BOOLEAN /\ abort \in BOOLEAN /\ realtime_puppet_active \in BOOLEAN
  /\ edited \in BOOLEAN /\ _rt_puppet_active \in BOOLEAN /\ armed \in BOOLEAN

SlotOK ==
  /\ driver \in 1..MaxDrivers
  /\ job \in {"none", "stop", "cancel", "stopping", "cancelling"}
  /\ runs \in 0..MaxRuns /\ others \in 0..MaxOthers /\ streaming \in {0} \cup Runs

RunsOK ==
  /\ phase \in [Runs -> {"none", "move_to_first", "streaming", "returning"}]
  /\ thread \in [Runs -> {"none", "pose", "id", "action", "await", "ok", "error", "dead"}]
  /\ mine \in [Runs -> 0..MaxDrivers] /\ cmd \in [Runs -> Nat] /\ written \in [Runs -> 0..Total]

LEMMA TypeParts == TypeOK <=> ControllerOK /\ RingOK /\ FlagsOK /\ SlotOK /\ RunsOK
                                /\ mishaps \subseteq Mishaps
  BY Zenon DEF TypeOK, ControllerOK, RingOK, FlagsOK, SlotOK, RunsOK

LEMMA TypeInit == Init => TypeOK
<1>. SUFFICES ASSUME Init PROVE TypeOK
  OBVIOUS
<1>1. 0 \in 0..Total /\ 0 \in 0..MaxDrivers /\ 1 \in 1..MaxDrivers /\ 0 \in 0..Ring
  BY ConstantTypes
<1>2. ControllerOK
  BY <1>1 DEF Init, ControllerOK
<1>3. RingOK
  BY <1>1 DEF Init, RingOK, ZeroFrame
<1>4. FlagsOK
  BY Zenon DEF Init, FlagsOK
<1>5. SlotOK
  BY <1>1, ConstantTypes DEF Init, SlotOK
<1>6. RunsOK
  BY <1>1 DEF Init, RunsOK
<1>7. mishaps \subseteq Mishaps
  BY DEF Init
<1>. QED
  BY <1>2, <1>3, <1>4, <1>5, <1>6, <1>7, TypeParts

(* What FillFrom writes: the waypoints of r from k on, n of them.           *)
LEMMA FillType ==
  ASSUME RingOK, NEW r \in Runs, NEW k \in Nat \ {0}, NEW n \in Nat, k + n <= Total + 1
  PROVE  FillFrom(r, k, n) \in [1..Ring -> ({0} \cup Runs) \X (0..Total)]
<1>. SUFFICES ASSUME NEW i \in 1..Ring
              PROVE  FillFrom(r, k, n)[i] \in ({0} \cup Runs) \X (0..Total)
  BY DEF FillFrom
<1>. DEFINE ks == {j \in k..(k + n - 1) : ((j - 1) % Ring) + 1 = i}
<1>1. CASE ks = {}
  BY <1>1 DEF FillFrom, RingOK
<1>2. CASE ks # {}
  <2>1. (CHOOSE j \in ks : TRUE) \in ks
    BY <1>2
  <2>2. (CHOOSE j \in ks : TRUE) \in 0..Total
    BY <2>1, ConstantTypes
  <2>3. FillFrom(r, k, n)[i] = <<r, CHOOSE j \in ks : TRUE>>
    BY <1>2 DEF FillFrom
  <2>4. r \in {0} \cup Runs
    OBVIOUS
  <2>5. PICK v : v = CHOOSE j \in ks : TRUE
    OBVIOUS
  <2>6. v \in 0..Total /\ FillFrom(r, k, n)[i] = <<r, v>>
    BY <2>2, <2>3, <2>5
  <2>. QED
    BY <2>4, <2>6
<1>. QED
  BY <1>1, <1>2

(* The controller's variables.                                              *)
LEMMA ControllerStep ==
  ASSUME TypeOK, [Next]_vars
  PROVE  ControllerOK'
<1>. USE TypeParts, ConstantTypes
<1>1. CASE Run
  BY <1>1 DEF Run, Note, ControllerOK
<1>2. CASE MoveToTarget
  BY <1>2 DEF MoveToTarget, Note, ControllerOK
<1>3. CASE RealTimePuppetStart
  BY <1>3 DEF RealTimePuppetStart, EnterPuppet, Note, ControllerOK
<1>4. CASE Accept
  BY <1>4 DEF Accept, Interpret, ControllerOK
<1>5. CASE FinishMove
  BY <1>5 DEF FinishMove, Interpret, ControllerOK
<1>6. CASE FinishStream
  BY <1>6 DEF FinishStream, Interpret, ControllerOK
<1>7. CASE StreamPoint
  BY <1>7 DEF StreamPoint, Interpret, ControllerOK, NextSlot
<1>8. ASSUME NEW r \in Runs, TickStarts(r)
      PROVE  ControllerOK'
  BY <1>8 DEF TickStarts, ControllerOK, Smaller, SlotOK, RunsOK
<1>9. ASSUME NEW r \in Runs, TickRefills(r)
      PROVE  ControllerOK'
  BY <1>9 DEF TickRefills, ControllerOK, Smaller, RunsOK
<1>10. ASSUME NEW r \in Runs, WritePose(r)
      PROVE  ControllerOK'
  BY <1>10 DEF WritePose, ThreadStep, ControllerOK
<1>11. ASSUME NEW r \in Runs, WriteId(r)
      PROVE  ControllerOK'
  BY <1>11 DEF WriteId, ThreadStep, ControllerOK
<1>12. CASE PuppetTick \/ RealTimePuppetStop \/ EditTopology \/ KukaStop("stop")
         \/ KukaStop("cancel") \/ KukaPlay \/ Reconnect \/ JobDisarms \/ JobHalts \/ Boot
         \/ WaitFor \/ LeavePuppet
  BY <1>12 DEF PuppetTick, EnterPuppet, RealTimePuppetStop, Note, EditTopology, KukaStop,
    KukaPlay, Reconnect, JobDisarms, JobHalts, Boot, WaitFor, Interpret, LeavePuppet,
    ControllerOK
<1>13. ASSUME NEW r \in Runs, WriteAction(r) \/ AwaitDone(r) \/ AwaitTimesOut(r)
             \/ WriteFails(r)
          \/ TickAborts(r) \/ TickFails(r) \/ TickReturned(r) \/ TickNoStart(r)
          \/ TickReturns(r)
      PROVE  ControllerOK'
  BY <1>13 DEF WriteAction, ThreadStep, AwaitDone, AwaitTimesOut, WriteFails, TickAborts,
    CleanUp, TickFails, TickReturned, TickNoStart, TickReturns, ControllerOK
<1>14. CASE UNCHANGED vars
  BY <1>14 DEF ControllerOK
<1>. QED
  BY <1>1, <1>2, <1>3, <1>4, <1>5, <1>6, <1>7, <1>8, <1>9, <1>10, <1>11, <1>12, <1>13,
    <1>14 DEF
    Next, Operator, Job, MqStream, Thread, Tick

(* The ring.                                                                *)
LEMMA RingStep ==
  ASSUME TypeOK, [Next]_vars
  PROVE  RingOK'
<1>. USE TypeParts, ConstantTypes
<1>1. ASSUME NEW r \in Runs, TickStarts(r)
      PROVE  RingOK'
  <2>1. Smaller(Ring, Total) \in Nat /\ 1 + Smaller(Ring, Total) <= Total + 1
    BY DEF Smaller
  <2>2. 1 \in Nat \ {0}
    OBVIOUS
  <2>3. FillFrom(r, 1, Smaller(Ring, Total)) \in [1..Ring -> ({0} \cup Runs) \X (0..Total)]
    BY <2>1, <2>2, FillType
  <2>4. MQ_PT' = FillFrom(r, 1, Smaller(Ring, Total))
    BY <1>1 DEF TickStarts
  <2>. QED
    BY <2>3, <2>4 DEF RingOK
<1>2. ASSUME NEW r \in Runs, TickRefills(r)
      PROVE  RingOK'
  <2>. DEFINE used == IF written[r] + 1 > MQ_RD_IDX THEN written[r] + 1 - MQ_RD_IDX ELSE 0
              n == Smaller(Ring - used, Total - written[r])
  <2>1. used < Ring /\ n > 0 /\ MQ_PT' = FillFrom(r, written[r] + 1, n)
    BY <1>2 DEF TickRefills
  <2>2. written[r] \in 0..Total /\ MQ_RD_IDX \in Nat
    BY DEF RunsOK, ControllerOK
  <2>3. n \in Nat /\ written[r] + 1 \in Nat \ {0} /\ written[r] + 1 + n <= Total + 1
    BY <2>1, <2>2 DEF Smaller
  <2>. HIDE DEF n
  <2>. QED
    BY <2>1, <2>3, FillType DEF RingOK
<1>3. CASE Boot
  BY <1>3 DEF Boot, RingOK, ZeroFrame
<1>4. CASE Run \/ MoveToTarget \/ RealTimePuppetStart \/ PuppetTick \/ RealTimePuppetStop
         \/ EditTopology \/ KukaStop("stop") \/ KukaStop("cancel") \/ KukaPlay
         \/ Reconnect \/ JobDisarms \/ JobHalts \/ Accept \/ FinishMove \/ StreamPoint
         \/ WaitFor \/ FinishStream \/ LeavePuppet
  BY <1>4 DEF Run, Note, MoveToTarget, RealTimePuppetStart, EnterPuppet, PuppetTick,
    RealTimePuppetStop, EditTopology, KukaStop, KukaPlay, Reconnect, JobDisarms, JobHalts,
    Accept, Interpret, FinishMove, StreamPoint, WaitFor, FinishStream, LeavePuppet, RingOK
<1>5. ASSUME NEW r \in Runs, WritePose(r) \/ WriteId(r) \/ WriteAction(r) \/ AwaitDone(r)
          \/ AwaitTimesOut(r) \/ WriteFails(r) \/ TickAborts(r) \/ TickFails(r)
          \/ TickReturned(r) \/ TickNoStart(r) \/ TickReturns(r)
      PROVE  RingOK'
  BY <1>5 DEF WritePose, ThreadStep, WriteId, WriteAction, AwaitDone, AwaitTimesOut,
    WriteFails, TickAborts, CleanUp, TickFails, TickReturned, TickNoStart, TickReturns,
    RingOK
<1>6. CASE UNCHANGED vars
  BY <1>6 DEF RingOK
<1>. QED
  BY <1>1, <1>2, <1>3, <1>4, <1>5, <1>6 DEF Next, Operator, Job, MqStream, Thread, Tick

(* The flags of the slot and the driver.                                    *)
LEMMA FlagsStep ==
  ASSUME TypeOK, [Next]_vars
  PROVE  FlagsOK'
<1>. USE TypeParts, ConstantTypes
<1>1. CASE Run \/ MoveToTarget \/ RealTimePuppetStart \/ PuppetTick \/ RealTimePuppetStop
         \/ EditTopology \/ KukaStop("stop") \/ KukaStop("cancel") \/ KukaPlay
         \/ Reconnect \/ JobDisarms \/ JobHalts \/ Boot \/ Accept \/ FinishMove
         \/ StreamPoint \/ WaitFor \/ FinishStream \/ LeavePuppet
  BY <1>1 DEF Run, Note, MoveToTarget, RealTimePuppetStart, EnterPuppet, PuppetTick,
    RealTimePuppetStop, EditTopology, KukaStop, KukaPlay, Reconnect, JobDisarms, JobHalts,
    Boot, Accept, Interpret, FinishMove, StreamPoint, WaitFor, FinishStream, LeavePuppet,
    FlagsOK
<1>2. ASSUME NEW r \in Runs, WritePose(r) \/ WriteId(r) \/ WriteAction(r) \/ AwaitDone(r)
          \/ AwaitTimesOut(r) \/ WriteFails(r) \/ TickAborts(r) \/ TickFails(r)
          \/ TickReturned(r) \/ TickNoStart(r) \/ TickStarts(r) \/ TickRefills(r)
          \/ TickReturns(r)
      PROVE  FlagsOK'
  BY <1>2 DEF WritePose, ThreadStep, WriteId, WriteAction, AwaitDone, AwaitTimesOut,
    WriteFails, TickAborts, CleanUp, TickFails, TickReturned, TickNoStart, TickStarts,
    TickRefills, TickReturns, FlagsOK
<1>3. CASE UNCHANGED vars
  BY <1>3 DEF FlagsOK
<1>. QED
  BY <1>1, <1>2, <1>3 DEF Next, Operator, Job, MqStream, Thread, Tick

(* The slot, the driver and the history.                                    *)
LEMMA SlotStep ==
  ASSUME TypeOK, [Next]_vars
  PROVE  SlotOK'
<1>. USE TypeParts, ConstantTypes
<1>1. CASE Run
  BY <1>1 DEF Run, Note, SlotOK
<1>2. CASE MoveToTarget
  BY <1>2 DEF MoveToTarget, Note, Click, SlotOK
<1>3. CASE RealTimePuppetStart
  BY <1>3 DEF RealTimePuppetStart, EnterPuppet, Note, Click, SlotOK
<1>4. CASE RealTimePuppetStop
  BY <1>4 DEF RealTimePuppetStop, Note, Click, SlotOK
<1>5. CASE KukaStop("stop") \/ KukaStop("cancel")
  BY <1>5 DEF KukaStop, Note, Click, SlotOK
<1>6. CASE KukaPlay
  BY <1>6 DEF KukaPlay, Note, Click, SlotOK
<1>7. CASE Reconnect
  BY <1>7 DEF Reconnect, Note, SlotOK
<1>8. CASE JobDisarms
  BY <1>8 DEF JobDisarms, SlotOK
<1>9. CASE JobHalts
  BY <1>9 DEF JobHalts, SlotOK
<1>10. CASE PuppetTick \/ EditTopology \/ Boot \/ Accept \/ FinishMove \/ StreamPoint
         \/ WaitFor \/ FinishStream \/ LeavePuppet
  BY <1>10 DEF PuppetTick, EnterPuppet, EditTopology, Boot, Accept, Interpret, FinishMove,
    StreamPoint, WaitFor, FinishStream, LeavePuppet, SlotOK
<1>11. ASSUME NEW r \in Runs, WritePose(r) \/ WriteId(r) \/ WriteAction(r) \/ AwaitDone(r)
          \/ AwaitTimesOut(r) \/ WriteFails(r) \/ TickAborts(r) \/ TickFails(r)
          \/ TickReturned(r) \/ TickNoStart(r) \/ TickStarts(r) \/ TickRefills(r)
          \/ TickReturns(r)
      PROVE  SlotOK'
  BY <1>11 DEF WritePose, ThreadStep, WriteId, WriteAction, AwaitDone, AwaitTimesOut,
    WriteFails, TickAborts, CleanUp, TickFails, TickReturned, TickNoStart, TickStarts,
    TickRefills, TickReturns, SlotOK
<1>12. CASE UNCHANGED vars
  BY <1>12 DEF SlotOK
<1>. QED
  BY <1>1, <1>2, <1>3, <1>4, <1>5, <1>6, <1>7, <1>8, <1>9, <1>10, <1>11, <1>12 DEF Next,
    Operator, Job, MqStream, Thread, Tick

(* Mishaps are never taken back.                                            *)
LEMMA MishapsStep ==
  ASSUME TypeOK, [Next]_vars
  PROVE  mishaps \subseteq mishaps' /\ mishaps' \subseteq Mishaps
<1>. USE TypeParts, ConstantTypes
<1>1. CASE Run
  BY <1>1 DEF Run, Note
<1>2. CASE MoveToTarget
  BY <1>2 DEF MoveToTarget, Note
<1>3. CASE RealTimePuppetStart
  BY <1>3 DEF RealTimePuppetStart, EnterPuppet, Note
<1>4. CASE RealTimePuppetStop
  BY <1>4 DEF RealTimePuppetStop, Note
<1>5. CASE KukaStop("stop") \/ KukaStop("cancel")
  BY <1>5 DEF KukaStop, Note
<1>6. CASE KukaPlay
  BY <1>6 DEF KukaPlay, Note
<1>7. CASE Reconnect
  BY <1>7 DEF Reconnect, Note
<1>8. CASE PuppetTick \/ EditTopology \/ JobDisarms \/ JobHalts \/ Boot \/ Accept
         \/ FinishMove \/ StreamPoint \/ WaitFor \/ FinishStream \/ LeavePuppet
  BY <1>8 DEF PuppetTick, EnterPuppet, EditTopology, JobDisarms, JobHalts, Boot, Accept,
    Interpret, FinishMove, StreamPoint, WaitFor, FinishStream, LeavePuppet
<1>9. ASSUME NEW r \in Runs, WritePose(r) \/ WriteId(r) \/ WriteAction(r) \/ AwaitDone(r)
          \/ AwaitTimesOut(r) \/ WriteFails(r) \/ TickAborts(r) \/ TickFails(r)
          \/ TickReturned(r) \/ TickNoStart(r) \/ TickStarts(r) \/ TickRefills(r)
          \/ TickReturns(r)
      PROVE  mishaps \subseteq mishaps' /\ mishaps' \subseteq Mishaps
  BY <1>9 DEF WritePose, ThreadStep, WriteId, WriteAction, AwaitDone, AwaitTimesOut,
    WriteFails, TickAborts, CleanUp, TickFails, TickReturned, TickNoStart, TickStarts,
    TickRefills, TickReturns
<1>10. CASE UNCHANGED vars
  BY <1>10
<1>. QED
  BY <1>1, <1>2, <1>3, <1>4, <1>5, <1>6, <1>7, <1>8, <1>9, <1>10 DEF Next, Operator, Job,
    MqStream, Thread, Tick

(* The runs.                                                                *)
LEMMA RunsStep ==
  ASSUME TypeOK, [Next]_vars
  PROVE  RunsOK'
<1>. USE TypeParts, ConstantTypes
<1>1. CASE Run
  <2>1. driver \in 0..MaxDrivers /\ runs + 1 \in Runs
    BY <1>1 DEF Run, SlotOK, Runs
  <2>2. /\ phase' = [phase EXCEPT ![runs + 1] = "move_to_first"]
        /\ thread' = [thread EXCEPT ![runs + 1] = "pose"]
        /\ mine' = [mine EXCEPT ![runs + 1] = driver]
        /\ UNCHANGED <<cmd, written>>
    BY <1>1 DEF Run
  <2>. QED
    BY <2>1, <2>2 DEF RunsOK
<1>2. ASSUME NEW r \in Runs, WritePose(r)
      PROVE  RunsOK'
  BY <1>2 DEF WritePose, ThreadStep, RunsOK
<1>3. ASSUME NEW r \in Runs, WriteId(r)
      PROVE  RunsOK'
  BY <1>3 DEF WriteId, ThreadStep, RunsOK, ControllerOK
<1>4. ASSUME NEW r \in Runs, WriteAction(r)
      PROVE  RunsOK'
  BY <1>4 DEF WriteAction, ThreadStep, RunsOK
<1>5. ASSUME NEW r \in Runs, AwaitDone(r)
      PROVE  RunsOK'
  BY <1>5 DEF AwaitDone, ThreadStep, RunsOK
<1>6. ASSUME NEW r \in Runs, AwaitTimesOut(r)
      PROVE  RunsOK'
  BY <1>6 DEF AwaitTimesOut, ThreadStep, RunsOK
<1>7. ASSUME NEW r \in Runs, WriteFails(r)
      PROVE  RunsOK'
  BY <1>7 DEF WriteFails, ThreadStep, RunsOK
<1>8. ASSUME NEW r \in Runs, TickAborts(r)
      PROVE  RunsOK'
  BY <1>8 DEF TickAborts, CleanUp, RunsOK
<1>9. ASSUME NEW r \in Runs, TickFails(r)
      PROVE  RunsOK'
  BY <1>9 DEF TickFails, CleanUp, RunsOK
<1>10. ASSUME NEW r \in Runs, TickReturned(r)
      PROVE  RunsOK'
  BY <1>10 DEF TickReturned, CleanUp, RunsOK
<1>11. ASSUME NEW r \in Runs, TickNoStart(r)
      PROVE  RunsOK'
  BY <1>11 DEF TickNoStart, CleanUp, RunsOK
<1>12. ASSUME NEW r \in Runs, TickStarts(r)
      PROVE  RunsOK'
  BY <1>12 DEF TickStarts, RunsOK, Smaller, ControllerOK
<1>13. ASSUME NEW r \in Runs, TickRefills(r)
      PROVE  RunsOK'
  BY <1>13 DEF TickRefills, RunsOK, Smaller, ControllerOK
<1>14. ASSUME NEW r \in Runs, TickReturns(r)
      PROVE  RunsOK'
  BY <1>14 DEF TickReturns, RunsOK
<1>15. CASE MoveToTarget \/ RealTimePuppetStart \/ PuppetTick \/ RealTimePuppetStop
         \/ EditTopology \/ KukaStop("stop") \/ KukaStop("cancel") \/ KukaPlay
         \/ Reconnect \/ JobDisarms \/ JobHalts \/ Boot \/ Accept \/ FinishMove
         \/ StreamPoint \/ WaitFor \/ FinishStream \/ LeavePuppet
  BY <1>15 DEF MoveToTarget, Note, RealTimePuppetStart, EnterPuppet, PuppetTick,
    RealTimePuppetStop, EditTopology, KukaStop, KukaPlay, Reconnect, JobDisarms, JobHalts,
    Boot, Accept, Interpret, FinishMove, StreamPoint, WaitFor, FinishStream, LeavePuppet,
    RunsOK
<1>16. CASE UNCHANGED vars
  BY <1>16 DEF RunsOK
<1>. QED
  BY <1>1, <1>2, <1>3, <1>4, <1>5, <1>6, <1>7, <1>8, <1>9, <1>10, <1>11, <1>12, <1>13,
    <1>14, <1>15, <1>16 DEF
    Next, Operator, Job, MqStream, Thread, Tick

LEMMA TypeStep == TypeOK /\ [Next]_vars => TypeOK'
<1>. SUFFICES ASSUME TypeOK, [Next]_vars PROVE TypeOK'
  OBVIOUS
<1>1. ControllerOK' /\ RingOK' /\ FlagsOK' /\ SlotOK' /\ RunsOK' /\ mishaps' \subseteq Mishaps
  BY ControllerStep, RingStep, FlagsStep, SlotStep, RunsStep, MishapsStep
<1>. QED
  BY <1>1, Zenon DEF TypeOK, ControllerOK, RingOK, FlagsOK, SlotOK, RunsOK

(* Every variable keeps its type, whatever goes wrong.                       *)
THEOREM TypeCorrect == Spec => []TypeOK
  BY TypeInit, TypeStep, PTL DEF Spec

-----------------------------------------------------------------------------
(* What the mishaps rule out.                                               *)

Quiet == "raced" \notin mishaps

Calm == mishaps \subseteq {"moved"}

NoModal == \A r \in Runs : ~InModal(r)

LEMMA QuietClicks ==
  /\ Run /\ Quiet' => job = "none" /\ NoModal
  /\ MoveToTarget /\ Quiet' => job = "none" /\ NoModal
  /\ RealTimePuppetStop /\ Quiet' => ~Pending /\ \A r \in Runs : ~Writing(r)
  /\ \A kind : KukaStop(kind) /\ Quiet' => \A r \in Runs : ~Writing(r)
<1>. USE DEF Quiet, Note, TooSoon, NoModal
<1>1. Run /\ Quiet' => job = "none" /\ NoModal
  BY DEF Run
<1>2. MoveToTarget /\ Quiet' => job = "none" /\ NoModal
  BY DEF MoveToTarget
<1>3. RealTimePuppetStop /\ Quiet' => ~Pending /\ \A r \in Runs : ~Writing(r)
  BY DEF RealTimePuppetStop
<1>4. ASSUME NEW kind, KukaStop(kind), Quiet' PROVE \A r \in Runs : ~Writing(r)
  BY <1>4 DEF KukaStop
<1>. QED
  BY <1>1, <1>2, <1>3, <1>4

LEMMA CalmClicks ==
  /\ RealTimePuppetStart /\ Calm' => job = "none" /\ NoModal
  /\ KukaPlay /\ Calm' => pc' \in {"boot", "loop"}
  /\ ~(Reconnect /\ Calm')
  /\ MoveToTarget /\ mishaps' = {} => ~realtime_puppet_active
<1>. USE DEF Calm, Note, TooSoon, NoModal
<1>1. RealTimePuppetStart /\ Calm' => job = "none" /\ NoModal
  BY DEF RealTimePuppetStart
<1>2. KukaPlay /\ Calm' => pc' \in {"boot", "loop"}
  BY DEF KukaPlay
<1>3. ~(Reconnect /\ Calm')
  BY DEF Reconnect
<1>4. MoveToTarget /\ mishaps' = {} => ~realtime_puppet_active
  BY DEF MoveToTarget
<1>. QED
  BY <1>1, <1>2, <1>3, <1>4

LEMMA StayQuiet ==
  ASSUME TypeOK, [Next]_vars
  PROVE  (Quiet' => Quiet) /\ (Calm' => Calm) /\ (Calm => Quiet) /\ (Calm' => Quiet')
  BY MishapsStep DEF Quiet, Calm

-----------------------------------------------------------------------------
(* One run at a time, told to stop by Stop, with its commands accounted for. *)

Alone == Quiet => \A r, s \in Runs : InModal(r) /\ InModal(s) => r = s

Aborting == Quiet => (job # "none" => abort)

Writers == Quiet => \A r \in Runs : Writing(r) => InModal(r) /\ ~abort

Armed ==
  Quiet => /\ \A r \in Runs : InModal(r) /\ ~abort => armed
           /\ ~armed => MQ_ACTION = 0

(* A second run is only started by a click that meets the first one.        *)
LEMMA AloneStep ==
  ASSUME TypeOK, [Next]_vars, Alone
  PROVE  Alone'
<1>. USE StayQuiet, TypeParts DEF RunsOK
<1>1. CASE Run
  BY <1>1, QuietClicks DEF Run, Note, Alone, InModal, NoModal
<1>2. CASE MoveToTarget \/ RealTimePuppetStart \/ PuppetTick \/ RealTimePuppetStop
         \/ EditTopology \/ KukaStop("stop") \/ KukaStop("cancel") \/ KukaPlay
         \/ Reconnect \/ JobDisarms \/ JobHalts \/ Boot \/ Accept \/ FinishMove
         \/ StreamPoint \/ WaitFor \/ FinishStream \/ LeavePuppet
  BY <1>2 DEF MoveToTarget, Note, RealTimePuppetStart, EnterPuppet, PuppetTick,
    RealTimePuppetStop, EditTopology, KukaStop, KukaPlay, Reconnect, JobDisarms, JobHalts,
    Boot, Accept, Interpret, FinishMove, StreamPoint, WaitFor, FinishStream, LeavePuppet,
    Alone, InModal
<1>3. ASSUME NEW r \in Runs, WritePose(r) \/ WriteId(r) \/ WriteAction(r) \/ AwaitDone(r)
          \/ AwaitTimesOut(r) \/ WriteFails(r) \/ TickAborts(r) \/ TickFails(r)
          \/ TickReturned(r) \/ TickNoStart(r) \/ TickStarts(r) \/ TickRefills(r)
          \/ TickReturns(r)
      PROVE  Alone'
  BY <1>3 DEF WritePose, ThreadStep, WriteId, WriteAction, AwaitDone, AwaitTimesOut,
    WriteFails, TickAborts, CleanUp, TickFails, TickReturned, TickNoStart, TickStarts,
    TickRefills, TickReturns, Alone, InModal
<1>4. CASE UNCHANGED vars
  BY <1>4 DEF Alone, InModal
<1>. QED
  BY <1>1, <1>2, <1>3, <1>4 DEF Next, Operator, Job, MqStream, Thread, Tick

(* Stop and Cancel tell the modals.                                         *)
LEMMA AbortingStep ==
  ASSUME TypeOK, [Next]_vars, Aborting
  PROVE  Aborting'
<1>. USE StayQuiet, TypeParts DEF RunsOK
<1>1. CASE Run
  BY <1>1, QuietClicks DEF Run, Note, Aborting
<1>2. CASE MoveToTarget \/ RealTimePuppetStart \/ PuppetTick \/ RealTimePuppetStop
         \/ EditTopology \/ KukaStop("stop") \/ KukaStop("cancel") \/ KukaPlay
         \/ Reconnect \/ JobDisarms \/ JobHalts \/ Boot \/ Accept \/ FinishMove
         \/ StreamPoint \/ WaitFor \/ FinishStream \/ LeavePuppet
  BY <1>2 DEF MoveToTarget, Note, RealTimePuppetStart, EnterPuppet, PuppetTick,
    RealTimePuppetStop, EditTopology, KukaStop, KukaPlay, Reconnect, JobDisarms, JobHalts,
    Boot, Accept, Interpret, FinishMove, StreamPoint, WaitFor, FinishStream, LeavePuppet,
    Aborting
<1>3. ASSUME NEW r \in Runs, WritePose(r) \/ WriteId(r) \/ WriteAction(r) \/ AwaitDone(r)
          \/ AwaitTimesOut(r) \/ WriteFails(r) \/ TickAborts(r) \/ TickFails(r)
          \/ TickReturned(r) \/ TickNoStart(r) \/ TickStarts(r) \/ TickRefills(r)
          \/ TickReturns(r)
      PROVE  Aborting'
  BY <1>3 DEF WritePose, ThreadStep, WriteId, WriteAction, AwaitDone, AwaitTimesOut,
    WriteFails, TickAborts, CleanUp, TickFails, TickReturned, TickNoStart, TickStarts,
    TickRefills, TickReturns, Aborting
<1>4. CASE UNCHANGED vars
  BY <1>4 DEF Aborting
<1>. QED
  BY <1>1, <1>2, <1>3, <1>4 DEF Next, Operator, Job, MqStream, Thread, Tick

(* Only a run that is under way writes a move.                              *)
LEMMA WritersStep ==
  ASSUME TypeOK, [Next]_vars, Writers
  PROVE  Writers'
<1>. USE StayQuiet, TypeParts DEF RunsOK
<1>1. CASE Run
  BY <1>1, QuietClicks DEF Run, Note, Writers, InModal, Writing, NoModal
<1>2. CASE KukaStop("stop") \/ KukaStop("cancel")
  BY <1>2, QuietClicks DEF KukaStop, Note, Writers, InModal, Writing
<1>3. CASE MoveToTarget \/ RealTimePuppetStart \/ PuppetTick \/ RealTimePuppetStop
         \/ EditTopology \/ KukaPlay \/ Reconnect \/ JobDisarms \/ JobHalts \/ Boot
         \/ Accept \/ FinishMove \/ StreamPoint \/ WaitFor \/ FinishStream \/ LeavePuppet
  BY <1>3 DEF MoveToTarget, Note, RealTimePuppetStart, EnterPuppet, PuppetTick,
    RealTimePuppetStop, EditTopology, KukaPlay, Reconnect, JobDisarms, JobHalts, Boot,
    Accept, Interpret, FinishMove, StreamPoint, WaitFor, FinishStream, LeavePuppet,
    Writers, InModal, Writing
<1>4. ASSUME NEW r \in Runs, WritePose(r) \/ WriteId(r) \/ WriteAction(r) \/ AwaitDone(r)
          \/ AwaitTimesOut(r) \/ WriteFails(r) \/ TickAborts(r) \/ TickFails(r)
          \/ TickReturned(r) \/ TickNoStart(r) \/ TickStarts(r) \/ TickRefills(r)
          \/ TickReturns(r)
      PROVE  Writers'
  BY <1>4 DEF WritePose, ThreadStep, WriteId, WriteAction, AwaitDone, AwaitTimesOut,
    WriteFails, TickAborts, CleanUp, TickFails, TickReturned, TickNoStart, TickStarts,
    TickRefills, TickReturns, Writers, InModal, Writing
<1>5. CASE UNCHANGED vars
  BY <1>5 DEF Writers, InModal, Writing
<1>. QED
  BY <1>1, <1>2, <1>3, <1>4, <1>5 DEF Next, Operator, Job, MqStream, Thread, Tick

(* What is commanded was clicked for after the last Stop.                   *)
LEMMA ArmedStep ==
  ASSUME TypeOK, [Next]_vars, Aborting, Writers, Armed
  PROVE  Armed'
<1>. USE StayQuiet, TypeParts DEF RunsOK
<1>1. CASE Run
  BY <1>1 DEF Run, Note, Armed, InModal, Aborting, Writers, Writing
<1>2. CASE MoveToTarget \/ RealTimePuppetStart \/ PuppetTick \/ RealTimePuppetStop
         \/ EditTopology \/ KukaStop("stop") \/ KukaStop("cancel") \/ KukaPlay
         \/ Reconnect \/ JobDisarms \/ JobHalts \/ Boot \/ Accept \/ FinishMove
         \/ StreamPoint \/ WaitFor \/ FinishStream \/ LeavePuppet
  BY <1>2 DEF MoveToTarget, Note, RealTimePuppetStart, EnterPuppet, PuppetTick,
    RealTimePuppetStop, EditTopology, KukaStop, KukaPlay, Reconnect, JobDisarms, JobHalts,
    Boot, Accept, Interpret, FinishMove, StreamPoint, WaitFor, FinishStream, LeavePuppet,
    Armed, InModal, Aborting, Writers, Writing
<1>3. ASSUME NEW r \in Runs, WritePose(r) \/ WriteId(r) \/ WriteAction(r) \/ AwaitDone(r)
          \/ AwaitTimesOut(r) \/ WriteFails(r) \/ TickAborts(r) \/ TickFails(r)
          \/ TickReturned(r) \/ TickNoStart(r) \/ TickStarts(r) \/ TickRefills(r)
          \/ TickReturns(r)
      PROVE  Armed'
  BY <1>3 DEF WritePose, ThreadStep, WriteId, WriteAction, AwaitDone, AwaitTimesOut,
    WriteFails, TickAborts, CleanUp, TickFails, TickReturned, TickNoStart, TickStarts,
    TickRefills, TickReturns, Armed, InModal, Aborting, Writers, Writing
<1>4. CASE UNCHANGED vars
  BY <1>4 DEF Armed, InModal, Aborting, Writers, Writing
<1>. QED
  BY <1>1, <1>2, <1>3, <1>4 DEF Next, Operator, Job, MqStream, Thread, Tick

(* The label.                                                               *)
LEMMA LabelStep ==
  ASSUME TypeOK, [Next]_vars, Alone, LabelTruthful
  PROVE  LabelTruthful'
<1>. USE StayQuiet, TypeParts DEF RunsOK
<1>1. CASE Run
  <2>1. runs + 1 \in Runs
    BY <1>1, ConstantTypes DEF Run, SlotOK, Runs
  <2>2. label' /\ phase'[runs + 1] = "move_to_first"
    BY <1>1, <2>1 DEF Run
  <2>. QED
    BY <2>1, <2>2 DEF LabelTruthful, InModal
<1>2. CASE MoveToTarget \/ RealTimePuppetStart \/ PuppetTick \/ RealTimePuppetStop
         \/ EditTopology \/ KukaStop("stop") \/ KukaStop("cancel") \/ KukaPlay
         \/ Reconnect \/ JobDisarms \/ JobHalts \/ Boot \/ Accept \/ FinishMove
         \/ StreamPoint \/ WaitFor \/ FinishStream \/ LeavePuppet
  BY <1>2 DEF MoveToTarget, Note, RealTimePuppetStart, EnterPuppet, PuppetTick,
    RealTimePuppetStop, EditTopology, KukaStop, KukaPlay, Reconnect, JobDisarms, JobHalts,
    Boot, Accept, Interpret, FinishMove, StreamPoint, WaitFor, FinishStream, LeavePuppet,
    LabelTruthful, Quiet, Alone, InModal
<1>3. ASSUME NEW r \in Runs, WritePose(r) \/ WriteId(r) \/ WriteAction(r) \/ AwaitDone(r)
          \/ AwaitTimesOut(r) \/ WriteFails(r) \/ TickAborts(r) \/ TickFails(r)
          \/ TickReturned(r) \/ TickNoStart(r) \/ TickStarts(r) \/ TickRefills(r)
          \/ TickReturns(r)
      PROVE  LabelTruthful'
  BY <1>3 DEF WritePose, ThreadStep, WriteId, WriteAction, AwaitDone, AwaitTimesOut,
    WriteFails, TickAborts, CleanUp, TickFails, TickReturned, TickNoStart, TickStarts,
    TickRefills, TickReturns, LabelTruthful, Quiet, Alone, InModal
<1>4. CASE UNCHANGED vars
  BY <1>4 DEF LabelTruthful, Quiet, Alone, InModal
<1>. QED
  BY <1>1, <1>2, <1>3, <1>4 DEF Next, Operator, Job, MqStream, Thread, Tick

-----------------------------------------------------------------------------
(* Puppet Mode, Stop and the numbers of the commands.                       *)

Halting == Calm => (job \in {"stopping", "cancelling"} => ~armed)

Puppets ==
  Calm => /\ realtime_puppet_active => job = "none" /\ NoModal
          /\ MQ_ACTION = 20 => realtime_puppet_active \/ job \in {"stop", "cancel"}

Counted == Calm => MQ_CMD_ID = _cmd_id /\ MQ_DONE_ID <= MQ_CMD_ID

(* What a run in its first move knows: the pose it waits for is its own, and *)
(* so is the number it waits for.                                           *)
First ==
  Calm => \A r \in Runs : phase[r] = "move_to_first" =>
    /\ thread[r] \in {"id", "action", "await"} => MQ_E6POS = r
    /\ thread[r] \in {"action", "await"} =>
         cmd[r] = MQ_CMD_ID /\ (MQ_DONE_ID >= cmd[r] => r \in reached)
    /\ thread[r] = "ok" => r \in reached

(* A run that may go on to stream, or that streams, meets an interpreter    *)
(* that is ready for it.                                                    *)
Answered(r) ==
  /\ phase[r] = "move_to_first"
  /\ thread[r] = "ok" \/ (thread[r] \in {"action", "await"} /\ MQ_DONE_ID >= cmd[r])

Acked ==
  Calm /\ ~abort => \A r \in Runs :
    /\ Answered(r) => program = "running" /\ pc \in {"loop", "move"}
    /\ phase[r] = "streaming" => program = "running" /\ pc \in {"loop", "stream", "wait"}

Streams ==
  Calm => \A r \in Runs : phase[r] = "streaming" =>
    /\ streaming = r /\ thread[r] = "ok" /\ MQ_WR_IDX = written[r] + 1
    /\ cmd[r] = MQ_CMD_ID /\ MQ_ACTION \in {0, 10}

(* A stream is under way, or is commanded.                                  *)
Consuming == pc \in {"stream", "wait"} \/ MQ_ACTION = 10

Live ==
  Calm /\ program = "running" /\ Consuming =>
    /\ abort => job # "none"
    /\ \/ streaming \in Runs /\ phase[streaming] = "streaming" /\ MQ_DONE_ID < cmd[streaming]
       \/ abort /\ NoModal

FirstMade == Calm => FirstMoveMade

Following ==
  mishaps = {} /\ realtime_puppet_active =>
    MQ_ACTION = 20 /\ ~(program = "running" /\ pc \in {"move", "stream", "wait"})

(* The slot of MQ_PT that waypoint k goes to.                               *)
Place(k) == ((k - 1) % Ring) + 1

(* The points between the indices are in their slots, and are the stream's. *)
Loaded ==
  Calm /\ Consuming =>
    /\ 1 <= MQ_RD_IDX /\ MQ_RD_IDX <= MQ_WR_IDX
    /\ MQ_WR_IDX <= MQ_RD_IDX + Ring /\ MQ_WR_IDX <= Total + 1
    /\ \A k \in 1..Total :
         MQ_RD_IDX <= k /\ k < MQ_WR_IDX => MQ_PT[Place(k)] = <<streaming, k>>

(* The interpreter's own index keeps step with MQ_RD_IDX.                   *)
Turn ==
  Calm => /\ pc \in {"stream", "wait"} => NextSlot = Place(MQ_RD_IDX)
          /\ MQ_ACTION = 10 => /\ program = "running" /\ pc \in {"loop", "stream", "wait"}
                               /\ pc = "loop" => MQ_RD_IDX = 1


(* No click comes between the two halves of Stop.                           *)
LEMMA HaltingStep ==
  ASSUME TypeOK, [Next]_vars, Halting, Puppets
  PROVE  Halting'
<1>. USE StayQuiet, TypeParts DEF RunsOK, InModal, NoModal
<1>1. CASE Run
  BY <1>1, QuietClicks, CalmClicks DEF Run, Note, Halting, Puppets
<1>2. CASE MoveToTarget
  BY <1>2, QuietClicks, CalmClicks DEF MoveToTarget, Note, Halting, Puppets
<1>3. CASE RealTimePuppetStart
  BY <1>3, QuietClicks, CalmClicks DEF RealTimePuppetStart, EnterPuppet, Note, Halting,
    Puppets
<1>4. CASE PuppetTick \/ RealTimePuppetStop \/ EditTopology \/ KukaStop("stop")
         \/ KukaStop("cancel") \/ KukaPlay \/ Reconnect \/ JobDisarms \/ JobHalts \/ Boot
         \/ Accept \/ FinishMove \/ StreamPoint \/ WaitFor \/ FinishStream \/ LeavePuppet
  BY <1>4 DEF PuppetTick, EnterPuppet, RealTimePuppetStop, Note, EditTopology, KukaStop,
    KukaPlay, Reconnect, JobDisarms, JobHalts, Boot, Accept, Interpret, FinishMove,
    StreamPoint, WaitFor, FinishStream, LeavePuppet, Halting, Puppets
<1>5. ASSUME NEW r \in Runs, WritePose(r) \/ WriteId(r) \/ WriteAction(r) \/ AwaitDone(r)
          \/ AwaitTimesOut(r) \/ WriteFails(r) \/ TickAborts(r) \/ TickFails(r)
          \/ TickReturned(r) \/ TickNoStart(r) \/ TickStarts(r) \/ TickRefills(r)
          \/ TickReturns(r)
      PROVE  Halting'
  BY <1>5 DEF WritePose, ThreadStep, WriteId, WriteAction, AwaitDone, AwaitTimesOut,
    WriteFails, TickAborts, CleanUp, TickFails, TickReturned, TickNoStart, TickStarts,
    TickRefills, TickReturns, Halting, Puppets
<1>6. CASE UNCHANGED vars
  BY <1>6 DEF Halting, Puppets
<1>. QED
  BY <1>1, <1>2, <1>3, <1>4, <1>5, <1>6 DEF Next, Operator, Job, MqStream, Thread, Tick

(* Puppet Mode is alone, and is the only one to leave MQ_ACTION at 20.      *)
LEMMA PuppetsStep ==
  ASSUME TypeOK, [Next]_vars, Puppets
  PROVE  Puppets'
<1>. USE StayQuiet, TypeParts DEF RunsOK, InModal, NoModal
<1>1. CASE Run
  BY <1>1, QuietClicks, CalmClicks DEF Run, Note, Puppets
<1>2. CASE RealTimePuppetStart
  BY <1>2, QuietClicks, CalmClicks DEF RealTimePuppetStart, EnterPuppet, Note, Puppets
<1>3. CASE RealTimePuppetStop
  BY <1>3 DEF RealTimePuppetStop, Note, Puppets
<1>4. CASE KukaStop("stop") \/ KukaStop("cancel")
  BY <1>4 DEF KukaStop, Note, Puppets
<1>5. CASE MoveToTarget \/ PuppetTick
  BY <1>5 DEF MoveToTarget, Note, PuppetTick, EnterPuppet, Puppets
<1>6. CASE JobDisarms \/ JobHalts
  BY <1>6 DEF JobDisarms, JobHalts, Puppets
<1>7. CASE KukaPlay
  BY <1>7 DEF KukaPlay, Note, Puppets
<1>8. CASE Reconnect
  BY <1>8, QuietClicks, CalmClicks DEF Reconnect, Note, Puppets
<1>9. CASE EditTopology \/ Boot \/ Accept \/ FinishMove \/ StreamPoint \/ WaitFor
         \/ FinishStream \/ LeavePuppet
  BY <1>9 DEF EditTopology, Boot, Accept, Interpret, FinishMove, StreamPoint, WaitFor,
    FinishStream, LeavePuppet, Puppets
<1>10. ASSUME NEW r \in Runs, WritePose(r) \/ WriteId(r) \/ WriteAction(r) \/ AwaitDone(r)
          \/ AwaitTimesOut(r) \/ WriteFails(r) \/ TickAborts(r) \/ TickFails(r)
          \/ TickReturned(r) \/ TickNoStart(r) \/ TickStarts(r) \/ TickRefills(r)
          \/ TickReturns(r)
      PROVE  Puppets'
  BY <1>10 DEF WritePose, ThreadStep, WriteId, WriteAction, AwaitDone, AwaitTimesOut,
    WriteFails, TickAborts, CleanUp, TickFails, TickReturned, TickNoStart, TickStarts,
    TickRefills, TickReturns, Puppets
<1>11. CASE UNCHANGED vars
  BY <1>11 DEF Puppets
<1>. QED
  BY <1>1, <1>2, <1>3, <1>4, <1>5, <1>6, <1>7, <1>8, <1>9, <1>10, <1>11 DEF Next,
    Operator, Job, MqStream, Thread, Tick

(* The driver counts its commands on the controller.                        *)
LEMMA CountedStep ==
  ASSUME TypeOK, [Next]_vars, Counted
  PROVE  Counted'
<1>. USE StayQuiet, TypeParts DEF RunsOK, InModal, NoModal
<1>1. CASE Reconnect
  BY <1>1, QuietClicks, CalmClicks DEF Reconnect, Note, Counted, ControllerOK
<1>2. CASE Run \/ MoveToTarget \/ RealTimePuppetStart \/ PuppetTick \/ RealTimePuppetStop
         \/ EditTopology \/ KukaStop("stop") \/ KukaStop("cancel") \/ KukaPlay
         \/ JobDisarms \/ JobHalts \/ Boot \/ Accept \/ FinishMove \/ StreamPoint
         \/ WaitFor \/ FinishStream \/ LeavePuppet
  BY <1>2 DEF Run, Note, MoveToTarget, RealTimePuppetStart, EnterPuppet, PuppetTick,
    RealTimePuppetStop, EditTopology, KukaStop, KukaPlay, JobDisarms, JobHalts, Boot,
    Accept, Interpret, FinishMove, StreamPoint, WaitFor, FinishStream, LeavePuppet,
    Counted, ControllerOK
<1>3. ASSUME NEW r \in Runs, WritePose(r) \/ WriteId(r) \/ WriteAction(r) \/ AwaitDone(r)
          \/ AwaitTimesOut(r) \/ WriteFails(r) \/ TickAborts(r) \/ TickFails(r)
          \/ TickReturned(r) \/ TickNoStart(r) \/ TickStarts(r) \/ TickRefills(r)
          \/ TickReturns(r)
      PROVE  Counted'
  BY <1>3 DEF WritePose, ThreadStep, WriteId, WriteAction, AwaitDone, AwaitTimesOut,
    WriteFails, TickAborts, CleanUp, TickFails, TickReturned, TickNoStart, TickStarts,
    TickRefills, TickReturns, Counted, ControllerOK
<1>4. CASE UNCHANGED vars
  BY <1>4 DEF Counted, ControllerOK
<1>. QED
  BY <1>1, <1>2, <1>3, <1>4 DEF Next, Operator, Job, MqStream, Thread, Tick

(* The first move.                                                          *)
LEMMA FirstStep ==
  ASSUME TypeOK, [Next]_vars, Alone, Writers, Puppets, Counted, Live, First
  PROVE  First'
<1>. USE StayQuiet, TypeParts DEF RunsOK, InModal, NoModal
<1>1. CASE Run
  BY <1>1, QuietClicks, CalmClicks DEF Run, Note, First, Puppets, Alone, Writers, Writing,
    ControllerOK
<1>2. CASE MoveToTarget
  BY <1>2, QuietClicks, CalmClicks DEF MoveToTarget, Note, First, Puppets, Alone, Writers,
    Writing, ControllerOK
<1>3. CASE RealTimePuppetStart
  BY <1>3, QuietClicks, CalmClicks DEF RealTimePuppetStart, EnterPuppet, Note, First,
    Puppets, Alone, Writers, Writing, ControllerOK
<1>4. CASE FinishStream
  BY <1>4 DEF FinishStream, Interpret, First, Puppets, Alone, Writers, Writing,
    ControllerOK, Live, Consuming
<1>5. ASSUME NEW r \in Runs, WriteId(r)
      PROVE  First'
  BY <1>5 DEF WriteId, ThreadStep, First, Puppets, Alone, Writers, Writing, ControllerOK,
    Counted
<1>6. ASSUME NEW r \in Runs, WritePose(r)
      PROVE  First'
  BY <1>6 DEF WritePose, ThreadStep, First, Puppets, Alone, Writers, Writing, ControllerOK
<1>7. CASE PuppetTick \/ RealTimePuppetStop \/ EditTopology \/ KukaStop("stop")
         \/ KukaStop("cancel") \/ KukaPlay \/ Reconnect \/ JobDisarms \/ JobHalts \/ Boot
         \/ Accept \/ FinishMove \/ StreamPoint \/ WaitFor \/ LeavePuppet
  BY <1>7 DEF PuppetTick, EnterPuppet, RealTimePuppetStop, Note, EditTopology, KukaStop,
    KukaPlay, Reconnect, JobDisarms, JobHalts, Boot, Accept, Interpret, FinishMove,
    StreamPoint, WaitFor, LeavePuppet, First, Puppets, Alone, Writers, Writing,
    ControllerOK
<1>8. ASSUME NEW r \in Runs, WriteAction(r) \/ AwaitDone(r) \/ AwaitTimesOut(r)
             \/ WriteFails(r)
          \/ TickAborts(r) \/ TickFails(r) \/ TickReturned(r) \/ TickNoStart(r)
          \/ TickStarts(r) \/ TickRefills(r) \/ TickReturns(r)
      PROVE  First'
  BY <1>8 DEF WriteAction, ThreadStep, AwaitDone, AwaitTimesOut, WriteFails, TickAborts,
    CleanUp, TickFails, TickReturned, TickNoStart, TickStarts, TickRefills, TickReturns,
    First, Puppets, Alone, Writers, Writing, ControllerOK
<1>9. CASE UNCHANGED vars
  BY <1>9 DEF First, Puppets, Alone, Writers, Writing, ControllerOK
<1>. QED
  BY <1>1, <1>2, <1>3, <1>4, <1>5, <1>6, <1>7, <1>8, <1>9 DEF Next, Operator, Job,
    MqStream, Thread, Tick

(* A stream starts once its first move is done.                             *)
LEMMA FirstMadeStep ==
  ASSUME TypeOK, [Next]_vars, First, FirstMade
  PROVE  FirstMade'
<1>. USE StayQuiet, TypeParts DEF RunsOK, InModal, NoModal
<1>1. CASE Run \/ MoveToTarget \/ RealTimePuppetStart \/ PuppetTick \/ RealTimePuppetStop
         \/ EditTopology \/ KukaStop("stop") \/ KukaStop("cancel") \/ KukaPlay
         \/ Reconnect \/ JobDisarms \/ JobHalts \/ Boot \/ Accept \/ FinishMove
         \/ StreamPoint \/ WaitFor \/ FinishStream \/ LeavePuppet
  BY <1>1 DEF Run, Note, MoveToTarget, RealTimePuppetStart, EnterPuppet, PuppetTick,
    RealTimePuppetStop, EditTopology, KukaStop, KukaPlay, Reconnect, JobDisarms, JobHalts,
    Boot, Accept, Interpret, FinishMove, StreamPoint, WaitFor, FinishStream, LeavePuppet,
    FirstMade, FirstMoveMade, First
<1>2. ASSUME NEW r \in Runs, WritePose(r) \/ WriteId(r) \/ WriteAction(r) \/ AwaitDone(r)
          \/ AwaitTimesOut(r) \/ WriteFails(r) \/ TickAborts(r) \/ TickFails(r)
          \/ TickReturned(r) \/ TickNoStart(r) \/ TickStarts(r) \/ TickRefills(r)
          \/ TickReturns(r)
      PROVE  FirstMade'
  BY <1>2 DEF WritePose, ThreadStep, WriteId, WriteAction, AwaitDone, AwaitTimesOut,
    WriteFails, TickAborts, CleanUp, TickFails, TickReturned, TickNoStart, TickStarts,
    TickRefills, TickReturns, FirstMade, FirstMoveMade, First
<1>3. CASE UNCHANGED vars
  BY <1>3 DEF FirstMade, FirstMoveMade, First
<1>. QED
  BY <1>1, <1>2, <1>3 DEF Next, Operator, Job, MqStream, Thread, Tick

(* The interpreter between a run's move and its stream.                     *)
LEMMA AckedStep ==
  ASSUME TypeOK, [Next]_vars, Alone, Aborting, Puppets, Counted, Streams, Live, Acked
  PROVE  Acked'
<1>. USE StayQuiet, TypeParts DEF RunsOK, InModal, NoModal
<1>1. CASE Run
  BY <1>1, QuietClicks, CalmClicks DEF Run, Note, Acked, Answered
<1>2. CASE MoveToTarget
  BY <1>2, QuietClicks, CalmClicks DEF MoveToTarget, Note, Acked, Answered
<1>3. CASE RealTimePuppetStart
  BY <1>3, QuietClicks, CalmClicks DEF RealTimePuppetStart, EnterPuppet, Note, Acked,
    Answered
<1>4. CASE JobHalts
  BY <1>4 DEF JobHalts, Acked, Answered, Aborting
<1>5. CASE KukaPlay
  BY <1>5 DEF KukaPlay, Note, Acked, Answered
<1>6. CASE Accept
  BY <1>6 DEF Accept, Interpret, Acked, Answered, Live, Consuming, Alone, Puppets,
    Aborting, Streams
<1>7. ASSUME NEW r \in Runs, WriteId(r)
      PROVE  Acked'
  BY <1>7 DEF WriteId, ThreadStep, Acked, Answered, Counted, ControllerOK
<1>8. ASSUME NEW r \in Runs, AwaitDone(r)
      PROVE  Acked'
  BY <1>8 DEF AwaitDone, ThreadStep, Acked, Answered
<1>9. ASSUME NEW r \in Runs, TickStarts(r)
      PROVE  Acked'
  BY <1>9 DEF TickStarts, Acked, Answered, Settled
<1>10. CASE FinishMove \/ FinishStream
  BY <1>10 DEF FinishMove, Interpret, FinishStream, Acked, Answered
<1>11. CASE PuppetTick \/ RealTimePuppetStop \/ EditTopology \/ KukaStop("stop")
         \/ KukaStop("cancel") \/ Reconnect \/ JobDisarms \/ Boot \/ StreamPoint
         \/ WaitFor \/ LeavePuppet
  BY <1>11 DEF PuppetTick, EnterPuppet, RealTimePuppetStop, Note, EditTopology, KukaStop,
    Reconnect, JobDisarms, Boot, StreamPoint, Interpret, WaitFor, LeavePuppet, Acked,
    Answered
<1>12. ASSUME NEW r \in Runs, WritePose(r) \/ WriteAction(r) \/ AwaitTimesOut(r)
             \/ WriteFails(r)
          \/ TickAborts(r) \/ TickFails(r) \/ TickReturned(r) \/ TickNoStart(r)
          \/ TickRefills(r) \/ TickReturns(r)
      PROVE  Acked'
  BY <1>12 DEF WritePose, ThreadStep, WriteAction, AwaitTimesOut, WriteFails, TickAborts,
    CleanUp, TickFails, TickReturned, TickNoStart, TickRefills, TickReturns, Acked,
    Answered
<1>13. CASE UNCHANGED vars
  BY <1>13 DEF Acked, Answered
<1>. QED
  BY <1>1, <1>2, <1>3, <1>4, <1>5, <1>6, <1>7, <1>8, <1>9, <1>10, <1>11, <1>12, <1>13 DEF
    Next, Operator, Job, MqStream, Thread, Tick

(* What a run that streams left on the controller.                          *)
LEMMA StreamsStep ==
  ASSUME TypeOK, [Next]_vars, Alone, Writers, Puppets, Streams
  PROVE  Streams'
<1>. USE StayQuiet, TypeParts DEF RunsOK, InModal, NoModal
<1>1. CASE Run
  BY <1>1, QuietClicks, CalmClicks DEF Run, Note, Streams, Alone, Puppets, Writers,
    Writing
<1>2. CASE MoveToTarget
  BY <1>2, QuietClicks, CalmClicks DEF MoveToTarget, Note, Streams, Alone, Puppets,
    Writers, Writing
<1>3. CASE RealTimePuppetStart
  BY <1>3, QuietClicks, CalmClicks DEF RealTimePuppetStart, EnterPuppet, Note, Streams,
    Alone, Puppets, Writers, Writing
<1>4. ASSUME NEW r \in Runs, TickStarts(r)
      PROVE  Streams'
  BY <1>4 DEF TickStarts, Streams, Alone, Puppets, Writers, Writing
<1>5. ASSUME NEW r \in Runs, TickRefills(r)
      PROVE  Streams'
  BY <1>5 DEF TickRefills, Streams, Alone, Puppets, Writers, Writing, ControllerOK
<1>6. CASE PuppetTick \/ RealTimePuppetStop \/ EditTopology \/ KukaStop("stop")
         \/ KukaStop("cancel") \/ KukaPlay \/ Reconnect \/ JobDisarms \/ JobHalts \/ Boot
         \/ Accept \/ FinishMove \/ StreamPoint \/ WaitFor \/ FinishStream \/ LeavePuppet
  BY <1>6 DEF PuppetTick, EnterPuppet, RealTimePuppetStop, Note, EditTopology, KukaStop,
    KukaPlay, Reconnect, JobDisarms, JobHalts, Boot, Accept, Interpret, FinishMove,
    StreamPoint, WaitFor, FinishStream, LeavePuppet, Streams, Alone, Puppets, Writers,
    Writing
<1>7. ASSUME NEW r \in Runs, WritePose(r) \/ WriteId(r) \/ WriteAction(r) \/ AwaitDone(r)
          \/ AwaitTimesOut(r) \/ WriteFails(r) \/ TickAborts(r) \/ TickFails(r)
          \/ TickReturned(r) \/ TickNoStart(r) \/ TickReturns(r)
      PROVE  Streams'
  BY <1>7 DEF WritePose, ThreadStep, WriteId, WriteAction, AwaitDone, AwaitTimesOut,
    WriteFails, TickAborts, CleanUp, TickFails, TickReturned, TickNoStart, TickReturns,
    Streams, Alone, Puppets, Writers, Writing
<1>8. CASE UNCHANGED vars
  BY <1>8 DEF Streams, Alone, Puppets, Writers, Writing
<1>. QED
  BY <1>1, <1>2, <1>3, <1>4, <1>5, <1>6, <1>7, <1>8 DEF Next, Operator, Job, MqStream,
    Thread, Tick

(* A stream the interpreter works at has its run, or was stopped.           *)
LEMMA LiveStep ==
  ASSUME TypeOK, [Next]_vars, Alone, Writers, Puppets, Counted, Streams, Turn, Live
  PROVE  Live'
<1>. USE StayQuiet, TypeParts DEF RunsOK, InModal, NoModal
<1>1. CASE Run
  BY <1>1, QuietClicks, CalmClicks DEF Run, Note, Live, Consuming
<1>2. CASE MoveToTarget
  <2>. SUFFICES ASSUME Calm' PROVE Live'
    BY DEF Live
  <2>1. Calm /\ job = "none" /\ NoModal
    BY <1>2, QuietClicks, CalmClicks
  <2>2. ~(program = "running" /\ Consuming)
    BY <2>1 DEF Live
  <2>. QED
    BY <1>2, <2>2 DEF Live, Consuming, MoveToTarget, RealTimePuppetStart, EnterPuppet
<1>3. CASE RealTimePuppetStart
  <2>. SUFFICES ASSUME Calm' PROVE Live'
    BY DEF Live
  <2>1. Calm /\ job = "none" /\ NoModal
    BY <1>3, QuietClicks, CalmClicks
  <2>2. ~(program = "running" /\ Consuming)
    BY <2>1 DEF Live
  <2>. QED
    BY <1>3, <2>2 DEF Live, Consuming, MoveToTarget, RealTimePuppetStart, EnterPuppet
<1>4. CASE PuppetTick
  <2>. SUFFICES ASSUME Calm' PROVE Live'
    BY DEF Live
  <2>1. Calm /\ job = "none" /\ NoModal
    BY <1>4, StayQuiet DEF PuppetTick, Puppets
  <2>2. ~(program = "running" /\ Consuming)
    BY <2>1 DEF Live
  <2>. QED
    BY <1>4, <2>2 DEF Live, Consuming, PuppetTick, EnterPuppet
<1>5. CASE RealTimePuppetStop \/ JobDisarms
  BY <1>5 DEF RealTimePuppetStop, Note, JobDisarms, Live, Consuming
<1>6. CASE JobHalts
  BY <1>6 DEF JobHalts, Live, Consuming
<1>7. CASE KukaStop("stop") \/ KukaStop("cancel")
  BY <1>7 DEF KukaStop, Note, Live, Consuming
<1>8. CASE Accept \/ StreamPoint \/ WaitFor \/ LeavePuppet
  BY <1>8 DEF Accept, Interpret, StreamPoint, WaitFor, LeavePuppet, Live, Consuming
<1>9. CASE KukaPlay
  BY <1>9, QuietClicks, CalmClicks DEF KukaPlay, Note, Live, Consuming, Turn
<1>10. CASE Reconnect
  BY <1>10, QuietClicks, CalmClicks DEF Reconnect, Note, Live, Consuming
<1>11. CASE Boot
  BY <1>11 DEF Boot, Live, Consuming, Turn
<1>12. ASSUME NEW r \in Runs, TickStarts(r)
      PROVE  Live'
  BY <1>12 DEF TickStarts, Live, Consuming, Counted, ControllerOK
<1>13. ASSUME NEW r \in Runs, TickReturns(r)
      PROVE  Live'
  <2>1. phase[r] = "streaming" /\ ~abort /\ MQ_DONE_ID >= cmd[r]
    BY <1>13 DEF TickReturns
  <2>2. ASSUME Calm' PROVE ~(program = "running" /\ Consuming)
    <3>1. streaming = r
      BY <2>1, <2>2 DEF Streams
    <3>2. cmd[r] \in Nat /\ MQ_DONE_ID \in Nat
      BY DEF ControllerOK
    <3>. QED
      BY <2>1, <2>2, <3>1, <3>2 DEF Live
  <2>. QED
    BY <1>13, <2>2 DEF Live, Consuming, TickReturns
<1>14. ASSUME NEW r \in Runs, WriteId(r)
      PROVE  Live'
  BY <1>14 DEF WriteId, ThreadStep, Live, Consuming, Streams
<1>15. ASSUME NEW r \in Runs, TickAborts(r)
      PROVE  Live'
  BY <1>15 DEF TickAborts, CleanUp, Live, Consuming, Alone
<1>16. ASSUME NEW r \in Runs, TickFails(r) \/ TickReturned(r) \/ TickNoStart(r)
      PROVE  Live'
  BY <1>16 DEF TickFails, CleanUp, TickReturned, TickNoStart, Live, Consuming, Alone
<1>17. CASE EditTopology \/ FinishMove \/ FinishStream
  BY <1>17 DEF EditTopology, FinishMove, Interpret, FinishStream, Live, Consuming
<1>18. ASSUME NEW r \in Runs, WritePose(r) \/ WriteAction(r) \/ AwaitDone(r)
             \/ AwaitTimesOut(r)
          \/ WriteFails(r) \/ TickRefills(r)
      PROVE  Live'
  BY <1>18 DEF WritePose, ThreadStep, WriteAction, AwaitDone, AwaitTimesOut, WriteFails,
    TickRefills, Live, Consuming
<1>19. CASE UNCHANGED vars
  BY <1>19 DEF Live, Consuming
<1>. QED
  BY <1>1, <1>2, <1>3, <1>4, <1>5, <1>6, <1>7, <1>8, <1>9, <1>10, <1>11, <1>12, <1>13,
    <1>14, <1>15, <1>16, <1>17, <1>18, <1>19 DEF
    Next, Operator, Job, MqStream, Thread, Tick

(* While Puppet Mode is on, its command stands.                             *)
LEMMA FollowingStep ==
  ASSUME TypeOK, [Next]_vars, Writers, Puppets, Live, Following
  PROVE  Following'
<1>. USE StayQuiet, TypeParts DEF RunsOK, InModal, NoModal
<1>. USE DEF Calm
<1>1. CASE Run
  BY <1>1, QuietClicks, CalmClicks DEF Run, Note, Following, Puppets, Writing, Writers
<1>2. CASE MoveToTarget
  BY <1>2, QuietClicks, CalmClicks DEF MoveToTarget, Note, Following, Puppets, Writing,
    Writers
<1>3. CASE RealTimePuppetStart
  BY <1>3, QuietClicks, CalmClicks DEF RealTimePuppetStart, EnterPuppet, Note, Following,
    Puppets, Writing, Writers, Settled, Live, Consuming
<1>4. CASE KukaPlay
  BY <1>4, QuietClicks, CalmClicks DEF KukaPlay, Note, Following, Puppets, Writing,
    Writers
<1>5. CASE PuppetTick
  BY <1>5 DEF PuppetTick, EnterPuppet, Following, Puppets, Writing, Writers, Settled
<1>6. CASE RealTimePuppetStop
  BY <1>6 DEF RealTimePuppetStop, Note, Following, Puppets, Writing, Writers
<1>7. CASE Reconnect
  BY <1>7, QuietClicks, CalmClicks DEF Reconnect, Note, Following, Puppets, Writing,
    Writers
<1>8. CASE KukaStop("stop") \/ KukaStop("cancel")
  BY <1>8 DEF KukaStop, Note, Following, Puppets, Writing, Writers
<1>9. CASE JobDisarms \/ JobHalts
  BY <1>9 DEF JobDisarms, JobHalts, Following, Puppets, Writing, Writers, Settled
<1>10. CASE Accept
  <2>1. UNCHANGED <<mishaps, realtime_puppet_active, MQ_ACTION>>
    BY <1>10 DEF Accept, Interpret
  <2>2. MQ_ACTION = 20 => pc' = "puppet"
    BY <1>10 DEF Accept, Interpret
  <2>. QED
    BY <2>1, <2>2 DEF Following
<1>11. CASE Boot
  BY <1>11 DEF Boot, Following, Puppets, Writing, Writers
<1>12. CASE FinishMove \/ StreamPoint
  BY <1>12 DEF FinishMove, Interpret, StreamPoint, Following, Puppets, Writing, Writers
<1>13. CASE WaitFor \/ FinishStream \/ LeavePuppet
  BY <1>13 DEF WaitFor, Interpret, FinishStream, LeavePuppet, Following, Puppets, Writing,
    Writers
<1>14. CASE EditTopology
  BY <1>14 DEF EditTopology, Following, Puppets, Writing, Writers
<1>15. ASSUME NEW r \in Runs, WritePose(r) \/ WriteId(r) \/ WriteAction(r) \/ AwaitDone(r)
          \/ AwaitTimesOut(r) \/ WriteFails(r) \/ TickAborts(r) \/ TickFails(r)
          \/ TickReturned(r) \/ TickNoStart(r) \/ TickStarts(r) \/ TickRefills(r)
          \/ TickReturns(r)
      PROVE  Following'
  BY <1>15 DEF WritePose, ThreadStep, WriteId, WriteAction, AwaitDone, AwaitTimesOut,
    WriteFails, TickAborts, CleanUp, TickFails, TickReturned, TickNoStart, TickStarts,
    TickRefills, TickReturns, Following, Puppets, Writing, Writers
<1>16. CASE UNCHANGED vars
  BY <1>16 DEF Following, Puppets, Writing, Writers
<1>. QED
  BY <1>1, <1>2, <1>3, <1>4, <1>5, <1>6, <1>7, <1>8, <1>9, <1>10, <1>11, <1>12, <1>13,
    <1>14, <1>15, <1>16 DEF
    Next, Operator, Job, MqStream, Thread, Tick

-----------------------------------------------------------------------------
(* The remainder is the only one there is.                                  *)
LEMMA RemainderUnique ==
  ASSUME NEW a \in Nat, NEW Q \in Nat, NEW R \in 0..(Ring - 1), a = Ring * Q + R
  PROVE  a % Ring = R
<1>. DEFINE q == a \div Ring
            r == a % Ring
<1>1. Ring \in Nat /\ Ring > 0
  BY ConstantTypes
<1>2. q \in Nat /\ r \in 0..(Ring - 1) /\ a = Ring * q + r
  BY <1>1
<1>. HIDE DEF q, r
<1>3. Ring * (q - Q) = R - r
  BY <1>1, <1>2
<1>4. CASE q - Q >= 1
  <2>1. Ring * (q - Q) >= Ring
    BY <1>1, <1>2, <1>4
  <2>. QED
    BY <1>1, <1>2, <1>3, <2>1
<1>5. CASE Q - q >= 1
  <2>1. Ring * (Q - q) >= Ring
    BY <1>1, <1>2, <1>5
  <2>2. Ring * (Q - q) = r - R
    BY <1>1, <1>2
  <2>. QED
    BY <1>1, <1>2, <2>1, <2>2
<1>6. CASE q = Q
  BY <1>1, <1>2, <1>6 DEF r
<1>. QED
  BY <1>2, <1>4, <1>5, <1>6

(* Consecutive waypoints go to consecutive slots, wrapping at Ring: the     *)
(* driver's modulo agrees with mq_stream's wrap-around counter.             *)
LEMMA PlaceSucc ==
  ASSUME NEW k \in Nat \ {0}
  PROVE  /\ Place(k) \in 1..Ring
         /\ Place(1) = 1
         /\ Place(k + 1) = IF Place(k) + 1 > Ring THEN 1 ELSE Place(k) + 1
<1>. DEFINE q == (k - 1) \div Ring
            r == (k - 1) % Ring
<1>1. /\ Ring \in Nat /\ Ring > 0
  BY ConstantTypes
<1>2. q \in Nat /\ r \in 0..(Ring - 1) /\ k - 1 = Ring * q + r
  BY <1>1
<1>3. Place(1) = 1
  BY <1>1 DEF Place
<1>4. Place(k) = r + 1 /\ Place(k + 1) = (k % Ring) + 1
  BY <1>1 DEF Place
<1>. HIDE DEF q, r
<1>5. CASE r + 1 < Ring
  <2>1. k \in Nat /\ r + 1 \in 0..(Ring - 1) /\ k = Ring * q + (r + 1)
    BY <1>1, <1>2, <1>5
  <2>2. k % Ring = r + 1
    BY ONLY <1>2, <2>1, RemainderUnique
  <2>. QED
    BY <1>1, <1>2, <1>3, <1>4, <1>5, <2>2
<1>6. CASE r + 1 = Ring
  <2>1. k \in Nat /\ q + 1 \in Nat /\ 0 \in 0..(Ring - 1) /\ k = Ring * (q + 1) + 0
    BY <1>1, <1>2, <1>6
  <2>2. k % Ring = 0
    BY ONLY <2>1, RemainderUnique
  <2>. QED
    BY <1>1, <1>2, <1>3, <1>4, <1>6, <2>2
<1>. QED
  BY <1>1, <1>2, <1>5, <1>6

(* Two waypoints less than Ring apart never share a slot.                   *)
LEMMA PlaceInjective ==
  ASSUME NEW i \in Nat \ {0}, NEW j \in Nat \ {0}, i < j, j - i < Ring
  PROVE  Place(i) # Place(j)
<1>1. /\ Ring \in Nat /\ Ring > 0
  BY ConstantTypes
<1>. DEFINE qi == (i - 1) \div Ring
            qj == (j - 1) \div Ring
            ri == (i - 1) % Ring
            rj == (j - 1) % Ring
<1>2. /\ qi \in Nat /\ ri \in 0..(Ring - 1) /\ i - 1 = Ring * qi + ri
      /\ qj \in Nat /\ rj \in 0..(Ring - 1) /\ j - 1 = Ring * qj + rj
  BY <1>1
<1>. HIDE DEF qi, qj, ri, rj
<1>3. SUFFICES ASSUME ri = rj PROVE FALSE
  BY <1>1, <1>2 DEF Place, ri, rj
<1>4. j - i = Ring * (qj - qi)
  BY <1>1, <1>2, <1>3
<1>5. qj - qi >= 1
  BY <1>1, <1>2, <1>4
<1>6. Ring * (qj - qi) >= Ring
  BY <1>1, <1>2, <1>5
<1>. QED
  BY <1>1, <1>2, <1>4, <1>6
-----------------------------------------------------------------------------
(* The inductive invariant.                                                *)


(* Filling a window that fits in the ring puts each waypoint in its place,  *)
(* and leaves the waypoints before it that the window does not reach round  *)
(* to where they are.                                                       *)
LEMMA FillPlaces ==
  ASSUME NEW r, NEW k \in Nat \ {0}, NEW n \in Nat, n <= Ring, NEW j \in k..(k + n - 1)
  PROVE  FillFrom(r, k, n)[Place(j)] = <<r, j>>
<1>1. j \in Nat \ {0} /\ Place(j) \in 1..Ring
  BY PlaceSucc
<1>. DEFINE ks == {l \in k..(k + n - 1) : ((l - 1) % Ring) + 1 = Place(j)}
<1>2. j \in ks
  BY DEF Place
<1>3. ASSUME NEW l \in ks PROVE l = j
  <2>1. l \in Nat \ {0} /\ Place(l) = Place(j) /\ l - j < Ring /\ j - l < Ring
    BY <1>3, <1>1, ConstantTypes DEF Place
  <2>. HIDE DEF ks
  <2>2. ~(l < j) /\ ~(j < l)
    BY <1>1, <2>1, PlaceInjective
  <2>. QED
    BY <1>1, <2>1, <2>2
<1>4. (CHOOSE l \in ks : TRUE) = j
  <2>. HIDE DEF ks
  <2>. QED
    BY <1>2, <1>3
<1>5. FillFrom(r, k, n)[Place(j)] = IF ks = {} THEN MQ_PT[Place(j)] ELSE <<r, CHOOSE l \in ks : TRUE>>
  BY <1>1 DEF FillFrom
<1>. HIDE DEF ks
<1>. QED
  BY <1>2, <1>4, <1>5

LEMMA FillKeeps ==
  ASSUME NEW r, NEW k \in Nat \ {0}, NEW n \in Nat, NEW j \in Nat \ {0},
         j < k, k + n - j <= Ring
  PROVE  FillFrom(r, k, n)[Place(j)] = MQ_PT[Place(j)]
<1>1. Place(j) \in 1..Ring
  BY PlaceSucc
<1>. DEFINE ks == {l \in k..(k + n - 1) : ((l - 1) % Ring) + 1 = Place(j)}
<1>2. ASSUME NEW l \in ks PROVE FALSE
  <2>1. l \in Nat \ {0} /\ Place(l) = Place(j) /\ j < l /\ l - j < Ring
    BY <1>2, ConstantTypes DEF Place
  <2>. HIDE DEF ks
  <2>. QED
    BY <2>1, PlaceInjective
<1>3. FillFrom(r, k, n)[Place(j)] = IF ks = {} THEN MQ_PT[Place(j)] ELSE <<r, CHOOSE l \in ks : TRUE>>
  BY <1>1 DEF FillFrom
<1>. HIDE DEF ks
<1>. QED
  BY <1>2, <1>3

(* The ring holds the stream's points.                                      *)
LEMMA LoadedStep ==
  ASSUME TypeOK, [Next]_vars, Streams, Turn, Loaded
  PROVE  Loaded'
<1>. USE StayQuiet, TypeParts DEF RunsOK, InModal, NoModal
<1>1. ASSUME NEW r \in Runs, TickStarts(r)
      PROVE  Loaded'
  <2>. DEFINE n == Smaller(Ring, Total)
  <2>1. n \in Nat /\ n <= Ring /\ n <= Total /\ n > 0
    BY ConstantTypes DEF Smaller
  <2>2. MQ_PT' = FillFrom(r, 1, n) /\ MQ_RD_IDX' = 1 /\ MQ_WR_IDX' = n + 1 /\ streaming' = r
    BY <1>1 DEF TickStarts
  <2>. HIDE DEF n
  <2>3. ASSUME NEW k \in 1..Total, k < n + 1 PROVE FillFrom(r, 1, n)[Place(k)] = <<r, k>>
    BY <2>1, <2>3, FillPlaces
  <2>. QED
    BY <2>1, <2>2, <2>3, ConstantTypes DEF Loaded
<1>2. ASSUME NEW r \in Runs, TickRefills(r)
      PROVE  Loaded'
  <2>. SUFFICES ASSUME Calm', Consuming' PROVE Loaded'
    BY DEF Loaded
  <2>. DEFINE used == IF written[r] + 1 > MQ_RD_IDX THEN written[r] + 1 - MQ_RD_IDX ELSE 0
              n == Smaller(Ring - used, Total - written[r])
  <2>1. /\ Calm /\ Consuming /\ phase[r] = "streaming"
        /\ used < Ring /\ n > 0 /\ MQ_PT' = FillFrom(r, written[r] + 1, n)
        /\ MQ_WR_IDX' = written[r] + n + 1 /\ UNCHANGED <<MQ_RD_IDX, streaming>>
    BY <1>2 DEF TickRefills, Consuming
  <2>2. written[r] \in 0..Total /\ MQ_RD_IDX \in Nat /\ MQ_WR_IDX \in Nat
    BY DEF ControllerOK
  <2>3. streaming = r /\ MQ_WR_IDX = written[r] + 1
    BY <2>1 DEF Streams
  <2>4. 1 <= MQ_RD_IDX /\ MQ_RD_IDX <= MQ_WR_IDX
    BY <2>1 DEF Loaded
  <2>5. ASSUME NEW k \in 1..Total, MQ_RD_IDX <= k, k < MQ_WR_IDX
        PROVE  MQ_PT[Place(k)] = <<r, k>>
    BY <2>1, <2>3, <2>5 DEF Loaded
  <2>6. n \in Nat /\ MQ_WR_IDX + n - MQ_RD_IDX <= Ring /\ n <= Ring /\ MQ_WR_IDX + n <= Total + 1
    BY <2>1, <2>2, <2>3, <2>4, ConstantTypes DEF Smaller
  <2>. HIDE DEF n, used
  <2>7. ASSUME NEW k \in 1..Total, MQ_RD_IDX <= k, k < MQ_WR_IDX + n
        PROVE  FillFrom(r, MQ_WR_IDX, n)[Place(k)] = <<r, k>>
    <3>1. CASE k < MQ_WR_IDX
      <4>1. k \in Nat \ {0} /\ MQ_WR_IDX \in Nat \ {0} /\ MQ_WR_IDX + n - k <= Ring
        BY <2>2, <2>4, <2>6, <2>7, <3>1, ConstantTypes
      <4>. QED
        BY <2>5, <2>6, <2>7, <3>1, <4>1, FillKeeps
    <3>2. CASE k >= MQ_WR_IDX
      <4>1. k \in MQ_WR_IDX..(MQ_WR_IDX + n - 1) /\ MQ_WR_IDX \in Nat \ {0}
        BY <2>2, <2>4, <2>6, <2>7, <3>2
      <4>. QED
        BY <2>6, <4>1, FillPlaces
    <3>. QED
      BY <2>2, <3>1, <3>2
  <2>. QED
    BY <2>1, <2>2, <2>3, <2>4, <2>6, <2>7, ConstantTypes DEF Loaded
<1>3. CASE StreamPoint
  <2>1. MQ_RD_IDX # MQ_WR_IDX /\ MQ_RD_IDX' = MQ_RD_IDX + 1 /\ pc = "stream"
        /\ UNCHANGED <<MQ_WR_IDX, MQ_PT, streaming, mishaps>>
    BY <1>3 DEF StreamPoint, Interpret
  <2>2. MQ_RD_IDX \in Nat /\ MQ_WR_IDX \in Nat
    BY DEF ControllerOK
  <2>. QED
    BY <2>1, <2>2, ConstantTypes DEF Loaded, Calm, Consuming
<1>4. CASE Boot
  <2>. SUFFICES ASSUME Calm', Consuming' PROVE FALSE
    BY DEF Loaded
  <2>. QED
    BY <1>4 DEF Boot, Turn, Consuming
<1>5. CASE KukaPlay
  <2>. SUFFICES ASSUME Calm' PROVE Loaded'
    BY DEF Loaded
  <2>1. Calm /\ pc' \in {"boot", "loop"} /\ program # "running"
    BY <1>5, CalmClicks DEF KukaPlay
  <2>2. MQ_ACTION # 10
    BY <2>1 DEF Turn
  <2>3. MQ_ACTION' # 10
    BY <1>5, <2>2 DEF KukaPlay
  <2>. QED
    BY <2>1, <2>3 DEF Loaded, Consuming
<1>6. CASE Reconnect
  BY <1>6, QuietClicks, CalmClicks DEF Reconnect, Note, Loaded, Consuming
<1>7. CASE Run
  BY <1>7 DEF Run, Note, Loaded, Consuming
<1>8. CASE MoveToTarget
  <2>1. MQ_ACTION' = 3 /\ UNCHANGED <<ring, interp, streaming>>
    BY <1>8 DEF MoveToTarget
  <2>. QED
    BY <2>1 DEF Loaded, Turn, Consuming, NextSlot
<1>9. CASE RealTimePuppetStart \/ PuppetTick \/ RealTimePuppetStop \/ EditTopology
         \/ KukaStop("stop") \/ KukaStop("cancel") \/ JobDisarms \/ JobHalts \/ Accept
         \/ FinishMove \/ WaitFor \/ FinishStream \/ LeavePuppet
  BY <1>9 DEF RealTimePuppetStart, EnterPuppet, Note, PuppetTick, RealTimePuppetStop,
    EditTopology, KukaStop, JobDisarms, JobHalts, Accept, Interpret, FinishMove, WaitFor,
    FinishStream, LeavePuppet, Loaded, Consuming
<1>10. ASSUME NEW r \in Runs, WritePose(r) \/ WriteId(r) \/ WriteAction(r) \/ AwaitDone(r)
          \/ AwaitTimesOut(r) \/ WriteFails(r) \/ TickAborts(r) \/ TickFails(r)
          \/ TickReturned(r) \/ TickNoStart(r) \/ TickReturns(r)
      PROVE  Loaded'
  BY <1>10 DEF WritePose, ThreadStep, WriteId, WriteAction, AwaitDone, AwaitTimesOut,
    WriteFails, TickAborts, CleanUp, TickFails, TickReturned, TickNoStart, TickReturns,
    Loaded, Consuming
<1>11. CASE UNCHANGED vars
  BY <1>11 DEF Loaded, Consuming
<1>. QED
  BY <1>1, <1>2, <1>3, <1>4, <1>5, <1>6, <1>7, <1>8, <1>9, <1>10, <1>11 DEF Next,
    Operator, Job, MqStream, Thread, Tick

(* The interpreter's index.                                                 *)
LEMMA TurnStep ==
  ASSUME TypeOK, [Next]_vars, Acked, Halting, Armed, Loaded, Turn
  PROVE  Turn'
<1>. USE StayQuiet, TypeParts DEF RunsOK, InModal, NoModal
<1>1. CASE StreamPoint
  <2>. SUFFICES ASSUME Calm' PROVE Turn'
    BY DEF Turn
  <2>1. Calm /\ pc = "stream" /\ MQ_I' = NextSlot /\ MQ_RD_IDX' = MQ_RD_IDX + 1
    BY <1>1 DEF StreamPoint, Interpret
  <2>2. NextSlot = Place(MQ_RD_IDX) /\ MQ_RD_IDX \in Nat \ {0}
    BY <2>1 DEF Turn, Loaded, Consuming, ControllerOK
  <2>3. NextSlot' = Place(MQ_RD_IDX')
    BY <2>1, <2>2, PlaceSucc, ConstantTypes DEF NextSlot
  <2>4. UNCHANGED <<MQ_ACTION, program>> /\ pc' \in {"stream", "wait"}
    BY <1>1 DEF StreamPoint, Interpret
  <2>. QED
    BY <2>1, <2>3, <2>4 DEF Turn
<1>2. CASE Accept
  <2>. SUFFICES ASSUME Calm' PROVE Turn'
    BY DEF Turn
  <2>1. Place(1) = 1 /\ Ring > 0 /\ Ring \in Nat
    BY PlaceSucc, ConstantTypes
  <2>2. Calm /\ pc = "loop" /\ UNCHANGED <<MQ_ACTION, MQ_RD_IDX, program>>
    BY <1>2 DEF Accept, Interpret
  <2>3. \/ MQ_ACTION = 10 /\ pc' = "stream" /\ MQ_I' = 0
        \/ MQ_ACTION \in {3, 20} /\ pc' \in {"move", "puppet"}
    BY <1>2 DEF Accept, Interpret
  <2>. QED
    BY <2>1, <2>2, <2>3 DEF Turn, NextSlot
<1>3. CASE JobHalts
  <2>. SUFFICES ASSUME Calm' PROVE Turn'
    BY DEF Turn
  <2>1. MQ_ACTION = 0
    BY <1>3 DEF Halting, Armed, JobHalts
  <2>. QED
    BY <1>3, <2>1 DEF JobHalts, Turn, NextSlot
<1>4. CASE KukaPlay
  <2>. SUFFICES ASSUME Calm' PROVE Turn'
    BY DEF Turn
  <2>1. Calm /\ pc' \in {"boot", "loop"} /\ program # "running"
    BY <1>4, CalmClicks DEF KukaPlay
  <2>2. MQ_ACTION # 10
    BY <2>1 DEF Turn
  <2>3. MQ_ACTION' # 10
    BY <1>4, <2>2 DEF KukaPlay
  <2>. QED
    BY <2>1, <2>3 DEF Turn, Consuming
<1>5. ASSUME NEW r \in Runs, TickStarts(r)
      PROVE  Turn'
  BY <1>5 DEF TickStarts, Turn, NextSlot, Acked, Answered, Settled
<1>6. CASE Run
  BY <1>6 DEF Run, Note, Turn, NextSlot
<1>7. CASE MoveToTarget
  <2>1. MQ_ACTION' = 3 /\ UNCHANGED <<ring, interp, streaming>>
    BY <1>7 DEF MoveToTarget
  <2>. QED
    BY <2>1 DEF Loaded, Turn, Consuming, NextSlot
<1>8. CASE Reconnect
  BY <1>8, QuietClicks, CalmClicks DEF Reconnect, Note, Turn, NextSlot
<1>9. CASE RealTimePuppetStart \/ PuppetTick \/ RealTimePuppetStop \/ EditTopology
         \/ KukaStop("stop") \/ KukaStop("cancel") \/ JobDisarms \/ Boot \/ FinishMove
         \/ WaitFor \/ FinishStream \/ LeavePuppet
  BY <1>9 DEF RealTimePuppetStart, EnterPuppet, Note, PuppetTick, RealTimePuppetStop,
    EditTopology, KukaStop, JobDisarms, Boot, FinishMove, Interpret, WaitFor,
    FinishStream, LeavePuppet, Turn, NextSlot
<1>10. ASSUME NEW r \in Runs, WritePose(r) \/ WriteId(r) \/ WriteAction(r) \/ AwaitDone(r)
          \/ AwaitTimesOut(r) \/ WriteFails(r) \/ TickAborts(r) \/ TickFails(r)
          \/ TickReturned(r) \/ TickNoStart(r) \/ TickRefills(r) \/ TickReturns(r)
      PROVE  Turn'
  BY <1>10 DEF WritePose, ThreadStep, WriteId, WriteAction, AwaitDone, AwaitTimesOut,
    WriteFails, TickAborts, CleanUp, TickFails, TickReturned, TickNoStart, TickRefills,
    TickReturns, Turn, NextSlot
<1>11. CASE UNCHANGED vars
  BY <1>11 DEF Turn, NextSlot
<1>. QED
  BY <1>1, <1>2, <1>3, <1>4, <1>5, <1>6, <1>7, <1>8, <1>9, <1>10, <1>11 DEF Next,
    Operator, Job, MqStream, Thread, Tick

-----------------------------------------------------------------------------
(* The inductive invariant, and what follows from it.                       *)

IInv ==
  /\ TypeOK /\ Alone /\ Aborting /\ Writers /\ Armed /\ LabelTruthful
  /\ Halting /\ Puppets /\ Following /\ Counted /\ First /\ FirstMade
  /\ Acked /\ Streams /\ Live /\ Loaded /\ Turn

LEMMA IInvInit == Init => IInv
<1>. SUFFICES ASSUME Init PROVE IInv
  OBVIOUS
<1>1. \A r \in Runs : phase[r] = "none" /\ thread[r] = "none"
  BY DEF Init
<1>2. TypeOK
  BY TypeInit
<1>3. Alone /\ Aborting /\ Writers /\ Armed /\ LabelTruthful
  BY <1>1 DEF Init, Alone, Aborting, Writers, Armed, LabelTruthful, InModal, Writing
<1>4. Halting /\ Puppets /\ Following /\ Counted /\ First /\ FirstMade
  BY <1>1 DEF Init, Halting, Puppets, Following, Counted, First, FirstMade, FirstMoveMade
<1>5. Acked /\ Streams
  BY <1>1 DEF Init, Acked, Answered, Streams
<1>6. Live /\ Loaded /\ Turn
  BY DEF Init, Live, Loaded, Turn, Consuming
<1>. QED
  BY <1>2, <1>3, <1>4, <1>5, <1>6 DEF IInv

LEMMA IInvStep == IInv /\ [Next]_vars => IInv'
<1>. SUFFICES ASSUME IInv, [Next]_vars PROVE IInv'
  OBVIOUS
<1>1. TypeOK' /\ Alone' /\ Aborting' /\ Writers' /\ Armed' /\ LabelTruthful'
  BY TypeStep, AloneStep, AbortingStep, WritersStep, ArmedStep, LabelStep DEF IInv
<1>2. Halting' /\ Puppets' /\ Following' /\ Counted' /\ First' /\ FirstMade'
  BY HaltingStep, PuppetsStep, FollowingStep, CountedStep, FirstStep, FirstMadeStep DEF IInv
<1>3. Acked' /\ Streams' /\ Live' /\ Loaded' /\ Turn'
  BY AckedStep, StreamsStep, LiveStep, LoadedStep, TurnStep DEF IInv
<1>. QED
  BY <1>1, <1>2, <1>3 DEF IInv

(* A session of runs, moves, Puppet Mode and stops keeps the invariant.     *)
THEOREM Inductive == Spec => []IInv
  BY IInvInit, IInvStep, PTL DEF Spec

(* Whatever is clicked in whatever order, a toolpath is only streamed after *)
(* the robot was at its first point, unless a click met writes under way,   *)
(* the program was resumed inside a handler or the driver was replaced.     *)
THEOREM FirstMoveMadeHolds == Spec => []FirstMoveMadeUndisturbed
<1>1. IInv => FirstMoveMadeUndisturbed
  BY DEF IInv, FirstMade, Calm, FirstMoveMadeUndisturbed
<1>. QED
  BY Inductive, <1>1, PTL

(* Under the same conditions, what the interpreter takes from the ring is   *)
(* the next point of the stream it was given.                               *)
THEOREM OwnPointsHolds == Spec => []OwnPoints
<1>1. IInv => OwnPoints
  <2>. SUFFICES ASSUME IInv, pc = "stream", MQ_RD_IDX # MQ_WR_IDX, Calm
                PROVE  MQ_PT[NextSlot] = <<streaming, MQ_RD_IDX>>
    BY DEF OwnPoints, Calm
  <2>1. /\ MQ_RD_IDX \in Nat /\ MQ_WR_IDX \in Nat
        /\ 1 <= MQ_RD_IDX /\ MQ_RD_IDX <= MQ_WR_IDX /\ MQ_WR_IDX <= Total + 1
    BY TypeParts DEF IInv, Loaded, Consuming, ControllerOK
  <2>2. MQ_RD_IDX \in 1..Total /\ MQ_RD_IDX < MQ_WR_IDX
    BY <2>1, ConstantTypes
  <2>3. NextSlot = Place(MQ_RD_IDX)
    BY DEF IInv, Turn
  <2>. QED
    BY <2>1, <2>2, <2>3 DEF IInv, Loaded, Consuming
<1>. QED
  BY Inductive, <1>1, PTL

(* The label that keeps motions apart shows while a run is under way, or    *)
(* the run is about to see the abort flag; and it never outlives its run.   *)
THEOREM LabelTruthfulHolds == Spec => []LabelTruthful
<1>1. IInv => LabelTruthful
  BY DEF IInv
<1>. QED
  BY Inductive, <1>1, PTL

(* While Blender shows Puppet Mode, the controller has its command, if      *)
(* nothing went wrong.                                                      *)
THEOREM PuppetFollowsHolds == Spec => []PuppetFollows
<1>1. IInv => PuppetFollows
  BY DEF IInv, Following, PuppetFollows
<1>. QED
  BY Inductive, <1>1, PTL

(* After Stop or Cancel no command given before is begun, however and       *)
(* whenever the program is started again.                                   *)
THEOREM StopDisarmsHolds == Spec => StopDisarms
<1>1. ASSUME IInv, [Next]_vars, pc = "loop", pc' \in {"move", "stream", "puppet"}
      PROVE  armed \/ "raced" \in mishaps
  <2>1. Accept
    <3>1. ASSUME NEW r \in Runs, Thread(r) \/ Tick(r) PROVE pc' = pc
      BY <3>1 DEF Thread, Tick, WritePose, WriteId, WriteAction, AwaitDone, AwaitTimesOut,
         WriteFails, ThreadStep, TickAborts, TickFails, TickReturned, TickNoStart, CleanUp,
         TickStarts, TickRefills, TickReturns
    <3>2. Operator \/ Job => pc' = pc \/ pc' = "boot"
      BY DEF Operator, Job, Run, MoveToTarget, RealTimePuppetStart, PuppetTick, EnterPuppet,
         RealTimePuppetStop, EditTopology, KukaStop, KukaPlay, Reconnect, JobDisarms, JobHalts
    <3>3. MqStream => Accept
      BY <1>1 DEF MqStream, Boot, FinishMove, StreamPoint, WaitFor, FinishStream,
    LeavePuppet,
         Interpret
    <3>. QED
      BY <1>1, <3>1, <3>2, <3>3 DEF Next
  <2>2. MQ_ACTION # 0
    BY <2>1 DEF Accept
  <2>. QED
    BY <1>1, <2>2 DEF IInv, Armed, Quiet
<1>2. IInv /\ [Next]_vars
        => [pc = "loop" /\ pc' \in {"move", "stream", "puppet"}
              => armed \/ "raced" \in mishaps]_vars
  BY <1>1
<1>. QED
  BY Inductive, <1>2, PTL DEF Spec, StopDisarms
=============================================================================

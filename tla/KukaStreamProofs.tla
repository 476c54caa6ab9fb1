-------------------------- MODULE KukaStreamProofs --------------------------
(* Theorems about KukaStream, for every ring size, $ADVANCE and path length. *)
EXTENDS KukaStream, TLAPS

(* The remainder is the only one there is.                                  *)
LEMMA RemainderUnique ==
  ASSUME NEW a \in Nat, NEW Q \in Nat, NEW R \in 0..(Ring - 1), a = Ring * Q + R
  PROVE  a % Ring = R
<1>. DEFINE q == a \div Ring
            r == a % Ring
<1>1. Ring \in Nat /\ Ring > 0
  BY ConstantsAssumption
<1>2. q \in Nat /\ r \in 0..(Ring - 1) /\ a = Ring * q + r
  BY <1>1
<1>. HIDE DEF q, r
<1>3. Ring * (q - Q) = R - r
  BY <1>1, <1>2
<1>4. CASE q - Q >= 1
  <2>1. Ring * (q - Q) >= Ring
    BY <1>1, <1>2, <1>4
  <2>. QED
    BY <1>1, <1>2, <1>3, <2>1
<1>5. CASE Q - q >= 1
  <2>1. Ring * (Q - q) >= Ring
    BY <1>1, <1>2, <1>5
  <2>2. Ring * (Q - q) = r - R
    BY <1>1, <1>2
  <2>. QED
    BY <1>1, <1>2, <2>1, <2>2
<1>6. CASE q = Q
  BY <1>1, <1>2, <1>6 DEF r
<1>. QED
  BY <1>2, <1>4, <1>5, <1>6

(* Consecutive waypoints go to consecutive slots, wrapping at Ring: the     *)
(* driver's modulo agrees with mq_stream's wrap-around counter.             *)
LEMMA SlotSucc ==
  ASSUME NEW k \in Nat \ {0}
  PROVE  /\ Slot(k) \in 1..Ring
         /\ Slot(1) = 1
         /\ Slot(k + 1) = IF Slot(k) + 1 > Ring THEN 1 ELSE Slot(k) + 1
<1>. DEFINE q == (k - 1) \div Ring
            r == (k - 1) % Ring
<1>1. /\ Ring \in Nat /\ Ring > 0
  BY ConstantsAssumption
<1>2. q \in Nat /\ r \in 0..(Ring - 1) /\ k - 1 = Ring * q + r
  BY <1>1
<1>3. Slot(1) = 1
  BY <1>1 DEF Slot
<1>4. Slot(k) = r + 1 /\ Slot(k + 1) = (k % Ring) + 1
  BY <1>1 DEF Slot
<1>. HIDE DEF q, r
<1>5. CASE r + 1 < Ring
  <2>1. k \in Nat /\ r + 1 \in 0..(Ring - 1) /\ k = Ring * q + (r + 1)
    BY <1>1, <1>2, <1>5
  <2>2. k % Ring = r + 1
    BY ONLY <1>2, <2>1, RemainderUnique
  <2>. QED
    BY <1>1, <1>2, <1>3, <1>4, <1>5, <2>2
<1>6. CASE r + 1 = Ring
  <2>1. k \in Nat /\ q + 1 \in Nat /\ 0 \in 0..(Ring - 1) /\ k = Ring * (q + 1) + 0
    BY <1>1, <1>2, <1>6
  <2>2. k % Ring = 0
    BY ONLY <2>1, RemainderUnique
  <2>. QED
    BY <1>1, <1>2, <1>3, <1>4, <1>6, <2>2
<1>. QED
  BY <1>1, <1>2, <1>5, <1>6

(* Two waypoints less than Ring apart never share a slot.                   *)
LEMMA SlotInjective ==
  ASSUME NEW i \in Nat \ {0}, NEW j \in Nat \ {0}, i < j, j - i < Ring
  PROVE  Slot(i) # Slot(j)
<1>1. /\ Ring \in Nat /\ Ring > 0
  BY ConstantsAssumption
<1>. DEFINE qi == (i - 1) \div Ring
            qj == (j - 1) \div Ring
            ri == (i - 1) % Ring
            rj == (j - 1) % Ring
<1>2. /\ qi \in Nat /\ ri \in 0..(Ring - 1) /\ i - 1 = Ring * qi + ri
      /\ qj \in Nat /\ rj \in 0..(Ring - 1) /\ j - 1 = Ring * qj + rj
  BY <1>1
<1>. HIDE DEF qi, qj, ri, rj
<1>3. SUFFICES ASSUME ri = rj PROVE FALSE
  BY <1>1, <1>2 DEF Slot, ri, rj
<1>4. j - i = Ring * (qj - qi)
  BY <1>1, <1>2, <1>3
<1>5. qj - qi >= 1
  BY <1>1, <1>2, <1>4
<1>6. Ring * (qj - qi) >= Ring
  BY <1>1, <1>2, <1>5
<1>. QED
  BY <1>1, <1>2, <1>4, <1>6
-----------------------------------------------------------------------------
(* The inductive invariant.                                                *)

Feeding  == {"feed", "refill", "slot", "publish"}
Starting == {"fill", "startWr", "streamId", "streamAction"}

(* A command the main loop has not taken yet.                               *)
Pending(action) == pc \in {"loop", "idle"} /\ MQ_ACTION = action

(* The handler of a stream is at work, or will be next.                     *)
Consuming == InHandler \/ Pending(10)

(* The command in hand is the driver's latest and is not acknowledged yet,  *)
(* and while there is one the driver does nothing but feed or wait.         *)
Handshake ==
  /\ MQ_CMD_ID = cmd_id
  /\ MQ_DONE_ID <= cmd_id
  /\ step \in {"moveAction", "streamAction"} => MQ_DONE_ID < cmd_id
  /\ pc \notin {"loop", "idle", "release"} \/ Pending(3) \/ Pending(10) =>
       /\ MQ_DONE_ID < cmd_id
       /\ step \in Feeding \cup {"await", "failed"}

(* A stream being consumed is the one being fed.                            *)
SameStream ==
  /\ Consuming => step \in Feeding \cup {"failed"} /\ phase = "streaming"
  /\ step \in Feeding \cup Starting \cup {"rewind"} => phase = "streaming"
  /\ step \in {"pose", "moveId", "moveAction", "await"} =>
       phase \in {"move_to_first", "returning"}
  /\ step = "count" => phase = "move_to_first"
  /\ step = "idle" => phase = "none"

(* The stream's number is the command number it gets; a move is handled     *)
(* only while its caller waits.                                             *)
Numbers ==
  /\ sid <= cmd_id + 1
  /\ phase = "streaming" => sid # 0
  /\ step \in {"rewind", "fill", "startWr", "streamId"} => sid = cmd_id + 1
  /\ step \in {"streamAction"} \cup Feeding \/ Consuming => sid = cmd_id
  /\ pc = "move" \/ Pending(3) => step \in {"await", "failed"}

(* While a stream is started, fed or consumed its points are in their slots *)
(* from MQ_RD_IDX to written, and these slots are no more than the ring has. *)
Loaded ==
  step \in Starting \cup Feeding \/ Consuming =>
    /\ MQ_RD_IDX >= 1
    /\ total = MQ_PT_CNT
    /\ written <= total
    /\ MQ_RD_IDX <= written + 1
    /\ written + 1 <= MQ_RD_IDX + Ring
    /\ \A k \in MQ_RD_IDX..written : MQ_PT[Slot(k)] = [cmd |-> sid, k |-> k]

(* The driver's count of what it may still write.                           *)
Room ==
  /\ step = "rewind" => total >= 1 /\ written = 0 /\ total = MQ_PT_CNT
  /\ step = "fill" => todo >= 1 /\ written + todo <= total /\ written + todo <= Ring
  /\ step \in {"startWr", "streamId", "streamAction"} => written >= 1
  /\ step \in {"refill", "slot"} => seen <= MQ_RD_IDX
  /\ step = "slot" =>
       todo >= 1 /\ written + todo <= total /\ written + todo + 1 <= seen + Ring

(* Before the handler starts nothing has been read.                         *)
Unread ==
  step \in Starting \/ Pending(10) => MQ_RD_IDX = 1

(* What is published is written, and what is read is published.             *)
Published ==
  /\ step \in {"streamId", "streamAction"} \cup Feeding \/ Consuming =>
       MQ_RD_IDX <= MQ_WR_IDX /\ MQ_WR_IDX <= written + 1
  /\ step \in {"streamId", "streamAction"} \/ Pending(10) =>
       MQ_RD_IDX < MQ_WR_IDX
  /\ pc \in {"plan", "bump"} => MQ_RD_IDX < MQ_WR_IDX

(* mq_stream's wrap-around counter follows MQ_RD_IDX.                       *)
Counter ==
  /\ pc \in {"while", "check", "wait"} =>
       MQ_I = IF MQ_RD_IDX = 1 THEN 0 ELSE Slot(MQ_RD_IDX - 1)
  /\ pc \in {"plan", "bump"} => MQ_I = Slot(MQ_RD_IDX)

(* The planner has got exactly the points before MQ_RD_IDX, and leaves the  *)
(* loop only at or past the last but one.                                   *)
Delivered ==
  /\ handed.cmd <= cmd_id
  /\ step \in Starting \cup Feeding \/ Consuming =>
       PlannedSoFar = IF pc = "bump" THEN MQ_RD_IDX ELSE MQ_RD_IDX - 1
  /\ pc \in {"check", "wait"} => MQ_RD_IDX >= 2
  /\ (pc = "while" /\ MQ_RD_IDX = MQ_WR_IDX)
     \/ (step \in Feeding /\ (pc = "ack" \/ MQ_DONE_ID >= cmd_id)) =>
       MQ_RD_IDX >= total /\ MQ_RD_IDX >= 2
  /\ DoneMissesAtMostLast

IInv == TypeOK /\ Handshake /\ SameStream /\ Loaded /\ Room /\ Unread
        /\ Published /\ Counter /\ Numbers /\ Delivered
-----------------------------------------------------------------------------
(* Writing the next waypoint while the ring has room leaves the points not  *)
(* yet read in their slots.                                                 *)
LEMMA SlotWrite ==
  ASSUME TypeOK,
         MQ_RD_IDX >= 1, MQ_RD_IDX <= written + 1, written + 1 < MQ_RD_IDX + Ring,
         \A k \in MQ_RD_IDX..written : MQ_PT[Slot(k)] = [cmd |-> sid, k |-> k],
         MQ_PT' = [MQ_PT EXCEPT ![Slot(written + 1)] = [cmd |-> sid, k |-> written + 1]]
  PROVE  /\ MQ_PT' \in [1..Ring -> Target]
         /\ \A k \in MQ_RD_IDX..(written + 1) : MQ_PT'[Slot(k)] = [cmd |-> sid, k |-> k]
<1>1. /\ Ring \in Nat /\ written \in Nat /\ MQ_RD_IDX \in Nat /\ sid \in Nat
      /\ MQ_PT \in [1..Ring -> Target]
  BY ConstantsAssumption DEF TypeOK
<1>2. ASSUME NEW k \in Nat \ {0} PROVE Slot(k) \in 1..Ring
  BY SlotSucc
<1>3. MQ_PT' \in [1..Ring -> Target]
  BY <1>1, <1>2 DEF Target
<1>4. ASSUME NEW k \in MQ_RD_IDX..(written + 1)
      PROVE  MQ_PT'[Slot(k)] = [cmd |-> sid, k |-> k]
  <2>1. k \in Nat \ {0} /\ written + 1 \in Nat \ {0}
    BY <1>1
  <2>2. Slot(k) \in 1..Ring /\ Slot(written + 1) \in 1..Ring
    BY <2>1, <1>2
  <2>3. CASE k = written + 1
    BY <1>1, <2>2, <2>3
  <2>4. CASE k < written + 1
    <3>1. Slot(k) # Slot(written + 1)
      BY <1>1, <2>1, <2>4, SlotInjective
    <3>2. k \in MQ_RD_IDX..written
      BY <1>1, <2>4
    <3>. QED
      BY <1>1, <2>2, <3>1, <3>2
  <2>. QED
    BY <1>1, <2>3, <2>4
<1>. QED
  BY <1>3, <1>4

-----------------------------------------------------------------------------
(* Each conjunct of the invariant is kept by every step.                    *)

(* Every step keeps the types.                                             *)
LEMMA TypeOKStep ==
  ASSUME IInv, [Next]_vars
  PROVE  TypeOK'
<1>. USE DEF IInv, Feeding, Starting, Consuming, Pending, InHandler,
            command, ring, robot, run, stream, Steps, Pcs
<1>1. CASE StartRun
  BY <1>1 DEF TypeOK, StartRun, Step
<1>2. CASE WritePose
  BY <1>2 DEF TypeOK, WritePose, Step
<1>3. CASE MoveId
  BY <1>3 DEF TypeOK, MoveId, WriteCmdId, Step
<1>4. CASE MoveAction
  BY <1>4 DEF TypeOK, MoveAction, WriteAction, Step
<1>5. CASE AwaitDone
  BY <1>5 DEF TypeOK, AwaitDone
<1>6. CASE StartCount
  BY <1>6, ConstantsAssumption DEF TypeOK, StartCount, Step
<1>7. CASE StartRewind
  BY <1>7, ConstantsAssumption DEF TypeOK, StartRewind, Step, Smaller
<1>8. CASE StartFill
  <2>1. /\ MQ_RD_IDX >= 1 /\ MQ_RD_IDX <= written + 1 /\ written + 1 < MQ_RD_IDX + Ring
        /\ \A k \in MQ_RD_IDX..written : MQ_PT[Slot(k)] = [cmd |-> sid, k |-> k]
    BY <1>8, ConstantsAssumption
       DEF TypeOK, Loaded, Room, Unread, Starting, Feeding, StartFill, WriteSlot
  <2>2. MQ_PT' \in [1..Ring -> Target]
    BY <1>8, <2>1, SlotWrite DEF StartFill, WriteSlot
  <2>. QED
    BY <1>8, <2>2 DEF TypeOK, Target, Steps, Pcs, Room, StartFill, WriteSlot
<1>9. CASE StartWrIdx
  BY <1>9 DEF TypeOK, StartWrIdx, WriteWrIdx, Step
<1>10. CASE StreamId
  BY <1>10 DEF TypeOK, StreamId, WriteCmdId, Step
<1>11. CASE StartAction
  BY <1>11 DEF TypeOK, StartAction, WriteAction, Step
<1>12. CASE ReadRdIdx
  BY <1>12 DEF TypeOK, ReadRdIdx, Step
<1>13. CASE PlanRefill
  <2>1. written <= total
    BY <1>13 DEF Loaded, Feeding, PlanRefill
  <2>2. todo' \in Nat
    BY <1>13, <2>1, ConstantsAssumption DEF TypeOK, PlanRefill, FreeSlots, Smaller
  <2>. QED
    BY <1>13, <2>2 DEF TypeOK, Target, Steps, Pcs, PlanRefill
<1>14. CASE RefillSlot
  <2>1. /\ MQ_RD_IDX >= 1 /\ MQ_RD_IDX <= written + 1 /\ written + 1 < MQ_RD_IDX + Ring
        /\ \A k \in MQ_RD_IDX..written : MQ_PT[Slot(k)] = [cmd |-> sid, k |-> k]
    BY <1>14, ConstantsAssumption
       DEF TypeOK, Loaded, Room, Unread, Starting, Feeding, RefillSlot, WriteSlot
  <2>2. MQ_PT' \in [1..Ring -> Target]
    BY <1>14, <2>1, SlotWrite DEF RefillSlot, WriteSlot
  <2>. QED
    BY <1>14, <2>2 DEF TypeOK, Target, Steps, Pcs, Room, RefillSlot, WriteSlot
<1>15. CASE RefillWrIdx
  BY <1>15 DEF TypeOK, RefillWrIdx, WriteWrIdx, Step
<1>16. CASE StreamIsDone
  BY <1>16 DEF TypeOK, StreamIsDone, Step
<1>17. CASE GiveUp
  BY <1>17 DEF TypeOK, GiveUp
<1>18. CASE Idle
  BY <1>18 DEF TypeOK, Idle, Interpret
<1>19. CASE WakeUp
  BY <1>19 DEF TypeOK, WakeUp, Interpret
<1>20. CASE AcceptMove
  BY <1>20 DEF TypeOK, AcceptMove, Interpret
<1>21. CASE AcceptStream
  BY <1>21, ConstantsAssumption DEF TypeOK, AcceptStream, Interpret
<1>22. CASE PlanMove
  <2>1. [cmd |-> MQ_E6POS, k |-> 0] \in Target
    BY DEF TypeOK, Target
  <2>2. planned' \in Seq(Target)
    BY <1>22, <2>1 DEF TypeOK, PlanMove, Plan
  <2>. QED
    BY <1>22, <2>2 DEF TypeOK, PlanMove, Interpret
<1>23. CASE NextPoint
  BY <1>23, ConstantsAssumption DEF TypeOK, NextPoint, Interpret
<1>24. CASE PlanPoint
  <2>1. MQ_RD_IDX \in Nat \ {0} /\ MQ_I = Slot(MQ_RD_IDX)
    BY <1>24 DEF TypeOK, Counter, Loaded, Consuming, InHandler, PlanPoint, Interpret
  <2>2. MQ_PT[MQ_I] \in Target
    BY <2>1, SlotSucc DEF TypeOK
  <2>3. planned' \in Seq(Target)
    BY <1>24, <2>2 DEF TypeOK, PlanPoint, Plan
  <2>. QED
    BY <1>24, <2>2, <2>3 DEF TypeOK, Steps, Pcs, PlanPoint, Interpret
<1>25. CASE Bump
  BY <1>25 DEF TypeOK, Bump, Interpret
<1>26. CASE Check
  BY <1>26 DEF TypeOK, Check, CaughtUp, Interpret
<1>27. CASE WaitFor
  BY <1>27 DEF TypeOK, WaitFor, Interpret
<1>28. CASE EndWhile
  BY <1>28 DEF TypeOK, EndWhile, Interpret
<1>29. CASE Acknowledge
  BY <1>29 DEF TypeOK, Acknowledge, Interpret
<1>30. CASE Release
  BY <1>30 DEF TypeOK, Release, Interpret
<1>31. CASE StartBlock
  <2>1. Head(planned) \in Target /\ Tail(planned) \in Seq(Target)
    BY <1>31 DEF TypeOK, StartBlock
  <2>2. IDX' \in Nat /\ begun' \in Target
    BY <1>31, <2>1 DEF TypeOK, StartBlock
  <2>. QED
    BY <1>31, <2>1, <2>2 DEF TypeOK, Steps, Pcs, StartBlock
<1>32. CASE UNCHANGED vars
  BY <1>32 DEF TypeOK, vars
<1>. QED
  BY <1>1, <1>2, <1>3, <1>4, <1>5, <1>6, <1>7, <1>8, <1>9, <1>10, <1>11, <1>12, <1>13, <1>14, <1>15,
     <1>16, <1>17, <1>18, <1>19, <1>20, <1>21, <1>22, <1>23, <1>24, <1>25, <1>26, <1>27, <1>28, <1>29, <1>30, <1>31, <1>32
     DEF Next, Driver, Move, StreamStart, Refill, MqStream, HandleMove, HandleStream

(* Every step keeps the command handshake.                                 *)
LEMMA HandshakeStep ==
  ASSUME IInv, [Next]_vars
  PROVE  Handshake'
<1>. USE DEF IInv, Feeding, Starting, Consuming, Pending, InHandler,
            command, ring, robot, run, stream
<1>1. CASE StartRun
  BY <1>1 DEF Handshake, StartRun, Step
<1>2. CASE WritePose
  BY <1>2 DEF Handshake, WritePose, Step
<1>3. CASE MoveId
  BY <1>3 DEF Handshake, TypeOK, MoveId, WriteCmdId, Step
<1>4. CASE MoveAction
  BY <1>4 DEF Handshake, MoveAction, WriteAction, Step
<1>5. CASE AwaitDone
  BY <1>5 DEF Handshake, TypeOK, AwaitDone
<1>6. CASE StartCount
  BY <1>6 DEF Handshake, StartCount, Step
<1>7. CASE StartRewind
  BY <1>7 DEF Handshake, StartRewind, Step, Smaller
<1>8. CASE StartFill
  BY <1>8 DEF Handshake, StartFill, WriteSlot
<1>9. CASE StartWrIdx
  BY <1>9 DEF Handshake, StartWrIdx, WriteWrIdx, Step
<1>10. CASE StreamId
  BY <1>10 DEF Handshake, TypeOK, StreamId, WriteCmdId, Step
<1>11. CASE StartAction
  BY <1>11 DEF Handshake, StartAction, WriteAction, Step
<1>12. CASE ReadRdIdx
  BY <1>12 DEF Handshake, ReadRdIdx, Step
<1>13. CASE PlanRefill
  BY <1>13 DEF Handshake, PlanRefill, FreeSlots, Smaller
<1>14. CASE RefillSlot
  BY <1>14 DEF Handshake, RefillSlot, WriteSlot
<1>15. CASE RefillWrIdx
  BY <1>15 DEF Handshake, RefillWrIdx, WriteWrIdx, Step
<1>16. CASE StreamIsDone
  BY <1>16 DEF Handshake, TypeOK, StreamIsDone, Step
<1>17. CASE GiveUp
  BY <1>17 DEF Handshake, GiveUp
<1>18. CASE Idle
  BY <1>18 DEF Handshake, Idle, Interpret
<1>19. CASE WakeUp
  BY <1>19 DEF Handshake, WakeUp, Interpret
<1>20. CASE AcceptMove
  BY <1>20 DEF Handshake, AcceptMove, Interpret
<1>21. CASE AcceptStream
  BY <1>21 DEF Handshake, AcceptStream, Interpret
<1>22. CASE PlanMove
  BY <1>22 DEF Handshake, PlanMove, Plan, Interpret
<1>23. CASE NextPoint
  BY <1>23 DEF Handshake, NextPoint, Interpret
<1>24. CASE PlanPoint
  BY <1>24 DEF Handshake, PlanPoint, Plan, Interpret
<1>25. CASE Bump
  BY <1>25 DEF Handshake, Bump, Interpret
<1>26. CASE Check
  BY <1>26 DEF Handshake, Check, CaughtUp, Interpret
<1>27. CASE WaitFor
  BY <1>27 DEF Handshake, WaitFor, Interpret
<1>28. CASE EndWhile
  BY <1>28 DEF Handshake, EndWhile, Interpret
<1>29. CASE Acknowledge
  BY <1>29 DEF Handshake, TypeOK, Acknowledge, Interpret
<1>30. CASE Release
  BY <1>30 DEF Handshake, Release, Interpret
<1>31. CASE StartBlock
  BY <1>31 DEF Handshake, StartBlock
<1>32. CASE UNCHANGED vars
  BY <1>32 DEF Handshake, vars
<1>. QED
  BY <1>1, <1>2, <1>3, <1>4, <1>5, <1>6, <1>7, <1>8, <1>9, <1>10, <1>11, <1>12, <1>13, <1>14, <1>15,
     <1>16, <1>17, <1>18, <1>19, <1>20, <1>21, <1>22, <1>23, <1>24, <1>25, <1>26, <1>27, <1>28, <1>29, <1>30, <1>31, <1>32
     DEF Next, Driver, Move, StreamStart, Refill, MqStream, HandleMove, HandleStream

(* Every step keeps the phase in line with what is consumed.               *)
LEMMA SameStreamStep ==
  ASSUME IInv, [Next]_vars
  PROVE  SameStream'
<1>. USE DEF IInv, Feeding, Starting, Consuming, Pending, InHandler,
            command, ring, robot, run, stream
<1>1. CASE StartRun
  BY <1>1 DEF SameStream, StartRun, Step
<1>2. CASE WritePose
  BY <1>2 DEF SameStream, WritePose, Step
<1>3. CASE MoveId
  BY <1>3 DEF SameStream, MoveId, WriteCmdId, Step
<1>4. CASE MoveAction
  BY <1>4 DEF SameStream, MoveAction, WriteAction, Step
<1>5. CASE AwaitDone
  BY <1>5 DEF SameStream, AwaitDone
<1>6. CASE StartCount
  BY <1>6 DEF SameStream, StartCount, Step
<1>7. CASE StartRewind
  BY <1>7 DEF SameStream, StartRewind, Step, Smaller
<1>8. CASE StartFill
  BY <1>8 DEF SameStream, StartFill, WriteSlot
<1>9. CASE StartWrIdx
  BY <1>9 DEF SameStream, StartWrIdx, WriteWrIdx, Step
<1>10. CASE StreamId
  BY <1>10 DEF SameStream, StreamId, WriteCmdId, Step
<1>11. CASE StartAction
  BY <1>11 DEF SameStream, StartAction, WriteAction, Step
<1>12. CASE ReadRdIdx
  BY <1>12 DEF SameStream, ReadRdIdx, Step
<1>13. CASE PlanRefill
  BY <1>13 DEF SameStream, PlanRefill, FreeSlots, Smaller
<1>14. CASE RefillSlot
  BY <1>14 DEF SameStream, RefillSlot, WriteSlot
<1>15. CASE RefillWrIdx
  BY <1>15 DEF SameStream, RefillWrIdx, WriteWrIdx, Step
<1>16. CASE StreamIsDone
  BY <1>16 DEF SameStream, TypeOK, Handshake, StreamIsDone, Step
<1>17. CASE GiveUp
  BY <1>17 DEF SameStream, GiveUp
<1>18. CASE Idle
  BY <1>18 DEF SameStream, Idle, Interpret
<1>19. CASE WakeUp
  BY <1>19 DEF SameStream, WakeUp, Interpret
<1>20. CASE AcceptMove
  BY <1>20 DEF SameStream, AcceptMove, Interpret
<1>21. CASE AcceptStream
  BY <1>21 DEF SameStream, AcceptStream, Interpret
<1>22. CASE PlanMove
  BY <1>22 DEF SameStream, PlanMove, Plan, Interpret
<1>23. CASE NextPoint
  BY <1>23 DEF SameStream, NextPoint, Interpret
<1>24. CASE PlanPoint
  BY <1>24 DEF SameStream, PlanPoint, Plan, Interpret
<1>25. CASE Bump
  BY <1>25 DEF SameStream, Bump, Interpret
<1>26. CASE Check
  BY <1>26 DEF SameStream, Check, CaughtUp, Interpret
<1>27. CASE WaitFor
  BY <1>27 DEF SameStream, WaitFor, Interpret
<1>28. CASE EndWhile
  BY <1>28 DEF SameStream, EndWhile, Interpret
<1>29. CASE Acknowledge
  BY <1>29 DEF SameStream, Acknowledge, Interpret
<1>30. CASE Release
  BY <1>30 DEF SameStream, Release, Interpret
<1>31. CASE StartBlock
  BY <1>31 DEF SameStream, StartBlock
<1>32. CASE UNCHANGED vars
  BY <1>32 DEF SameStream, vars
<1>. QED
  BY <1>1, <1>2, <1>3, <1>4, <1>5, <1>6, <1>7, <1>8, <1>9, <1>10, <1>11, <1>12, <1>13, <1>14, <1>15,
     <1>16, <1>17, <1>18, <1>19, <1>20, <1>21, <1>22, <1>23, <1>24, <1>25, <1>26, <1>27, <1>28, <1>29, <1>30, <1>31, <1>32
     DEF Next, Driver, Move, StreamStart, Refill, MqStream, HandleMove, HandleStream

(* Every step keeps the unread points in their slots.                      *)
LEMMA LoadedStep ==
  ASSUME IInv, [Next]_vars
  PROVE  Loaded'
<1>. USE DEF IInv, Feeding, Starting, Consuming, Pending, InHandler,
            command, ring, robot, run, stream
<1>1. CASE StartRun
  BY <1>1 DEF Loaded, StartRun, Step
<1>2. CASE WritePose
  BY <1>2 DEF Loaded, WritePose, Step
<1>3. CASE MoveId
  BY <1>3 DEF Loaded, MoveId, WriteCmdId, Step
<1>4. CASE MoveAction
  BY <1>4 DEF Loaded, MoveAction, WriteAction, Step
<1>5. CASE AwaitDone
  BY <1>5 DEF Loaded, AwaitDone
<1>6. CASE StartCount
  BY <1>6 DEF Loaded, Handshake, StartCount, Step
<1>7. CASE StartRewind
  BY <1>7, ConstantsAssumption DEF Loaded, TypeOK, Room, StartRewind, Step, Smaller
<1>8. CASE StartFill
  <2>1. /\ MQ_RD_IDX >= 1 /\ MQ_RD_IDX <= written + 1 /\ written + 1 < MQ_RD_IDX + Ring
        /\ \A k \in MQ_RD_IDX..written : MQ_PT[Slot(k)] = [cmd |-> sid, k |-> k]
        /\ total = MQ_PT_CNT /\ written + 1 <= total
    BY <1>8, ConstantsAssumption
       DEF TypeOK, Loaded, Room, Unread, Starting, Feeding, StartFill, WriteSlot
  <2>2. \A k \in MQ_RD_IDX..(written + 1) : MQ_PT'[Slot(k)] = [cmd |-> sid, k |-> k]
    BY <1>8, <2>1, SlotWrite DEF StartFill, WriteSlot
  <2>3. /\ MQ_RD_IDX' = MQ_RD_IDX /\ written' = written + 1 /\ sid' = sid
        /\ total' = total /\ MQ_PT_CNT' = MQ_PT_CNT
    BY <1>8 DEF StartFill, WriteSlot
  <2>4. \A k \in MQ_RD_IDX'..written' : MQ_PT'[Slot(k)] = [cmd |-> sid', k |-> k]
    BY <2>2, <2>3
  <2>. QED
    BY <2>1, <2>3, <2>4, ConstantsAssumption DEF TypeOK, Loaded
<1>9. CASE StartWrIdx
  BY <1>9 DEF Loaded, StartWrIdx, WriteWrIdx, Step
<1>10. CASE StreamId
  BY <1>10 DEF Loaded, StreamId, WriteCmdId, Step
<1>11. CASE StartAction
  BY <1>11 DEF Loaded, StartAction, WriteAction, Step
<1>12. CASE ReadRdIdx
  BY <1>12 DEF Loaded, ReadRdIdx, Step
<1>13. CASE PlanRefill
  BY <1>13 DEF Loaded, PlanRefill, FreeSlots, Smaller
<1>14. CASE RefillSlot
  <2>1. /\ MQ_RD_IDX >= 1 /\ MQ_RD_IDX <= written + 1 /\ written + 1 < MQ_RD_IDX + Ring
        /\ \A k \in MQ_RD_IDX..written : MQ_PT[Slot(k)] = [cmd |-> sid, k |-> k]
        /\ total = MQ_PT_CNT /\ written + 1 <= total
    BY <1>14, ConstantsAssumption
       DEF TypeOK, Loaded, Room, Unread, Starting, Feeding, RefillSlot, WriteSlot
  <2>2. \A k \in MQ_RD_IDX..(written + 1) : MQ_PT'[Slot(k)] = [cmd |-> sid, k |-> k]
    BY <1>14, <2>1, SlotWrite DEF RefillSlot, WriteSlot
  <2>3. /\ MQ_RD_IDX' = MQ_RD_IDX /\ written' = written + 1 /\ sid' = sid
        /\ total' = total /\ MQ_PT_CNT' = MQ_PT_CNT
    BY <1>14 DEF RefillSlot, WriteSlot
  <2>4. \A k \in MQ_RD_IDX'..written' : MQ_PT'[Slot(k)] = [cmd |-> sid', k |-> k]
    BY <2>2, <2>3
  <2>. QED
    BY <2>1, <2>3, <2>4, ConstantsAssumption DEF TypeOK, Loaded
<1>15. CASE RefillWrIdx
  BY <1>15 DEF Loaded, RefillWrIdx, WriteWrIdx, Step
<1>16. CASE StreamIsDone
  BY <1>16 DEF Loaded, StreamIsDone, Step
<1>17. CASE GiveUp
  BY <1>17 DEF Loaded, GiveUp
<1>18. CASE Idle
  BY <1>18 DEF Loaded, Idle, Interpret
<1>19. CASE WakeUp
  BY <1>19 DEF Loaded, WakeUp, Interpret
<1>20. CASE AcceptMove
  BY <1>20 DEF Loaded, AcceptMove, Interpret
<1>21. CASE AcceptStream
  BY <1>21 DEF Loaded, AcceptStream, Interpret
<1>22. CASE PlanMove
  BY <1>22 DEF Loaded, PlanMove, Plan, Interpret
<1>23. CASE NextPoint
  BY <1>23 DEF Loaded, NextPoint, Interpret
<1>24. CASE PlanPoint
  BY <1>24 DEF Loaded, PlanPoint, Plan, Interpret
<1>25. CASE Bump
  BY <1>25, ConstantsAssumption DEF Loaded, TypeOK, Published, Bump, Interpret
<1>26. CASE Check
  BY <1>26 DEF Loaded, Check, CaughtUp, Interpret
<1>27. CASE WaitFor
  BY <1>27 DEF Loaded, WaitFor, Interpret
<1>28. CASE EndWhile
  BY <1>28 DEF Loaded, EndWhile, Interpret
<1>29. CASE Acknowledge
  BY <1>29 DEF Loaded, Acknowledge, Interpret
<1>30. CASE Release
  BY <1>30 DEF Loaded, Release, Interpret
<1>31. CASE StartBlock
  BY <1>31 DEF Loaded, StartBlock
<1>32. CASE UNCHANGED vars
  BY <1>32 DEF Loaded, vars
<1>. QED
  BY <1>1, <1>2, <1>3, <1>4, <1>5, <1>6, <1>7, <1>8, <1>9, <1>10, <1>11, <1>12, <1>13, <1>14, <1>15,
     <1>16, <1>17, <1>18, <1>19, <1>20, <1>21, <1>22, <1>23, <1>24, <1>25, <1>26, <1>27, <1>28, <1>29, <1>30, <1>31, <1>32
     DEF Next, Driver, Move, StreamStart, Refill, MqStream, HandleMove, HandleStream

(* Every step keeps the count of what may be written within the free slots. *)
LEMMA RoomStep ==
  ASSUME IInv, [Next]_vars
  PROVE  Room'
<1>. USE DEF IInv, Feeding, Starting, Consuming, Pending, InHandler,
            command, ring, robot, run, stream
<1>1. CASE StartRun
  BY <1>1 DEF Room, StartRun, Step
<1>2. CASE WritePose
  BY <1>2 DEF Room, WritePose, Step
<1>3. CASE MoveId
  BY <1>3 DEF Room, MoveId, WriteCmdId, Step
<1>4. CASE MoveAction
  BY <1>4 DEF Room, MoveAction, WriteAction, Step
<1>5. CASE AwaitDone
  BY <1>5 DEF Room, AwaitDone
<1>6. CASE StartCount
  BY <1>6, ConstantsAssumption DEF Room, StartCount, Step
<1>7. CASE StartRewind
  BY <1>7, ConstantsAssumption DEF Room, TypeOK, StartRewind, Step, Smaller
<1>8. CASE StartFill
  BY <1>8 DEF Room, TypeOK, StartFill, WriteSlot
<1>9. CASE StartWrIdx
  BY <1>9 DEF Room, StartWrIdx, WriteWrIdx, Step
<1>10. CASE StreamId
  BY <1>10 DEF Room, StreamId, WriteCmdId, Step
<1>11. CASE StartAction
  BY <1>11 DEF Room, StartAction, WriteAction, Step
<1>12. CASE ReadRdIdx
  BY <1>12 DEF Room, TypeOK, ReadRdIdx, Step
<1>13. CASE PlanRefill
  BY <1>13, ConstantsAssumption DEF Room, TypeOK, Loaded, PlanRefill, FreeSlots, Smaller
<1>14. CASE RefillSlot
  BY <1>14 DEF Room, TypeOK, RefillSlot, WriteSlot
<1>15. CASE RefillWrIdx
  BY <1>15 DEF Room, RefillWrIdx, WriteWrIdx, Step
<1>16. CASE StreamIsDone
  BY <1>16 DEF Room, StreamIsDone, Step
<1>17. CASE GiveUp
  BY <1>17 DEF Room, GiveUp
<1>18. CASE Idle
  BY <1>18 DEF Room, Idle, Interpret
<1>19. CASE WakeUp
  BY <1>19 DEF Room, WakeUp, Interpret
<1>20. CASE AcceptMove
  BY <1>20 DEF Room, AcceptMove, Interpret
<1>21. CASE AcceptStream
  BY <1>21 DEF Room, AcceptStream, Interpret
<1>22. CASE PlanMove
  BY <1>22 DEF Room, PlanMove, Plan, Interpret
<1>23. CASE NextPoint
  BY <1>23 DEF Room, NextPoint, Interpret
<1>24. CASE PlanPoint
  BY <1>24 DEF Room, PlanPoint, Plan, Interpret
<1>25. CASE Bump
  BY <1>25 DEF Room, TypeOK, Bump, Interpret
<1>26. CASE Check
  BY <1>26 DEF Room, Check, CaughtUp, Interpret
<1>27. CASE WaitFor
  BY <1>27 DEF Room, WaitFor, Interpret
<1>28. CASE EndWhile
  BY <1>28 DEF Room, EndWhile, Interpret
<1>29. CASE Acknowledge
  BY <1>29 DEF Room, Acknowledge, Interpret
<1>30. CASE Release
  BY <1>30 DEF Room, Release, Interpret
<1>31. CASE StartBlock
  BY <1>31 DEF Room, StartBlock
<1>32. CASE UNCHANGED vars
  BY <1>32 DEF Room, vars
<1>. QED
  BY <1>1, <1>2, <1>3, <1>4, <1>5, <1>6, <1>7, <1>8, <1>9, <1>10, <1>11, <1>12, <1>13, <1>14, <1>15,
     <1>16, <1>17, <1>18, <1>19, <1>20, <1>21, <1>22, <1>23, <1>24, <1>25, <1>26, <1>27, <1>28, <1>29, <1>30, <1>31, <1>32
     DEF Next, Driver, Move, StreamStart, Refill, MqStream, HandleMove, HandleStream

(* A stream not yet accepted is not read.                                  *)
LEMMA UnreadStep ==
  ASSUME IInv, [Next]_vars
  PROVE  Unread'
<1>. USE DEF IInv, Feeding, Starting, Consuming, Pending, InHandler,
            command, ring, robot, run, stream
<1>1. CASE StartRun
  BY <1>1 DEF Unread, StartRun, Step
<1>2. CASE WritePose
  BY <1>2 DEF Unread, WritePose, Step
<1>3. CASE MoveId
  BY <1>3 DEF Unread, MoveId, WriteCmdId, Step
<1>4. CASE MoveAction
  BY <1>4 DEF Unread, MoveAction, WriteAction, Step
<1>5. CASE AwaitDone
  BY <1>5 DEF Unread, AwaitDone
<1>6. CASE StartCount
  BY <1>6 DEF Unread, StartCount, Step
<1>7. CASE StartRewind
  BY <1>7 DEF Unread, StartRewind, Step, Smaller
<1>8. CASE StartFill
  BY <1>8 DEF Unread, StartFill, WriteSlot
<1>9. CASE StartWrIdx
  BY <1>9 DEF Unread, StartWrIdx, WriteWrIdx, Step
<1>10. CASE StreamId
  BY <1>10 DEF Unread, StreamId, WriteCmdId, Step
<1>11. CASE StartAction
  BY <1>11 DEF Unread, StartAction, WriteAction, Step
<1>12. CASE ReadRdIdx
  BY <1>12 DEF Unread, ReadRdIdx, Step
<1>13. CASE PlanRefill
  BY <1>13 DEF Unread, PlanRefill, FreeSlots, Smaller
<1>14. CASE RefillSlot
  BY <1>14 DEF Unread, RefillSlot, WriteSlot
<1>15. CASE RefillWrIdx
  BY <1>15 DEF Unread, RefillWrIdx, WriteWrIdx, Step
<1>16. CASE StreamIsDone
  BY <1>16 DEF Unread, StreamIsDone, Step
<1>17. CASE GiveUp
  BY <1>17 DEF Unread, GiveUp
<1>18. CASE Idle
  BY <1>18 DEF Unread, Idle, Interpret
<1>19. CASE WakeUp
  BY <1>19 DEF Unread, WakeUp, Interpret
<1>20. CASE AcceptMove
  BY <1>20 DEF Unread, AcceptMove, Interpret
<1>21. CASE AcceptStream
  BY <1>21 DEF Unread, AcceptStream, Interpret
<1>22. CASE PlanMove
  BY <1>22 DEF Unread, PlanMove, Plan, Interpret
<1>23. CASE NextPoint
  BY <1>23 DEF Unread, NextPoint, Interpret
<1>24. CASE PlanPoint
  BY <1>24 DEF Unread, PlanPoint, Plan, Interpret
<1>25. CASE Bump
  BY <1>25 DEF Unread, Handshake, Bump, Interpret
<1>26. CASE Check
  BY <1>26 DEF Unread, Check, CaughtUp, Interpret
<1>27. CASE WaitFor
  BY <1>27 DEF Unread, WaitFor, Interpret
<1>28. CASE EndWhile
  BY <1>28 DEF Unread, EndWhile, Interpret
<1>29. CASE Acknowledge
  BY <1>29 DEF Unread, Acknowledge, Interpret
<1>30. CASE Release
  BY <1>30 DEF Unread, Release, Interpret
<1>31. CASE StartBlock
  BY <1>31 DEF Unread, StartBlock
<1>32. CASE UNCHANGED vars
  BY <1>32 DEF Unread, vars
<1>. QED
  BY <1>1, <1>2, <1>3, <1>4, <1>5, <1>6, <1>7, <1>8, <1>9, <1>10, <1>11, <1>12, <1>13, <1>14, <1>15,
     <1>16, <1>17, <1>18, <1>19, <1>20, <1>21, <1>22, <1>23, <1>24, <1>25, <1>26, <1>27, <1>28, <1>29, <1>30, <1>31, <1>32
     DEF Next, Driver, Move, StreamStart, Refill, MqStream, HandleMove, HandleStream

(* Every step keeps the order of the two indices.                          *)
LEMMA PublishedStep ==
  ASSUME IInv, [Next]_vars
  PROVE  Published'
<1>. USE DEF IInv, Feeding, Starting, Consuming, Pending, InHandler,
            command, ring, robot, run, stream
<1>1. CASE StartRun
  BY <1>1 DEF Published, StartRun, Step
<1>2. CASE WritePose
  BY <1>2 DEF Published, WritePose, Step
<1>3. CASE MoveId
  BY <1>3 DEF Published, MoveId, WriteCmdId, Step
<1>4. CASE MoveAction
  BY <1>4 DEF Published, MoveAction, WriteAction, Step
<1>5. CASE AwaitDone
  BY <1>5 DEF Published, AwaitDone
<1>6. CASE StartCount
  BY <1>6 DEF Published, Handshake, StartCount, Step
<1>7. CASE StartRewind
  BY <1>7 DEF Published, TypeOK, Loaded, StartRewind, Step, Smaller
<1>8. CASE StartFill
  BY <1>8 DEF Published, TypeOK, StartFill, WriteSlot
<1>9. CASE StartWrIdx
  BY <1>9 DEF Published, TypeOK, Room, Unread, StartWrIdx, WriteWrIdx, Step
<1>10. CASE StreamId
  BY <1>10 DEF Published, StreamId, WriteCmdId, Step
<1>11. CASE StartAction
  BY <1>11 DEF Published, StartAction, WriteAction, Step
<1>12. CASE ReadRdIdx
  BY <1>12 DEF Published, ReadRdIdx, Step
<1>13. CASE PlanRefill
  BY <1>13 DEF Published, PlanRefill, FreeSlots, Smaller
<1>14. CASE RefillSlot
  BY <1>14 DEF Published, TypeOK, RefillSlot, WriteSlot
<1>15. CASE RefillWrIdx
  BY <1>15 DEF Published, TypeOK, RefillWrIdx, WriteWrIdx, Step
<1>16. CASE StreamIsDone
  BY <1>16 DEF Published, StreamIsDone, Step
<1>17. CASE GiveUp
  BY <1>17 DEF Published, GiveUp
<1>18. CASE Idle
  BY <1>18 DEF Published, Idle, Interpret
<1>19. CASE WakeUp
  BY <1>19 DEF Published, WakeUp, Interpret
<1>20. CASE AcceptMove
  BY <1>20 DEF Published, AcceptMove, Interpret
<1>21. CASE AcceptStream
  BY <1>21 DEF Published, AcceptStream, Interpret
<1>22. CASE PlanMove
  BY <1>22 DEF Published, PlanMove, Plan, Interpret
<1>23. CASE NextPoint
  BY <1>23 DEF Published, TypeOK, NextPoint, Interpret
<1>24. CASE PlanPoint
  BY <1>24 DEF Published, PlanPoint, Plan, Interpret
<1>25. CASE Bump
  BY <1>25 DEF Published, TypeOK, Handshake, Bump, Interpret
<1>26. CASE Check
  BY <1>26 DEF Published, Check, CaughtUp, Interpret
<1>27. CASE WaitFor
  BY <1>27 DEF Published, WaitFor, Interpret
<1>28. CASE EndWhile
  BY <1>28 DEF Published, EndWhile, Interpret
<1>29. CASE Acknowledge
  BY <1>29 DEF Published, Acknowledge, Interpret
<1>30. CASE Release
  BY <1>30 DEF Published, Release, Interpret
<1>31. CASE StartBlock
  BY <1>31 DEF Published, StartBlock
<1>32. CASE UNCHANGED vars
  BY <1>32 DEF Published, vars
<1>. QED
  BY <1>1, <1>2, <1>3, <1>4, <1>5, <1>6, <1>7, <1>8, <1>9, <1>10, <1>11, <1>12, <1>13, <1>14, <1>15,
     <1>16, <1>17, <1>18, <1>19, <1>20, <1>21, <1>22, <1>23, <1>24, <1>25, <1>26, <1>27, <1>28, <1>29, <1>30, <1>31, <1>32
     DEF Next, Driver, Move, StreamStart, Refill, MqStream, HandleMove, HandleStream

(* Every step keeps the wrap-around counter on MQ_RD_IDX.                  *)
LEMMA CounterStep ==
  ASSUME IInv, [Next]_vars
  PROVE  Counter'
<1>. USE DEF IInv, Feeding, Starting, Consuming, Pending, InHandler,
            command, ring, robot, run, stream
<1>1. CASE StartRun
  BY <1>1 DEF Counter, StartRun, Step
<1>2. CASE WritePose
  BY <1>2 DEF Counter, WritePose, Step
<1>3. CASE MoveId
  BY <1>3 DEF Counter, MoveId, WriteCmdId, Step
<1>4. CASE MoveAction
  BY <1>4 DEF Counter, MoveAction, WriteAction, Step
<1>5. CASE AwaitDone
  BY <1>5 DEF Counter, AwaitDone
<1>6. CASE StartCount
  BY <1>6 DEF Counter, StartCount, Step
<1>7. CASE StartRewind
  BY <1>7 DEF Counter, Handshake, StartRewind, Step, Smaller
<1>8. CASE StartFill
  BY <1>8 DEF Counter, StartFill, WriteSlot
<1>9. CASE StartWrIdx
  BY <1>9 DEF Counter, StartWrIdx, WriteWrIdx, Step
<1>10. CASE StreamId
  BY <1>10 DEF Counter, StreamId, WriteCmdId, Step
<1>11. CASE StartAction
  BY <1>11 DEF Counter, StartAction, WriteAction, Step
<1>12. CASE ReadRdIdx
  BY <1>12 DEF Counter, ReadRdIdx, Step
<1>13. CASE PlanRefill
  BY <1>13 DEF Counter, PlanRefill, FreeSlots, Smaller
<1>14. CASE RefillSlot
  BY <1>14 DEF Counter, RefillSlot, WriteSlot
<1>15. CASE RefillWrIdx
  BY <1>15 DEF Counter, RefillWrIdx, WriteWrIdx, Step
<1>16. CASE StreamIsDone
  BY <1>16 DEF Counter, StreamIsDone, Step
<1>17. CASE GiveUp
  BY <1>17 DEF Counter, GiveUp
<1>18. CASE Idle
  BY <1>18 DEF Counter, Idle, Interpret
<1>19. CASE WakeUp
  BY <1>19 DEF Counter, WakeUp, Interpret
<1>20. CASE AcceptMove
  BY <1>20 DEF Counter, AcceptMove, Interpret
<1>21. CASE AcceptStream
  BY <1>21 DEF Counter, Unread, AcceptStream, Interpret
<1>22. CASE PlanMove
  BY <1>22 DEF Counter, PlanMove, Plan, Interpret
<1>23. CASE NextPoint
  <2>1. MQ_RD_IDX \in Nat \ {0}
    BY <1>23 DEF TypeOK, Loaded, Consuming, InHandler, NextPoint, Interpret
  <2>2. MQ_I' = Slot(MQ_RD_IDX)
    <3>1. CASE MQ_RD_IDX = 1
      BY <1>23, <3>1, SlotSucc, ConstantsAssumption DEF Counter, NextPoint, Interpret
    <3>2. CASE MQ_RD_IDX # 1
      <4>1. MQ_RD_IDX - 1 \in Nat \ {0} /\ (MQ_RD_IDX - 1) + 1 = MQ_RD_IDX
        BY <2>1, <3>2
      <4>2. MQ_I = Slot(MQ_RD_IDX - 1)
        BY <1>23, <3>2 DEF Counter, NextPoint, Interpret
      <4>3. Slot(MQ_RD_IDX)
              = IF Slot(MQ_RD_IDX - 1) + 1 > Ring THEN 1 ELSE Slot(MQ_RD_IDX - 1) + 1
        BY <4>1, SlotSucc
      <4>. QED
        BY <1>23, <4>2, <4>3 DEF NextPoint
    <3>. QED
      BY <3>1, <3>2
  <2>. QED
    BY <1>23, <2>2 DEF Counter, NextPoint, Interpret
<1>24. CASE PlanPoint
  BY <1>24 DEF Counter, PlanPoint, Plan, Interpret
<1>25. CASE Bump
  BY <1>25 DEF Counter, TypeOK, Loaded, Bump, Interpret
<1>26. CASE Check
  BY <1>26 DEF Counter, Check, CaughtUp, Interpret
<1>27. CASE WaitFor
  BY <1>27 DEF Counter, WaitFor, Interpret
<1>28. CASE EndWhile
  BY <1>28 DEF Counter, EndWhile, Interpret
<1>29. CASE Acknowledge
  BY <1>29 DEF Counter, Acknowledge, Interpret
<1>30. CASE Release
  BY <1>30 DEF Counter, Release, Interpret
<1>31. CASE StartBlock
  BY <1>31 DEF Counter, StartBlock
<1>32. CASE UNCHANGED vars
  BY <1>32 DEF Counter, vars
<1>. QED
  BY <1>1, <1>2, <1>3, <1>4, <1>5, <1>6, <1>7, <1>8, <1>9, <1>10, <1>11, <1>12, <1>13, <1>14, <1>15,
     <1>16, <1>17, <1>18, <1>19, <1>20, <1>21, <1>22, <1>23, <1>24, <1>25, <1>26, <1>27, <1>28, <1>29, <1>30, <1>31, <1>32
     DEF Next, Driver, Move, StreamStart, Refill, MqStream, HandleMove, HandleStream

(* Every step keeps the numbering of commands and streams.                 *)
LEMMA NumbersStep ==
  ASSUME IInv, [Next]_vars
  PROVE  Numbers'
<1>. USE DEF IInv, Feeding, Starting, Consuming, Pending, InHandler,
            command, ring, robot, run, stream
<1>1. CASE StartRun
  BY <1>1 DEF Numbers, StartRun, Step
<1>2. CASE WritePose
  BY <1>2 DEF Numbers, WritePose, Step
<1>3. CASE MoveId
  BY <1>3 DEF Numbers, TypeOK, Handshake, MoveId, WriteCmdId, Step
<1>4. CASE MoveAction
  BY <1>4 DEF Numbers, MoveAction, WriteAction, Step
<1>5. CASE AwaitDone
  BY <1>5 DEF Numbers, TypeOK, Handshake, AwaitDone
<1>6. CASE StartCount
  BY <1>6 DEF Numbers, TypeOK, Handshake, StartCount, Step
<1>7. CASE StartRewind
  BY <1>7 DEF Numbers, StartRewind, Step, Smaller
<1>8. CASE StartFill
  BY <1>8 DEF Numbers, StartFill, WriteSlot
<1>9. CASE StartWrIdx
  BY <1>9 DEF Numbers, StartWrIdx, WriteWrIdx, Step
<1>10. CASE StreamId
  BY <1>10 DEF Numbers, StreamId, WriteCmdId, Step
<1>11. CASE StartAction
  BY <1>11 DEF Numbers, StartAction, WriteAction, Step
<1>12. CASE ReadRdIdx
  BY <1>12 DEF Numbers, ReadRdIdx, Step
<1>13. CASE PlanRefill
  BY <1>13 DEF Numbers, PlanRefill, FreeSlots, Smaller
<1>14. CASE RefillSlot
  BY <1>14 DEF Numbers, RefillSlot, WriteSlot
<1>15. CASE RefillWrIdx
  BY <1>15 DEF Numbers, RefillWrIdx, WriteWrIdx, Step
<1>16. CASE StreamIsDone
  BY <1>16 DEF Numbers, StreamIsDone, Step
<1>17. CASE GiveUp
  BY <1>17 DEF Numbers, GiveUp
<1>18. CASE Idle
  BY <1>18 DEF Numbers, Idle, Interpret
<1>19. CASE WakeUp
  BY <1>19 DEF Numbers, WakeUp, Interpret
<1>20. CASE AcceptMove
  BY <1>20 DEF Numbers, AcceptMove, Interpret
<1>21. CASE AcceptStream
  BY <1>21 DEF Numbers, AcceptStream, Interpret
<1>22. CASE PlanMove
  BY <1>22 DEF Numbers, PlanMove, Plan, Interpret
<1>23. CASE NextPoint
  BY <1>23 DEF Numbers, NextPoint, Interpret
<1>24. CASE PlanPoint
  BY <1>24 DEF Numbers, PlanPoint, Plan, Interpret
<1>25. CASE Bump
  BY <1>25 DEF Numbers, Bump, Interpret
<1>26. CASE Check
  BY <1>26 DEF Numbers, Check, CaughtUp, Interpret
<1>27. CASE WaitFor
  BY <1>27 DEF Numbers, WaitFor, Interpret
<1>28. CASE EndWhile
  BY <1>28 DEF Numbers, EndWhile, Interpret
<1>29. CASE Acknowledge
  BY <1>29 DEF Numbers, Acknowledge, Interpret
<1>30. CASE Release
  BY <1>30 DEF Numbers, Release, Interpret
<1>31. CASE StartBlock
  BY <1>31 DEF Numbers, StartBlock
<1>32. CASE UNCHANGED vars
  BY <1>32 DEF Numbers, vars
<1>. QED
  BY <1>1, <1>2, <1>3, <1>4, <1>5, <1>6, <1>7, <1>8, <1>9, <1>10, <1>11, <1>12, <1>13, <1>14, <1>15,
     <1>16, <1>17, <1>18, <1>19, <1>20, <1>21, <1>22, <1>23, <1>24, <1>25, <1>26, <1>27, <1>28, <1>29, <1>30, <1>31, <1>32
     DEF Next, Driver, Move, StreamStart, Refill, MqStream, HandleMove, HandleStream

(* Every step keeps what the planner has got in line with MQ_RD_IDX.       *)
LEMMA DeliveredStep ==
  ASSUME IInv, [Next]_vars
  PROVE  Delivered'
<1>. USE DEF IInv, Feeding, Starting, Consuming, Pending, InHandler,
            command, ring, robot, run, stream, PlannedSoFar, DoneMissesAtMostLast
<1>1. CASE StartRun
  BY <1>1 DEF Delivered, StartRun, Step
<1>2. CASE WritePose
  BY <1>2 DEF Delivered, WritePose, Step
<1>3. CASE MoveId
  <2>1. handed.cmd \in Nat /\ cmd_id \in Nat /\ cmd_id' = cmd_id + 1 /\ handed' = handed
    BY <1>3 DEF TypeOK, Target, MoveId, WriteCmdId
  <2>2. handed.cmd <= cmd_id /\ handed'.cmd <= cmd_id'
    BY <2>1 DEF Delivered
  <2>3. UNCHANGED <<pc, sid, phase, total, MQ_ACTION, MQ_RD_IDX, MQ_WR_IDX, MQ_DONE_ID>>
    BY <1>3 DEF MoveId, WriteCmdId
  <2>4. PlannedSoFar' = PlannedSoFar
    BY <2>1, <2>3 DEF PlannedSoFar
  <2>5. ~Consuming /\ step' \notin Feeding
    BY <1>3 DEF SameStream, MoveId, WriteCmdId, Step
  <2>6. step' \in Starting => step \in Starting
    BY <1>3 DEF MoveId, WriteCmdId, Step
  <2>. QED
    BY <2>1, <2>2, <2>3, <2>4, <2>5, <2>6 DEF Delivered, DoneMissesAtMostLast
<1>4. CASE MoveAction
  BY <1>4 DEF Delivered, MoveAction, WriteAction, Step
<1>5. CASE AwaitDone
  BY <1>5 DEF Delivered, AwaitDone
<1>6. CASE StartCount
  BY <1>6 DEF Delivered, Handshake, StartCount, Step
<1>7. CASE StartRewind
  BY <1>7 DEF Delivered, TypeOK, Numbers, StartRewind, Step, Smaller
<1>8. CASE StartFill
  BY <1>8 DEF Delivered, StartFill, WriteSlot
<1>9. CASE StartWrIdx
  BY <1>9 DEF Delivered, Handshake, StartWrIdx, WriteWrIdx, Step
<1>10. CASE StreamId
  <2>1. handed.cmd \in Nat /\ cmd_id \in Nat /\ cmd_id' = cmd_id + 1 /\ handed' = handed
    BY <1>10 DEF TypeOK, Target, StreamId, WriteCmdId
  <2>2. handed.cmd <= cmd_id /\ handed'.cmd <= cmd_id'
    BY <2>1 DEF Delivered
  <2>3. UNCHANGED <<pc, sid, phase, total, MQ_ACTION, MQ_RD_IDX, MQ_WR_IDX, MQ_DONE_ID>>
    BY <1>10 DEF StreamId, WriteCmdId
  <2>4. PlannedSoFar' = PlannedSoFar
    BY <2>1, <2>3 DEF PlannedSoFar
  <2>5. ~Consuming /\ step' \notin Feeding
    BY <1>10 DEF SameStream, StreamId, WriteCmdId, Step
  <2>6. step' \in Starting => step \in Starting
    BY <1>10 DEF StreamId, WriteCmdId, Step
  <2>. QED
    BY <2>1, <2>2, <2>3, <2>4, <2>5, <2>6 DEF Delivered, DoneMissesAtMostLast
<1>11. CASE StartAction
  BY <1>11 DEF Delivered, TypeOK, Handshake, StartAction, WriteAction, Step
<1>12. CASE ReadRdIdx
  BY <1>12 DEF Delivered, ReadRdIdx, Step
<1>13. CASE PlanRefill
  BY <1>13 DEF Delivered, PlanRefill, FreeSlots, Smaller
<1>14. CASE RefillSlot
  BY <1>14 DEF Delivered, RefillSlot, WriteSlot
<1>15. CASE RefillWrIdx
  BY <1>15 DEF Delivered, TypeOK, Published, RefillWrIdx, WriteWrIdx, Step
<1>16. CASE StreamIsDone
  BY <1>16 DEF Delivered, TypeOK, StreamIsDone, Step
<1>17. CASE GiveUp
  BY <1>17 DEF Delivered, GiveUp
<1>18. CASE Idle
  BY <1>18 DEF Delivered, Idle, Interpret
<1>19. CASE WakeUp
  BY <1>19 DEF Delivered, WakeUp, Interpret
<1>20. CASE AcceptMove
  BY <1>20 DEF Delivered, AcceptMove, Interpret
<1>21. CASE AcceptStream
  BY <1>21 DEF Delivered, TypeOK, Published, AcceptStream, Interpret
<1>22. CASE PlanMove
  BY <1>22 DEF Delivered, Numbers, PlanMove, Plan, Interpret
<1>23. CASE NextPoint
  BY <1>23 DEF Delivered, NextPoint, Interpret
<1>24. CASE PlanPoint
  <2>1. pc = "plan" /\ pc' = "bump" /\ handed' = MQ_PT[MQ_I]
    BY <1>24 DEF PlanPoint, Interpret
  <2>2. UNCHANGED <<step, sid, cmd_id, phase, total, MQ_ACTION, MQ_RD_IDX, MQ_WR_IDX, MQ_DONE_ID>>
    BY <1>24 DEF PlanPoint, Interpret
  <2>3. /\ sid = cmd_id /\ phase = "streaming"
        /\ sid \in Nat /\ cmd_id \in Nat /\ MQ_DONE_ID < cmd_id
    BY <2>1 DEF TypeOK, Handshake, Numbers, SameStream
  <2>4. MQ_RD_IDX \in MQ_RD_IDX..written /\ MQ_I = Slot(MQ_RD_IDX)
    BY <2>1 DEF TypeOK, Counter, Published
  <2>5. handed' = [cmd |-> sid, k |-> MQ_RD_IDX]
    BY <2>1, <2>4 DEF Loaded
  <2>6. handed'.cmd = sid /\ handed'.k = MQ_RD_IDX
    BY <2>5
  <2>7. PlannedSoFar' = MQ_RD_IDX
    BY <2>2, <2>6 DEF PlannedSoFar
  <2>. QED
    BY <2>1, <2>2, <2>3, <2>6, <2>7 DEF TypeOK, Delivered, DoneMissesAtMostLast
<1>25. CASE Bump
  BY <1>25 DEF Delivered, TypeOK, Loaded, Bump, Interpret
<1>26. CASE Check
  BY <1>26 DEF Delivered, TypeOK, Loaded, Check, CaughtUp, Interpret
<1>27. CASE WaitFor
  BY <1>27 DEF Delivered, TypeOK, WaitFor, Interpret
<1>28. CASE EndWhile
  BY <1>28 DEF Delivered, EndWhile, Interpret
<1>29. CASE Acknowledge
  BY <1>29 DEF Delivered, Acknowledge, Interpret
<1>30. CASE Release
  BY <1>30 DEF Delivered, Release, Interpret
<1>31. CASE StartBlock
  BY <1>31 DEF Delivered, StartBlock
<1>32. CASE UNCHANGED vars
  BY <1>32 DEF Delivered, vars
<1>. QED
  BY <1>1, <1>2, <1>3, <1>4, <1>5, <1>6, <1>7, <1>8, <1>9, <1>10, <1>11, <1>12, <1>13, <1>14, <1>15,
     <1>16, <1>17, <1>18, <1>19, <1>20, <1>21, <1>22, <1>23, <1>24, <1>25, <1>26, <1>27, <1>28, <1>29, <1>30, <1>31, <1>32
     DEF Next, Driver, Move, StreamStart, Refill, MqStream, HandleMove, HandleStream

-----------------------------------------------------------------------------
(* The invariant holds initially.                                           *)
LEMMA InitIInv == Init => IInv
<1>. SUFFICES ASSUME Init PROVE IInv
  OBVIOUS
<1>1. ZeroFrame \in Target /\ ZeroFrame.cmd = 0 /\ ZeroFrame.k = 0
  BY DEF ZeroFrame, Target
<1>2. TypeOK
  BY <1>1, ConstantsAssumption DEF Init, TypeOK, Steps, Pcs
<1>3. Handshake /\ SameStream /\ Numbers
  BY DEF Init, Handshake, SameStream, Numbers, Consuming, Pending, InHandler, Feeding, Starting
<1>4. Loaded /\ Room /\ Unread /\ Published /\ Counter
  BY DEF Init, Loaded, Room, Unread, Published, Counter,
         Consuming, Pending, InHandler, Feeding, Starting
<1>5. Delivered
  BY <1>1 DEF Init, Delivered, DoneMissesAtMostLast,
              Consuming, Pending, InHandler, Feeding, Starting
<1>. QED
  BY <1>2, <1>3, <1>4, <1>5 DEF IInv

(* The inductive invariant holds in every reachable state, for every ring   *)
(* size, $ADVANCE and path length: the driver's and mq_stream's indices     *)
(* stay consistent whatever the interleaving and wherever a run is given up. *)
THEOREM Inductive == Spec => []IInv
<1>1. IInv /\ [Next]_vars => IInv'
  BY TypeOKStep, HandshakeStep, SameStreamStep, LoadedStep, RoomStep,
     UnreadStep, PublishedStep, CounterStep, NumbersStep, DeliveredStep DEF IInv
<1>. QED
  BY InitIInv, <1>1, PTL DEF Spec

(* Type correctness of the shared globals, the interpreter and the driver.  *)
THEOREM TypeCorrect == Spec => []TypeOK
<1>1. IInv => TypeOK
  BY DEF IInv
<1>. QED
  BY Inductive, <1>1, PTL

(* Whenever mq_stream plans MQ_PT[MQ_I], that slot holds the waypoint it is *)
(* due: no point of an earlier lap or run, and none overwritten by a refill. *)
THEOREM RightPointHolds == Spec => []RightPoint
<1>1. ASSUME IInv, pc = "plan"
      PROVE  MQ_PT[MQ_I] = [cmd |-> sid, k |-> MQ_RD_IDX]
  <2>. USE <1>1 DEF IInv, Consuming, Pending, InHandler
  <2>1. MQ_RD_IDX \in MQ_RD_IDX..written
    BY DEF TypeOK, Published
  <2>. QED
    BY <2>1 DEF Loaded, Counter
<1>2. IInv => RightPoint
  BY <1>1 DEF RightPoint
<1>. QED
  BY Inductive, <1>2, PTL

(* The producer never laps the consumer and the consumer never overtakes    *)
(* the producer, although the driver works from a MQ_RD_IDX read earlier.   *)
THEOREM RingWindowHolds == Spec => []RingWindow
<1>1. IInv => RingWindow
  BY DEF IInv, RingWindow, Consuming, Loaded, Published
<1>. QED
  BY Inductive, <1>1, PTL

(* When the driver takes a stream for done, at most the last waypoint of    *)
(* the path is missing.                                                     *)
THEOREM DoneMissesAtMostLastHolds == Spec => []DoneMissesAtMostLast
<1>1. IInv => DoneMissesAtMostLast
  BY DEF IInv, Delivered
<1>. QED
  BY Inductive, <1>1, PTL

-----------------------------------------------------------------------------
(* The robot's side: the blocks planned and not started yet.                *)

(* The waypoints among the blocks of a plan; the others are moves.          *)
Points(s) == {i \in 1..Len(s) : s[i].k > 0}

(* They follow one another, the first of them "from" and the last being     *)
(* "to"; with none, nothing is left to start on.                            *)
InOrder(from, s, to) ==
  /\ Points(s) = {} => to = from
  /\ \A i \in Points(s) : (\A j \in Points(s) : i <= j) => Follows(s[i], from)
  /\ \A i, j \in Points(s) :
       i < j /\ (\A m \in Points(s) : m <= i \/ j <= m) => Follows(s[j], s[i])
  /\ \A i \in Points(s) : (\A j \in Points(s) : j <= i) => to = s[i]

LEMMA AppendedBlock ==
  ASSUME NEW s \in Seq(Target), NEW x \in Target
  PROVE  /\ Append(s, x) \in Seq(Target) /\ Len(Append(s, x)) = Len(s) + 1 /\ Len(s) \in Nat
         /\ Append(s, x)[Len(s) + 1] = x /\ \A i \in 1..Len(s) : Append(s, x)[i] = s[i]
  OBVIOUS

LEMMA StartedBlock ==
  ASSUME NEW s \in Seq(Target), s # <<>>
  PROVE  /\ Len(s) \in Nat \ {0} /\ Head(s) = s[1] /\ s[1] \in Target
         /\ Tail(s) \in Seq(Target) /\ Len(Tail(s)) = Len(s) - 1
         /\ \A i \in 1..Len(Tail(s)) : Tail(s)[i] = s[i + 1]
  OBVIOUS

(* Planning a move leaves the order of the waypoints alone.                 *)
LEMMA AppendMove ==
  ASSUME NEW s \in Seq(Target), NEW x \in Target, x.k = 0, NEW from, NEW to
  PROVE  /\ Points(Append(s, x)) = Points(s)
         /\ \A i \in Points(s) : Append(s, x)[i] = s[i]
         /\ InOrder(from, s, to) => InOrder(from, Append(s, x), to)
<1>1. Points(Append(s, x)) = Points(s)
  BY AppendedBlock DEF Points
<1>2. \A i \in Points(s) : Append(s, x)[i] = s[i]
  BY AppendedBlock DEF Points
<1>. QED
  BY <1>1, <1>2 DEF InOrder

(* So does planning the waypoint that follows the last one.                 *)
LEMMA AppendPoint ==
  ASSUME NEW s \in Seq(Target), NEW x \in Target, x.k > 0, NEW from, NEW to,
         InOrder(from, s, to), Follows(x, to)
  PROVE  InOrder(from, Append(s, x), x)
<1>. DEFINE t == Append(s, x)
            n == Len(s) + 1
<1>1. /\ Points(t) = Points(s) \cup {n} /\ t[n] = x /\ n \in Nat
      /\ \A i \in Points(s) : i \in Points(t) /\ i \in Nat /\ i < n /\ ~(n <= i) /\ t[i] = s[i]
  BY AppendedBlock DEF Points
<1>. HIDE DEF t, n
<1>2. ASSUME NEW i \in Points(t), \A j \in Points(t) : i <= j
      PROVE  Follows(t[i], from)
  <2>1. CASE i = n
    <3>1. Points(s) = {}
      BY <1>1, <1>2, <2>1
    <3>. QED
      BY <1>1, <2>1, <3>1 DEF InOrder
  <2>2. CASE i \in Points(s)
    BY <1>1, <1>2, <2>2 DEF InOrder
  <2>. QED
    BY <1>1, <2>1, <2>2
<1>3. ASSUME NEW i \in Points(t), NEW j \in Points(t),
             i < j, \A m \in Points(t) : m <= i \/ j <= m
      PROVE  Follows(t[j], t[i])
  <2>1. i \in Points(s)
    BY <1>1, <1>3
  <2>2. CASE j = n
    <3>1. ASSUME NEW m \in Points(s) PROVE m <= i
      <4>1. m \in Points(t) /\ ~(j <= m)
        BY <1>1, <2>2
      <4>. QED
        BY <1>3, <4>1
    <3>. QED
      BY <1>1, <2>1, <2>2, <3>1 DEF InOrder
  <2>3. CASE j \in Points(s)
    BY <1>1, <1>3, <2>1, <2>3 DEF InOrder
  <2>. QED
    BY <1>1, <2>2, <2>3
<1>4. \A i \in Points(t) : (\A j \in Points(t) : j <= i) => x = t[i]
  BY <1>1
<1>5. Points(t) # {}
  BY <1>1
<1>6. InOrder(from, t, x)
  BY <1>2, <1>3, <1>4, <1>5 DEF InOrder
<1>. QED
  BY <1>6 DEF t

(* Without its first block a plan is still in order, from that block on if  *)
(* it is a waypoint.                                                        *)
LEMMA TailInOrder ==
  ASSUME NEW s \in Seq(Target), s # <<>>, NEW from, NEW to, InOrder(from, s, to)
  PROVE  /\ Head(s).k = 0 => InOrder(from, Tail(s), to)
         /\ Head(s).k > 0 => Follows(Head(s), from) /\ InOrder(Head(s), Tail(s), to)
         /\ \A i \in Points(Tail(s)) : i + 1 \in Points(s) /\ Tail(s)[i] = s[i + 1]
         /\ Head(s).k > 0 => 1 \in Points(s)
<1>. DEFINE t == Tail(s)
<1>1. /\ Head(s) = s[1] /\ s[1].k \in Nat
      /\ \A i \in Points(t) : i \in Nat /\ i > 0 /\ i + 1 \in Points(s) /\ t[i] = s[i + 1]
      /\ \A i \in Points(s) : i \in Nat /\ (i = 1 \/ (i > 1 /\ i - 1 \in Points(t)))
      /\ s[1].k > 0 <=> 1 \in Points(s)
  BY StartedBlock DEF Points, Target
<1>. HIDE DEF t
<1>2. ASSUME NEW i \in Points(t), NEW j \in Points(t),
             i < j, \A m \in Points(t) : m <= i \/ j <= m
      PROVE  Follows(t[j], t[i])
  <2>1. ASSUME NEW m \in Points(s) PROVE m <= i + 1 \/ j + 1 <= m
    <3>1. CASE m = 1
      BY <1>1, <3>1
    <3>2. CASE m > 1 /\ m - 1 \in Points(t)
      <4>1. m - 1 <= i \/ j <= m - 1
        BY <1>2, <3>2
      <4>. QED
        BY <1>1, <4>1
    <3>. QED
      BY <1>1, <3>1, <3>2
  <2>2. i + 1 \in Points(s) /\ j + 1 \in Points(s) /\ i + 1 < j + 1
    BY <1>1, <1>2
  <2>3. Follows(s[j + 1], s[i + 1])
    BY <2>1, <2>2 DEF InOrder
  <2>. QED
    BY <1>1, <2>3
<1>3. ASSUME NEW i \in Points(t), \A j \in Points(t) : j <= i PROVE to = t[i]
  <2>1. ASSUME NEW m \in Points(s) PROVE m <= i + 1
    <3>1. CASE m = 1
      BY <1>1, <3>1
    <3>2. CASE m > 1 /\ m - 1 \in Points(t)
      <4>1. m - 1 <= i
        BY <1>3, <3>2
      <4>. QED
        BY <1>1, <4>1
    <3>. QED
      BY <1>1, <3>1, <3>2
  <2>2. to = s[i + 1]
    BY <1>1, <2>1 DEF InOrder
  <2>. QED
    BY <1>1, <2>2
<1>4. ASSUME s[1].k = 0 PROVE InOrder(from, t, to)
  <2>1. 1 \notin Points(s)
    BY <1>1, <1>4
  <2>2. Points(t) = {} => to = from
    BY <1>1, <2>1 DEF InOrder
  <2>3. ASSUME NEW i \in Points(t), \A j \in Points(t) : i <= j
        PROVE  Follows(t[i], from)
    <3>1. ASSUME NEW m \in Points(s) PROVE i + 1 <= m
      <4>1. m > 1 /\ m - 1 \in Points(t) /\ m \in Nat
        BY <1>1, <2>1
      <4>2. i <= m - 1
        BY <2>3, <4>1
      <4>. QED
        BY <1>1, <4>1, <4>2
    <3>2. Follows(s[i + 1], from)
      BY <1>1, <3>1 DEF InOrder
    <3>. QED
      BY <1>1, <3>2
  <2>. QED
    BY <1>2, <1>3, <2>2, <2>3 DEF InOrder
<1>5. ASSUME s[1].k > 0 PROVE Follows(s[1], from) /\ InOrder(s[1], t, to)
  <2>1. 1 \in Points(s) /\ \A j \in Points(s) : 1 <= j
    BY <1>1, <1>5
  <2>2. Follows(s[1], from)
    BY <2>1 DEF InOrder
  <2>3. Points(t) = {} => to = s[1]
    <3>1. ASSUME Points(t) = {} PROVE \A j \in Points(s) : j <= 1
      BY <1>1, <3>1
    <3>. QED
      BY <2>1, <3>1 DEF InOrder
  <2>4. ASSUME NEW i \in Points(t), \A j \in Points(t) : i <= j
        PROVE  Follows(t[i], s[1])
    <3>1. ASSUME NEW m \in Points(s) PROVE m <= 1 \/ i + 1 <= m
      <4>1. CASE m > 1 /\ m - 1 \in Points(t)
        <5>1. i <= m - 1
          BY <2>4, <4>1
        <5>. QED
          BY <1>1, <5>1
      <4>. QED
        BY <1>1, <4>1
    <3>2. i + 1 \in Points(s) /\ 1 < i + 1
      BY <1>1
    <3>3. Follows(s[i + 1], s[1])
      BY <2>1, <3>1, <3>2 DEF InOrder
    <3>. QED
      BY <1>1, <3>3
  <2>5. InOrder(s[1], t, to)
    BY <1>2, <1>3, <2>3, <2>4 DEF InOrder
  <2>. QED
    BY <2>2, <2>5
<1>6. /\ Head(s).k = 0 => InOrder(from, t, to)
      /\ Head(s).k > 0 => Follows(Head(s), from) /\ InOrder(Head(s), t, to)
      /\ \A i \in Points(t) : i + 1 \in Points(s) /\ t[i] = s[i + 1]
      /\ Head(s).k > 0 => 1 \in Points(s)
  BY <1>1, <1>4, <1>5
<1>. QED
  BY <1>6 DEF t

-----------------------------------------------------------------------------
(* The blocks planned lead from the waypoint the robot is at to the last    *)
(* one handed to the planner, and none is of a stream yet to come.          *)
Chained == InOrder(begun, planned, handed)

Numbered ==
  begun.cmd <= cmd_id /\ \A i \in Points(planned) : planned[i].cmd <= cmd_id

LInv == IInv /\ Chained /\ Numbered

(* What the planner is given next follows what it was given last.           *)
LEMMA PlannedFollows ==
  ASSUME IInv, PlanPoint
  PROVE  /\ handed' \in Target /\ handed'.k > 0 /\ handed'.cmd = sid /\ sid = cmd_id
         /\ Follows(handed', handed)
         /\ planned' = Append(planned, handed')
<1>. USE DEF IInv, Consuming, InHandler
<1>1. pc = "plan" /\ handed' = MQ_PT[MQ_I] /\ planned' = Append(planned, handed')
  BY DEF PlanPoint, Interpret, Plan
<1>2. /\ sid \in Nat /\ cmd_id \in Nat /\ sid = cmd_id /\ handed \in Target
      /\ handed.cmd <= cmd_id /\ PlannedSoFar = MQ_RD_IDX - 1
      /\ MQ_RD_IDX \in Nat /\ MQ_RD_IDX >= 1
  BY <1>1 DEF TypeOK, Numbers, Delivered, Loaded
<1>3. MQ_RD_IDX \in MQ_RD_IDX..written /\ MQ_I = Slot(MQ_RD_IDX)
  BY <1>1 DEF TypeOK, Published, Counter
<1>4. handed' = [cmd |-> sid, k |-> MQ_RD_IDX]
  BY <1>1, <1>3 DEF Loaded
<1>5. handed'.cmd = sid /\ handed'.k = MQ_RD_IDX /\ handed' \in Target
  BY <1>2, <1>4 DEF Target
<1>6. handed.cmd \in Nat /\ handed.k \in Nat
  BY <1>2 DEF Target
<1>7. Follows(handed', handed)
  BY <1>2, <1>5, <1>6 DEF Follows, PlannedSoFar
<1>. QED
  BY <1>1, <1>2, <1>5, <1>7

(* Only planning and the robot's starting into a block touch its plan.      *)
LEMMA PlanChanges ==
  ASSUME TypeOK, [Next]_vars
  PROVE  /\ cmd_id \in Nat /\ cmd_id' \in Nat /\ cmd_id <= cmd_id'
         /\ PlanMove \/ PlanPoint \/ StartBlock \/ UNCHANGED <<planned, handed, begun>>
<1>. USE DEF TypeOK, command, ring, robot, run, stream
<1>1. CASE StartRun
  BY <1>1 DEF StartRun, Step
<1>2. CASE WritePose
  BY <1>2 DEF WritePose, Step
<1>3. CASE MoveId
  BY <1>3 DEF MoveId, WriteCmdId, Step
<1>4. CASE MoveAction
  BY <1>4 DEF MoveAction, WriteAction, Step
<1>5. CASE AwaitDone
  BY <1>5 DEF AwaitDone
<1>6. CASE StartCount
  BY <1>6 DEF StartCount, Step
<1>7. CASE StartRewind
  BY <1>7 DEF StartRewind, Step
<1>8. CASE StartFill
  BY <1>8 DEF StartFill, WriteSlot
<1>9. CASE StartWrIdx
  BY <1>9 DEF StartWrIdx, WriteWrIdx, Step
<1>10. CASE StreamId
  BY <1>10 DEF StreamId, WriteCmdId, Step
<1>11. CASE StartAction
  BY <1>11 DEF StartAction, WriteAction, Step
<1>12. CASE ReadRdIdx
  BY <1>12 DEF ReadRdIdx, Step
<1>13. CASE PlanRefill
  BY <1>13 DEF PlanRefill
<1>14. CASE RefillSlot
  BY <1>14 DEF RefillSlot, WriteSlot
<1>15. CASE RefillWrIdx
  BY <1>15 DEF RefillWrIdx, WriteWrIdx, Step
<1>16. CASE StreamIsDone
  BY <1>16 DEF StreamIsDone, Step
<1>17. CASE GiveUp
  BY <1>17 DEF GiveUp
<1>18. CASE Idle
  BY <1>18 DEF Idle, Interpret
<1>19. CASE WakeUp
  BY <1>19 DEF WakeUp, Interpret
<1>20. CASE AcceptMove
  BY <1>20 DEF AcceptMove, Interpret
<1>21. CASE AcceptStream
  BY <1>21 DEF AcceptStream, Interpret
<1>22. CASE PlanMove
  BY <1>22 DEF PlanMove, Plan, Interpret
<1>23. CASE NextPoint
  BY <1>23 DEF NextPoint, Interpret
<1>24. CASE PlanPoint
  BY <1>24 DEF PlanPoint, Plan, Interpret
<1>25. CASE Bump
  BY <1>25 DEF Bump, Interpret
<1>26. CASE Check
  BY <1>26 DEF Check, CaughtUp, Interpret
<1>27. CASE WaitFor
  BY <1>27 DEF WaitFor, Interpret
<1>28. CASE EndWhile
  BY <1>28 DEF EndWhile, Interpret
<1>29. CASE Acknowledge
  BY <1>29 DEF Acknowledge, Interpret
<1>30. CASE Release
  BY <1>30 DEF Release, Interpret
<1>31. CASE StartBlock
  BY <1>31 DEF StartBlock
<1>32. CASE UNCHANGED vars
  BY <1>32 DEF vars
<1>. QED
  BY <1>1, <1>2, <1>3, <1>4, <1>5, <1>6, <1>7, <1>8, <1>9, <1>10, <1>11, <1>12, <1>13, <1>14, <1>15,
     <1>16, <1>17, <1>18, <1>19, <1>20, <1>21, <1>22, <1>23, <1>24, <1>25, <1>26, <1>27, <1>28, <1>29, <1>30, <1>31, <1>32
     DEF Next, Driver, Move, StreamStart, Refill, MqStream, HandleMove, HandleStream

LEMMA LInvStep ==
  ASSUME IInv, Chained, Numbered, [Next]_vars
  PROVE  Chained' /\ Numbered'
<1>1. /\ cmd_id \in Nat /\ cmd_id' \in Nat /\ cmd_id <= cmd_id'
      /\ PlanMove \/ PlanPoint \/ StartBlock \/ UNCHANGED <<planned, handed, begun>>
  BY PlanChanges DEF IInv
<1>2. /\ planned \in Seq(Target) /\ begun \in Target /\ begun.cmd \in Nat
      /\ \A i \in Points(planned) : planned[i].cmd \in Nat
  <2>1. planned \in Seq(Target) /\ begun \in Target
    BY DEF IInv, TypeOK
  <2>2. \A i \in 1..Len(planned) : planned[i] \in Target
    BY <2>1
  <2>. QED
    BY <2>1, <2>2 DEF Target, Points
<1>3. CASE UNCHANGED <<planned, handed, begun>>
  BY <1>1, <1>2, <1>3 DEF Chained, Numbered
<1>4. CASE PlanMove
  <2>1. /\ planned' = Append(planned, [cmd |-> MQ_E6POS, k |-> 0])
        /\ UNCHANGED <<begun, handed, cmd_id>>
    BY <1>4 DEF PlanMove, Plan, Interpret, run
  <2>2. [cmd |-> MQ_E6POS, k |-> 0] \in Target
    BY DEF IInv, TypeOK, Target
  <2>3. Chained'
    BY <1>2, <2>1, <2>2, AppendMove DEF Chained
  <2>4. Numbered'
    BY <1>2, <2>1, <2>2, AppendMove DEF Numbered
  <2>. QED
    BY <2>3, <2>4
<1>5. CASE PlanPoint
  <2>1. /\ handed' \in Target /\ handed'.k > 0 /\ handed'.cmd = cmd_id
        /\ Follows(handed', handed) /\ planned' = Append(planned, handed')
    BY <1>5, PlannedFollows
  <2>2. UNCHANGED <<begun, cmd_id>>
    BY <1>5 DEF PlanPoint, Interpret, run
  <2>3. Chained'
    BY <1>2, <2>1, <2>2, AppendPoint DEF Chained
  <2>4. \A i \in Points(planned') : planned'[i].cmd <= cmd_id
    BY <1>1, <1>2, <2>1, AppendedBlock DEF Numbered, Points
  <2>. QED
    BY <2>2, <2>3, <2>4 DEF Numbered
<1>6. CASE StartBlock
  <2>1. /\ planned # <<>> /\ planned' = Tail(planned) /\ UNCHANGED <<handed, cmd_id>>
        /\ begun' = IF Head(planned).k > 0 THEN Head(planned) ELSE begun
    BY <1>6 DEF StartBlock, run
  <2>2. Head(planned).k \in Nat /\ Head(planned) = planned[1]
    BY <1>2, <2>1, StartedBlock DEF Target
  <2>3. Chained'
    BY <1>2, <2>1, <2>2, TailInOrder DEF Chained
  <2>4. \A i \in Points(planned') : planned'[i].cmd <= cmd_id
    BY <1>2, <2>1, TailInOrder DEF Chained, Numbered
  <2>5. begun'.cmd <= cmd_id
    BY <1>2, <2>1, <2>2, TailInOrder DEF Chained, Numbered
  <2>. QED
    BY <2>1, <2>3, <2>4, <2>5 DEF Numbered
<1>. QED
  BY <1>1, <1>3, <1>4, <1>5, <1>6

LEMMA InitLInv == Init => LInv
<1>. SUFFICES ASSUME Init PROVE LInv
  OBVIOUS
<1>1. IInv
  BY InitIInv
<1>2. Points(planned) = {}
  BY DEF Init, Points
<1>3. Chained /\ Numbered
  BY <1>2 DEF Init, Chained, Numbered, InOrder, ZeroFrame
<1>. QED
  BY <1>1, <1>3 DEF LInv

LEMMA LInvInductive == LInv /\ [Next]_vars => LInv'
  BY LInvStep, TypeOKStep, HandshakeStep, SameStreamStep, LoadedStep, RoomStep,
     UnreadStep, PublishedStep, CounterStep, NumbersStep, DeliveredStep DEF LInv, IInv

(* The robot starts into the waypoints of a run in order, one by one, and   *)
(* never goes back to an earlier run, however far the interpreter is ahead  *)
(* of it and whatever is still planned when a new run begins.               *)
THEOREM StartsInOrderHolds == Spec => StartsInOrder
<1>1. ASSUME LInv, [Next]_vars, begun' # begun PROVE Follows(begun', begun)
  <2>1. PlanMove \/ PlanPoint \/ StartBlock
    BY <1>1, PlanChanges DEF LInv, IInv
  <2>2. StartBlock
    BY <1>1, <2>1 DEF PlanMove, PlanPoint, Interpret
  <2>3. /\ planned # <<>> /\ Head(planned).k > 0 /\ begun' = Head(planned)
    BY <1>1, <2>2 DEF StartBlock
  <2>4. planned \in Seq(Target) /\ InOrder(begun, planned, handed)
    BY <1>1 DEF LInv, IInv, TypeOK, Chained
  <2>. QED
    BY <2>3, <2>4, TailInOrder
<1>2. LInv /\ [Next]_vars => [Follows(begun', begun)]_begun
  BY <1>1
<1>. QED
  BY InitLInv, LInvInductive, <1>2, PTL DEF Spec, StartsInOrder

-----------------------------------------------------------------------------
(* The same with an interpreter that gets from an acknowledgement to its    *)
(* WAIT SEC before the next command.                                        *)

(* A handler starts with nothing planned, and the planned waypoints are all *)
(* of one stream.                                                           *)
Parked ==
  /\ pc = "move" \/ (pc = "loop" /\ MQ_ACTION # 0) => planned = <<>>
  /\ InHandler => \A i \in Points(planned) : planned[i].cmd = sid
  /\ \A i, j \in Points(planned) : planned[i].cmd = planned[j].cmd

(* IDX stays cleared until the robot is at the first waypoint.              *)
Cleared ==
  InHandler \/ (\E i \in Points(planned) : planned[i].cmd = sid) =>
    (begun.cmd # sid => IDX = 0)

PInv == LInv /\ Parked /\ Cleared /\ IdxTracksMotion

LEMMA PromptIsNext == [PromptNext]_vars => [Next]_vars
  BY DEF PromptNext, Next

(* The driver gives no command before the interpreter is parked.            *)
LEMMA CommandsParked ==
  ASSUME TypeOK, Handshake, PromptNext, MQ_ACTION' # 0, MQ_ACTION' # MQ_ACTION
  PROVE  pc' = pc /\ pc = "idle"
<1>1. MoveAction \/ StartAction
  BY DEF PromptNext, Next, StartRun, Driver, Move, StreamStart, Refill, MqStream, HandleMove,
         HandleStream, WritePose, MoveId, WriteCmdId, AwaitDone, StartCount, StartRewind,
         StartFill, WriteSlot, StartWrIdx, WriteWrIdx, StreamId, ReadRdIdx, PlanRefill, RefillSlot,
         RefillWrIdx, StreamIsDone, GiveUp, Idle, WakeUp, AcceptMove, AcceptStream, PlanMove,
         NextPoint, PlanPoint, Bump, Check, WaitFor, EndWhile, Acknowledge, Release, StartBlock,
         command, ring, robot, run, stream
<1>2. step \in {"moveAction", "streamAction"} /\ step' # step /\ pc' = pc
  BY <1>1 DEF MoveAction, StartAction, WriteAction, Step, robot
<1>3. pc \in {"loop", "idle", "release"} /\ ~(pc = "loop" /\ MQ_ACTION \in {3, 10})
  BY <1>2 DEF Handshake, Pending, Feeding
<1>4. MqStream \/ StartBlock => step' = step
  BY DEF MqStream, HandleMove, HandleStream, Idle, WakeUp, AcceptMove, AcceptStream, PlanMove,
         NextPoint, PlanPoint, Bump, Check, WaitFor, EndWhile, Acknowledge, Release, StartBlock,
         Interpret
<1>5. ~Parking
  BY <1>2, <1>4 DEF PromptNext
<1>. QED
  BY <1>2, <1>3, <1>5 DEF Parking, TypeOK

LEMMA NoPoints == Points(<<>>) = {}
  BY DEF Points

(* Every step keeps the plan to one stream at a time.                       *)
LEMMA ParkedStep ==
  ASSUME PInv, PromptNext
  PROVE  Parked'
<1>. USE DEF PInv, LInv, IInv, Parked, InHandler, Consuming, Feeding,
            command, ring, robot, run, stream
<1>0. Next
  BY DEF PromptNext, Next
<1>1. CASE StartRun
  BY <1>1 DEF StartRun, Step
<1>2. CASE WritePose
  BY <1>2 DEF WritePose, Step
<1>3. CASE MoveId
  BY <1>3 DEF MoveId, WriteCmdId, Step
<1>4. CASE MoveAction
  <2>1. UNCHANGED <<pc, planned, sid>>
    BY <1>4 DEF MoveAction, WriteAction
  <2>2. MQ_ACTION' # 0 /\ MQ_ACTION' # MQ_ACTION => pc' = "idle"
    BY CommandsParked
  <2>. QED
    BY <2>1, <2>2
<1>5. CASE AwaitDone
  BY <1>5 DEF AwaitDone
<1>6. CASE StartCount
  BY <1>6 DEF StartCount, Step, SameStream
<1>7. CASE StartRewind
  BY <1>7 DEF StartRewind, Step
<1>8. CASE StartFill
  BY <1>8 DEF StartFill, WriteSlot
<1>9. CASE StartWrIdx
  BY <1>9 DEF StartWrIdx, WriteWrIdx, Step
<1>10. CASE StreamId
  BY <1>10 DEF StreamId, WriteCmdId, Step
<1>11. CASE StartAction
  <2>1. UNCHANGED <<pc, planned, sid>>
    BY <1>11 DEF StartAction, WriteAction
  <2>2. MQ_ACTION' # 0 /\ MQ_ACTION' # MQ_ACTION => pc' = "idle"
    BY CommandsParked
  <2>. QED
    BY <2>1, <2>2
<1>12. CASE ReadRdIdx
  BY <1>12 DEF ReadRdIdx, Step
<1>13. CASE PlanRefill
  BY <1>13 DEF PlanRefill
<1>14. CASE RefillSlot
  BY <1>14 DEF RefillSlot, WriteSlot
<1>15. CASE RefillWrIdx
  BY <1>15 DEF RefillWrIdx, WriteWrIdx, Step
<1>16. CASE StreamIsDone
  BY <1>16 DEF StreamIsDone, Step
<1>17. CASE GiveUp
  BY <1>17 DEF GiveUp
<1>18. CASE Idle
  BY <1>18 DEF Idle, Interpret
<1>19. CASE WakeUp
  BY <1>19 DEF WakeUp, Interpret
<1>20. CASE AcceptMove
  BY <1>20 DEF AcceptMove, Interpret
<1>21. CASE AcceptStream
  BY <1>21, NoPoints DEF AcceptStream, Interpret
<1>22. CASE PlanMove
  <2>1. planned = <<>> /\ planned' = Append(planned, [cmd |-> MQ_E6POS, k |-> 0]) /\ pc' = "ack"
    BY <1>22 DEF PlanMove, Plan, Interpret
  <2>2. [cmd |-> MQ_E6POS, k |-> 0] \in Target /\ planned \in Seq(Target)
    BY DEF TypeOK, Target
  <2>3. Points(planned') = {}
    BY <2>1, <2>2, AppendMove, NoPoints
  <2>. QED
    BY <2>1, <2>3
<1>23. CASE NextPoint
  BY <1>23 DEF NextPoint, Interpret
<1>24. CASE PlanPoint
  <2>1. /\ handed' \in Target /\ handed'.cmd = sid /\ planned' = Append(planned, handed')
    BY <1>24, PlannedFollows
  <2>2. pc = "plan" /\ pc' = "bump" /\ UNCHANGED <<sid, MQ_ACTION>>
    BY <1>24 DEF PlanPoint, Interpret, stream
  <2>3. planned \in Seq(Target) /\ \A i \in Points(planned) : planned[i].cmd = sid
    BY <2>2 DEF TypeOK
  <2>4. \A i \in Points(planned') : planned'[i].cmd = sid
    BY <2>1, <2>3, AppendedBlock DEF Points
  <2>. QED
    BY <2>2, <2>4
<1>25. CASE Bump
  BY <1>25 DEF Bump, Interpret
<1>26. CASE Check
  BY <1>26 DEF Check, CaughtUp, Interpret
<1>27. CASE WaitFor
  BY <1>27 DEF WaitFor, Interpret
<1>28. CASE EndWhile
  BY <1>28 DEF EndWhile, Interpret
<1>29. CASE Acknowledge
  BY <1>29 DEF Acknowledge, Interpret
<1>30. CASE Release
  BY <1>30 DEF Release, Interpret
<1>31. CASE StartBlock
  <2>1. /\ planned # <<>> /\ planned \in Seq(Target) /\ planned' = Tail(planned)
        /\ UNCHANGED <<pc, sid, MQ_ACTION>>
    BY <1>31 DEF StartBlock, TypeOK
  <2>2. \A i \in Points(planned') : i + 1 \in Points(planned) /\ planned'[i] = planned[i + 1]
    BY <2>1, TailInOrder DEF Chained
  <2>3. ~(pc' = "move" \/ (pc' = "loop" /\ MQ_ACTION' # 0))
    BY <2>1
  <2>4. InHandler' => \A i \in Points(planned') : planned'[i].cmd = sid'
    BY <2>1, <2>2
  <2>5. \A i, j \in Points(planned') : planned'[i].cmd = planned'[j].cmd
    BY <2>2
  <2>. QED
    BY <2>3, <2>4, <2>5
<1>. QED
  BY <1>0, <1>1, <1>2, <1>3, <1>4, <1>5, <1>6, <1>7, <1>8, <1>9, <1>10, <1>11, <1>12, <1>13, <1>14, <1>15,
     <1>16, <1>17, <1>18, <1>19, <1>20, <1>21, <1>22, <1>23, <1>24, <1>25, <1>26, <1>27, <1>28, <1>29, <1>30, <1>31
     DEF Next, Driver, Move, StreamStart, Refill, MqStream, HandleMove, HandleStream

(* Every step keeps IDX in line with the robot.                             *)
LEMMA ClearedStep ==
  ASSUME PInv, Next
  PROVE  Cleared' /\ IdxTracksMotion'
<1>. USE DEF PInv, LInv, IInv, InHandler, Consuming, Feeding, Cleared, IdxTracksMotion,
            command, ring, robot, run, stream
<1>1. CASE StartRun
  BY <1>1 DEF StartRun, Step
<1>2. CASE WritePose
  BY <1>2 DEF WritePose, Step
<1>3. CASE MoveId
  BY <1>3 DEF MoveId, WriteCmdId, Step
<1>4. CASE MoveAction
  BY <1>4 DEF MoveAction, WriteAction, Step
<1>5. CASE AwaitDone
  BY <1>5 DEF AwaitDone
<1>6. CASE StartCount
  <2>1. /\ sid' = cmd_id + 1 /\ UNCHANGED <<pc, planned, begun>>
        /\ cmd_id \in Nat /\ ~InHandler
    BY <1>6 DEF StartCount, Step, SameStream, TypeOK
  <2>2. begun.cmd # sid' /\ \A i \in Points(planned) : planned[i].cmd # sid'
    BY <2>1 DEF Numbered
  <2>. QED
    BY <2>1, <2>2
<1>7. CASE StartRewind
  BY <1>7 DEF StartRewind, Step
<1>8. CASE StartFill
  BY <1>8 DEF StartFill, WriteSlot
<1>9. CASE StartWrIdx
  BY <1>9 DEF StartWrIdx, WriteWrIdx, Step
<1>10. CASE StreamId
  BY <1>10 DEF StreamId, WriteCmdId, Step
<1>11. CASE StartAction
  BY <1>11 DEF StartAction, WriteAction, Step
<1>12. CASE ReadRdIdx
  BY <1>12 DEF ReadRdIdx, Step
<1>13. CASE PlanRefill
  BY <1>13 DEF PlanRefill
<1>14. CASE RefillSlot
  BY <1>14 DEF RefillSlot, WriteSlot
<1>15. CASE RefillWrIdx
  BY <1>15 DEF RefillWrIdx, WriteWrIdx, Step
<1>16. CASE StreamIsDone
  BY <1>16 DEF StreamIsDone, Step
<1>17. CASE GiveUp
  BY <1>17 DEF GiveUp
<1>18. CASE Idle
  BY <1>18 DEF Idle, Interpret
<1>19. CASE WakeUp
  BY <1>19 DEF WakeUp, Interpret
<1>20. CASE AcceptMove
  BY <1>20 DEF AcceptMove, Interpret
<1>21. CASE AcceptStream
  <2>1. /\ IDX' = 0 /\ UNCHANGED <<sid, begun, planned>> /\ pc = "loop" /\ MQ_ACTION = 10
    BY <1>21 DEF AcceptStream, Interpret
  <2>2. planned = <<>> /\ MQ_RD_IDX = 1 /\ PlannedSoFar = 0
    BY <2>1 DEF Parked, Unread, Pending, Delivered
  <2>3. handed = begun
    BY <2>2, NoPoints DEF Chained, InOrder
  <2>4. begun.cmd = sid => begun.k = 0
    BY <2>2, <2>3 DEF PlannedSoFar
  <2>. QED
    BY <2>1, <2>4
<1>22. CASE PlanMove
  <2>1. /\ planned' = Append(planned, [cmd |-> MQ_E6POS, k |-> 0])
        /\ UNCHANGED <<IDX, sid, begun>> /\ pc' = "ack"
    BY <1>22 DEF PlanMove, Plan, Interpret
  <2>2. [cmd |-> MQ_E6POS, k |-> 0] \in Target /\ planned \in Seq(Target)
    BY DEF TypeOK, Target
  <2>3. Points(planned') = Points(planned) /\ \A i \in Points(planned) : planned'[i] = planned[i]
    BY <2>1, <2>2, AppendMove
  <2>. QED
    BY <2>1, <2>3
<1>23. CASE NextPoint
  BY <1>23 DEF NextPoint, Interpret
<1>24. CASE PlanPoint
  BY <1>24 DEF PlanPoint, Plan, Interpret
<1>25. CASE Bump
  BY <1>25 DEF Bump, Interpret
<1>26. CASE Check
  BY <1>26 DEF Check, CaughtUp, Interpret
<1>27. CASE WaitFor
  BY <1>27 DEF WaitFor, Interpret
<1>28. CASE EndWhile
  BY <1>28 DEF EndWhile, Interpret
<1>29. CASE Acknowledge
  BY <1>29 DEF Acknowledge, Interpret
<1>30. CASE Release
  BY <1>30 DEF Release, Interpret
<1>31. CASE StartBlock
  <2>1. /\ planned # <<>> /\ planned \in Seq(Target) /\ planned' = Tail(planned)
        /\ UNCHANGED <<pc, sid>>
    BY <1>31 DEF StartBlock, TypeOK
  <2>2. /\ \A i \in Points(planned') : i + 1 \in Points(planned) /\ planned'[i] = planned[i + 1]
        /\ Head(planned).k > 0 => Follows(Head(planned), begun) /\ 1 \in Points(planned)
    BY <2>1, TailInOrder DEF Chained
  <2>3. Head(planned) = planned[1] /\ planned[1] \in Target
    BY <2>1, StartedBlock
  <2>4. CASE ~(Head(planned).k > 0)
    <3>1. UNCHANGED <<IDX, begun>>
      BY <1>31, <2>4 DEF StartBlock
    <3>. QED
      BY <2>1, <2>2, <3>1
  <2>5. CASE Head(planned).k > 0
    <3>1. IDX' = IDX + 1 /\ begun' = planned[1] /\ 1 \in Points(planned)
      BY <1>31, <2>2, <2>3, <2>5 DEF StartBlock
    <3>2. /\ begun.cmd \in Nat /\ begun.k \in Nat /\ planned[1].cmd \in Nat /\ planned[1].k \in Nat
          /\ IDX \in Nat
      BY <2>3 DEF TypeOK, Target
    <3>3. CASE planned[1].cmd = sid
      <4>1. begun.cmd # sid => IDX = 0
        BY <3>1, <3>3
      <4>2. \/ begun.cmd = sid /\ planned[1].k = begun.k + 1
            \/ begun.cmd # sid /\ planned[1].k = 1
        BY <2>2, <2>3, <2>5, <3>2, <3>3 DEF Follows
      <4>3. IDX' = begun'.k /\ begun'.cmd = sid'
        BY <2>1, <3>1, <3>2, <3>3, <4>1, <4>2
      <4>. QED
        BY <4>3
    <3>4. CASE planned[1].cmd # sid
      <4>1. ~InHandler /\ \A i \in Points(planned) : planned[i].cmd # sid
        BY <3>1, <3>4 DEF Parked
      <4>2. ~InHandler' /\ \A i \in Points(planned') : planned'[i].cmd # sid'
        BY <2>1, <2>2, <4>1
      <4>. QED
        BY <2>1, <3>1, <3>4, <4>2
    <3>. QED
      BY <3>3, <3>4
  <2>. QED
    BY <2>4, <2>5
<1>. QED
  BY <1>1, <1>2, <1>3, <1>4, <1>5, <1>6, <1>7, <1>8, <1>9, <1>10, <1>11, <1>12, <1>13, <1>14, <1>15,
     <1>16, <1>17, <1>18, <1>19, <1>20, <1>21, <1>22, <1>23, <1>24, <1>25, <1>26, <1>27, <1>28, <1>29, <1>30, <1>31
     DEF Next, Driver, Move, StreamStart, Refill, MqStream, HandleMove, HandleStream

LEMMA PInvInductive == PInv /\ [PromptNext]_vars => PInv'
<1>. SUFFICES ASSUME PInv, [PromptNext]_vars PROVE PInv'
  OBVIOUS
<1>1. LInv'
  BY LInvInductive, PromptIsNext DEF PInv
<1>2. CASE PromptNext
  <2>1. Next
    BY <1>2, PromptIsNext DEF PromptNext, Next
  <2>. QED
    BY <1>1, <1>2, <2>1, ParkedStep, ClearedStep DEF PInv
<1>3. CASE UNCHANGED vars
  BY <1>1, <1>3 DEF PInv, Parked, Cleared, IdxTracksMotion, InHandler, vars,
                    command, ring, robot, run, stream
<1>. QED
  BY <1>2, <1>3

LEMMA InitPInv == Init => PInv
<1>. SUFFICES ASSUME Init PROVE PInv
  OBVIOUS
<1>1. LInv
  BY InitLInv
<1>2. planned = <<>> /\ pc = "loop" /\ MQ_ACTION = 0 /\ IDX = 0 /\ begun.k = 0
  BY DEF Init, ZeroFrame
<1>. QED
  BY <1>1, <1>2, NoPoints DEF PInv, Parked, Cleared, IdxTracksMotion, InHandler

(* IDX, which the interpreter clears ahead of the robot and TRIGGERs count  *)
(* up at the robot, is the number of the waypoint the robot is at, when the *)
(* interpreter always gets from an acknowledgement to its WAIT SEC before   *)
(* the next command.                                                        *)
THEOREM IdxTracksMotionHolds == PromptSpec => []IdxTracksMotion
<1>1. PInv => IdxTracksMotion
  BY DEF PInv
<1>. QED
  BY InitPInv, PInvInductive, <1>1, PTL DEF PromptSpec

-----------------------------------------------------------------------------
(* Refinement                                                              *)

(* The initial states map to the initial state of PathDelivery.             *)
LEMMA InitRefines == Init => Delivery!Init
  BY DEF Init, ZeroFrame, Delivery!Init, PlannedSoFar, Status

(* Every step maps to a step of PathDelivery or leaves it where it is.      *)
LEMMA StepRefines ==
  ASSUME IInv, IInv', [Next]_vars
  PROVE  [Delivery!Next]_(Delivery!vars)
<1>. USE DEF IInv
<1>1. CASE StartRun
  BY <1>1 DEF SameStream, PlannedSoFar, Status, Delivery!vars,
     StartRun, Step, robot, stream
<1>2. CASE WritePose
  BY <1>2 DEF PlannedSoFar, Status, Delivery!vars,
     WritePose, Step, robot, run, stream
<1>3. CASE MoveId
  BY <1>3 DEF PlannedSoFar, Status, Delivery!vars,
     MoveId, WriteCmdId, Step, robot, run, stream
<1>4. CASE MoveAction
  BY <1>4 DEF PlannedSoFar, Status, Delivery!vars,
     MoveAction, WriteAction, Step, robot, run, stream
<1>5. CASE AwaitDone
  BY <1>5 DEF SameStream, PlannedSoFar, Status, Delivery!vars,
     AwaitDone, robot, stream
<1>6. CASE StartCount
  <2>1. /\ phase = "move_to_first" /\ phase' = "streaming" /\ step' = "rewind"
        /\ total' \in Totals /\ written' = 0 /\ sid' = cmd_id + 1 /\ handed' = handed
    BY <1>6 DEF SameStream, StartCount, Step, robot
  <2>2. handed.cmd # cmd_id + 1
    BY DEF TypeOK, Target, Delivered
  <2>3. Status # "open" /\ Status' = "open" /\ PlannedSoFar' = 0
    BY <2>1, <2>2 DEF PlannedSoFar, Status
  <2>. QED
    BY <2>1, <2>3 DEF Delivery!Next, Delivery!Open
<1>7. CASE StartRewind
  BY <1>7 DEF PlannedSoFar, Status, Delivery!vars,
     StartRewind, Step, Smaller, robot, run, stream
<1>8. CASE StartFill
  <2>1. /\ phase = "streaming" /\ step # "failed" /\ step' # "failed"
        /\ UNCHANGED <<phase, sid, handed, total>> /\ written' = written + 1
    BY <1>8 DEF SameStream, Feeding, Starting, StartFill, WriteSlot, robot, run
  <2>2. pc # "bump" => PlannedSoFar = MQ_RD_IDX - 1
    BY <1>8 DEF Delivered, Feeding, Starting, StartFill, WriteSlot
  <2>3. pc = "bump" => PlannedSoFar = MQ_RD_IDX
    BY <1>8 DEF Delivered, Feeding, Starting, StartFill, WriteSlot
  <2>4. written < total /\ written + 1 < MQ_RD_IDX + Ring
    BY <1>8, ConstantsAssumption
       DEF TypeOK, Loaded, Room, Unread, Starting, Feeding, StartFill, WriteSlot
  <2>5. PlannedSoFar' = PlannedSoFar /\ Status = "open" /\ Status' = "open"
    BY <2>1 DEF PlannedSoFar, Status
  <2>6. written \in Nat /\ MQ_RD_IDX \in Nat /\ Ring \in Nat
    BY ConstantsAssumption DEF TypeOK
  <2>7. written - PlannedSoFar < Ring
    BY <2>2, <2>3, <2>4, <2>6
  <2>8. Delivery!Send
    BY <2>1, <2>4, <2>5, <2>7 DEF Delivery!Send
  <2>. QED
    BY <2>8 DEF Delivery!Next
<1>9. CASE StartWrIdx
  BY <1>9 DEF PlannedSoFar, Status, Delivery!vars,
     StartWrIdx, WriteWrIdx, Step, robot, run, stream
<1>10. CASE StreamId
  BY <1>10 DEF PlannedSoFar, Status, Delivery!vars,
     StreamId, WriteCmdId, Step, robot, run, stream
<1>11. CASE StartAction
  BY <1>11 DEF PlannedSoFar, Status, Delivery!vars,
     StartAction, WriteAction, Step, robot, run, stream
<1>12. CASE ReadRdIdx
  BY <1>12 DEF PlannedSoFar, Status, Delivery!vars,
     ReadRdIdx, Step, robot, run, stream
<1>13. CASE PlanRefill
  BY <1>13 DEF PlannedSoFar, Status, Delivery!vars,
     PlanRefill, FreeSlots, Smaller, robot, run, stream
<1>14. CASE RefillSlot
  <2>1. /\ phase = "streaming" /\ step # "failed" /\ step' # "failed"
        /\ UNCHANGED <<phase, sid, handed, total>> /\ written' = written + 1
    BY <1>14 DEF SameStream, Feeding, Starting, RefillSlot, WriteSlot, robot, run
  <2>2. pc # "bump" => PlannedSoFar = MQ_RD_IDX - 1
    BY <1>14 DEF Delivered, Feeding, Starting, RefillSlot, WriteSlot
  <2>3. pc = "bump" => PlannedSoFar = MQ_RD_IDX
    BY <1>14 DEF Delivered, Feeding, Starting, RefillSlot, WriteSlot
  <2>4. written < total /\ written + 1 < MQ_RD_IDX + Ring
    BY <1>14, ConstantsAssumption
       DEF TypeOK, Loaded, Room, Unread, Starting, Feeding, RefillSlot, WriteSlot
  <2>5. PlannedSoFar' = PlannedSoFar /\ Status = "open" /\ Status' = "open"
    BY <2>1 DEF PlannedSoFar, Status
  <2>6. written \in Nat /\ MQ_RD_IDX \in Nat /\ Ring \in Nat
    BY ConstantsAssumption DEF TypeOK
  <2>7. written - PlannedSoFar < Ring
    BY <2>2, <2>3, <2>4, <2>6
  <2>8. Delivery!Send
    BY <2>1, <2>4, <2>5, <2>7 DEF Delivery!Send
  <2>. QED
    BY <2>8 DEF Delivery!Next
<1>15. CASE RefillWrIdx
  BY <1>15 DEF PlannedSoFar, Status, Delivery!vars,
     RefillWrIdx, WriteWrIdx, Step, robot, run, stream
<1>16. CASE StreamIsDone
  <2>1. /\ phase = "streaming" /\ step = "feed" /\ phase' = "returning" /\ sid # 0
        /\ UNCHANGED <<total, written, sid, handed>>
    BY <1>16 DEF SameStream, Feeding, Numbers, StreamIsDone, Step, robot, stream
  <2>2. Status = "open" /\ Status' = "complete" /\ PlannedSoFar' = PlannedSoFar
    BY <2>1 DEF PlannedSoFar, Status
  <2>3. handed.cmd = sid /\ handed.k + 1 >= total
    BY <2>1 DEF Delivered, DoneMissesAtMostLast
  <2>4. PlannedSoFar + 1 >= total
    BY <2>3 DEF PlannedSoFar
  <2>. QED
    BY <2>1, <2>2, <2>4 DEF Delivery!Next, Delivery!Complete
<1>17. CASE GiveUp
  <2>1. /\ step # "failed" /\ step' = "failed"
        /\ UNCHANGED <<phase, total, written, sid, handed>>
    BY <1>17 DEF GiveUp, robot, run, stream
  <2>2. PlannedSoFar' = PlannedSoFar
    BY <2>1 DEF PlannedSoFar
  <2>3. CASE phase = "streaming"
    <3>1. Status = "open" /\ Status' = "aborted"
      BY <2>1, <2>3 DEF Status
    <3>. QED
      BY <2>1, <2>2, <3>1 DEF Delivery!Next, Delivery!Abort
  <2>4. CASE phase # "streaming"
    <3>1. Status' = Status
      BY <2>1, <2>4 DEF Status
    <3>. QED
      BY <2>1, <2>2, <3>1 DEF Delivery!vars
  <2>. QED
    BY <2>3, <2>4
<1>18. CASE Idle
  BY <1>18 DEF PlannedSoFar, Status, Delivery!vars,
     Idle, Interpret, robot, run, stream
<1>19. CASE WakeUp
  BY <1>19 DEF PlannedSoFar, Status, Delivery!vars,
     WakeUp, Interpret, robot, run, stream
<1>20. CASE AcceptMove
  BY <1>20 DEF PlannedSoFar, Status, Delivery!vars,
     AcceptMove, Interpret, robot, run, stream
<1>21. CASE AcceptStream
  BY <1>21 DEF PlannedSoFar, Status, Delivery!vars,
     AcceptStream, Interpret, robot, run, stream
<1>22. CASE PlanMove
  BY <1>22 DEF PlannedSoFar, Status, Delivery!vars,
     PlanMove, Plan, Interpret, robot, run, stream
<1>23. CASE NextPoint
  BY <1>23 DEF PlannedSoFar, Status, Delivery!vars,
     NextPoint, Interpret, robot, run, stream
<1>24. CASE PlanPoint
  <2>1. /\ pc = "plan" /\ pc' = "bump"
        /\ UNCHANGED <<step, phase, total, written, sid, MQ_RD_IDX>>
    BY <1>24 DEF PlanPoint, Interpret, run, stream
  <2>2. PlannedSoFar = MQ_RD_IDX - 1 /\ PlannedSoFar' = MQ_RD_IDX
    BY <2>1 DEF Delivered, Consuming, Pending, InHandler
  <2>3. MQ_RD_IDX <= written
    BY <2>1 DEF TypeOK, Published, Consuming, Pending, InHandler
  <2>4. PlannedSoFar' = PlannedSoFar + 1 /\ PlannedSoFar < written
    BY <2>2, <2>3 DEF TypeOK
  <2>5. Status' = Status
    BY <2>1 DEF Status
  <2>. QED
    BY <2>1, <2>4, <2>5 DEF Delivery!Next, Delivery!Plan
<1>25. CASE Bump
  BY <1>25 DEF PlannedSoFar, Status, Delivery!vars,
     Bump, Interpret, robot, run, stream
<1>26. CASE Check
  BY <1>26 DEF PlannedSoFar, Status, Delivery!vars,
     Check, CaughtUp, Interpret, robot, run, stream
<1>27. CASE WaitFor
  BY <1>27 DEF PlannedSoFar, Status, Delivery!vars,
     WaitFor, Interpret, robot, run, stream
<1>28. CASE EndWhile
  BY <1>28 DEF PlannedSoFar, Status, Delivery!vars,
     EndWhile, Interpret, robot, run, stream
<1>29. CASE Acknowledge
  BY <1>29 DEF PlannedSoFar, Status, Delivery!vars,
     Acknowledge, Interpret, robot, run, stream
<1>30. CASE Release
  BY <1>30 DEF PlannedSoFar, Status, Delivery!vars,
     Release, Interpret, robot, run, stream
<1>31. CASE StartBlock
  BY <1>31 DEF PlannedSoFar, Status, Delivery!vars,
     StartBlock, robot, run, stream
<1>32. CASE UNCHANGED vars
  BY <1>32 DEF PlannedSoFar, Status, Delivery!vars,
     vars, robot, run, stream
<1>. QED
  BY <1>1, <1>2, <1>3, <1>4, <1>5, <1>6, <1>7, <1>8, <1>9, <1>10, <1>11, <1>12, <1>13, <1>14, <1>15,
     <1>16, <1>17, <1>18, <1>19, <1>20, <1>21, <1>22, <1>23, <1>24, <1>25, <1>26, <1>27, <1>28, <1>29, <1>30, <1>31, <1>32
     DEF Next, Driver, Move, StreamStart, Refill, MqStream, HandleMove, HandleStream

(* The KUKA stream delivers a path as PathDelivery promises, with Dropped   *)
(* = 1: in order, exactly once, at most Ring ahead of the planner, and      *)
(* complete with at most the last waypoint missing.                         *)
THEOREM Refinement == Spec => ImplementsPathDelivery
<1>1. IInv /\ IInv' /\ [Next]_vars => [Delivery!Next]_(Delivery!vars)
  BY StepRefines
<1>. QED
  BY Inductive, InitRefines, <1>1, PTL DEF Spec, ImplementsPathDelivery, Delivery!Spec
=============================================================================

--------------------------- MODULE PollCycleProofs --------------------------
(* Theorems about PollCycle, for every cadence, every limit of failures and *)
(* every cap of a recording.                                               *)
EXTENDS PollCycle, TLAPS

-----------------------------------------------------------------------------
LEMMA ConstantTypes ==
  /\ AuxEvery \in Nat /\ AuxEvery > 0 /\ MaxVarFailures \in Nat /\ MaxVarFailures > 0
  /\ MaxSamples \in Nat /\ FloatExponent \in Nat /\ FloatExponent > 0
  BY PollConstants

(* The tick of the cadence counts up to AuxEvery and begins again.          *)
LEMMA TickStep ==
  ASSUME NEW t \in 0..(AuxEvery - 1)
  PROVE  (t + 1) % AuxEvery = IF t + 1 = AuxEvery THEN 0 ELSE t + 1
<1>. USE PollConstants
<1>1. AuxEvery \in Nat \ {0}
  OBVIOUS
<1>2. CASE t + 1 = AuxEvery
  BY <1>1, <1>2
<1>3. CASE t + 1 # AuxEvery
  BY <1>1, <1>3
<1>. QED
  BY <1>2, <1>3

(* TypeOK in two parts: the flags, and the rest.                            *)
Flags ==
  /\ link \in BOOLEAN /\ declared \in BOOLEAN /\ force_aux \in BOOLEAN
  /\ read_aux \in BOOLEAN /\ pose_ok \in BOOLEAN /\ _force_aux \in BOOLEAN
  /\ cache_error \in BOOLEAN /\ polling_enabled \in BOOLEAN /\ last_error \in BOOLEAN
  /\ record_active \in BOOLEAN /\ overflow \in BOOLEAN

Ranges ==
  /\ pc \in {"top", "pose", "aux", "vars", "clear", "publish", "record", "rest", "dead"}
  /\ tick \in 0..(AuxEvery - 1) /\ base \in {"none", "current", "old"}
  /\ var_failures \in 0..MaxVarFailures /\ consecutive_errors \in 0..FloatExponent
  /\ cache_var \in {"none", "value", "error", "quarantined"}
  /\ session \in {"none", "active", "ended"} /\ rows \in 0..MaxSamples
  /\ command \in {"none", "fresh", "old"}
  /\ waiting \in 0..(AuxEvery + 2) /\ disturbed \subseteq {"link", "polling"}

(* A thread whose failures have outgrown a float is dead.                   *)
Alive == pc # "dead" => consecutive_errors < FloatExponent

LEMMA TypeParts == TypeOK <=> Flags /\ Ranges
  BY Zenon DEF TypeOK, Flags, Ranges

LEMMA TypeInit == Init => TypeOK /\ Alive
<1>1. Init => Flags
  BY Zenon DEF Init, Flags
<1>2. Init => Ranges
  BY ConstantTypes DEF Init, Ranges
<1>3. Init => Alive
  BY ConstantTypes DEF Init, Alive
<1>. QED
  BY <1>1, <1>2, <1>3, TypeParts

LEMMA FlagsStep ==
  ASSUME Flags, Ranges, [Next]_vars
  PROVE  Flags'
<1>. USE DEF Flags
<1>1. CASE LinkFails
  BY <1>1 DEF LinkFails, cycle, cache, shown, recorder
<1>2. CASE LinkReturns
  BY <1>2 DEF LinkReturns, cycle, cache, shown, recorder
<1>3. CASE RequestAuxRefresh
  BY <1>3 DEF RequestAuxRefresh, robot, shown, recorder
<1>4. CASE TogglePolling
  BY <1>4 DEF TogglePolling, robot, cycle, cache, recorder
<1>5. CASE RecordStart
  BY <1>5 DEF RecordStart, robot, cycle, cache
<1>6. CASE RecordStop
  BY <1>6 DEF RecordStop, robot, cycle, cache
<1>7. CASE PollAll
  BY <1>7 DEF PollAll, robot, cycle, cache
<1>8. CASE Begin
  BY <1>8 DEF Begin, Cycle, Locals, Counted, robot, shown, cache, recorder
<1>9. CASE ReadPose
  BY <1>9 DEF ReadPose, Cycle, robot, shown, cache, recorder
<1>10. CASE ReadAux
  BY <1>10 DEF ReadAux, Cycle, robot, shown, cache, recorder
<1>11. CASE ReadVars
  BY <1>11 DEF ReadVars, Cycle, robot, shown, cycle, recorder
<1>12. CASE ClearForce
  BY <1>12 DEF ClearForce, Cycle, robot, shown, cycle, cache, recorder
<1>13. CASE Publish
  BY <1>13 DEF Publish, Cycle, robot, shown, cycle, recorder
<1>14. CASE Record
  BY <1>14 DEF Record, Full, Cycle, robot, shown, cycle, cache, recorder
<1>15. CASE Rest
  BY <1>15 DEF Rest, Cycle, Locals, robot, shown, cache, recorder
<1>16. CASE UNCHANGED vars
  BY <1>16 DEF vars, robot, cycle, cache, shown, recorder
<1>. QED
  BY <1>1, <1>2, <1>3, <1>4, <1>5, <1>6, <1>7, <1>8, <1>9, <1>10, <1>11, <1>12,
     <1>13, <1>14, <1>15, <1>16 DEF Next, Operator, Thread

LEMMA RangesStep ==
  ASSUME Flags, Ranges, Alive, [Next]_vars
  PROVE  Ranges' /\ Alive'
<1>. USE ConstantTypes DEF Ranges, Alive
<1>1. CASE LinkFails
  BY <1>1 DEF LinkFails, cycle, cache, shown, recorder
<1>2. CASE LinkReturns
  BY <1>2 DEF LinkReturns, cycle, cache, shown, recorder
<1>3. CASE RequestAuxRefresh
  BY <1>3 DEF RequestAuxRefresh, robot, shown, recorder
<1>4. CASE TogglePolling
  BY <1>4 DEF TogglePolling, robot, cycle, cache, recorder
<1>5. CASE RecordStart
  BY <1>5 DEF RecordStart, robot, cycle, cache
<1>6. CASE RecordStop
  BY <1>6 DEF RecordStop, robot, cycle, cache
<1>7. CASE PollAll
  BY <1>7 DEF PollAll, robot, cycle, cache
<1>8. CASE Begin
  <2>1. tick' = IF tick + 1 = AuxEvery THEN 0 ELSE tick + 1
    BY <1>8, TickStep DEF Begin
  <2>2. tick' \in 0..(AuxEvery - 1)
    BY <2>1
  <2>3. waiting' \in 0..(AuxEvery + 2)
    BY <1>8 DEF Begin, Counted
  <2>. QED
    BY <1>8, <2>2, <2>3 DEF Begin, Cycle, Locals, robot, shown, cache, recorder
<1>9. CASE ReadPose
  BY <1>9 DEF ReadPose, Cycle, robot, shown, cache, recorder
<1>10. CASE ReadAux
  BY <1>10 DEF ReadAux, Cycle, robot, shown, cache, recorder
<1>11. CASE ReadVars
  BY <1>11 DEF ReadVars, Cycle, robot, shown, cycle, recorder
<1>12. CASE ClearForce
  BY <1>12 DEF ClearForce, Cycle, robot, shown, cycle, cache, recorder
<1>13. CASE Publish
  BY <1>13 DEF Publish, Cycle, robot, shown, cycle, recorder
<1>14. CASE Record
  BY <1>14 DEF Record, Full, Cycle, robot, shown, cycle, cache, recorder
<1>15. CASE Rest
  BY <1>15 DEF Rest, Cycle, Locals, robot, shown, cache, recorder
<1>16. CASE UNCHANGED vars
  BY <1>16 DEF vars, robot, cycle, cache, shown, recorder
<1>. QED
  BY <1>1, <1>2, <1>3, <1>4, <1>5, <1>6, <1>7, <1>8, <1>9, <1>10, <1>11, <1>12,
     <1>13, <1>14, <1>15, <1>16 DEF Next, Operator, Thread

LEMMA TypeStep ==
  ASSUME TypeOK, Alive, [Next]_vars
  PROVE  TypeOK' /\ Alive'
<1>1. Flags /\ Ranges
  BY TypeParts
<1>2. Flags' /\ Ranges' /\ Alive'
  BY <1>1, FlagsStep, RangesStep
<1>. QED
  BY ONLY <1>2, Zenon DEF TypeOK, Flags, Ranges

(* Every variable of the thread, the cache, the slot and the recorder keeps *)
(* its type; in particular no cycle counts a failure past the limit, and no *)
(* row is added past the cap.                                               *)
THEOREM TypeCorrect == Spec => []TypeOK
<1>1. TypeOK /\ Alive /\ [Next]_vars => (TypeOK /\ Alive)'
  BY TypeStep
<1>. QED
  BY <1>1, TypeInit, PTL DEF Spec

-----------------------------------------------------------------------------
(* While the link has not failed: a variable that is declared has not       *)
(* failed either, and between ReadPose and the end of the cycle there is a  *)
(* pose, so that the cache holds no error.                                  *)
Linked ==
  "link" \notin disturbed =>
    /\ link /\ ~cache_error
    /\ pc \in {"aux", "vars", "clear", "publish", "record", "rest"} => pose_ok
    /\ declared => var_failures = 0 /\ cache_var # "quarantined"

(* ... and a change of the base frame is seen at the first cycle that reads *)
(* base and tool: until then the cadence has been counting up, since the    *)
(* change, as often as cycles have begun.                                   *)
Awaited ==
  "link" \notin disturbed /\ waiting > 0 =>
    \/ waiting - 1 <= tick
    \/ pc \in {"pose", "aux"} /\ read_aux
    \/ pc \in {"vars", "clear", "publish"} /\ base = "current"

(* Nothing has aged the command of the recording yet.                       *)
Published ==
  /\ session = "none" => command = "none"
  /\ disturbed = {} => polling_enabled /\ command # "old"

IInv == TypeOK /\ Alive /\ Linked /\ Awaited /\ RefreshSoon /\ Published

LEMMA LinkedStep ==
  ASSUME TypeOK, Linked, [Next]_vars
  PROVE  Linked'
<1>. USE PollConstants DEF TypeOK, Linked
<1>1. CASE LinkFails
  BY <1>1 DEF LinkFails
<1>2. CASE LinkReturns
  BY <1>2 DEF LinkReturns, cache, cycle
<1>3. CASE Operator
  BY <1>3 DEF Operator, TogglePolling, RecordStart, RecordStop, RequestAuxRefresh, robot, cycle, cache
<1>4. CASE PollAll
  BY <1>4 DEF PollAll, robot, cycle, cache
<1>5. CASE Begin \/ ReadPose \/ ReadAux \/ ClearForce
  BY <1>5 DEF Begin, ReadPose, ReadAux, ClearForce, Cycle, Locals, robot, cycle, cache
<1>6. CASE ReadVars
  BY <1>6 DEF ReadVars, Cycle, robot, cycle
<1>7. CASE Publish
  BY <1>7 DEF Publish, Cycle, robot, cycle
<1>8. CASE Record \/ Rest
  BY <1>8 DEF Record, Rest, Cycle, Locals, robot, cycle, cache
<1>9. CASE UNCHANGED vars
  BY <1>9 DEF vars, robot, cycle, cache
<1>. QED
  BY <1>1, <1>2, <1>3, <1>4, <1>5, <1>6, <1>7, <1>8, <1>9 DEF Next, Thread

LEMMA AwaitedStep ==
  ASSUME TypeOK, Linked, Awaited, RefreshSoon, [Next]_vars
  PROVE  Awaited' /\ RefreshSoon'
<1>. USE PollConstants DEF TypeOK, Linked, Awaited, RefreshSoon
<1>1. CASE LinkFails
  BY <1>1 DEF LinkFails
<1>2. CASE LinkReturns
  BY <1>2 DEF LinkReturns, cycle
<1>3. CASE TogglePolling \/ RecordStart \/ RecordStop
  BY <1>3 DEF TogglePolling, RecordStart, RecordStop, cycle
<1>4. CASE RequestAuxRefresh
  BY <1>4 DEF RequestAuxRefresh
<1>5. CASE PollAll
  BY <1>5 DEF PollAll, cycle
<1>6. CASE Begin
  <2>1. tick' = IF tick + 1 = AuxEvery THEN 0 ELSE tick + 1
    BY <1>6, TickStep DEF Begin
  <2>2. pc = "top" /\ pc' = "pose" /\ (tick' = 0 => read_aux') /\ waiting' = Counted
        /\ disturbed' = disturbed
    BY <1>6 DEF Begin, Cycle, Locals
  <2>3. "link" \notin disturbed /\ waiting > 0 => waiting <= AuxEvery /\ waiting' = waiting + 1
    BY <2>2 DEF Counted
  <2>4. waiting = 0 => waiting' = 0
    BY <2>2 DEF Counted
  <2>5. AuxEvery \in Nat /\ waiting \in Nat /\ tick \in Nat /\ tick' \in Nat
    BY <2>1
  <2>6. RefreshSoon'
    BY <2>2, <2>3, <2>4, <2>5
  <2>7. "link" \notin disturbed /\ waiting > 0 => waiting - 1 <= tick
    BY <2>2
  <2>8. Awaited'
    BY ONLY <2>1, <2>2, <2>3, <2>4, <2>5, <2>7, ConstantTypes DEF Awaited
  <2>. QED
    BY <2>6, <2>8
<1>7. CASE ReadPose
  BY <1>7 DEF ReadPose, Cycle
<1>8. CASE ReadAux
  BY <1>8 DEF ReadAux, Cycle
<1>9. CASE ReadVars \/ ClearForce
  BY <1>9 DEF ReadVars, ClearForce, Cycle, cycle
<1>10. CASE Publish
  BY <1>10 DEF Publish, Cycle, cycle
<1>11. CASE Record \/ Rest
  BY <1>11 DEF Record, Rest, Cycle, Locals, cycle
<1>12. CASE UNCHANGED vars
  BY <1>12 DEF vars, cycle
<1>. QED
  BY <1>1, <1>2, <1>3, <1>4, <1>5, <1>6, <1>7, <1>8, <1>9, <1>10, <1>11, <1>12
     DEF Next, Operator, Thread

LEMMA PublishedStep ==
  ASSUME TypeOK, Linked, Published, [Next]_vars
  PROVE  Published'
<1>. USE DEF TypeOK, Linked, Published
<1>1. CASE LinkFails \/ LinkReturns
  BY <1>1 DEF LinkFails, LinkReturns, shown, recorder
<1>2. CASE Operator
  BY <1>2 DEF Operator, TogglePolling, RecordStart, RecordStop, RequestAuxRefresh, shown, recorder
<1>3. CASE PollAll
  BY <1>3 DEF PollAll
<1>4. CASE Record
  BY <1>4 DEF Record, Cycle, shown, recorder
<1>5. CASE Begin \/ ReadPose \/ ReadAux \/ ReadVars \/ ClearForce \/ Publish \/ Rest
  BY <1>5 DEF Begin, ReadPose, ReadAux, ReadVars, ClearForce, Publish, Rest, Cycle, shown, recorder
<1>6. CASE UNCHANGED vars
  BY <1>6 DEF vars, shown, recorder
<1>. QED
  BY <1>1, <1>2, <1>3, <1>4, <1>5, <1>6 DEF Next, Thread

THEOREM Inductive == Spec => []IInv
<1>1. Init => IInv
  BY TypeInit, PollConstants DEF Init, IInv, Linked, Awaited, RefreshSoon, Published
<1>2. IInv /\ [Next]_vars => IInv'
  BY TypeStep, LinkedStep, AwaitedStep, PublishedStep DEF IInv
<1>. QED
  BY <1>1, <1>2, PTL DEF Spec

(* A variable of the panel is only given up when it is undeclared or the    *)
(* link has failed: reads that succeed never add up to a quarantine.        *)
THEOREM QuarantineJust == Spec => []QuarantineIsJust
<1>1. IInv => QuarantineIsJust
  BY DEF IInv, Linked, QuarantineIsJust
<1>. QED
  BY <1>1, Inductive, PTL

(* A lost request for base and tool costs at most the regular cadence.      *)
THEOREM RefreshIsSoon == Spec => []RefreshSoon
<1>1. IInv => RefreshSoon
  BY DEF IInv
<1>. QED
  BY <1>1, Inductive, PTL

(* As long as neither the link nor the timer's attention was ever away, no  *)
(* row is recorded with a command of an earlier firing.                     *)
THEOREM RowFresh == Spec => RowCommandFreshUndisturbed
<1>1. IInv /\ [Next]_vars => [rows' > rows /\ disturbed = {} => command # "old"]_vars
  BY DEF IInv, Published
<1>. QED
  BY <1>1, Inductive, PTL DEF Spec, RowCommandFreshUndisturbed
=============================================================================

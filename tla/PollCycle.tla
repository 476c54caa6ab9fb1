------------------------------ MODULE PollCycle ------------------------------
(***************************************************************************)
(* One poll thread from the inside (manager._SlotPollThread.run), the timer *)
(* on Blender's main thread that shows what it read (_poll_all), and the   *)
(* dataset recorder between them: the thread adds a row per good cycle,    *)
(* the timer publishes the command the next row is paired with.            *)
(* SlotSession has the life of such threads; here the slot stays connected *)
(* while its link comes and goes.                                          *)
(*                                                                         *)
(* Data is reduced to its age: whether the base read is the controller's   *)
(* present one, whether a command was published at the timer's last firing.*)
(***************************************************************************)
EXTENDS Naturals

CONSTANTS
  AuxEvery,         (* aux_every_n                                         *)
  MaxVarFailures,   (* MAX_VAR_FAILURES                                    *)
  MaxSamples,       (* the recording's max_samples                         *)
  FloatExponent     (* the n for which 2 ** n no longer converts to float  *)

ASSUME PollConstants ==
  {AuxEvery, MaxVarFailures, MaxSamples, FloatExponent} \subseteq Nat \ {0}

VARIABLES
  (* the robot: link, a debug variable of the panel declared in $CONFIG.DAT *)
  link, declared,
  (* the thread, and the locals of its cycle *)
  pc, tick, force_aux, read_aux, base, pose_ok, var_failures, consecutive_errors,
  _force_aux,
  (* _thread_cache: an error; the variable's value *)
  cache_error, cache_var,
  (* the slot, as shown *)
  polling_enabled, last_error, record_active,
  (* the recorder's session of the slot *)
  session, rows, overflow, command,
  (* history: cycles begun since the base changed, was the link ever down *)
  waiting, disturbed

robot    == <<link, declared>>
cycle    == <<tick, force_aux, read_aux, base, pose_ok, consecutive_errors>>
cache    == <<cache_error, cache_var>>
shown    == <<polling_enabled, last_error, record_active>>
recorder == <<session, rows, overflow, command>>
vars     == <<robot, pc, cycle, var_failures, _force_aux, cache, shown, recorder,
              waiting, disturbed>>

-----------------------------------------------------------------------------
(* The robot and its link                                                  *)

LinkFails ==
  /\ link /\ link' = FALSE
  /\ disturbed' = disturbed \cup {"link"}
  /\ UNCHANGED <<declared, pc, cycle, var_failures, _force_aux, cache, shown, recorder, waiting>>

LinkReturns ==
  /\ ~link /\ link' = TRUE
  /\ UNCHANGED <<declared, pc, cycle, var_failures, _force_aux, cache, shown, recorder,
                 waiting, disturbed>>

(* An operation changes the base frame, then asks for it to be read:        *)
(* request_aux_refresh, as every operator that moves the robot does.        *)
RequestAuxRefresh ==
  /\ pc # "dead"
  /\ _force_aux' = TRUE
  /\ waiting' = 1
  /\ base' = IF base = "current" THEN "old" ELSE base
  /\ UNCHANGED <<robot, pc, tick, force_aux, read_aux, pose_ok, consecutive_errors, var_failures,
                 cache_error, cache_var, shown, recorder, disturbed>>

-----------------------------------------------------------------------------
(* The cycle of the poll thread                                            *)

Cycle(from, to) ==
  /\ pc = from /\ pc' = to
  /\ UNCHANGED <<robot, shown, disturbed>>

(* Cycles begun since the base changed, as far as it matters.              *)
Counted == IF waiting \in 1..(AuxEvery + 1) THEN waiting + 1 ELSE waiting

(* The locals of a cycle: they start and end empty.                         *)
Locals(force, aux) ==
  force_aux' = force /\ read_aux' = aux /\ base' = "none" /\ pose_ok' = FALSE

(* Mutant: only requests make the thread read base and tool.                *)
BeginOnRequest ==
  /\ Cycle("top", "pose")
  /\ tick' = (tick + 1) % AuxEvery
  /\ Locals(_force_aux, _force_aux)
  /\ waiting' = Counted
  /\ UNCHANGED <<consecutive_errors, var_failures, _force_aux, cache, recorder>>

(* A cycle starts: the request is looked at once, here.                     *)
Begin ==
  /\ Cycle("top", "pose")
  /\ tick' = (tick + 1) % AuxEvery
  /\ Locals(_force_aux, _force_aux \/ tick' = 0)
  /\ waiting' = Counted
  /\ UNCHANGED <<consecutive_errors, var_failures, _force_aux, cache, recorder>>

(* read_tcp and read_joints, one of which is enough.                        *)
ReadPose ==
  /\ Cycle("pose", "aux")
  /\ pose_ok' = link
  /\ UNCHANGED <<tick, force_aux, read_aux, base, consecutive_errors, var_failures, _force_aux,
                 cache, recorder, waiting>>

ReadAux ==
  /\ Cycle("aux", "vars")
  /\ base' = IF read_aux /\ link THEN "current" ELSE "none"
  /\ UNCHANGED <<tick, force_aux, read_aux, pose_ok, consecutive_errors, var_failures, _force_aux,
                 cache, recorder, waiting>>

(* Mutant: every read counts as a failure.                                  *)
ReadVarsCountsReads ==
  /\ Cycle("vars", "clear")
  /\ IF var_failures >= MaxVarFailures
     THEN cache_var' = "quarantined" /\ UNCHANGED var_failures
     ELSE /\ cache_var' = IF link /\ declared THEN "value" ELSE "error"
          /\ var_failures' = var_failures + 1
  /\ UNCHANGED <<cycle, _force_aux, cache_error, recorder, waiting>>

(* The debug variables: one that failed too often is not read again.  (The  *)
(* results go into the cache with the rest, at Publish.)                    *)
ReadVars ==
  /\ Cycle("vars", "clear")
  /\ IF var_failures >= MaxVarFailures
     THEN cache_var' = "quarantined" /\ UNCHANGED var_failures
     ELSE IF link /\ declared
     THEN cache_var' = "value" /\ var_failures' = 0
     ELSE cache_var' = "error" /\ var_failures' = var_failures + 1
  /\ UNCHANGED <<cycle, _force_aux, cache_error, recorder, waiting>>

(* The request is taken for served, even one made since Begin.              *)
ClearForce ==
  /\ Cycle("clear", "publish")
  /\ _force_aux' = (_force_aux /\ ~force_aux)
  /\ UNCHANGED <<cycle, var_failures, cache, recorder, waiting>>

(* Mutant: the error branch can never fire.                                 *)
PublishNoError ==
  /\ Cycle("publish", "record")
  /\ cache_error' = FALSE
  /\ waiting' = IF base = "current" THEN 0 ELSE waiting
  /\ UNCHANGED <<cycle, var_failures, _force_aux, cache_var, recorder>>

(* One good read of the two of a pose takes the error back.                 *)
Publish ==
  /\ Cycle("publish", "record")
  /\ cache_error' = ~pose_ok
  /\ waiting' = IF base = "current" THEN 0 ELSE waiting
  /\ UNCHANGED <<cycle, var_failures, _force_aux, cache_var, recorder>>

Full == rows >= MaxSamples

(* recorder.record and Session.add.                                         *)
Record ==
  /\ Cycle("record", "rest")
  /\ IF pose_ok /\ session = "active"
     THEN IF Full
          THEN session' = "ended" /\ overflow' = TRUE /\ UNCHANGED <<rows, command>>
          ELSE rows' = rows + 1 /\ UNCHANGED <<session, overflow, command>>
     ELSE UNCHANGED recorder
  /\ UNCHANGED <<cycle, var_failures, _force_aux, cache, waiting>>

(* Exponential back-off: interval * (2 ** consecutive_errors) is computed   *)
(* before it is capped, and the power of an int has no largest value while  *)
(* the float it is multiplied with does: OverflowError ends the thread.     *)
Rest ==
  /\ consecutive_errors' = IF pose_ok THEN 0 ELSE consecutive_errors + 1
  /\ Cycle("rest", IF consecutive_errors' >= FloatExponent THEN "dead" ELSE "top")
  /\ Locals(FALSE, FALSE)
  /\ UNCHANGED <<tick, var_failures, _force_aux, cache, recorder, waiting>>

Thread == Begin \/ ReadPose \/ ReadAux \/ ReadVars \/ ClearForce \/ Publish \/ Record \/ Rest

-----------------------------------------------------------------------------
(* The main thread                                                         *)

(* Mutant: a session that ended is not shown.                               *)
PollAllActiveOnly ==
  /\ IF polling_enabled
     THEN /\ last_error' = cache_error
          /\ IF ~cache_error /\ session = "active"
             THEN command' = "fresh" /\ record_active' = TRUE
             ELSE UNCHANGED <<command, record_active>>
     ELSE UNCHANGED <<last_error, command, record_active>>
  /\ UNCHANGED <<robot, pc, cycle, var_failures, _force_aux, cache, polling_enabled, session,
                 rows, overflow, waiting, disturbed>>

(* Mutant: only the first firing publishes a command.                       *)
PollAllOnce ==
  /\ last_error' = IF polling_enabled THEN cache_error ELSE last_error
  /\ IF polling_enabled /\ ~cache_error /\ session # "none"
     THEN /\ command' = IF command = "none" THEN "fresh" ELSE "old"
          /\ record_active' = (session = "active")
     ELSE UNCHANGED <<command, record_active>>
  /\ UNCHANGED <<robot, pc, cycle, var_failures, _force_aux, cache, polling_enabled, session,
                 rows, overflow, waiting, disturbed>>

(* The timer.  A slot whose last cycle failed shows the error, and that is  *)
(* all; another gets its data, and _publish_record_command its command.  A  *)
(* command published at an earlier firing than this one is getting old.     *)
PollAll ==
  /\ IF polling_enabled
     THEN /\ last_error' = cache_error
          /\ IF ~cache_error /\ session # "none"
             THEN /\ command' = IF session = "active" THEN "fresh" ELSE command
                  /\ record_active' = (session = "active")
             ELSE /\ command' = IF command = "fresh" THEN "old" ELSE command
                  /\ UNCHANGED record_active
     ELSE /\ command' = IF command = "fresh" THEN "old" ELSE command
          /\ UNCHANGED <<last_error, record_active>>
  /\ UNCHANGED <<robot, pc, cycle, var_failures, _force_aux, cache, polling_enabled, session,
                 rows, overflow, waiting, disturbed>>

TogglePolling ==
  /\ polling_enabled' = ~polling_enabled
  /\ disturbed' = disturbed \cup {"polling"}
  /\ UNCHANGED <<robot, pc, cycle, var_failures, _force_aux, cache, last_error, record_active,
                 recorder, waiting>>

RecordStart ==
  /\ polling_enabled /\ session # "active"
  /\ session' = "active" /\ rows' = 0 /\ overflow' = FALSE /\ command' = "none"
  /\ record_active' = TRUE
  /\ UNCHANGED <<robot, pc, cycle, var_failures, _force_aux, cache, polling_enabled, last_error,
                 waiting, disturbed>>

RecordStop ==
  /\ session = "active"
  /\ session' = "ended" /\ record_active' = FALSE
  /\ UNCHANGED <<robot, pc, cycle, var_failures, _force_aux, cache, polling_enabled, last_error,
                 rows, overflow, command, waiting, disturbed>>

-----------------------------------------------------------------------------
Init ==
  /\ link = TRUE /\ declared \in BOOLEAN
  /\ pc = "top" /\ tick = 0 /\ force_aux = FALSE /\ read_aux = FALSE /\ base = "none"
  /\ pose_ok = FALSE /\ var_failures = 0 /\ consecutive_errors = 0 /\ _force_aux = FALSE
  /\ cache_error = FALSE /\ cache_var = "none"
  /\ polling_enabled = TRUE /\ last_error = FALSE /\ record_active = FALSE
  /\ session = "none" /\ rows = 0 /\ overflow = FALSE /\ command = "none"
  /\ waiting = 0 /\ disturbed = {}

Operator == TogglePolling \/ RecordStart \/ RecordStop \/ RequestAuxRefresh

Next == LinkFails \/ LinkReturns \/ Operator \/ PollAll \/ Thread

Spec == Init /\ [][Next]_vars

(* The thread is scheduled and Blender keeps firing the timer.              *)
FairSpec == Spec /\ WF_vars(Thread) /\ WF_vars(PollAll)

-----------------------------------------------------------------------------
(* Properties                                                              *)

(* Type invariant of the thread, the cache, the slot and the recording.     *)
TypeOK ==
  /\ link \in BOOLEAN /\ declared \in BOOLEAN /\ force_aux \in BOOLEAN
  /\ read_aux \in BOOLEAN /\ pose_ok \in BOOLEAN /\ _force_aux \in BOOLEAN
  /\ cache_error \in BOOLEAN /\ polling_enabled \in BOOLEAN /\ last_error \in BOOLEAN
  /\ record_active \in BOOLEAN /\ overflow \in BOOLEAN
  /\ pc \in {"top", "pose", "aux", "vars", "clear", "publish", "record", "rest", "dead"}
  /\ tick \in 0..(AuxEvery - 1) /\ base \in {"none", "current", "old"}
  /\ var_failures \in 0..MaxVarFailures /\ consecutive_errors \in 0..FloatExponent
  /\ cache_var \in {"none", "value", "error", "quarantined"}
  /\ session \in {"none", "active", "ended"} /\ rows \in 0..MaxSamples
  /\ command \in {"none", "fresh", "old"}
  /\ waiting \in 0..(AuxEvery + 2) /\ disturbed \subseteq {"link", "polling"}

(* A request for base and tool may be cleared by a cycle that did not see   *)
(* it, but the regular cadence bounds what that costs: with the link up,    *)
(* the change is in the cache AuxEvery + 1 cycle starts after it, the one   *)
(* under way when it was made included.                                     *)
RefreshSoon == "link" \notin disturbed => waiting <= AuxEvery + 1

(* A variable is given up only if it is undeclared or the link had failed.  *)
QuarantineIsJust == cache_var = "quarantined" => ~declared \/ "link" \in disturbed

(* What the panel shows of the recording becomes true: one that ended at    *)
(* its cap is shown as ended, unless polling is off, the link is down or    *)
(* the thread has died.                                                     *)
RecordingShownEnds ==
  session = "ended" ~> \/ ~record_active \/ session = "active" \/ ~polling_enabled
                       \/ ~link \/ pc = "dead"

(* An error is shown and taken back: with the link down, a polled slot ends *)
(* up showing the error, also when the failures have ended its thread.      *)
ErrorIsShown == ~link ~> link \/ last_error \/ ~polling_enabled

(* "The loop never exits on error".                                         *)
LoopSurvives == pc # "dead"

(* "the command a sample carries is at most one timer interval old" ...     *)
RowCommandFresh == [][rows' > rows => command # "old"]_vars

(* ... as long as the timer gets to the slot: not while polling is off, nor *)
(* before the first firing after the link has returned.                     *)
RowCommandFreshUndisturbed == [][rows' > rows /\ disturbed = {} => command # "old"]_vars
=============================================================================

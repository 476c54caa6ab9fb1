----------------------------- MODULE NewtonWorker -----------------------------
(***************************************************************************)
(* Path validation: the operators that start it (Validate Path and Newton  *)
(* IK Keyframes), their job threads, the persistent worker they share      *)
(* (_PersistentWorker, one per slot), the worker processes it spawns, and  *)
(* the threads that pump a process's output into the worker's queue.       *)
(*                                                                         *)
(* A report is known by the request it answers; what it says, the model    *)
(* and the physics are left out, and so are lines that are not JSON, which *)
(* the reader skips, and what the panel shows.  Installing dependencies,   *)
(* which drops the worker object, is left out.                             *)
(*                                                                         *)
(* A pump that is slow cannot be told from a slow process, but for one     *)
(* case: it puts its lines into self._stdout_q, and a process spawned      *)
(* meanwhile has brought a new queue.  So lines go to the queue at once,   *)
(* and a spawn picks those of the last process that are yet to come.       *)
(***************************************************************************)
EXTENDS Naturals, Sequences

CONSTANTS
  MaxRequests,  (* bound on the number of requests                         *)
  MaxFaults     (* bound on the number of crashes and timeouts             *)

ASSUME NewtonConstants == MaxRequests \in Nat \ {0} /\ MaxFaults \in Nat

VARIABLES
  (* per request: its job thread, attempt, process it closes, and result:  *)
  (* the request whose report it was given, 0 for an exception             *)
  pressed, pc, attempt, victim, result,
  (* the _PersistentWorker: _io_lock, proc (0 is None), _stdout_q, and     *)
  (* _backend_info # None                                                  *)
  _io_lock, proc, _stdout_q, inited,
  (* the worker processes: commands not yet read; lines of earlier ones    *)
  (* that their pumps have not delivered                                   *)
  spawned, alive, stdin, behind,
  (* history: crashes and timeouts, and what else came in the way          *)
  faults, disturbed

requests  == <<pressed, pc, attempt, victim, result>>
worker    == <<_io_lock, proc, _stdout_q, inited>>
processes == <<spawned, alive, stdin, behind>>
history   == <<faults, disturbed>>
vars      == <<requests, worker, processes, history>>

Request == 1..MaxRequests
Process == 1..(2 * MaxRequests)  (* an attempt spawns at most one          *)

Line(type, of) == [type |-> type, of |-> of]

Disturb(what, when) == disturbed' = IF when THEN disturbed \cup {what} ELSE disturbed

Fault == faults < MaxFaults /\ faults' = faults + 1

-----------------------------------------------------------------------------
(* The operators                                                           *)

(* Nothing keeps the user from starting another one meanwhile.              *)
Press ==
  /\ pressed < MaxRequests
  /\ pressed' = pressed + 1
  /\ pc' = [pc EXCEPT ![pressed + 1] = "acquire"]
  /\ UNCHANGED <<attempt, victim, result, worker, processes, history>>

-----------------------------------------------------------------------------
(* What a worker process writes                                            *)

(* What process n writes: to the queue if n was spawned last, else its pump *)
(* comes too late for its own queue.                                        *)
Writes(n, line) ==
  IF n = spawned
  THEN _stdout_q' = Append(_stdout_q, line) /\ UNCHANGED behind
  ELSE behind' = [behind EXCEPT ![n] = Append(@, line)] /\ UNCHANGED _stdout_q

Ends(n) ==
  /\ alive' = [alive EXCEPT ![n] = FALSE]
  /\ stdin' = [stdin EXCEPT ![n] = <<>>]
  /\ Writes(n, Line("eof", 0))

-----------------------------------------------------------------------------
(* The job thread: validate_prebuilt_request and validate                  *)

Job(r, from, to) ==
  /\ pc[r] = from
  /\ pc' = [pc EXCEPT ![r] = to]
  /\ UNCHANGED pressed

(* validate raises.  The first time the worker is closed and the request    *)
(* tried once more; after the second nothing is closed.                     *)
Raises(r) ==
  /\ Job(r, pc[r], IF attempt[r] = 1 THEN "close" ELSE "done")
  /\ _io_lock' = 0
  /\ UNCHANGED <<attempt, victim, result>>

(* Mutant: the lock is not waited for.                                      *)
BeginUnlocked(r) ==
  /\ _io_lock' = r
  /\ Job(r, "acquire", IF proc # 0 /\ alive[proc] /\ inited THEN "validate" ELSE "init")
  /\ IF proc # 0 /\ alive[proc]
     THEN UNCHANGED <<proc, _stdout_q, inited, processes>>
     ELSE /\ spawned' = spawned + 1
          /\ proc' = spawned + 1
          /\ alive' = [alive EXCEPT ![spawned + 1] = TRUE]
          /\ _stdout_q' = <<>> /\ inited' = FALSE
          /\ UNCHANGED <<stdin, behind>>
  /\ UNCHANGED <<attempt, victim, result, history>>

(* Mutant: the queue of the last process serves the next one.               *)
BeginSameQueue(r) ==
  /\ _io_lock = 0 /\ _io_lock' = r
  /\ Job(r, "acquire", IF proc # 0 /\ alive[proc] /\ inited THEN "validate" ELSE "init")
  /\ IF proc # 0 /\ alive[proc]
     THEN UNCHANGED <<proc, inited, spawned, alive>>
     ELSE /\ spawned' = spawned + 1
          /\ proc' = spawned + 1
          /\ alive' = [alive EXCEPT ![spawned + 1] = TRUE]
          /\ inited' = FALSE
  /\ UNCHANGED <<attempt, victim, result, _stdout_q, stdin, behind, history>>

(* The lock, then _ensure_alive: a process that is alive serves on; else a  *)
(* new one is spawned, and a new queue with it.  Another model needs        *)
(* another init.                                                            *)
Begin(r) ==
  /\ _io_lock = 0 /\ _io_lock' = r
  /\ Job(r, "acquire", IF proc # 0 /\ alive[proc] /\ inited THEN "validate" ELSE "init")
  /\ IF proc # 0 /\ alive[proc]
     THEN UNCHANGED <<proc, _stdout_q, inited, processes>>
     ELSE /\ spawned' = spawned + 1
          /\ proc' = spawned + 1
          /\ alive' = [alive EXCEPT ![spawned + 1] = TRUE]
          /\ _stdout_q' = <<>> /\ inited' = FALSE
          /\ IF spawned = 0 THEN UNCHANGED behind
             ELSE \E k \in 1..(Len(_stdout_q) + 1) :
                    behind' = [behind EXCEPT ![spawned] = SubSeq(_stdout_q, k, Len(_stdout_q))]
          /\ UNCHANGED stdin
  /\ UNCHANGED <<attempt, victim, result, history>>

(* _send_cmd: raises without a process, or when its pipe is broken.         *)
SendCmd(r, cmd, of, to) ==
  IF proc # 0 /\ alive[proc]
  THEN /\ Job(r, cmd, to)
       /\ stdin' = [stdin EXCEPT ![proc] = Append(@, Line(cmd, of))]
       /\ UNCHANGED <<attempt, victim, result, worker, spawned, alive, behind, history>>
  ELSE /\ pc[r] = cmd /\ Raises(r)
       /\ UNCHANGED <<proc, _stdout_q, inited, processes, history>>

Send(r) == SendCmd(r, "init", 0, "awaitInit") \/ SendCmd(r, "validate", r, "awaitReport")

(* _read_json_response: raises at the end of the output, and after 30 s.    *)
Got(r, at, type) ==
  /\ pc[r] = at /\ _stdout_q # <<>> /\ Head(_stdout_q).type = type
  /\ _stdout_q' = Tail(_stdout_q)

InitOk(r) ==
  /\ Got(r, "awaitInit", "ok") /\ Job(r, "awaitInit", "validate")
  /\ inited' = TRUE
  /\ UNCHANGED <<attempt, victim, result, _io_lock, proc, processes, history>>

Report(r) ==
  /\ Got(r, "awaitReport", "report") /\ Job(r, "awaitReport", "done")
  /\ result' = [result EXCEPT ![r] = Head(_stdout_q).of]
  /\ _io_lock' = 0
  /\ UNCHANGED <<attempt, victim, proc, inited, processes, history>>

Unexpected(r) ==
  /\ \/ \E type \in {"report", "eof"} : Got(r, "awaitInit", type)
     \/ \E type \in {"ok", "eof"} : Got(r, "awaitReport", type)
  /\ Raises(r)
  /\ UNCHANGED <<proc, inited, processes, history>>

Timeout(r) ==
  /\ pc[r] \in {"awaitInit", "awaitReport"} /\ _stdout_q = <<>>
  /\ Raises(r)
  /\ Fault /\ Disturb("timeout", TRUE)
  /\ UNCHANGED <<proc, _stdout_q, inited, processes>>

(* close(), not under the lock, and of whatever process is current by now:  *)
(* it is asked to shut down, terminated, and waited for.                    *)
Close(r) ==
  /\ Job(r, "close", "closing")
  /\ victim' = [victim EXCEPT ![r] = proc]
  /\ proc' = 0 /\ inited' = FALSE
  /\ stdin' = IF proc # 0 /\ alive[proc]
              THEN [stdin EXCEPT ![proc] = Append(@, Line("shutdown", 0))] ELSE stdin
  /\ Disturb("trampled", _io_lock # 0)
  /\ UNCHANGED <<attempt, result, _io_lock, _stdout_q, spawned, alive, behind, faults>>

(* A process that has ended is waited for no longer.                        *)
Retry(r) ==
  /\ Job(r, "closing", "acquire")
  /\ attempt' = [attempt EXCEPT ![r] = 2]
  /\ victim' = [victim EXCEPT ![r] = 0]
  /\ IF victim[r] # 0 /\ alive[victim[r]]
     THEN Ends(victim[r])
     ELSE UNCHANGED <<_stdout_q, alive, stdin, behind>>
  /\ UNCHANGED <<result, _io_lock, proc, inited, spawned, history>>

Thread(r) ==
  \/ Begin(r) \/ Send(r) \/ InitOk(r) \/ Report(r) \/ Unexpected(r)
  \/ Timeout(r) \/ Close(r) \/ Retry(r)

-----------------------------------------------------------------------------
(* The worker processes, and the pumps                                     *)

(* The main loop of newton_worker: one answer for a command.  (The answer   *)
(* to a shutdown is not told from one to an init.)                          *)
Serve(n) ==
  /\ alive[n] /\ stdin[n] # <<>>
  /\ LET cmd == Head(stdin[n]) IN
     Writes(n, IF cmd.type = "validate" THEN Line("report", cmd.of) ELSE Line("ok", 0))
  /\ stdin' = [stdin EXCEPT ![n] = Tail(@)]
  /\ UNCHANGED <<requests, _io_lock, proc, inited, spawned, alive, history>>

(* A process crashes at work.                                               *)
Crash(n) ==
  /\ alive[n] /\ stdin[n] # <<>>
  /\ Fault
  /\ Ends(n)
  /\ UNCHANGED <<requests, _io_lock, proc, inited, spawned, disturbed>>

(* The pump of an earlier process puts a line into the queue of the last.   *)
Pump(n) ==
  /\ behind[n] # <<>>
  /\ _stdout_q' = Append(_stdout_q, Head(behind[n]))
  /\ behind' = [behind EXCEPT ![n] = Tail(@)]
  /\ Disturb("late", TRUE)
  /\ UNCHANGED <<requests, _io_lock, proc, inited, spawned, alive, stdin, faults>>

-----------------------------------------------------------------------------
Init ==
  /\ pressed = 0 /\ pc = [r \in Request |-> "none"] /\ attempt = [r \in Request |-> 1]
  /\ victim = [r \in Request |-> 0] /\ result = [r \in Request |-> 0]
  /\ _io_lock = 0 /\ proc = 0 /\ _stdout_q = <<>> /\ inited = FALSE
  /\ spawned = 0 /\ alive = [n \in Process |-> FALSE]
  /\ stdin = [n \in Process |-> <<>>] /\ behind = [n \in Process |-> <<>>]
  /\ faults = 0 /\ disturbed = {}

(* The processes are followed as long as there may be another request.     *)
Followed == pressed < MaxRequests \/ \E r \in Request : pc[r] # "done"

Next ==
  \/ Press
  \/ \E r \in Request : Thread(r)
  \/ Followed /\ \E n \in Process : Serve(n) \/ Crash(n) \/ Pump(n)

Spec == Init /\ [][Next]_vars

-----------------------------------------------------------------------------
(* Properties                                                              *)

Failed(r) == pc[r] = "done" /\ result[r] = 0

(* A request is answered with the report of its own path, unless one has    *)
(* timed out or failed on a late line of a pump: its answer may then be     *)
(* left behind, and every later request is given the report of another.     *)
ReportIsOwn ==
  disturbed \cap {"timeout", "late"} = {} => \A r \in Request : result[r] \in {0, r}

(* "One retry after worker restart (handles crashes/closed pipes)": a       *)
(* request fails only after two crashes or timeouts, unless the retry of    *)
(* another has closed its process or a pump has written to the next queue.  *)
RetrySuffices ==
  \A r \in Request : Failed(r) => faults >= 2 \/ disturbed \cap {"trampled", "late"} # {}
=============================================================================

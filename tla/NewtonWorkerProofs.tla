-------------------------- MODULE NewtonWorkerProofs -------------------------
(* That a request of NewtonWorker is answered with its own report, and that *)
(* its retry suffices, for any number of requests, crashes and processes.   *)
EXTENDS NewtonWorker, FiniteSetTheorems, SequenceTheorems, TLAPS

-----------------------------------------------------------------------------
(* Types.                                                                  *)

Lines ==
  {line \in [type : {"init", "validate", "shutdown", "ok", "report", "eof"}, of : Nat] :
     line.type \in {"validate", "report"} => line.of # 0}

RequestsOK ==
  /\ pressed \in 0..MaxRequests
  /\ pc \in [Request -> {"none", "acquire", "init", "awaitInit", "validate", "awaitReport",
                         "close", "closing", "done"}]
  /\ attempt \in [Request -> 1..2] /\ victim \in [Request -> 0..(2 * MaxRequests)]
  /\ result \in [Request -> Nat]

WorkerOK ==
  /\ _io_lock \in Nat /\ proc \in {0, spawned} /\ _stdout_q \in Seq(Lines) /\ inited \in BOOLEAN

ProcessesOK ==
  /\ spawned \in 0..(2 * MaxRequests) /\ alive \in [Process -> BOOLEAN]
  /\ stdin \in [Process -> Seq(Lines)] /\ behind \in [Process -> Seq(Lines)]
  /\ \A n \in Process : n > spawned => stdin[n] = <<>>

HistoryOK == faults \in Nat /\ disturbed \subseteq {"timeout", "late", "trampled"}

Types == RequestsOK /\ WorkerOK /\ ProcessesOK /\ HistoryOK

(* The attempts that have had the lock, each of which may have spawned a    *)
(* process: there are never more processes.                                 *)
Begun ==
  {x \in Request \X (1..2) :
     \/ x[2] < attempt[x[1]]
     \/ x[2] = attempt[x[1]] /\ pc[x[1]] \notin {"none", "acquire"}}

Attempted ==
  \A r \in Request :
    /\ r > pressed => pc[r] = "none" /\ attempt[r] = 1
    /\ pc[r] \in {"close", "closing"} => attempt[r] = 1

Counted == spawned <= Cardinality(Begun) /\ Attempted

-----------------------------------------------------------------------------
(* The lock is held from the choice of a process to the answer.             *)
Holding(r) == pc[r] \in {"init", "awaitInit", "validate", "awaitReport"}

Locked == \A r \in Request : Holding(r) <=> _io_lock = r

(* While no request has timed out and no pump has come late: what is under  *)
(* way to and from the process of the worker is at most the one command or  *)
(* answer that the holder of the lock waits for ...                         *)
Idle == _stdout_q = <<>> /\ stdin[proc] = <<>>

Awaiting(at, cmd, line) ==
  \E r \in Request :
    /\ _io_lock = r /\ pc[r] = at
    /\ \/ _stdout_q = <<>> /\ Len(stdin[proc]) = 1 /\ stdin[proc][1].type = cmd
       \/ stdin[proc] = <<>> /\ Len(_stdout_q) = 1 /\ _stdout_q[1].type = line

Orderly ==
  proc # 0 /\ alive[proc] =>
    \/ Idle
    \/ Awaiting("awaitInit", "init", "ok")
    \/ Awaiting("awaitReport", "validate", "report")

(* ... and also with the worker closed under it, or its process dead, a     *)
(* report is that of the holder.                                            *)
OwnIn(lines, type, r) == \A i \in 1..Len(lines) : lines[i].type = type => lines[i].of = r

OwnLines ==
  _io_lock # 0 =>
    /\ OwnIn(_stdout_q, "report", _io_lock)
    /\ spawned # 0 => OwnIn(stdin[spawned], "validate", _io_lock)

Undisturbed == disturbed \cap {"timeout", "late"} = {}

(* A closed process that is waited for is no longer the worker's.           *)
Victims == \A r \in Request : victim[r] <= spawned /\ (victim[r] # 0 => victim[r] # proc)

(* While no process was closed under the holder of the lock and no pump has *)
(* come late, he has a process.  Before the first crash or timeout it works *)
(* and answers in turn, so that nobody has failed; after one, either it     *)
(* does, or no one has yet closed it to try again: a second attempt cannot  *)
(* fail without a second fault.                                             *)
Fine == disturbed \cap {"trampled", "late"} = {}

Held == _io_lock # 0 => proc # 0

Working == proc # 0 => alive[proc]

FirstTry == \A r \in Request : attempt[r] = 1 /\ pc[r] # "closing"

NobodyFailed == \A r \in Request : ~Failed(r)

Retried ==
  Fine =>
    /\ Held
    /\ faults = 0 => Working /\ Orderly /\ FirstTry /\ \A r \in Request : pc[r] # "close"
    /\ faults <= 1 => NobodyFailed /\ (FirstTry \/ (Working /\ Orderly))

IInv == Types /\ Counted /\ Locked
        /\ (Undisturbed => Orderly /\ OwnLines) /\ ReportIsOwn
        /\ Victims /\ Retried

-----------------------------------------------------------------------------
(* Sequences of lines.                                                     *)
LEMMA LineType ==
  ASSUME NEW type \in {"init", "validate", "shutdown", "ok", "report", "eof"}, NEW of \in Nat,
         type \in {"validate", "report"} => of # 0
  PROVE  /\ Line(type, of) \in Lines
         /\ Line(type, of).type = type /\ Line(type, of).of = of
  BY DEF Line, Lines

LEMMA Appended ==
  ASSUME NEW s \in Seq(Lines), NEW x \in Lines
  PROVE  /\ Append(s, x) \in Seq(Lines) /\ Len(Append(s, x)) = Len(s) + 1
         /\ Append(s, x)[Len(s) + 1] = x /\ \A i \in 1..Len(s) : Append(s, x)[i] = s[i]
  OBVIOUS

LEMMA Taken ==
  ASSUME NEW s \in Seq(Lines), s # <<>>
  PROVE  /\ Len(s) \in Nat \ {0} /\ Head(s) = s[1] /\ s[1] \in Lines
         /\ Tail(s) \in Seq(Lines) /\ Len(Tail(s)) = Len(s) - 1
         /\ \A i \in 1..Len(Tail(s)) : Tail(s)[i] = s[i + 1]
  OBVIOUS

LEMMA Empty == <<>> \in Seq(Lines) /\ Len(<<>>) = 0
  OBVIOUS

LEMMA NoLines ==
  ASSUME NEW s \in Seq(Lines), Len(s) = 0
  PROVE  s = <<>>
  OBVIOUS

LEMMA Constants == MaxRequests \in Nat /\ MaxRequests > 0
  BY NewtonConstants

LEMMA WritesEffect ==
  ASSUME WorkerOK, ProcessesOK, NEW n \in Process, NEW line \in Lines, Writes(n, line)
  PROVE  /\ _stdout_q' \in Seq(Lines) /\ behind' \in [Process -> Seq(Lines)]
         /\ _stdout_q' = IF n = spawned THEN Append(_stdout_q, line) ELSE _stdout_q
<1>1. CASE n = spawned
  BY <1>1, Appended DEF Writes, WorkerOK, ProcessesOK
<1>2. CASE n # spawned
  <2>1. behind[n] \in Seq(Lines)
    BY DEF ProcessesOK
  <2>2. Append(behind[n], line) \in Seq(Lines)
    BY <2>1, Appended
  <2>. QED
    BY <1>2, <2>2 DEF Writes, WorkerOK, ProcessesOK
<1>. QED
  BY <1>1, <1>2

LEMMA EndsEffect ==
  ASSUME WorkerOK, ProcessesOK, NEW n \in Process, Ends(n)
  PROVE  /\ alive' \in [Process -> BOOLEAN] /\ alive' = [alive EXCEPT ![n] = FALSE]
         /\ stdin' \in [Process -> Seq(Lines)] /\ stdin' = [stdin EXCEPT ![n] = <<>>]
         /\ _stdout_q' \in Seq(Lines) /\ behind' \in [Process -> Seq(Lines)]
         /\ _stdout_q' = IF n = spawned THEN Append(_stdout_q, Line("eof", 0)) ELSE _stdout_q
<1>1. Line("eof", 0) \in Lines
  BY LineType
<1>2. /\ _stdout_q' \in Seq(Lines) /\ behind' \in [Process -> Seq(Lines)]
      /\ _stdout_q' = IF n = spawned THEN Append(_stdout_q, Line("eof", 0)) ELSE _stdout_q
  BY <1>1, WritesEffect DEF Ends
<1>3. alive' \in [Process -> BOOLEAN] /\ alive' = [alive EXCEPT ![n] = FALSE]
  BY DEF Ends, ProcessesOK
<1>4. stdin' \in [Process -> Seq(Lines)] /\ stdin' = [stdin EXCEPT ![n] = <<>>]
  BY Empty DEF Ends, ProcessesOK
<1>. QED
  BY <1>2, <1>3, <1>4

(* The answer to the first command of a process.                            *)
LEMMA ServedLine ==
  ASSUME ProcessesOK, NEW n \in Process, Serve(n)
  PROVE  /\ stdin[n] # <<>> /\ stdin' = [stdin EXCEPT ![n] = Tail(stdin[n])]
         /\ \E line \in Lines :
              /\ Writes(n, line) /\ line.type \in {"report", "ok"}
              /\ line.type = "report" <=> stdin[n][1].type = "validate"
              /\ line.type = "report" => line.of = stdin[n][1].of
<1>. DEFINE cmd == Head(stdin[n])
            line == IF cmd.type = "validate" THEN Line("report", cmd.of) ELSE Line("ok", 0)
<1>1. stdin[n] \in Seq(Lines) /\ stdin[n] # <<>>
  BY DEF ProcessesOK, Serve
<1>2. cmd = stdin[n][1] /\ cmd \in Lines
  BY <1>1, Taken
<1>3. cmd.of \in Nat /\ (cmd.type = "validate" => cmd.of # 0)
  BY <1>2 DEF Lines
<1>4. line \in Lines /\ line.type \in {"report", "ok"}
      /\ (line.type = "report" <=> cmd.type = "validate")
      /\ (line.type = "report" => line.of = cmd.of)
  BY <1>3, LineType
<1>5. Writes(n, line)
  BY DEF Serve
<1>6. stdin' = [stdin EXCEPT ![n] = Tail(stdin[n])]
  BY DEF Serve
<1>. QED
  BY <1>1, <1>2, <1>4, <1>5, <1>6

(* Types are preserved, part by part.                                       *)
LEMMA RequestsStep ==
  ASSUME Types, [Next]_vars
  PROVE  RequestsOK'
<1>. USE Constants DEF Types, RequestsOK
<1>1. CASE Press
  BY <1>1 DEF Press, requests, worker, processes, history, Request
<1>2. ASSUME NEW r \in Request, Begin(r) PROVE RequestsOK'
  BY <1>2 DEF Begin, Job, requests, worker, processes, history
<1>3. ASSUME NEW r \in Request, Send(r) PROVE RequestsOK'
  BY <1>3 DEF Send, SendCmd, Raises, Job, requests, worker, processes, history
<1>4. ASSUME NEW r \in Request, InitOk(r) PROVE RequestsOK'
  BY <1>4 DEF InitOk, Got, Job, requests, worker, processes, history
<1>5. ASSUME NEW r \in Request, Report(r) PROVE RequestsOK'
  <2>1. Head(_stdout_q).of \in Nat
    BY <1>5, Taken DEF Report, Got, Types, WorkerOK, Lines
  <2>. QED
    BY <1>5, <2>1 DEF Report, Job
<1>6. ASSUME NEW r \in Request, Unexpected(r) PROVE RequestsOK'
  BY <1>6 DEF Unexpected, Got, Raises, Job, requests, worker, processes, history
<1>7. ASSUME NEW r \in Request, Timeout(r) PROVE RequestsOK'
  BY <1>7 DEF Timeout, Raises, Job, Fault, Disturb, requests, worker, processes, history
<1>8. ASSUME NEW r \in Request, Close(r) PROVE RequestsOK'
  <2>1. proc \in 0..(2 * MaxRequests)
    BY Constants DEF Types, WorkerOK, ProcessesOK
  <2>. QED
    BY <1>8, <2>1 DEF Close, Job
<1>9. ASSUME NEW r \in Request, Retry(r) PROVE RequestsOK'
  BY <1>9 DEF Retry, Job, requests, worker, processes, history
<1>10. ASSUME NEW n \in Process, Serve(n) PROVE RequestsOK'
  BY <1>10 DEF Serve, requests, worker, processes, history
<1>11. ASSUME NEW n \in Process, Crash(n) PROVE RequestsOK'
  BY <1>11 DEF Crash, Fault, requests, worker, processes, history
<1>12. ASSUME NEW n \in Process, Pump(n) PROVE RequestsOK'
  BY <1>12 DEF Pump, Disturb, requests, worker, processes, history
<1>13. CASE UNCHANGED vars
  BY <1>13 DEF vars, requests, worker, processes, history
<1>. QED
  BY <1>1, <1>2, <1>3, <1>4, <1>5, <1>6, <1>7, <1>8, <1>9, <1>10, <1>11, <1>12, <1>13
     DEF Next, Thread

(* There is always a process left to spawn.                                 *)
LEMMA Room ==
  ASSUME Types, Counted, NEW r \in Request, pc[r] = "acquire"
  PROVE  spawned + 1 \in Process
<1>. DEFINE all == Request \X (1..2)
            this == <<r, attempt[r]>>
<1>1. IsFiniteSet(Request) /\ Cardinality(Request) = MaxRequests
  BY FS_Interval, Constants DEF Request
<1>2. IsFiniteSet(1..2) /\ Cardinality(1..2) = 2
  <2>1. 1 \in Int /\ 2 \in Int
    OBVIOUS
  <2>2. IsFiniteSet(1..2) /\ Cardinality(1..2) = IF 1 > 2 THEN 0 ELSE 2 - 1 + 1
    BY ONLY <2>1, FS_Interval
  <2>. QED
    BY <2>2
<1>3. IsFiniteSet(all) /\ Cardinality(all) = MaxRequests * 2
  BY <1>1, <1>2, FS_Product
<1>4. this \in all /\ this \notin Begun /\ Begun \subseteq all
  BY DEF Types, RequestsOK, Begun
<1>5. Cardinality(Begun) <= Cardinality(all) /\ (Cardinality(Begun) = Cardinality(all) => all = Begun)
      /\ IsFiniteSet(Begun)
  BY <1>3, <1>4, FS_Subset
<1>6. Cardinality(Begun) \in Nat
  BY <1>5, FS_CardinalityType
<1>7. Cardinality(Begun) < MaxRequests * 2
  BY <1>3, <1>4, <1>5, <1>6, Constants
<1>. QED
  BY <1>6, <1>7, Constants DEF Counted, Process, Types, ProcessesOK

LEMMA WorkerStep ==
  ASSUME Types, Counted, [Next]_vars
  PROVE  WorkerOK'
<1>. USE Constants, Empty DEF WorkerOK, Types, Request
<1>1. CASE Press
  BY <1>1 DEF Press, requests, worker, processes, history
<1>2. ASSUME NEW r \in Request, Begin(r) PROVE WorkerOK'
  <2>1. CASE proc # 0 /\ alive[proc]
    BY <1>2, <2>1 DEF Begin, processes
  <2>2. CASE ~(proc # 0 /\ alive[proc])
    <3>1. /\ _io_lock' = r /\ spawned' = spawned + 1 /\ proc' = spawned + 1
          /\ _stdout_q' = <<>> /\ inited' = FALSE
      BY <1>2, <2>2 DEF Begin
    <3>2. r \in Nat
      BY DEF Request
    <3>3. _stdout_q' \in Seq(Lines)
      BY <3>1, Empty
    <3>. QED
      BY ONLY <3>1, <3>2, <3>3 DEF WorkerOK
  <2>. QED
    BY <2>1, <2>2
<1>3. ASSUME NEW r \in Request, Send(r) PROVE WorkerOK'
  BY <1>3 DEF Send, SendCmd, Raises, Job, requests, worker, processes, history
<1>4. ASSUME NEW r \in Request, InitOk(r) PROVE WorkerOK'
  BY <1>4, Taken DEF InitOk, Got, Job, requests, worker, processes, history
<1>5. ASSUME NEW r \in Request, Report(r) PROVE WorkerOK'
  BY <1>5, Taken DEF Report, Got, Job, requests, worker, processes, history
<1>6. ASSUME NEW r \in Request, Unexpected(r) PROVE WorkerOK'
  BY <1>6, Taken DEF Unexpected, Got, Raises, Job, requests, worker, processes, history
<1>7. ASSUME NEW r \in Request, Timeout(r) PROVE WorkerOK'
  BY <1>7 DEF Timeout, Raises, Job, Fault, Disturb, requests, worker, processes, history
<1>8. ASSUME NEW r \in Request, Close(r) PROVE WorkerOK'
  BY <1>8 DEF Close, Job, Disturb, requests, worker, processes, history
<1>9. ASSUME NEW r \in Request, Retry(r) PROVE WorkerOK'
  <2>1. CASE victim[r] # 0 /\ alive[victim[r]]
    <3>1. victim[r] \in Process
      BY <2>1 DEF RequestsOK, Process
    <3>. QED
      BY <1>9, <2>1, <3>1, EndsEffect DEF Retry
  <2>2. CASE ~(victim[r] # 0 /\ alive[victim[r]])
    BY <1>9, <2>2 DEF Retry
  <2>. QED
    BY <2>1, <2>2
<1>10. ASSUME NEW n \in Process, Serve(n) PROVE WorkerOK'
  <2>1. PICK line \in Lines : Writes(n, line)
    BY <1>10, ServedLine
  <2>. QED
    BY <1>10, <2>1, WritesEffect DEF Serve
<1>11. ASSUME NEW n \in Process, Crash(n) PROVE WorkerOK'
  BY <1>11, EndsEffect DEF Crash
<1>12. ASSUME NEW n \in Process, Pump(n) PROVE WorkerOK'
  <2>1. Head(behind[n]) \in Lines
    BY <1>12, Taken DEF Pump, ProcessesOK
  <2>. QED
    BY <1>12, <2>1, Appended DEF Pump
<1>13. CASE UNCHANGED vars
  BY <1>13 DEF vars, requests, worker, processes, history
<1>. QED
  BY <1>1, <1>2, <1>3, <1>4, <1>5, <1>6, <1>7, <1>8, <1>9, <1>10, <1>11, <1>12, <1>13
     DEF Next, Thread

(* A command that is sent.                                                  *)
LEMMA SendEffect ==
  ASSUME Types, NEW r \in Request, Send(r), proc # 0, alive[proc]
  PROVE  /\ proc \in Process /\ proc = spawned
         /\ UNCHANGED <<_io_lock, proc, _stdout_q, inited, spawned, alive, behind, history, result>>
         /\ \E line \in Lines :
              /\ stdin' = [stdin EXCEPT ![proc] = Append(stdin[proc], line)]
              /\ \/ /\ line.type = "init" /\ pc[r] = "init"
                    /\ pc' = [pc EXCEPT ![r] = "awaitInit"]
                 \/ /\ line.type = "validate" /\ line.of = r /\ pc[r] = "validate"
                    /\ pc' = [pc EXCEPT ![r] = "awaitReport"]
<1>1. proc \in Process /\ proc = spawned /\ r \in Nat /\ r # 0
  BY Constants DEF Types, WorkerOK, ProcessesOK, Process, Request
<1>2. UNCHANGED <<_io_lock, proc, _stdout_q, inited, spawned, alive, behind, history, result>>
  BY DEF Send, SendCmd, worker
<1>3. CASE SendCmd(r, "init", 0, "awaitInit")
  <2>1. /\ Line("init", 0) \in Lines /\ Line("init", 0).type = "init"
    BY LineType
  <2>2. /\ stdin' = [stdin EXCEPT ![proc] = Append(stdin[proc], Line("init", 0))]
        /\ pc[r] = "init" /\ pc' = [pc EXCEPT ![r] = "awaitInit"]
    BY <1>3 DEF SendCmd, Job
  <2>. QED
    BY <1>1, <1>2, <2>1, <2>2
<1>4. CASE SendCmd(r, "validate", r, "awaitReport")
  <2>1. /\ Line("validate", r) \in Lines /\ Line("validate", r).type = "validate"
        /\ Line("validate", r).of = r
    BY <1>1, LineType
  <2>2. /\ stdin' = [stdin EXCEPT ![proc] = Append(stdin[proc], Line("validate", r))]
        /\ pc[r] = "validate" /\ pc' = [pc EXCEPT ![r] = "awaitReport"]
    BY <1>4 DEF SendCmd, Job
  <2>. QED
    BY <1>1, <1>2, <2>1, <2>2
<1>. QED
  BY <1>3, <1>4 DEF Send

LEMMA SendRaises ==
  ASSUME Types, NEW r \in Request, Send(r), ~(proc # 0 /\ alive[proc])
  PROVE  /\ UNCHANGED <<proc, _stdout_q, inited, processes, history, attempt, victim, result>>
         /\ _io_lock' = 0 /\ pc[r] \in {"init", "validate"}
         /\ pc' = [pc EXCEPT ![r] = IF attempt[r] = 1 THEN "close" ELSE "done"]
<1>1. CASE SendCmd(r, "init", 0, "awaitInit")
  BY <1>1 DEF SendCmd, Raises, Job
<1>2. CASE SendCmd(r, "validate", r, "awaitReport")
  BY <1>2 DEF SendCmd, Raises, Job
<1>. QED
  BY <1>1, <1>2 DEF Send


LEMMA ProcessesStep ==
  ASSUME Types, Counted, [Next]_vars
  PROVE  ProcessesOK'
<1>. USE Constants, Empty DEF Types, ProcessesOK
<1>1. CASE Press
  BY <1>1 DEF Press, requests, worker, processes, history
<1>2. ASSUME NEW r \in Request, Begin(r) PROVE ProcessesOK'
  <2>1. CASE proc # 0 /\ alive[proc]
    BY <1>2, <2>1 DEF Begin, processes
  <2>2. CASE ~(proc # 0 /\ alive[proc])
    <3>1. spawned + 1 \in Process
      BY <1>2, Room DEF Begin, Job
    <3>2. /\ spawned' = spawned + 1 /\ stdin' = stdin
          /\ alive' = [alive EXCEPT ![spawned + 1] = TRUE]
      BY <1>2, <2>2 DEF Begin
    <3>3. behind' \in [Process -> Seq(Lines)]
      <4>1. CASE spawned = 0
        BY <1>2, <2>2, <4>1 DEF Begin
      <4>2. CASE spawned # 0
        <5>1. PICK k \in 1..(Len(_stdout_q) + 1) :
                behind' = [behind EXCEPT ![spawned] = SubSeq(_stdout_q, k, Len(_stdout_q))]
          BY <1>2, <2>2, <4>2 DEF Begin
        <5>2. /\ Len(_stdout_q) \in Nat /\ \A i \in k..Len(_stdout_q) : _stdout_q[i] \in Lines
          BY DEF WorkerOK
        <5>3. SubSeq(_stdout_q, k, Len(_stdout_q)) \in Seq(Lines)
          BY <5>2, SubSeqProperties
        <5>. QED
          BY <5>1, <5>3
      <4>. QED
        BY <4>1, <4>2
    <3>4. stdin \in [Process -> Seq(Lines)] /\ \A n \in Process : n > spawned => stdin[n] = <<>>
      OBVIOUS
    <3>5. spawned' \in 0..(2 * MaxRequests) /\ spawned \in Nat
      BY <3>1, <3>2, Constants DEF Process
    <3>6. alive' \in [Process -> BOOLEAN]
      BY <3>2
    <3>7. \A n \in Process : n > spawned' => stdin'[n] = <<>>
      BY <3>2, <3>4, <3>5 DEF Process
    <3>. QED
      BY ONLY <3>2, <3>3, <3>4, <3>5, <3>6, <3>7 DEF ProcessesOK
  <2>. QED
    BY <2>1, <2>2
<1>3. ASSUME NEW r \in Request, Send(r) PROVE ProcessesOK'
  <2>1. CASE proc # 0 /\ alive[proc]
    <3>1. PICK line \in Lines : stdin' = [stdin EXCEPT ![proc] = Append(stdin[proc], line)]
      BY <1>3, <2>1, SendEffect
    <3>2. /\ proc \in Process /\ proc = spawned /\ UNCHANGED <<spawned, alive, behind>>
      BY <1>3, <2>1, SendEffect
    <3>3. Append(stdin[proc], line) \in Seq(Lines)
      BY <3>2, Appended
    <3>. QED
      BY <3>1, <3>2, <3>3
  <2>2. CASE ~(proc # 0 /\ alive[proc])
    BY <1>3, <2>2, SendRaises DEF processes
  <2>. QED
    BY <2>1, <2>2
<1>4. ASSUME NEW r \in Request, InitOk(r) PROVE ProcessesOK'
  BY <1>4 DEF InitOk, Got, Job, requests, worker, processes, history
<1>5. ASSUME NEW r \in Request, Report(r) PROVE ProcessesOK'
  BY <1>5 DEF Report, Got, Job, requests, worker, processes, history
<1>6. ASSUME NEW r \in Request, Unexpected(r) PROVE ProcessesOK'
  BY <1>6 DEF Unexpected, Got, Raises, Job, requests, worker, processes, history
<1>7. ASSUME NEW r \in Request, Timeout(r) PROVE ProcessesOK'
  BY <1>7 DEF Timeout, Raises, Job, Fault, Disturb, requests, worker, processes, history
<1>8. ASSUME NEW r \in Request, Close(r) PROVE ProcessesOK'
  <2>1. CASE proc # 0 /\ alive[proc]
    <3>1. proc \in Process /\ proc = spawned
      BY <2>1, Constants DEF WorkerOK, Process
    <3>2. Append(stdin[proc], Line("shutdown", 0)) \in Seq(Lines)
      BY <3>1, LineType, Appended
    <3>. QED
      BY <1>8, <2>1, <3>1, <3>2 DEF Close
  <2>2. CASE ~(proc # 0 /\ alive[proc])
    BY <1>8, <2>2 DEF Close
  <2>. QED
    BY <2>1, <2>2
<1>9. ASSUME NEW r \in Request, Retry(r) PROVE ProcessesOK'
  <2>1. CASE victim[r] # 0 /\ alive[victim[r]]
    <3>1. victim[r] \in Process
      BY <2>1 DEF RequestsOK, Process
    <3>. QED
      BY <1>9, <2>1, <3>1, EndsEffect DEF Retry
  <2>2. CASE ~(victim[r] # 0 /\ alive[victim[r]])
    BY <1>9, <2>2 DEF Retry
  <2>. QED
    BY <2>1, <2>2
<1>10. ASSUME NEW n \in Process, Serve(n) PROVE ProcessesOK'
  <2>1. /\ stdin[n] # <<>> /\ stdin' = [stdin EXCEPT ![n] = Tail(stdin[n])]
        /\ \E line \in Lines : Writes(n, line)
    BY <1>10, ServedLine
  <2>2. behind' \in [Process -> Seq(Lines)]
    BY <2>1, WritesEffect
  <2>3. Tail(stdin[n]) \in Seq(Lines)
    BY <2>1, Taken
  <2>. QED
    BY <1>10, <2>1, <2>2, <2>3 DEF Serve
<1>11. ASSUME NEW n \in Process, Crash(n) PROVE ProcessesOK'
  BY <1>11, EndsEffect DEF Crash
<1>12. ASSUME NEW n \in Process, Pump(n) PROVE ProcessesOK'
  <2>1. Tail(behind[n]) \in Seq(Lines)
    BY <1>12, Taken DEF Pump
  <2>. QED
    BY <1>12, <2>1 DEF Pump
<1>13. CASE UNCHANGED vars
  BY <1>13 DEF vars, requests, worker, processes, history
<1>. QED
  BY <1>1, <1>2, <1>3, <1>4, <1>5, <1>6, <1>7, <1>8, <1>9, <1>10, <1>11, <1>12, <1>13
     DEF Next, Thread

LEMMA HistoryStep ==
  ASSUME Types, [Next]_vars
  PROVE  HistoryOK'
<1>. USE DEF Types, HistoryOK
<1>1. CASE Press
  BY <1>1 DEF Press, requests, worker, processes, history
<1>2. ASSUME NEW r \in Request, Begin(r) PROVE HistoryOK'
  BY <1>2 DEF Begin, Job, requests, worker, processes, history
<1>3. ASSUME NEW r \in Request, Send(r) PROVE HistoryOK'
  BY <1>3 DEF Send, SendCmd, Raises, Job, requests, worker, processes, history
<1>4. ASSUME NEW r \in Request, InitOk(r) PROVE HistoryOK'
  BY <1>4 DEF InitOk, Got, Job, requests, worker, processes, history
<1>5. ASSUME NEW r \in Request, Report(r) PROVE HistoryOK'
  BY <1>5 DEF Report, Got, Job, requests, worker, processes, history
<1>6. ASSUME NEW r \in Request, Unexpected(r) PROVE HistoryOK'
  BY <1>6 DEF Unexpected, Got, Raises, Job, requests, worker, processes, history
<1>7. ASSUME NEW r \in Request, Timeout(r) PROVE HistoryOK'
  BY <1>7 DEF Timeout, Raises, Job, Fault, Disturb, requests, worker, processes, history
<1>8. ASSUME NEW r \in Request, Close(r) PROVE HistoryOK'
  BY <1>8 DEF Close, Job, Disturb, requests, worker, processes, history
<1>9. ASSUME NEW r \in Request, Retry(r) PROVE HistoryOK'
  BY <1>9 DEF Retry, Job, requests, worker, processes, history
<1>10. ASSUME NEW n \in Process, Serve(n) PROVE HistoryOK'
  BY <1>10 DEF Serve, requests, worker, processes, history
<1>11. ASSUME NEW n \in Process, Crash(n) PROVE HistoryOK'
  BY <1>11 DEF Crash, Fault, requests, worker, processes, history
<1>12. ASSUME NEW n \in Process, Pump(n) PROVE HistoryOK'
  BY <1>12 DEF Pump, Disturb, requests, worker, processes, history
<1>13. CASE UNCHANGED vars
  BY <1>13 DEF vars, requests, worker, processes, history
<1>. QED
  BY <1>1, <1>2, <1>3, <1>4, <1>5, <1>6, <1>7, <1>8, <1>9, <1>10, <1>11, <1>12, <1>13
     DEF Next, Thread

(* No attempt is forgotten.                                                 *)
LEMMA BegunGrows ==
  ASSUME Types, Counted, [Next]_vars
  PROVE  Begun \subseteq Begun'
<1>. USE DEF Types, RequestsOK, Begun
<1>1. CASE Press
  <2>1. pressed + 1 \in Request /\ pc[pressed + 1] = "none" /\ attempt' = attempt
        /\ pc' = [pc EXCEPT ![pressed + 1] = "acquire"]
    BY <1>1, Constants DEF Press, Request, Counted, Attempted
  <2>. QED
    BY <2>1
<1>2. ASSUME NEW r \in Request, Begin(r) PROVE Begun \subseteq Begun'
  BY <1>2 DEF Begin, Job, requests, worker, processes, history
<1>3. ASSUME NEW r \in Request, Send(r) PROVE Begun \subseteq Begun'
  BY <1>3 DEF Send, SendCmd, Raises, Job, requests, worker, processes, history
<1>4. ASSUME NEW r \in Request, InitOk(r) PROVE Begun \subseteq Begun'
  BY <1>4 DEF InitOk, Got, Job, requests, worker, processes, history
<1>5. ASSUME NEW r \in Request, Report(r) PROVE Begun \subseteq Begun'
  BY <1>5 DEF Report, Got, Job, requests, worker, processes, history
<1>6. ASSUME NEW r \in Request, Unexpected(r) PROVE Begun \subseteq Begun'
  BY <1>6 DEF Unexpected, Got, Raises, Job, requests, worker, processes, history
<1>7. ASSUME NEW r \in Request, Timeout(r) PROVE Begun \subseteq Begun'
  BY <1>7 DEF Timeout, Raises, Job, Fault, Disturb, requests, worker, processes, history
<1>8. ASSUME NEW r \in Request, Close(r) PROVE Begun \subseteq Begun'
  BY <1>8 DEF Close, Job, Disturb, requests, worker, processes, history
<1>9. ASSUME NEW r \in Request, Retry(r) PROVE Begun \subseteq Begun'
  <2>1. /\ attempt[r] = 1 /\ attempt' = [attempt EXCEPT ![r] = 2]
        /\ pc' = [pc EXCEPT ![r] = "acquire"]
    BY <1>9 DEF Retry, Job, Counted, Attempted
  <2>. QED
    BY <2>1
<1>10. ASSUME NEW n \in Process, Serve(n) PROVE Begun \subseteq Begun'
  BY <1>10 DEF Serve, requests, worker, processes, history
<1>11. ASSUME NEW n \in Process, Crash(n) PROVE Begun \subseteq Begun'
  BY <1>11 DEF Crash, Fault, requests, worker, processes, history
<1>12. ASSUME NEW n \in Process, Pump(n) PROVE Begun \subseteq Begun'
  BY <1>12 DEF Pump, Disturb, requests, worker, processes, history
<1>13. CASE UNCHANGED vars
  BY <1>13 DEF vars, requests, worker, processes, history
<1>. QED
  BY <1>1, <1>2, <1>3, <1>4, <1>5, <1>6, <1>7, <1>8, <1>9, <1>10, <1>11, <1>12, <1>13
     DEF Next, Thread

LEMMA BegunFinite ==
  ASSUME NEW S \in SUBSET (Request \X (1..2))
  PROVE  IsFiniteSet(S) /\ Cardinality(S) \in Nat
<1>1. 1 \in Int /\ 2 \in Int /\ MaxRequests \in Int
  BY Constants
<1>2. IsFiniteSet(1..MaxRequests) /\ IsFiniteSet(1..2)
  BY <1>1, FS_Interval
<1>3. IsFiniteSet(Request \X (1..2))
  BY <1>2, FS_Product DEF Request
<1>. QED
  BY <1>3, FS_Subset, FS_CardinalityType

LEMMA AttemptedStep ==
  ASSUME Types, Counted, [Next]_vars
  PROVE  Attempted'
<1>. USE Constants DEF Types, RequestsOK, Counted, Attempted, Request
<1>1. CASE Press
  BY <1>1 DEF Press, requests, worker, processes, history
<1>2. ASSUME NEW r \in Request, Begin(r) PROVE Attempted'
  BY <1>2 DEF Begin, Job, requests, worker, processes, history
<1>3. ASSUME NEW r \in Request, Send(r) PROVE Attempted'
  BY <1>3 DEF Send, SendCmd, Raises, Job, requests, worker, processes, history
<1>4. ASSUME NEW r \in Request, InitOk(r) PROVE Attempted'
  BY <1>4 DEF InitOk, Got, Job, requests, worker, processes, history
<1>5. ASSUME NEW r \in Request, Report(r) PROVE Attempted'
  BY <1>5 DEF Report, Got, Job, requests, worker, processes, history
<1>6. ASSUME NEW r \in Request, Unexpected(r) PROVE Attempted'
  BY <1>6 DEF Unexpected, Got, Raises, Job, requests, worker, processes, history
<1>7. ASSUME NEW r \in Request, Timeout(r) PROVE Attempted'
  BY <1>7 DEF Timeout, Raises, Job, Fault, Disturb, requests, worker, processes, history
<1>8. ASSUME NEW r \in Request, Close(r) PROVE Attempted'
  BY <1>8 DEF Close, Job, Disturb, requests, worker, processes, history
<1>9. ASSUME NEW r \in Request, Retry(r) PROVE Attempted'
  BY <1>9 DEF Retry, Job, requests, worker, processes, history
<1>10. ASSUME NEW n \in Process, Serve(n) PROVE Attempted'
  BY <1>10 DEF Serve, requests, worker, processes, history
<1>11. ASSUME NEW n \in Process, Crash(n) PROVE Attempted'
  BY <1>11 DEF Crash, Fault, requests, worker, processes, history
<1>12. ASSUME NEW n \in Process, Pump(n) PROVE Attempted'
  BY <1>12 DEF Pump, Disturb, requests, worker, processes, history
<1>13. CASE UNCHANGED vars
  BY <1>13 DEF vars, requests, worker, processes, history
<1>. QED
  BY <1>1, <1>2, <1>3, <1>4, <1>5, <1>6, <1>7, <1>8, <1>9, <1>10, <1>11, <1>12, <1>13
     DEF Next, Thread

SpawnsByBegin == spawned' = spawned \/ \E q \in Request : Begin(q) /\ spawned' = spawned + 1

LEMMA OnlyBeginSpawns ==
  ASSUME [Next]_vars
  PROVE  SpawnsByBegin
<1>. USE DEF SpawnsByBegin
<1>1. CASE Press
  BY <1>1 DEF Press, requests, worker, processes, history
<1>2. ASSUME NEW r \in Request, Begin(r) PROVE SpawnsByBegin
  BY <1>2 DEF Begin, Job, requests, worker, processes, history
<1>3. ASSUME NEW r \in Request, Send(r) PROVE SpawnsByBegin
  BY <1>3 DEF Send, SendCmd, Raises, Job, requests, worker, processes, history
<1>4. ASSUME NEW r \in Request, InitOk(r) PROVE SpawnsByBegin
  BY <1>4 DEF InitOk, Got, Job, requests, worker, processes, history
<1>5. ASSUME NEW r \in Request, Report(r) PROVE SpawnsByBegin
  BY <1>5 DEF Report, Got, Job, requests, worker, processes, history
<1>6. ASSUME NEW r \in Request, Unexpected(r) PROVE SpawnsByBegin
  BY <1>6 DEF Unexpected, Got, Raises, Job, requests, worker, processes, history
<1>7. ASSUME NEW r \in Request, Timeout(r) PROVE SpawnsByBegin
  BY <1>7 DEF Timeout, Raises, Job, Fault, Disturb, requests, worker, processes, history
<1>8. ASSUME NEW r \in Request, Close(r) PROVE SpawnsByBegin
  BY <1>8 DEF Close, Job, Disturb, requests, worker, processes, history
<1>9. ASSUME NEW r \in Request, Retry(r) PROVE SpawnsByBegin
  BY <1>9 DEF Retry, Job, requests, worker, processes, history
<1>10. ASSUME NEW n \in Process, Serve(n) PROVE SpawnsByBegin
  BY <1>10 DEF Serve, requests, worker, processes, history
<1>11. ASSUME NEW n \in Process, Crash(n) PROVE SpawnsByBegin
  BY <1>11 DEF Crash, Fault, requests, worker, processes, history
<1>12. ASSUME NEW n \in Process, Pump(n) PROVE SpawnsByBegin
  BY <1>12 DEF Pump, Disturb, requests, worker, processes, history
<1>13. CASE UNCHANGED vars
  BY <1>13 DEF vars, requests, worker, processes, history
<1>. QED
  BY <1>1, <1>2, <1>3, <1>4, <1>5, <1>6, <1>7, <1>8, <1>9, <1>10, <1>11, <1>12, <1>13
     DEF Next, Thread

LEMMA CountedStep ==
  ASSUME Types, Counted, [Next]_vars, Types'
  PROVE  Counted'
<1>1. /\ Begun \subseteq Begun' /\ IsFiniteSet(Begun') /\ IsFiniteSet(Begun)
      /\ Cardinality(Begun) \in Nat /\ Cardinality(Begun') \in Nat
  <2>1. Begun \in SUBSET (Request \X (1..2)) /\ Begun' \in SUBSET (Request \X (1..2))
    BY DEF Begun
  <2>. QED
    BY <2>1, BegunGrows, BegunFinite
<1>2. Cardinality(Begun) <= Cardinality(Begun')
  BY <1>1, FS_Subset
<1>5. spawned \in Nat /\ spawned <= Cardinality(Begun)
  BY Constants DEF Counted, Types, ProcessesOK
<1>6. spawned' <= Cardinality(Begun') => Counted'
  BY AttemptedStep DEF Counted
<1>3. CASE spawned' = spawned
  BY <1>1, <1>2, <1>3, <1>5, <1>6
<1>4. CASE spawned' # spawned
  <2>1. PICK r \in Request : Begin(r) /\ spawned' = spawned + 1
    BY <1>4, OnlyBeginSpawns DEF SpawnsByBegin
  <2>. DEFINE this == <<r, attempt[r]>>
  <2>2. this \notin Begun /\ this \in Begun'
    BY <2>1 DEF Begin, Job, Begun, Types, RequestsOK
  <2>3. Cardinality(Begun \cup {this}) = Cardinality(Begun) + 1
    BY <1>1, <2>2, FS_AddElement
  <2>4. Cardinality(Begun \cup {this}) <= Cardinality(Begun')
    BY <1>1, <2>2, FS_Subset
  <2>. QED
    BY <1>1, <1>5, <1>6, <2>1, <2>3, <2>4
<1>. QED
  BY <1>3, <1>4

(* The lock is held by one thread at a time, from its choice of a process on.*)
LEMMA LockedStep ==
  ASSUME Types, Locked, Counted, [Next]_vars
  PROVE  Locked'
<1>. USE Constants DEF Types, RequestsOK, Locked, Holding, Request
<1>1. CASE Press
  BY <1>1 DEF Press, requests, worker, processes, history, Counted, Attempted
<1>2. ASSUME NEW r \in Request, Begin(r) PROVE Locked'
  BY <1>2 DEF Begin, Job, requests, worker, processes, history
<1>3. ASSUME NEW r \in Request, Send(r) PROVE Locked'
  <2>1. CASE proc # 0 /\ alive[proc]
    <3>1. _io_lock' = _io_lock
      BY <1>3, <2>1, SendEffect
    <3>2. \/ pc[r] = "init" /\ pc' = [pc EXCEPT ![r] = "awaitInit"]
          \/ pc[r] = "validate" /\ pc' = [pc EXCEPT ![r] = "awaitReport"]
      BY <1>3, <2>1, SendEffect
    <3>. QED
      BY <3>1, <3>2
  <2>2. CASE ~(proc # 0 /\ alive[proc])
    BY <1>3, <2>2, SendRaises
  <2>. QED
    BY <2>1, <2>2
<1>4. ASSUME NEW r \in Request, InitOk(r) PROVE Locked'
  BY <1>4 DEF InitOk, Got, Job, requests, worker, processes, history
<1>5. ASSUME NEW r \in Request, Report(r) PROVE Locked'
  BY <1>5 DEF Report, Got, Job, requests, worker, processes, history
<1>6. ASSUME NEW r \in Request, Unexpected(r) PROVE Locked'
  BY <1>6 DEF Unexpected, Got, Raises, Job, requests, worker, processes, history
<1>7. ASSUME NEW r \in Request, Timeout(r) PROVE Locked'
  BY <1>7 DEF Timeout, Raises, Job, Fault, Disturb, requests, worker, processes, history
<1>8. ASSUME NEW r \in Request, Close(r) PROVE Locked'
  BY <1>8 DEF Close, Job, Disturb, requests, worker, processes, history
<1>9. ASSUME NEW r \in Request, Retry(r) PROVE Locked'
  BY <1>9 DEF Retry, Job, requests, worker, processes, history
<1>10. ASSUME NEW n \in Process, Serve(n) PROVE Locked'
  BY <1>10 DEF Serve, requests, worker, processes, history
<1>11. ASSUME NEW n \in Process, Crash(n) PROVE Locked'
  BY <1>11 DEF Crash, Fault, requests, worker, processes, history
<1>12. ASSUME NEW n \in Process, Pump(n) PROVE Locked'
  BY <1>12 DEF Pump, Disturb, requests, worker, processes, history
<1>13. CASE UNCHANGED vars
  BY <1>13 DEF vars, requests, worker, processes, history
<1>. QED
  BY <1>1, <1>2, <1>3, <1>4, <1>5, <1>6, <1>7, <1>8, <1>9, <1>10, <1>11, <1>12, <1>13
     DEF Next, Thread

(* Faults and disturbances are never forgotten.                             *)
HistoryKept == faults' \in Nat /\ faults <= faults' /\ disturbed \subseteq disturbed'

LEMMA HistoryGrows ==
  ASSUME Types, [Next]_vars
  PROVE  HistoryKept
<1>. USE DEF Types, HistoryOK, HistoryKept
<1>1. CASE Press
  BY <1>1 DEF Press, requests, worker, processes, history
<1>2. ASSUME NEW r \in Request, Begin(r) PROVE HistoryKept
  BY <1>2 DEF Begin, Job, requests, worker, processes, history
<1>3. ASSUME NEW r \in Request, Send(r) PROVE HistoryKept
  BY <1>3 DEF Send, SendCmd, Raises, Job, requests, worker, processes, history
<1>4. ASSUME NEW r \in Request, InitOk(r) PROVE HistoryKept
  BY <1>4 DEF InitOk, Got, Job, requests, worker, processes, history
<1>5. ASSUME NEW r \in Request, Report(r) PROVE HistoryKept
  BY <1>5 DEF Report, Got, Job, requests, worker, processes, history
<1>6. ASSUME NEW r \in Request, Unexpected(r) PROVE HistoryKept
  BY <1>6 DEF Unexpected, Got, Raises, Job, requests, worker, processes, history
<1>7. ASSUME NEW r \in Request, Timeout(r) PROVE HistoryKept
  BY <1>7 DEF Timeout, Raises, Job, Fault, Disturb, requests, worker, processes, history
<1>8. ASSUME NEW r \in Request, Close(r) PROVE HistoryKept
  BY <1>8 DEF Close, Job, Disturb, requests, worker, processes, history
<1>9. ASSUME NEW r \in Request, Retry(r) PROVE HistoryKept
  BY <1>9 DEF Retry, Job, requests, worker, processes, history
<1>10. ASSUME NEW n \in Process, Serve(n) PROVE HistoryKept
  BY <1>10 DEF Serve, requests, worker, processes, history
<1>11. ASSUME NEW n \in Process, Crash(n) PROVE HistoryKept
  BY <1>11 DEF Crash, Fault, requests, worker, processes, history
<1>12. ASSUME NEW n \in Process, Pump(n) PROVE HistoryKept
  BY <1>12 DEF Pump, Disturb, requests, worker, processes, history
<1>13. CASE UNCHANGED vars
  BY <1>13 DEF vars, requests, worker, processes, history
<1>. QED
  BY <1>1, <1>2, <1>3, <1>4, <1>5, <1>6, <1>7, <1>8, <1>9, <1>10, <1>11, <1>12, <1>13
     DEF Next, Thread

(* While nothing disturbs it, the worker and its process alternate.         *)
LEMMA DisturbedGrows ==
  ASSUME Types, [Next]_vars, Undisturbed'
  PROVE  /\ Undisturbed /\ ~(\E r \in Request : Timeout(r)) /\ ~(\E n \in Process : Pump(n))
<1>1. disturbed \subseteq disturbed'
  BY HistoryGrows DEF HistoryKept
<1>2. ASSUME NEW r \in Request, Timeout(r) PROVE FALSE
  BY <1>2 DEF Timeout, Disturb, Undisturbed
<1>3. ASSUME NEW n \in Process, Pump(n) PROVE FALSE
  BY <1>3 DEF Pump, Disturb, Undisturbed
<1>. QED
  BY <1>1, <1>2, <1>3 DEF Undisturbed

LEMMA CurrentProcess ==
  ASSUME Types, proc # 0
  PROVE  proc = spawned /\ proc \in Process /\ stdin[proc] \in Seq(Lines)
  BY Constants DEF Types, WorkerOK, ProcessesOK, Process

LEMMA OrderlyStep ==
  ASSUME Types, Types', Counted, Locked, Orderly, [Next]_vars,
         ~(\E r \in Request : Timeout(r)), ~(\E n \in Process : Pump(n))
  PROVE  Orderly'
<1>. USE Constants
<1>1. CASE Press
  <2>1. UNCHANGED <<worker, processes>>
    BY <1>1 DEF Press
  <2>2. \A q \in Request : pc[q] \in {"awaitInit", "awaitReport"} => pc'[q] = pc[q]
    BY <1>1 DEF Press, Counted, Attempted, Types, RequestsOK, Request
  <2>. QED
    BY <2>1, <2>2 DEF Orderly, Idle, Awaiting, worker, processes
<1>2. ASSUME NEW r \in Request, Begin(r) PROVE Orderly'
  <2>1. _io_lock = 0 /\ \A q \in Request : q # 0
    BY <1>2 DEF Begin, Request
  <2>2. CASE proc # 0 /\ alive[proc]
    <3>1. Idle
      BY <2>1, <2>2 DEF Orderly, Awaiting
    <3>. QED
      BY <1>2, <2>2, <3>1 DEF Begin, processes, Orderly, Idle
  <2>3. CASE ~(proc # 0 /\ alive[proc])
    <3>1. spawned + 1 \in Process /\ spawned \in Nat
      BY <1>2, Room DEF Begin, Job, Types, ProcessesOK
    <3>2. proc' = spawned + 1 /\ stdin' = stdin /\ _stdout_q' = <<>>
      BY <1>2, <2>3 DEF Begin
    <3>3. stdin[spawned + 1] = <<>>
      BY <3>1 DEF Types, ProcessesOK
    <3>. QED
      BY <3>2, <3>3 DEF Orderly, Idle
  <2>. QED
    BY <2>2, <2>3
<1>3. ASSUME NEW r \in Request, Send(r) PROVE Orderly'
  <2>1. CASE proc # 0 /\ alive[proc]
    <3>1. PICK line \in Lines :
            /\ stdin' = [stdin EXCEPT ![proc] = Append(stdin[proc], line)]
            /\ \/ /\ line.type = "init" /\ pc[r] = "init"
                  /\ pc' = [pc EXCEPT ![r] = "awaitInit"]
               \/ /\ line.type = "validate" /\ line.of = r /\ pc[r] = "validate"
                  /\ pc' = [pc EXCEPT ![r] = "awaitReport"]
      BY <1>3, <2>1, SendEffect
    <3>2. /\ proc \in Process /\ UNCHANGED <<_io_lock, proc, _stdout_q, alive>>
      BY <1>3, <2>1, SendEffect
    <3>3. _io_lock = r
      BY <3>1 DEF Locked, Holding
    <3>4. Idle
      BY <2>1, <3>1, <3>3 DEF Orderly, Awaiting
    <3>5. stdin'[proc] = Append(stdin[proc], line)
      BY <3>1, <3>2 DEF Types, ProcessesOK
    <3>6. Len(stdin'[proc]) = 1 /\ stdin'[proc][1] = line
      BY <3>4, <3>5, Appended, Empty DEF Idle
    <3>7. \/ line.type = "init" /\ pc'[r] = "awaitInit"
          \/ line.type = "validate" /\ pc'[r] = "awaitReport"
      BY <3>1 DEF Types, RequestsOK
    <3>. QED
      BY <3>2, <3>3, <3>4, <3>6, <3>7 DEF Orderly, Idle, Awaiting
  <2>2. CASE ~(proc # 0 /\ alive[proc])
    BY <1>3, <2>2, SendRaises DEF Orderly, processes
  <2>. QED
    BY <2>1, <2>2
<1>4. ASSUME NEW r \in Request, InitOk(r) PROVE Orderly'
  <2>1. /\ UNCHANGED <<proc, alive, stdin>> /\ pc[r] = "awaitInit"
        /\ _stdout_q # <<>> /\ _stdout_q' = Tail(_stdout_q)
    BY <1>4 DEF InitOk, Got, Job, processes
  <2>2. _io_lock = r
    BY <2>1 DEF Locked, Holding
  <2>3. CASE proc # 0 /\ alive[proc]
    <3>1. Awaiting("awaitInit", "init", "ok")
      BY <2>1, <2>2, <2>3 DEF Orderly, Idle, Awaiting
    <3>2. stdin[proc] = <<>> /\ Len(_stdout_q) = 1
      BY <2>1, <3>1 DEF Awaiting
    <3>3. Tail(_stdout_q) = <<>>
      BY <2>1, <3>2, Taken, NoLines DEF Types, WorkerOK
    <3>. QED
      BY <2>1, <3>2, <3>3 DEF Orderly, Idle
  <2>4. CASE ~(proc # 0 /\ alive[proc])
    BY <2>1, <2>4 DEF Orderly
  <2>. QED
    BY <2>3, <2>4
<1>5. ASSUME NEW r \in Request, Report(r) PROVE Orderly'
  <2>1. /\ UNCHANGED <<proc, alive, stdin>> /\ pc[r] = "awaitReport"
        /\ _stdout_q # <<>> /\ _stdout_q' = Tail(_stdout_q)
    BY <1>5 DEF Report, Got, Job, processes
  <2>2. _io_lock = r
    BY <2>1 DEF Locked, Holding
  <2>3. CASE proc # 0 /\ alive[proc]
    <3>1. Awaiting("awaitReport", "validate", "report")
      BY <2>1, <2>2, <2>3 DEF Orderly, Idle, Awaiting
    <3>2. stdin[proc] = <<>> /\ Len(_stdout_q) = 1
      BY <2>1, <3>1 DEF Awaiting
    <3>3. Tail(_stdout_q) = <<>>
      BY <2>1, <3>2, Taken, NoLines DEF Types, WorkerOK
    <3>. QED
      BY <2>1, <3>2, <3>3 DEF Orderly, Idle
  <2>4. CASE ~(proc # 0 /\ alive[proc])
    BY <2>1, <2>4 DEF Orderly
  <2>. QED
    BY <2>3, <2>4
<1>6. ASSUME NEW r \in Request, Unexpected(r) PROVE Orderly'
  <2>1. /\ UNCHANGED <<proc, alive>> /\ _stdout_q # <<>>
        /\ \/ pc[r] = "awaitInit" /\ Head(_stdout_q).type \in {"report", "eof"}
           \/ pc[r] = "awaitReport" /\ Head(_stdout_q).type \in {"ok", "eof"}
    BY <1>6 DEF Unexpected, Got, processes
  <2>2. _io_lock = r
    BY <2>1 DEF Locked, Holding
  <2>3. Head(_stdout_q) = _stdout_q[1]
    BY <2>1, Taken DEF Types, WorkerOK
  <2>4. ~(proc # 0 /\ alive[proc])
    BY <2>1, <2>2, <2>3 DEF Orderly, Idle, Awaiting
  <2>. QED
    BY <2>1, <2>4 DEF Orderly
<1>7. ASSUME NEW r \in Request, Timeout(r) PROVE Orderly'
  BY <1>7
<1>8. ASSUME NEW r \in Request, Close(r) PROVE Orderly'
  BY <1>8 DEF Close, Orderly
<1>9. ASSUME NEW r \in Request, Retry(r) PROVE Orderly'
  <2>3. CASE victim[r] # 0 /\ alive[victim[r]]
    <3>1. CASE proc # 0 /\ alive'[proc]
      <4>1. proc = spawned /\ proc \in Process /\ victim[r] \in Process
        BY <3>1, <2>3, CurrentProcess DEF Types, RequestsOK, Process
      <4>2. Ends(victim[r]) /\ UNCHANGED <<_io_lock, proc, spawned>>
        BY <1>9, <2>3 DEF Retry
      <4>3. /\ alive' = [alive EXCEPT ![victim[r]] = FALSE] /\ stdin' = [stdin EXCEPT ![victim[r]] = <<>>]
            /\ _stdout_q' = IF victim[r] = spawned THEN Append(_stdout_q, Line("eof", 0)) ELSE _stdout_q
        BY <4>1, <4>2, EndsEffect DEF Types
      <4>4. victim[r] # proc /\ alive[proc]
        BY <3>1, <4>1, <4>3 DEF Types, ProcessesOK
      <4>5. stdin'[proc] = stdin[proc] /\ _stdout_q' = _stdout_q
        BY <4>1, <4>3, <4>4 DEF Types, ProcessesOK
      <4>6. \A q \in Request : pc[q] \in {"awaitInit", "awaitReport"} => pc'[q] = pc[q]
        BY <1>9 DEF Retry, Job, requests, Types, RequestsOK
      <4>. QED
        BY <4>2, <4>4, <4>5, <4>6 DEF Orderly, Idle, Awaiting
    <3>2. CASE ~(proc # 0 /\ alive'[proc])
      BY <1>9, <3>2 DEF Retry, Orderly
    <3>. QED
      BY <3>1, <3>2
  <2>4. CASE ~(victim[r] # 0 /\ alive[victim[r]])
    <3>1. UNCHANGED <<_io_lock, proc, _stdout_q, alive, stdin>>
      BY <1>9, <2>4 DEF Retry
    <3>2. \A q \in Request : pc[q] \in {"awaitInit", "awaitReport"} => pc'[q] = pc[q]
      BY <1>9 DEF Retry, Job, Types, RequestsOK
    <3>. QED
      BY <3>1, <3>2 DEF Orderly, Idle, Awaiting
  <2>. QED
    BY <2>3, <2>4
<1>10. ASSUME NEW n \in Process, Serve(n) PROVE Orderly'
  <2>1. PICK line \in Lines :
          /\ Writes(n, line)
          /\ line.type \in {"report", "ok"}
          /\ line.type = "report" <=> stdin[n][1].type = "validate"
    BY <1>10, ServedLine DEF Types
  <2>2. /\ stdin[n] # <<>> /\ stdin' = [stdin EXCEPT ![n] = Tail(stdin[n])]
        /\ stdin[n] \in Seq(Lines) /\ UNCHANGED <<pc, _io_lock, proc, alive>>
    BY <1>10, ServedLine DEF Serve, requests, Types, ProcessesOK
  <2>3. _stdout_q' = IF n = spawned THEN Append(_stdout_q, line) ELSE _stdout_q
    BY <2>1, WritesEffect DEF Types
  <2>4. CASE ~(proc # 0 /\ alive[proc])
    BY <2>2, <2>4 DEF Orderly
  <2>5. CASE (proc # 0 /\ alive[proc]) /\ n # proc
    <3>1. proc = spawned /\ proc \in Process
      BY <2>5, CurrentProcess
    <3>2. stdin'[proc] = stdin[proc] /\ _stdout_q' = _stdout_q
      BY <2>2, <2>3, <2>5, <3>1 DEF Types, ProcessesOK
    <3>. QED
      BY <2>2, <3>2 DEF Orderly, Idle, Awaiting
  <2>6. CASE (proc # 0 /\ alive[proc]) /\ n = proc
    <3>1. proc = spawned /\ proc \in Process
      BY <2>6, CurrentProcess
    <3>2. \/ Awaiting("awaitInit", "init", "ok")
          \/ Awaiting("awaitReport", "validate", "report")
      BY <2>2, <2>6 DEF Orderly, Idle
    <3>3. PICK q \in Request :
            /\ _io_lock = q /\ _stdout_q = <<>> /\ Len(stdin[proc]) = 1
            /\ \/ pc[q] = "awaitInit" /\ stdin[proc][1].type = "init"
               \/ pc[q] = "awaitReport" /\ stdin[proc][1].type = "validate"
      BY <2>2, <2>6, <3>2 DEF Awaiting
    <3>4. Tail(stdin[proc]) = <<>>
      <4>1. stdin[proc] \in Seq(Lines) /\ stdin[proc] # <<>> /\ Len(stdin[proc]) = 1
        BY <2>2, <2>6, <3>3
      <4>2. Tail(stdin[proc]) \in Seq(Lines) /\ Len(Tail(stdin[proc])) = 0
        BY <4>1, Taken
      <4>. QED
        BY <4>2, NoLines
    <3>5. stdin'[proc] = <<>>
      BY <2>2, <2>6, <3>4 DEF Types, ProcessesOK
    <3>6. _stdout_q' = Append(<<>>, line)
      BY <2>3, <2>6, <3>1, <3>3
    <3>7. Len(_stdout_q') = 1 /\ _stdout_q'[1] = line
      BY <3>6, Appended, Empty
    <3>8. \/ pc[q] = "awaitInit" /\ line.type = "ok"
          \/ pc[q] = "awaitReport" /\ line.type = "report"
      BY <2>1, <2>6, <3>3
    <3>. QED
      BY <2>2, <3>3, <3>5, <3>7, <3>8 DEF Orderly, Idle, Awaiting
  <2>. QED
    BY <2>4, <2>5, <2>6
<1>11. ASSUME NEW n \in Process, Crash(n) PROVE Orderly'
  <2>1. CASE proc # 0 /\ alive'[proc]
    <3>1. proc = spawned /\ proc \in Process /\ n \in Process
      BY <2>1, CurrentProcess
    <3>2. Ends(n) /\ UNCHANGED <<_io_lock, proc, spawned>>
      BY <1>11 DEF Crash
    <3>3. /\ alive' = [alive EXCEPT ![n] = FALSE] /\ stdin' = [stdin EXCEPT ![n] = <<>>]
          /\ _stdout_q' = IF n = spawned THEN Append(_stdout_q, Line("eof", 0)) ELSE _stdout_q
      BY <3>1, <3>2, EndsEffect DEF Types
    <3>4. n # proc /\ alive[proc]
      BY <2>1, <3>1, <3>3 DEF Types, ProcessesOK
    <3>5. stdin'[proc] = stdin[proc] /\ _stdout_q' = _stdout_q
      BY <3>1, <3>3, <3>4 DEF Types, ProcessesOK
    <3>6. \A q \in Request : pc[q] \in {"awaitInit", "awaitReport"} => pc'[q] = pc[q]
      BY <1>11 DEF Crash, Job, requests, Types, RequestsOK
    <3>. QED
      BY <3>2, <3>4, <3>5, <3>6 DEF Orderly, Idle, Awaiting
  <2>2. CASE ~(proc # 0 /\ alive'[proc])
    BY <1>11, <2>2 DEF Crash, Orderly
  <2>. QED
    BY <2>1, <2>2
<1>12. ASSUME NEW n \in Process, Pump(n) PROVE Orderly'
  BY <1>12
<1>13. CASE UNCHANGED vars
  BY <1>13 DEF vars, requests, worker, processes, history, Orderly, Idle, Awaiting
<1>. QED
  BY <1>1, <1>2, <1>3, <1>4, <1>5, <1>6, <1>7, <1>8, <1>9, <1>10, <1>11, <1>12, <1>13
     DEF Next, Thread

LEMMA OwnInEmpty ==
  ASSUME NEW type, NEW r
  PROVE  OwnIn(<<>>, type, r)
  BY DEF OwnIn

LEMMA OwnInAppend ==
  ASSUME NEW s \in Seq(Lines), NEW x \in Lines, NEW type, NEW r,
         OwnIn(s, type, r), x.type = type => x.of = r
  PROVE  OwnIn(Append(s, x), type, r)
<1>1. /\ Len(Append(s, x)) = Len(s) + 1 /\ Append(s, x)[Len(s) + 1] = x
      /\ \A i \in 1..Len(s) : Append(s, x)[i] = s[i]
  BY Appended
<1>2. Len(s) \in Nat
  OBVIOUS
<1>. QED
  BY <1>1, <1>2 DEF OwnIn

LEMMA OwnInTail ==
  ASSUME NEW s \in Seq(Lines), s # <<>>, NEW type, NEW r, OwnIn(s, type, r)
  PROVE  OwnIn(Tail(s), type, r)
<1>1. /\ Len(s) \in Nat \ {0} /\ Len(Tail(s)) = Len(s) - 1
      /\ \A i \in 1..Len(Tail(s)) : Tail(s)[i] = s[i + 1]
  BY Taken
<1>. QED
  BY <1>1 DEF OwnIn

LEMMA OwnLinesStep ==
  ASSUME Types, Types', Counted, Locked, Undisturbed', Orderly, OwnLines, [Next]_vars
  PROVE  OwnLines'
<1>. USE Constants
<1>1. CASE Press
  BY <1>1 DEF Press, OwnLines, worker, processes
<1>2. ASSUME NEW r \in Request, Begin(r) PROVE OwnLines'
  <2>1. _io_lock = 0 /\ \A q \in Request : q # 0
    BY <1>2 DEF Begin, Request
  <2>2. CASE proc # 0 /\ alive[proc]
    <3>1. Idle
      BY <2>1, <2>2 DEF Orderly, Awaiting
    <3>2. UNCHANGED <<_stdout_q, stdin, spawned>> /\ proc = spawned
      BY <1>2, <2>2, CurrentProcess DEF Begin, processes
    <3>. QED
      BY <3>1, <3>2, OwnInEmpty DEF OwnLines, Idle
  <2>3. CASE ~(proc # 0 /\ alive[proc])
    <3>1. spawned + 1 \in Process /\ spawned \in Nat
      BY <1>2, Room DEF Begin, Job, Types, ProcessesOK
    <3>2. spawned' = spawned + 1 /\ stdin' = stdin /\ _stdout_q' = <<>>
      BY <1>2, <2>3 DEF Begin
    <3>3. stdin[spawned + 1] = <<>>
      BY <3>1 DEF Types, ProcessesOK
    <3>. QED
      BY <3>2, <3>3, OwnInEmpty DEF OwnLines
  <2>. QED
    BY <2>2, <2>3
<1>3. ASSUME NEW r \in Request, Send(r) PROVE OwnLines'
  <2>1. CASE proc # 0 /\ alive[proc]
    <3>1. PICK line \in Lines :
            /\ stdin' = [stdin EXCEPT ![proc] = Append(stdin[proc], line)]
            /\ \/ line.type = "init" /\ pc[r] = "init"
               \/ line.type = "validate" /\ line.of = r /\ pc[r] = "validate"
      BY <1>3, <2>1, SendEffect
    <3>2. /\ proc \in Process /\ proc = spawned
          /\ UNCHANGED <<_io_lock, _stdout_q, spawned>>
      BY <1>3, <2>1, SendEffect
    <3>3. _io_lock = r
      BY <3>1 DEF Locked, Holding
    <3>4. stdin'[spawned] = Append(stdin[spawned], line) /\ stdin[spawned] \in Seq(Lines)
      BY <3>1, <3>2 DEF Types, ProcessesOK
    <3>5. _io_lock # 0 /\ spawned # 0 => OwnIn(stdin'[spawned], "validate", _io_lock)
      BY <3>1, <3>3, <3>4, OwnInAppend DEF OwnLines
    <3>. QED
      BY <3>2, <3>5 DEF OwnLines
  <2>2. CASE ~(proc # 0 /\ alive[proc])
    BY <1>3, <2>2, SendRaises DEF OwnLines
  <2>. QED
    BY <2>1, <2>2
<1>4. ASSUME NEW r \in Request, InitOk(r) PROVE OwnLines'
  <2>1. /\ _stdout_q # <<>> /\ _stdout_q' = Tail(_stdout_q)
        /\ UNCHANGED <<_io_lock, spawned, stdin>>
    BY <1>4 DEF InitOk, Got, processes
  <2>2. _io_lock # 0 => OwnIn(_stdout_q', "report", _io_lock)
    BY <2>1, OwnInTail DEF OwnLines, Types, WorkerOK
  <2>. QED
    BY <2>1, <2>2 DEF OwnLines
<1>5. ASSUME NEW r \in Request, Report(r) PROVE OwnLines'
  BY <1>5 DEF Report, OwnLines
<1>6. ASSUME NEW r \in Request, Unexpected(r) PROVE OwnLines'
  BY <1>6 DEF Unexpected, Raises, OwnLines
<1>7. ASSUME NEW r \in Request, Timeout(r) PROVE OwnLines'
  BY <1>7, DisturbedGrows
<1>8. ASSUME NEW r \in Request, Close(r) PROVE OwnLines'
  <2>1. UNCHANGED <<_io_lock, _stdout_q, spawned>>
    BY <1>8 DEF Close
  <2>2. CASE proc # 0 /\ alive[proc]
    <3>1. proc = spawned /\ proc \in Process /\ stdin[proc] \in Seq(Lines)
      BY <2>2, CurrentProcess
    <3>2. stdin' = [stdin EXCEPT ![proc] = Append(stdin[proc], Line("shutdown", 0))]
      BY <1>8, <2>2 DEF Close
    <3>3. stdin'[spawned] = Append(stdin[spawned], Line("shutdown", 0))
      BY <3>1, <3>2 DEF Types, ProcessesOK
    <3>4. Line("shutdown", 0) \in Lines /\ Line("shutdown", 0).type = "shutdown"
      BY LineType
    <3>5. _io_lock # 0 /\ spawned # 0 => OwnIn(stdin'[spawned], "validate", _io_lock)
      BY <3>1, <3>3, <3>4, OwnInAppend DEF OwnLines
    <3>. QED
      BY <2>1, <3>5 DEF OwnLines
  <2>3. CASE ~(proc # 0 /\ alive[proc])
    BY <1>8, <2>3 DEF Close, OwnLines
  <2>. QED
    BY <2>2, <2>3
<1>9. ASSUME NEW r \in Request, Retry(r) PROVE OwnLines'
  <2>7. CASE victim[r] # 0 /\ alive[victim[r]]
    <3>1. Ends(victim[r]) /\ victim[r] \in Process /\ UNCHANGED <<_io_lock, spawned>>
      BY <1>9, <2>7 DEF Retry, Types, RequestsOK, Process
    <3>2. /\ stdin' = [stdin EXCEPT ![victim[r]] = <<>>]
          /\ _stdout_q' = IF victim[r] = spawned THEN Append(_stdout_q, Line("eof", 0)) ELSE _stdout_q
      BY <3>1, EndsEffect DEF Types
    <3>3. Line("eof", 0) \in Lines /\ Line("eof", 0).type = "eof"
      BY LineType
    <3>4. _io_lock # 0 => OwnIn(_stdout_q', "report", _io_lock)
      BY <3>2, <3>3, OwnInAppend DEF OwnLines, Types, WorkerOK
    <3>5. _io_lock # 0 /\ spawned # 0 => OwnIn(stdin'[spawned], "validate", _io_lock)
      BY <3>2, OwnInEmpty DEF OwnLines, Types, ProcessesOK, Process
    <3>. QED
      BY <3>1, <3>4, <3>5 DEF OwnLines
  <2>8. CASE ~(victim[r] # 0 /\ alive[victim[r]])
    BY <1>9, <2>8 DEF Retry, OwnLines
  <2>. QED
    BY <2>7, <2>8
<1>10. ASSUME NEW n \in Process, Serve(n) PROVE OwnLines'
  <2>1. PICK line \in Lines :
          /\ Writes(n, line)
          /\ line.type = "report" => stdin[n][1].type = "validate" /\ line.of = stdin[n][1].of
    BY <1>10, ServedLine DEF Types
  <2>2. /\ stdin[n] # <<>> /\ stdin' = [stdin EXCEPT ![n] = Tail(stdin[n])]
        /\ stdin[n] \in Seq(Lines) /\ UNCHANGED <<_io_lock, spawned>>
    BY <1>10, ServedLine DEF Serve, Types, ProcessesOK
  <2>3. _stdout_q' = IF n = spawned THEN Append(_stdout_q, line) ELSE _stdout_q
    BY <2>1, WritesEffect DEF Types
  <2>4. CASE n # spawned
    <3>1. _stdout_q' = _stdout_q /\ stdin'[spawned] = stdin[spawned]
      BY <2>2, <2>3, <2>4 DEF Types, ProcessesOK
    <3>. QED
      BY <2>2, <3>1 DEF OwnLines
  <2>5. CASE n = spawned
    <3>1. Len(stdin[n]) \in Nat \ {0} /\ n # 0
      BY <2>2, Taken DEF Process
    <3>2. _io_lock # 0 => (line.type = "report" => line.of = _io_lock)
      BY <2>1, <2>5, <3>1 DEF OwnLines, OwnIn
    <3>3. _io_lock # 0 => OwnIn(_stdout_q', "report", _io_lock)
      BY <2>3, <2>5, <3>2, OwnInAppend DEF OwnLines, Types, WorkerOK
    <3>4. stdin'[spawned] = Tail(stdin[spawned])
      BY <2>2, <2>5 DEF Types, ProcessesOK
    <3>5. _io_lock # 0 => OwnIn(stdin'[spawned], "validate", _io_lock)
      BY <2>2, <2>5, <3>1, <3>4, OwnInTail DEF OwnLines
    <3>. QED
      BY <2>2, <3>3, <3>5 DEF OwnLines
  <2>. QED
    BY <2>4, <2>5
<1>11. ASSUME NEW n \in Process, Crash(n) PROVE OwnLines'
  <2>1. Ends(n) /\ n \in Process /\ UNCHANGED <<_io_lock, spawned>>
    BY <1>11 DEF Crash
  <2>2. /\ stdin' = [stdin EXCEPT ![n] = <<>>]
        /\ _stdout_q' = IF n = spawned THEN Append(_stdout_q, Line("eof", 0)) ELSE _stdout_q
    BY <2>1, EndsEffect DEF Types
  <2>3. Line("eof", 0) \in Lines /\ Line("eof", 0).type = "eof"
    BY LineType
  <2>4. _io_lock # 0 => OwnIn(_stdout_q', "report", _io_lock)
    BY <2>2, <2>3, OwnInAppend DEF OwnLines, Types, WorkerOK
  <2>5. _io_lock # 0 /\ spawned # 0 => OwnIn(stdin'[spawned], "validate", _io_lock)
    BY <2>2, OwnInEmpty DEF OwnLines, Types, ProcessesOK, Process
  <2>. QED
    BY <2>1, <2>4, <2>5 DEF OwnLines
<1>12. ASSUME NEW n \in Process, Pump(n) PROVE OwnLines'
  BY <1>12, DisturbedGrows
<1>13. CASE UNCHANGED vars
  <2>1. UNCHANGED <<_io_lock, _stdout_q, spawned, stdin>>
    BY <1>13 DEF vars, worker, processes
  <2>. QED
    BY <2>1 DEF OwnLines
<1>. QED
  BY <1>1, <1>2, <1>3, <1>4, <1>5, <1>6, <1>7, <1>8, <1>9, <1>10, <1>11, <1>12, <1>13
     DEF Next, Thread

(* A report is taken by the holder of the lock, and so is its own.          *)
LEMMA ResultStep ==
  ASSUME Types, Locked, Undisturbed', Undisturbed => OwnLines, ReportIsOwn, [Next]_vars
  PROVE  ReportIsOwn'
<1>. USE DEF ReportIsOwn, Types, RequestsOK
<1>1. CASE Press
  BY <1>1, DisturbedGrows DEF Press, requests, worker, processes, history, Undisturbed
<1>2. ASSUME NEW r \in Request, Begin(r) PROVE ReportIsOwn'
  BY <1>2, DisturbedGrows DEF Begin, Job, requests, worker, processes, history, Undisturbed
<1>3. ASSUME NEW r \in Request, Send(r) PROVE ReportIsOwn'
  <2>1. result' = result
    BY <1>3 DEF Send, SendCmd, Raises
  <2>. QED
    BY <2>1, DisturbedGrows DEF Undisturbed
<1>4. ASSUME NEW r \in Request, InitOk(r) PROVE ReportIsOwn'
  BY <1>4, DisturbedGrows DEF InitOk, Got, Job, requests, worker, processes, history, Undisturbed
<1>5. ASSUME NEW r \in Request, Report(r) PROVE ReportIsOwn'
  <2>1. /\ _stdout_q # <<>> /\ Head(_stdout_q).type = "report" /\ pc[r] = "awaitReport"
        /\ result' = [result EXCEPT ![r] = Head(_stdout_q).of]
    BY <1>5 DEF Report, Got, Job
  <2>2. _io_lock = r /\ r # 0
    BY <2>1 DEF Locked, Holding, Request
  <2>3. Undisturbed /\ OwnIn(_stdout_q, "report", r)
    BY <2>2, DisturbedGrows DEF OwnLines
  <2>4. Head(_stdout_q) = _stdout_q[1] /\ Len(_stdout_q) \in Nat \ {0}
    BY <2>1, Taken DEF WorkerOK
  <2>5. Head(_stdout_q).of = r
    BY <2>1, <2>3, <2>4 DEF OwnIn
  <2>. QED
    BY <2>1, <2>3, <2>5 DEF Undisturbed
<1>6. ASSUME NEW r \in Request, Unexpected(r) PROVE ReportIsOwn'
  BY <1>6, DisturbedGrows DEF Unexpected, Got, Raises, Job, requests, worker, processes, history, Undisturbed
<1>7. ASSUME NEW r \in Request, Timeout(r) PROVE ReportIsOwn'
  BY <1>7, DisturbedGrows
<1>8. ASSUME NEW r \in Request, Close(r) PROVE ReportIsOwn'
  BY <1>8, DisturbedGrows DEF Close, Job, Disturb, requests, worker, processes, history, Undisturbed
<1>9. ASSUME NEW r \in Request, Retry(r) PROVE ReportIsOwn'
  BY <1>9, DisturbedGrows DEF Retry, Job, requests, worker, processes, history, Undisturbed
<1>10. ASSUME NEW n \in Process, Serve(n) PROVE ReportIsOwn'
  BY <1>10, DisturbedGrows DEF Serve, requests, worker, processes, history, Undisturbed
<1>11. ASSUME NEW n \in Process, Crash(n) PROVE ReportIsOwn'
  BY <1>11, DisturbedGrows DEF Crash, Fault, requests, worker, processes, history, Undisturbed
<1>12. ASSUME NEW n \in Process, Pump(n) PROVE ReportIsOwn'
  BY <1>12, DisturbedGrows
<1>13. CASE UNCHANGED vars
  BY <1>13, DisturbedGrows DEF vars, requests, worker, processes, history, Undisturbed
<1>. QED
  BY <1>1, <1>2, <1>3, <1>4, <1>5, <1>6, <1>7, <1>8, <1>9, <1>10, <1>11, <1>12, <1>13
     DEF Next, Thread

(* A process is closed while it is the worker's, and is not any more.       *)
LEMMA VictimsStep ==
  ASSUME Types, Types', Counted, Victims, [Next]_vars
  PROVE  Victims'
<1>. USE Constants DEF Types, RequestsOK, WorkerOK, ProcessesOK, Victims, Request
<1>1. CASE Press
  BY <1>1 DEF Press, requests, worker, processes, history
<1>2. ASSUME NEW r \in Request, Begin(r) PROVE Victims'
  <2>1. CASE proc # 0 /\ alive[proc]
    BY <1>2, <2>1 DEF Begin, processes
  <2>2. CASE ~(proc # 0 /\ alive[proc])
    <3>1. spawned' = spawned + 1 /\ proc' = spawned + 1 /\ victim' = victim
      BY <1>2, <2>2 DEF Begin
    <3>2. spawned \in Nat /\ \A q \in Request : victim[q] \in Nat
      BY Constants
    <3>. QED
      BY <3>1, <3>2
  <2>. QED
    BY <2>1, <2>2
<1>3. ASSUME NEW r \in Request, Send(r) PROVE Victims'
  BY <1>3 DEF Send, SendCmd, Raises, Job, requests, worker, processes, history
<1>4. ASSUME NEW r \in Request, InitOk(r) PROVE Victims'
  BY <1>4 DEF InitOk, Got, Job, requests, worker, processes, history
<1>5. ASSUME NEW r \in Request, Report(r) PROVE Victims'
  BY <1>5 DEF Report, Got, Job, requests, worker, processes, history
<1>6. ASSUME NEW r \in Request, Unexpected(r) PROVE Victims'
  BY <1>6 DEF Unexpected, Got, Raises, Job, requests, worker, processes, history
<1>7. ASSUME NEW r \in Request, Timeout(r) PROVE Victims'
  BY <1>7 DEF Timeout, Raises, Job, Fault, Disturb, requests, worker, processes, history
<1>8. ASSUME NEW r \in Request, Close(r) PROVE Victims'
  BY <1>8 DEF Close, Job, Disturb, requests, worker, processes, history
<1>9. ASSUME NEW r \in Request, Retry(r) PROVE Victims'
  BY <1>9 DEF Retry, Job, requests, worker, processes, history
<1>10. ASSUME NEW n \in Process, Serve(n) PROVE Victims'
  BY <1>10 DEF Serve, requests, worker, processes, history
<1>11. ASSUME NEW n \in Process, Crash(n) PROVE Victims'
  BY <1>11 DEF Crash, Fault, requests, worker, processes, history
<1>12. ASSUME NEW n \in Process, Pump(n) PROVE Victims'
  BY <1>12 DEF Pump, Disturb, requests, worker, processes, history
<1>13. CASE UNCHANGED vars
  BY <1>13 DEF vars, requests, worker, processes, history
<1>. QED
  BY <1>1, <1>2, <1>3, <1>4, <1>5, <1>6, <1>7, <1>8, <1>9, <1>10, <1>11, <1>12, <1>13
     DEF Next, Thread

(* The lock is held with a process, unless another's retry has closed it.   *)
LEMMA HeldStep ==
  ASSUME Types, Types', Counted, Locked, Held, Fine', [Next]_vars
  PROVE  Held'
<1>. USE Constants DEF Held
<1>1. CASE Press
  BY <1>1 DEF Press, requests, worker, processes, history
<1>2. ASSUME NEW r \in Request, Begin(r) PROVE Held'
  <2>1. CASE proc # 0 /\ alive[proc]
    BY <1>2, <2>1 DEF Begin
  <2>2. CASE ~(proc # 0 /\ alive[proc])
    BY <1>2, <2>2 DEF Begin, Types, ProcessesOK
  <2>. QED
    BY <2>1, <2>2
<1>3. ASSUME NEW r \in Request, Send(r) PROVE Held'
  BY <1>3 DEF Send, SendCmd, Raises, Job, requests, worker, processes, history
<1>4. ASSUME NEW r \in Request, InitOk(r) PROVE Held'
  BY <1>4 DEF InitOk, Got, Job, requests, worker, processes, history
<1>5. ASSUME NEW r \in Request, Report(r) PROVE Held'
  BY <1>5 DEF Report, Got, Job, requests, worker, processes, history
<1>6. ASSUME NEW r \in Request, Unexpected(r) PROVE Held'
  BY <1>6 DEF Unexpected, Got, Raises, Job, requests, worker, processes, history
<1>7. ASSUME NEW r \in Request, Timeout(r) PROVE Held'
  BY <1>7 DEF Timeout, Raises, Job, Fault, Disturb, requests, worker, processes, history
<1>8. ASSUME NEW r \in Request, Close(r) PROVE Held'
  BY <1>8 DEF Close, Disturb, Fine, Types, HistoryOK
<1>9. ASSUME NEW r \in Request, Retry(r) PROVE Held'
  BY <1>9 DEF Retry, Job, requests, worker, processes, history
<1>10. ASSUME NEW n \in Process, Serve(n) PROVE Held'
  BY <1>10 DEF Serve, requests, worker, processes, history
<1>11. ASSUME NEW n \in Process, Crash(n) PROVE Held'
  BY <1>11 DEF Crash, Fault, requests, worker, processes, history
<1>12. ASSUME NEW n \in Process, Pump(n) PROVE Held'
  BY <1>12 DEF Pump, Disturb, requests, worker, processes, history
<1>13. CASE UNCHANGED vars
  BY <1>13 DEF vars, requests, worker, processes, history
<1>. QED
  BY <1>1, <1>2, <1>3, <1>4, <1>5, <1>6, <1>7, <1>8, <1>9, <1>10, <1>11, <1>12, <1>13
     DEF Next, Thread

(* A process goes on working until it crashes or is closed.                 *)
LEMMA WorkingStep ==
  ASSUME Types, Types', Counted, Victims, Working, [Next]_vars,
         ~(\E n \in Process : Crash(n))
  PROVE  Working'
<1>. USE DEF Working
<1>1. CASE Press
  BY <1>1 DEF Press, requests, worker, processes, history
<1>2. ASSUME NEW r \in Request, Begin(r) PROVE Working'
  <2>1. CASE proc # 0 /\ alive[proc]
    BY <1>2, <2>1 DEF Begin, processes
  <2>2. CASE ~(proc # 0 /\ alive[proc])
    <3>1. spawned + 1 \in Process
      BY <1>2, Room DEF Begin, Job
    <3>. QED
      BY <1>2, <2>2, <3>1 DEF Begin, Types, ProcessesOK
  <2>. QED
    BY <2>1, <2>2
<1>3. ASSUME NEW r \in Request, Send(r) PROVE Working'
  BY <1>3 DEF Send, SendCmd, Raises, Job, requests, worker, processes, history
<1>4. ASSUME NEW r \in Request, InitOk(r) PROVE Working'
  BY <1>4 DEF InitOk, Got, Job, requests, worker, processes, history
<1>5. ASSUME NEW r \in Request, Report(r) PROVE Working'
  BY <1>5 DEF Report, Got, Job, requests, worker, processes, history
<1>6. ASSUME NEW r \in Request, Unexpected(r) PROVE Working'
  BY <1>6 DEF Unexpected, Got, Raises, Job, requests, worker, processes, history
<1>7. ASSUME NEW r \in Request, Timeout(r) PROVE Working'
  BY <1>7 DEF Timeout, Raises, Job, Fault, Disturb, requests, worker, processes, history
<1>8. ASSUME NEW r \in Request, Close(r) PROVE Working'
  BY <1>8 DEF Close, Job, Disturb, requests, worker, processes, history
<1>9. ASSUME NEW r \in Request, Retry(r) PROVE Working'
  <2>1. CASE victim[r] # 0 /\ alive[victim[r]]
    <3>1. victim[r] # proc /\ Ends(victim[r]) /\ proc' = proc
      BY <1>9, <2>1 DEF Retry, Victims
    <3>. QED
      BY <3>1, CurrentProcess DEF Ends, Types, ProcessesOK
  <2>2. CASE ~(victim[r] # 0 /\ alive[victim[r]])
    BY <1>9, <2>2 DEF Retry
  <2>. QED
    BY <2>1, <2>2
<1>10. ASSUME NEW n \in Process, Serve(n) PROVE Working'
  BY <1>10 DEF Serve, requests, worker, processes, history
<1>11. ASSUME NEW n \in Process, Crash(n) PROVE Working'
  BY <1>11
<1>12. ASSUME NEW n \in Process, Pump(n) PROVE Working'
  BY <1>12 DEF Pump, Disturb, requests, worker, processes, history
<1>13. CASE UNCHANGED vars
  BY <1>13 DEF vars, requests, worker, processes, history
<1>. QED
  BY <1>1, <1>2, <1>3, <1>4, <1>5, <1>6, <1>7, <1>8, <1>9, <1>10, <1>11, <1>12, <1>13
     DEF Next, Thread

(* A process that works and answers in turn gives no cause to raise.        *)
LEMMA NoCause ==
  ASSUME Types, Locked, Held, Working, Orderly, NEW r \in Request
  PROVE  ~Unexpected(r) /\ (Send(r) => proc # 0 /\ alive[proc])
<1>1. Holding(r) => _io_lock = r /\ proc # 0 /\ alive[proc]
  BY DEF Locked, Held, Working, Request
<1>2. Send(r) => Holding(r)
  BY DEF Send, SendCmd, Job, Holding
<1>3. ASSUME Unexpected(r) PROVE FALSE
  <2>1. /\ _stdout_q # <<>>
        /\ \/ pc[r] = "awaitInit" /\ Head(_stdout_q).type \in {"report", "eof"}
           \/ pc[r] = "awaitReport" /\ Head(_stdout_q).type \in {"ok", "eof"}
    BY <1>3 DEF Unexpected, Got
  <2>2. _io_lock = r /\ proc # 0 /\ alive[proc]
    BY <1>1, <2>1 DEF Holding
  <2>3. Head(_stdout_q) = _stdout_q[1]
    BY <2>1, Taken DEF Types, WorkerOK
  <2>. QED
    BY <2>1, <2>2, <2>3 DEF Orderly, Idle, Awaiting
<1>. QED
  BY <1>1, <1>2, <1>3

(* Only the close of the first attempt leads to a second one.               *)
LEMMA FirstTryStep ==
  ASSUME Types, Counted, FirstTry, [Next]_vars,
         ~(\E r \in Request : Close(r))
  PROVE  FirstTry'
<1>. USE DEF Types, RequestsOK, FirstTry
<1>1. CASE Press
  BY <1>1 DEF Press
<1>2. ASSUME NEW r \in Request, Begin(r) PROVE FirstTry'
  BY <1>2 DEF Begin, Job, requests, worker, processes, history
<1>3. ASSUME NEW r \in Request, Send(r) PROVE FirstTry'
  BY <1>3 DEF Send, SendCmd, Raises, Job, requests, worker, processes, history
<1>4. ASSUME NEW r \in Request, InitOk(r) PROVE FirstTry'
  BY <1>4 DEF InitOk, Got, Job, requests, worker, processes, history
<1>5. ASSUME NEW r \in Request, Report(r) PROVE FirstTry'
  BY <1>5 DEF Report, Got, Job, requests, worker, processes, history
<1>6. ASSUME NEW r \in Request, Unexpected(r) PROVE FirstTry'
  BY <1>6 DEF Unexpected, Got, Raises, Job, requests, worker, processes, history
<1>7. ASSUME NEW r \in Request, Timeout(r) PROVE FirstTry'
  BY <1>7 DEF Timeout, Raises, Job, Fault, Disturb, requests, worker, processes, history
<1>8. ASSUME NEW r \in Request, Close(r) PROVE FirstTry'
  BY <1>8
<1>9. ASSUME NEW r \in Request, Retry(r) PROVE FirstTry'
  BY <1>9 DEF Retry, Job, requests, worker, processes, history
<1>10. ASSUME NEW n \in Process, Serve(n) PROVE FirstTry'
  BY <1>10 DEF Serve, requests, worker, processes, history
<1>11. ASSUME NEW n \in Process, Crash(n) PROVE FirstTry'
  BY <1>11 DEF Crash, Fault, requests, worker, processes, history
<1>12. ASSUME NEW n \in Process, Pump(n) PROVE FirstTry'
  BY <1>12 DEF Pump, Disturb, requests, worker, processes, history
<1>13. CASE UNCHANGED vars
  BY <1>13 DEF vars, requests, worker, processes, history
<1>. QED
  BY <1>1, <1>2, <1>3, <1>4, <1>5, <1>6, <1>7, <1>8, <1>9, <1>10, <1>11, <1>12, <1>13
     DEF Next, Thread

(* A worker is only closed for a request that has failed once.              *)
LEMMA CloseStep ==
  ASSUME Types, Types', Counted, Locked, Held, Working, Orderly, [Next]_vars,
         ~(\E r \in Request : Timeout(r)), \A q \in Request : pc[q] # "close"
  PROVE  \A q \in Request : pc'[q] # "close"
<1>. USE DEF Types, RequestsOK
<1>1. CASE Press
  BY <1>1 DEF Press
<1>2. ASSUME NEW r \in Request, Begin(r) PROVE \A q \in Request : pc'[q] # "close"
  BY <1>2 DEF Begin, Job, requests, worker, processes, history
<1>3. ASSUME NEW r \in Request, Send(r) PROVE \A q \in Request : pc'[q] # "close"
  <2>1. proc # 0 /\ alive[proc]
    BY <1>3, NoCause
  <2>2. \/ pc' = [pc EXCEPT ![r] = "awaitInit"]
        \/ pc' = [pc EXCEPT ![r] = "awaitReport"]
    BY <1>3, <2>1, SendEffect
  <2>. QED
    BY <2>2
<1>4. ASSUME NEW r \in Request, InitOk(r) PROVE \A q \in Request : pc'[q] # "close"
  BY <1>4 DEF InitOk, Got, Job, requests, worker, processes, history
<1>5. ASSUME NEW r \in Request, Report(r) PROVE \A q \in Request : pc'[q] # "close"
  BY <1>5 DEF Report, Got, Job, requests, worker, processes, history
<1>6. ASSUME NEW r \in Request, Unexpected(r) PROVE \A q \in Request : pc'[q] # "close"
  BY <1>6, NoCause
<1>7. ASSUME NEW r \in Request, Timeout(r) PROVE \A q \in Request : pc'[q] # "close"
  BY <1>7
<1>8. ASSUME NEW r \in Request, Close(r) PROVE \A q \in Request : pc'[q] # "close"
  BY <1>8 DEF Close, Job, Disturb, requests, worker, processes, history
<1>9. ASSUME NEW r \in Request, Retry(r) PROVE \A q \in Request : pc'[q] # "close"
  BY <1>9 DEF Retry, Job, requests, worker, processes, history
<1>10. ASSUME NEW n \in Process, Serve(n) PROVE \A q \in Request : pc'[q] # "close"
  BY <1>10 DEF Serve, requests, worker, processes, history
<1>11. ASSUME NEW n \in Process, Crash(n) PROVE \A q \in Request : pc'[q] # "close"
  BY <1>11 DEF Crash, Fault, requests, worker, processes, history
<1>12. ASSUME NEW n \in Process, Pump(n) PROVE \A q \in Request : pc'[q] # "close"
  BY <1>12 DEF Pump, Disturb, requests, worker, processes, history
<1>13. CASE UNCHANGED vars
  BY <1>13 DEF vars, requests, worker, processes, history
<1>. QED
  BY <1>1, <1>2, <1>3, <1>4, <1>5, <1>6, <1>7, <1>8, <1>9, <1>10, <1>11, <1>12, <1>13
     DEF Next, Thread

(* A request fails when its second attempt raises, and only then.           *)
LEMMA FailsStep ==
  ASSUME Types, Types', Counted, NobodyFailed, [Next]_vars,
         \A q \in Request : attempt[q] = 2 =>
           ~Timeout(q) /\ ~Unexpected(q) /\ (Send(q) => proc # 0 /\ alive[proc])
  PROVE  NobodyFailed'
<1>. USE DEF Types, RequestsOK, NobodyFailed, Failed
<1>1. CASE Press
  BY <1>1 DEF Press, requests, Counted, Attempted
<1>2. ASSUME NEW r \in Request, Begin(r) PROVE NobodyFailed'
  BY <1>2 DEF Begin, Job, requests, worker, processes, history
<1>3. ASSUME NEW r \in Request, Send(r) PROVE NobodyFailed'
  <2>1. CASE proc # 0 /\ alive[proc]
    <3>1. result' = result
      BY <1>3, <2>1, SendEffect
    <3>2. \/ pc' = [pc EXCEPT ![r] = "awaitInit"]
          \/ pc' = [pc EXCEPT ![r] = "awaitReport"]
      BY <1>3, <2>1, SendEffect
    <3>. QED
      BY <3>1, <3>2
  <2>2. CASE ~(proc # 0 /\ alive[proc])
    <3>1. attempt[r] = 1
      BY <1>3, <2>2
    <3>2. result' = result /\ pc' = [pc EXCEPT ![r] = "close"]
      BY <1>3, <2>2, <3>1, SendRaises
    <3>. QED
      BY <3>2
  <2>. QED
    BY <2>1, <2>2
<1>4. ASSUME NEW r \in Request, InitOk(r) PROVE NobodyFailed'
  BY <1>4 DEF InitOk, Got, Job, requests, worker, processes, history
<1>5. ASSUME NEW r \in Request, Report(r) PROVE NobodyFailed'
  <2>1. _stdout_q # <<>> /\ Head(_stdout_q).type = "report"
    BY <1>5 DEF Report, Got
  <2>2. Head(_stdout_q) \in Lines
    BY <2>1, Taken DEF WorkerOK
  <2>3. Head(_stdout_q).of # 0
    BY <2>1, <2>2 DEF Lines
  <2>. QED
    BY <1>5, <2>3 DEF Report, Job
<1>6. ASSUME NEW r \in Request, Unexpected(r) PROVE NobodyFailed'
  <2>1. attempt[r] = 1
    BY <1>6
  <2>. QED
    BY <1>6, <2>1 DEF Unexpected, Raises, Job
<1>7. ASSUME NEW r \in Request, Timeout(r) PROVE NobodyFailed'
  <2>1. attempt[r] = 1
    BY <1>7
  <2>. QED
    BY <1>7, <2>1 DEF Timeout, Raises, Job
<1>8. ASSUME NEW r \in Request, Close(r) PROVE NobodyFailed'
  BY <1>8 DEF Close, Job, Disturb, requests, worker, processes, history
<1>9. ASSUME NEW r \in Request, Retry(r) PROVE NobodyFailed'
  BY <1>9 DEF Retry, Job, requests, worker, processes, history
<1>10. ASSUME NEW n \in Process, Serve(n) PROVE NobodyFailed'
  BY <1>10 DEF Serve, requests, worker, processes, history
<1>11. ASSUME NEW n \in Process, Crash(n) PROVE NobodyFailed'
  BY <1>11 DEF Crash, Fault, requests, worker, processes, history
<1>12. ASSUME NEW n \in Process, Pump(n) PROVE NobodyFailed'
  BY <1>12 DEF Pump, Disturb, requests, worker, processes, history
<1>13. CASE UNCHANGED vars
  BY <1>13 DEF vars, requests, worker, processes, history
<1>. QED
  BY <1>1, <1>2, <1>3, <1>4, <1>5, <1>6, <1>7, <1>8, <1>9, <1>10, <1>11, <1>12, <1>13
     DEF Next, Thread

LEMMA FineGrows ==
  ASSUME Types, [Next]_vars, Fine'
  PROVE  Fine /\ ~(\E n \in Process : Pump(n))
<1>1. disturbed \subseteq disturbed'
  BY HistoryGrows DEF HistoryKept
<1>2. ASSUME NEW n \in Process, Pump(n) PROVE FALSE
  BY <1>2 DEF Pump, Disturb, Fine
<1>. QED
  BY <1>1, <1>2 DEF Fine

(* A crash and a timeout are faults.                                        *)
LEMMA FaultCounts ==
  ASSUME Types, faults' = faults
  PROVE  ~(\E n \in Process : Crash(n)) /\ ~(\E r \in Request : Timeout(r))
<1>1. faults' # faults + 1
  BY DEF Types, HistoryOK
<1>2. ASSUME NEW n \in Process, Crash(n) PROVE FALSE
  BY <1>1, <1>2 DEF Crash, Fault
<1>3. ASSUME NEW r \in Request, Timeout(r) PROVE FALSE
  BY <1>1, <1>3 DEF Timeout, Fault
<1>. QED
  BY <1>2, <1>3

(* A second attempt begins with a process that works, and only a second     *)
(* fault ends it.                                                           *)
LEMMA RetriedStep ==
  ASSUME Types, Types', Counted, Locked, Victims, Retried, [Next]_vars
  PROVE  Retried'
<1> SUFFICES ASSUME Fine' PROVE Retried'
  BY DEF Retried
<1>1. Fine /\ ~(\E n \in Process : Pump(n)) /\ Held
  BY FineGrows DEF Retried
<1>2. faults \in Nat /\ faults' \in Nat /\ faults <= faults'
  BY HistoryGrows DEF HistoryKept, Types, HistoryOK
<1>3. Held'
  BY <1>1, HeldStep
<1>4. CASE faults = 0
  <2>1. /\ Working /\ Orderly /\ FirstTry /\ NobodyFailed
        /\ \A r \in Request : pc[r] # "close"
    BY <1>1, <1>4 DEF Retried
  <2>2. FirstTry'
    BY <2>1, FirstTryStep DEF Close, Job
  <2>3. NobodyFailed'
    BY <2>1, FailsStep DEF FirstTry
  <2>4. ASSUME faults' = 0
        PROVE  Working' /\ Orderly' /\ \A r \in Request : pc'[r] # "close"
    BY <1>1, <1>4, <2>1, <2>4, FaultCounts, WorkingStep, OrderlyStep, CloseStep
  <2>. QED
    BY <1>3, <2>2, <2>3, <2>4 DEF Retried
<1>5. CASE faults = 1 /\ faults' = 1
  <2>1. NobodyFailed /\ (FirstTry \/ (Working /\ Orderly))
    BY <1>1, <1>5 DEF Retried
  <2>2. ~(\E n \in Process : Crash(n)) /\ ~(\E r \in Request : Timeout(r))
    BY <1>5, FaultCounts
  <2>3. CASE Working /\ Orderly
    <3>1. Working' /\ Orderly'
      BY <1>1, <2>2, <2>3, WorkingStep, OrderlyStep
    <3>2. NobodyFailed'
      BY <1>1, <2>1, <2>2, <2>3, FailsStep, NoCause
    <3>. QED
      BY <1>3, <1>5, <3>1, <3>2 DEF Retried
  <2>4. CASE FirstTry
    <3>1. NobodyFailed'
      BY <2>1, <2>4, FailsStep DEF FirstTry
    <3>2. CASE \E r \in Request : Close(r)
      <4>1. Working' /\ Orderly'
        BY <3>2 DEF Close, Working, Orderly
      <4>. QED
        BY <1>3, <1>5, <3>1, <4>1 DEF Retried
    <3>3. CASE ~(\E r \in Request : Close(r))
      <4>1. FirstTry'
        BY <2>4, <3>3, FirstTryStep
      <4>. QED
        BY <1>3, <1>5, <3>1, <4>1 DEF Retried
    <3>. QED
      BY <3>2, <3>3
  <2>. QED
    BY <2>1, <2>3, <2>4
<1>6. CASE faults' > 1
  BY <1>2, <1>3, <1>6 DEF Retried
<1>. QED
  BY <1>2, <1>4, <1>5, <1>6

-----------------------------------------------------------------------------
THEOREM Initially == Init => IInv
<1> SUFFICES ASSUME Init PROVE IInv
  OBVIOUS
<1>. USE Constants, Empty DEF Init
<1>1. Types
  <2>1. RequestsOK
    BY DEF RequestsOK
  <2>2. WorkerOK /\ HistoryOK
    BY DEF WorkerOK, HistoryOK
  <2>3. ProcessesOK
    BY DEF ProcessesOK, Process
  <2>. QED
    BY <2>1, <2>2, <2>3 DEF Types
<1>2. Counted
  <2>1. Begun = {}
    BY DEF Begun
  <2>2. Cardinality({}) = 0
    BY FS_EmptySet
  <2>. QED
    BY <2>1, <2>2 DEF Counted, Attempted
<1>3. Locked
  BY DEF Locked, Holding, Request
<1>4. Orderly /\ OwnLines /\ ReportIsOwn
  BY DEF Orderly, OwnLines, ReportIsOwn
<1>5. Victims /\ Retried
  BY <1>4 DEF Victims, Retried, Held, Working, FirstTry, NobodyFailed, Failed
<1>. QED
  BY <1>1, <1>2, <1>3, <1>4, <1>5 DEF IInv

THEOREM Inductive == IInv /\ [Next]_vars => IInv'
<1> SUFFICES ASSUME IInv, [Next]_vars PROVE IInv'
  OBVIOUS
<1>1. Types /\ Counted /\ Locked /\ ReportIsOwn /\ (Undisturbed => Orderly /\ OwnLines)
      /\ Victims /\ Retried
  BY DEF IInv
<1>2. Types'
  BY <1>1, RequestsStep, WorkerStep, ProcessesStep, HistoryStep DEF Types
<1>3. Counted' /\ Locked'
  BY <1>1, <1>2, CountedStep, LockedStep
<1>4. Undisturbed' => Orderly' /\ OwnLines'
  BY <1>1, <1>2, DisturbedGrows, OrderlyStep, OwnLinesStep
<1>5. ReportIsOwn'
  <2>1. CASE Undisturbed'
    BY <1>1, <2>1, ResultStep
  <2>2. CASE ~Undisturbed'
    BY <2>2 DEF Undisturbed, ReportIsOwn
  <2>. QED
    BY <2>1, <2>2
<1>6. Victims' /\ Retried'
  BY <1>1, <1>2, VictimsStep, RetriedStep
<1>. QED
  BY <1>2, <1>3, <1>4, <1>5, <1>6 DEF IInv

(* The state is always of the right types, and no process is spawned that   *)
(* is not an attempt's.                                                     *)
THEOREM TypeCorrect == Spec => []Types
<1>1. Init => IInv
  BY Initially
<1>2. IInv /\ [Next]_vars => IInv'
  BY Inductive
<1>3. IInv => Types
  BY DEF IInv
<1>. QED
  BY <1>1, <1>2, <1>3, PTL DEF Spec

(* However many requests overlap and processes crash, a request is answered *)
(* with its own report while none has timed out and no pump come late.      *)
THEOREM ReportOwn == Spec => []ReportIsOwn
<1>1. Init => IInv
  BY Initially
<1>2. IInv /\ [Next]_vars => IInv'
  BY Inductive
<1>3. IInv => ReportIsOwn
  BY DEF IInv
<1>. QED
  BY <1>1, <1>2, <1>3, PTL DEF Spec

(* However many requests overlap, one fails only after two crashes or       *)
(* timeouts, while none had its process closed by the retry of another and  *)
(* no pump has come late.                                                   *)
THEOREM RetrySufficesHolds == Spec => []RetrySuffices
<1>1. Init => IInv
  BY Initially
<1>2. IInv /\ [Next]_vars => IInv'
  BY Inductive
<1>3. IInv => RetrySuffices
  BY DEF IInv, Types, HistoryOK, Retried, Fine, NobodyFailed, RetrySuffices
<1>. QED
  BY <1>1, <1>2, <1>3, PTL DEF Spec
=============================================================================

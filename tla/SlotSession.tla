---------------------------- MODULE SlotSession -----------------------------
(***************************************************************************)
(* The life of a robot slot: connecting and disconnecting it (manager.py,  *)
(* and the operators and file handlers that call it), the background poll  *)
(* thread of each connection, the cache the thread fills and the timer on  *)
(* Blender's main thread empties, and the dataset recording fed by it.     *)
(*                                                                         *)
(* Operators and the timer run one after another on the main thread, so a  *)
(* disconnect is a sequence of main-thread steps during which no operator  *)
(* and no timer tick runs, but poll threads do.  Each successful connect   *)
(* makes a new session (a driver and its poll thread), numbered 1, 2, ...; *)
(* 0 stands for none.  Robot data is reduced to the session it was read    *)
(* in.  A slot is its uid: it is the key of every map of manager.py.       *)
(***************************************************************************)
EXTENDS Naturals, FiniteSets

CONSTANTS
  Slots,         (* uids of robot slots                                    *)
  MaxSessions,   (* bound on successful connects                           *)
  JoinTimesOut   (* whether a read may outlast the join's timeout of 1 s   *)

ASSUME SlotConstants ==
  /\ MaxSessions \in Nat
  /\ JoinTimesOut \in BOOLEAN

VARIABLES
  (* Blender's data: the slots of the scene and their properties *)
  robots, is_connected, polling_enabled, shown, last_error,
  (* the module state of manager.py and recorder.py *)
  _drivers, _poll_threads, _thread_cache, _timer_registered, recording,
  (* the main thread: what is left of the operator it is in *)
  main,
  (* per session: connection open, poll thread's pc, stop event, pose read *)
  sessions, owner, open, pc, stop_event, pose_ok

blender  == <<robots, is_connected, polling_enabled, shown, last_error>>
registry == <<_drivers, _poll_threads, _timer_registered>>
threads  == <<sessions, owner, open, pc, stop_event, pose_ok>>
vars     == <<blender, registry, _thread_cache, recording, main, threads>>

Session  == 1..MaxSessions
NoEntry  == [pose |-> 0, error |-> FALSE, present |-> FALSE]
Free     == [at |-> "free", slot |-> "none", then |-> "free"]

(* The main thread gets on with what it is doing to slot s.                 *)
Go(from, to) == main.at = from /\ main' = [main EXCEPT !.at = to]

-----------------------------------------------------------------------------
(* Operators and handlers that start on the main thread                    *)

(* disconnect_slot, up to the driver; Disconnect and Remove differ in what  *)
(* follows it.                                                              *)
BeginDisconnect(s, then) ==
  /\ is_connected[s]
  /\ is_connected' = [is_connected EXCEPT ![s] = FALSE]
  /\ recording' = [recording EXCEPT ![s] = FALSE]
  /\ main' = [at |-> "driver", slot |-> s, then |-> then]
  /\ UNCHANGED <<robots, polling_enabled, shown, last_error, registry, _thread_cache, threads>>

Disconnect(s) == main = Free /\ s \in robots /\ BeginDisconnect(s, "disconnected")

RemoveSlot(s) ==
  /\ main = Free /\ s \in robots
  /\ \/ BeginDisconnect(s, "remove")
     \/ /\ ~is_connected[s]
        /\ robots' = robots \ {s}
        /\ UNCHANGED <<is_connected, polling_enabled, shown, last_error, registry,
                       _thread_cache, recording, main, threads>>

(* Mutant: the previous session of the uid is not torn down.                *)
ConnectOver(s) ==
  /\ main = Free /\ s \in robots /\ ~is_connected[s]
  /\ main' = [at |-> "attach", slot |-> s, then |-> "attach"]
  /\ UNCHANGED <<blender, registry, _thread_cache, recording, threads>>

(* connect_slot first tears down whatever the maps still hold for the uid.  *)
Connect(s) ==
  /\ main = Free /\ s \in robots /\ ~is_connected[s]
  /\ LET left == _drivers[s] # 0 \/ _poll_threads[s] # 0
     IN  main' = [at |-> IF left THEN "driver" ELSE "attach", slot |-> s, then |-> "attach"]
  /\ UNCHANGED <<blender, registry, _thread_cache, recording, threads>>

TogglePolling(s) ==
  /\ main = Free /\ s \in robots /\ is_connected[s]
  /\ polling_enabled' = [polling_enabled EXCEPT ![s] = ~@]
  /\ UNCHANGED <<robots, is_connected, shown, last_error, registry, _thread_cache,
                 recording, main, threads>>

(* Another .blend is opened, or the same one again: its slots replace those *)
(* of the scene, with the pose and error they were saved with and their     *)
(* connection cleared.                                                      *)
LoadPost ==
  /\ main = Free
  /\ robots' \in SUBSET Slots
  /\ is_connected' = [s \in Slots |-> FALSE]
  /\ \/ UNCHANGED <<shown, last_error>>
     \/ /\ shown' = [s \in Slots |-> 0]
        /\ last_error' = [s \in Slots |-> FALSE]
  /\ UNCHANGED <<polling_enabled, registry, _thread_cache, recording, main, threads>>

RecordStart(s) ==
  /\ main = Free /\ s \in robots /\ is_connected[s]
  /\ polling_enabled[s]
  /\ ~recording[s]
  /\ recording' = [recording EXCEPT ![s] = TRUE]
  /\ UNCHANGED <<blender, registry, _thread_cache, main, threads>>

RecordStop(s) ==
  /\ main = Free /\ s \in robots
  /\ recording[s]
  /\ recording' = [recording EXCEPT ![s] = FALSE]
  /\ UNCHANGED <<blender, registry, _thread_cache, main, threads>>

-----------------------------------------------------------------------------
(* The rest of disconnect_slot and of _teardown_slot_io                    *)

PopDriver ==
  /\ Go("driver", "thread")
  /\ LET s == main.slot  g == _drivers[s]
     IN  /\ _drivers' = [_drivers EXCEPT ![s] = 0]
         /\ open' = [k \in Session |-> open[k] /\ k # g]
  /\ UNCHANGED <<blender, _poll_threads, _timer_registered, _thread_cache, recording,
                 sessions, owner, pc, stop_event, pose_ok>>

StopThread ==
  /\ Go("thread", "join")
  /\ LET s == main.slot  g == _poll_threads[s]
     IN  /\ _poll_threads' = [_poll_threads EXCEPT ![s] = 0]
         /\ stop_event' = [k \in Session |-> stop_event[k] \/ k = g]
  /\ UNCHANGED <<blender, _drivers, _timer_registered, _thread_cache, recording,
                 sessions, owner, open, pc, pose_ok>>

(* thread.join(timeout=1.0): the thread of this uid told to stop has ended, *)
(* or, in a read that takes longer, has not.                                *)
Join ==
  /\ Go("join", "cache")
  /\ \/ JoinTimesOut
     \/ \A g \in Session : owner[g] = main.slot /\ stop_event[g] => pc[g] = "ended"
  /\ UNCHANGED <<blender, registry, _thread_cache, recording, threads>>

(* Mutant: the timer goes with any slot.                                    *)
AnyDriverGone == TRUE

LastDriverGone == \A s \in Slots : _drivers[s] = 0

(* Mutant: the cache entry stays.                                           *)
PopNothing ==
  /\ main.at = "cache"
  /\ LET s == main.slot
     IN  IF main.then = "attach"
         THEN /\ main' = [main EXCEPT !.at = "attach"]
              /\ UNCHANGED <<shown, last_error, _timer_registered, robots>>
         ELSE /\ main' = Free
              /\ shown' = [shown EXCEPT ![s] = 0]
              /\ last_error' = [last_error EXCEPT ![s] = FALSE]
              /\ _timer_registered' = (_timer_registered /\ ~LastDriverGone)
              /\ robots' = IF main.then = "remove" THEN robots \ {s} ELSE robots
  /\ UNCHANGED <<is_connected, polling_enabled, _drivers, _poll_threads, _thread_cache,
                 recording, threads>>

(* The cache entry goes; disconnect_slot also resets the twin and, with the *)
(* last driver, the timer; connect_slot goes on to the new driver.          *)
PopCache ==
  /\ main.at = "cache"
  /\ _thread_cache' = [_thread_cache EXCEPT ![main.slot] = NoEntry]
  /\ LET s == main.slot
     IN  IF main.then = "attach"
         THEN /\ main' = [main EXCEPT !.at = "attach"]
              /\ UNCHANGED <<shown, last_error, _timer_registered, robots>>
         ELSE /\ main' = Free
              /\ shown' = [shown EXCEPT ![s] = 0]
              /\ last_error' = [last_error EXCEPT ![s] = FALSE]
              /\ _timer_registered' = (_timer_registered /\ ~LastDriverGone)
              /\ robots' = IF main.then = "remove" THEN robots \ {s} ELSE robots
  /\ UNCHANGED <<is_connected, polling_enabled, _drivers, _poll_threads, recording, threads>>

-----------------------------------------------------------------------------
(* The rest of connect_slot                                                *)

(* driver.connect returns an error; the operator shows it.                  *)
AttachFails ==
  /\ main.at = "attach"
  /\ main' = Free
  /\ last_error' = [last_error EXCEPT ![main.slot] = TRUE]
  /\ UNCHANGED <<robots, is_connected, polling_enabled, shown, registry, _thread_cache,
                 recording, threads>>

(* The driver is connected and registered; the seed may fail on the way.    *)
Attach ==
  /\ Go("attach", "start")
  /\ sessions < MaxSessions
  /\ sessions' = sessions + 1
  /\ LET s == main.slot  g == sessions + 1
     IN  /\ _drivers' = [_drivers EXCEPT ![s] = g]
         /\ owner' = [owner EXCEPT ![g] = s]
         /\ open' = [open EXCEPT ![g] = TRUE]
         /\ is_connected' = [is_connected EXCEPT ![s] = TRUE]
         /\ last_error' = [last_error EXCEPT ![s] = FALSE]
         /\ \E seeded \in {g, shown[s]} : shown' = [shown EXCEPT ![s] = seeded]
  /\ UNCHANGED <<robots, polling_enabled, _poll_threads, _timer_registered, _thread_cache,
                 recording, pc, stop_event, pose_ok>>

StartThread ==
  /\ main.at = "start"
  /\ main' = Free
  /\ LET s == main.slot  g == _drivers[s]
     IN  /\ pc' = [pc EXCEPT ![g] = "loop"]
         /\ _poll_threads' = [_poll_threads EXCEPT ![s] = g]
  /\ _timer_registered' = TRUE
  /\ UNCHANGED <<blender, _drivers, _thread_cache, recording, sessions, owner, open,
                 stop_event, pose_ok>>

-----------------------------------------------------------------------------
(* The timer: _poll_all, a single main-thread call on a cache snapshot     *)

Polled(s) == s \in robots /\ is_connected[s] /\ polling_enabled[s] /\ _thread_cache[s].present

(* Mutant: a slot in error is skipped before its error is shown.            *)
PollAllSilently ==
  /\ main = Free /\ _timer_registered
  /\ LET Fresh(s) == Polled(s) /\ ~_thread_cache[s].error
     IN  /\ last_error' = [s \in Slots |-> IF Fresh(s) THEN FALSE ELSE last_error[s]]
         /\ shown' = [s \in Slots |->
              IF Fresh(s) /\ _thread_cache[s].pose # 0 THEN _thread_cache[s].pose ELSE shown[s]]
  /\ UNCHANGED <<robots, is_connected, polling_enabled, registry, _thread_cache, recording,
                 main, threads>>

PollAll ==
  /\ main = Free /\ _timer_registered
  /\ last_error' = [s \in Slots |->
       IF Polled(s) THEN _thread_cache[s].error ELSE last_error[s]]
  /\ shown' = [s \in Slots |->
       IF Polled(s) /\ ~_thread_cache[s].error /\ _thread_cache[s].pose # 0
       THEN _thread_cache[s].pose ELSE shown[s]]
  /\ UNCHANGED <<robots, is_connected, polling_enabled, registry, _thread_cache, recording,
                 main, threads>>

-----------------------------------------------------------------------------
(* The poll thread of session g: _SlotPollThread.run                       *)

ThreadStep(g, from, to) ==
  /\ pc[g] = from
  /\ pc' = [pc EXCEPT ![g] = to]
  /\ UNCHANGED <<blender, registry, recording, main, sessions, owner, open, stop_event>>

NextCycle(g) ==
  /\ ThreadStep(g, "loop", IF stop_event[g] THEN "ended" ELSE "read")
  /\ UNCHANGED <<_thread_cache, pose_ok>>

(* A read on a closed driver raises; on an open one it may.                 *)
ReadPose(g) ==
  /\ ThreadStep(g, "read", "publish")
  /\ \E ok \in BOOLEAN : (ok => open[g]) /\ pose_ok' = [pose_ok EXCEPT ![g] = ok]
  /\ UNCHANGED _thread_cache

(* The other reads done, the results go into the entry of the uid, made if  *)
(* there is none; what was not read keeps its previous value.  The results  *)
(* are the cycle's own: the next one starts without them.                   *)
Publish(g) ==
  /\ ThreadStep(g, "publish", "loop")
  /\ _thread_cache' = [_thread_cache EXCEPT ![owner[g]] =
       [pose |-> IF pose_ok[g] THEN g ELSE @.pose, error |-> ~pose_ok[g], present |-> TRUE]]
  /\ pose_ok' = [pose_ok EXCEPT ![g] = FALSE]

Thread(g) == NextCycle(g) \/ ReadPose(g) \/ Publish(g)

-----------------------------------------------------------------------------
Init ==
  /\ robots = Slots
  /\ is_connected = [s \in Slots |-> FALSE]
  /\ polling_enabled = [s \in Slots |-> TRUE]
  /\ shown = [s \in Slots |-> 0]
  /\ last_error = [s \in Slots |-> FALSE]
  /\ _drivers = [s \in Slots |-> 0]
  /\ _poll_threads = [s \in Slots |-> 0]
  /\ _thread_cache = [s \in Slots |-> NoEntry]
  /\ _timer_registered = FALSE
  /\ recording = [s \in Slots |-> FALSE]
  /\ main = Free
  /\ sessions = 0
  /\ owner = [g \in Session |-> "none"]
  /\ open = [g \in Session |-> FALSE]
  /\ pc = [g \in Session |-> "unborn"]
  /\ stop_event = [g \in Session |-> FALSE]
  /\ pose_ok = [g \in Session |-> FALSE]

Operator == \E s \in Slots :
  \/ Connect(s) \/ Disconnect(s) \/ RemoveSlot(s) \/ TogglePolling(s)
  \/ RecordStart(s) \/ RecordStop(s)

MainStep == PopDriver \/ StopThread \/ Join \/ PopCache \/ AttachFails \/ Attach \/ StartThread

Next == Operator \/ LoadPost \/ MainStep \/ PollAll \/ \E g \in Session : Thread(g)

Spec == Init /\ [][Next]_vars

(* The main thread finishes what it began, Blender keeps firing a registered *)
(* timer, and the operating system keeps scheduling every thread; what the   *)
(* user does is free.                                                        *)
FairSpec ==
  /\ Spec
  /\ WF_vars(MainStep)
  /\ SF_vars(PollAll)
  /\ \A g \in Session : WF_vars(Thread(g))

-----------------------------------------------------------------------------
(* Properties                                                              *)

Polling(g) == pc[g] \notin {"unborn", "ended"}

(* Type invariant of the slots, the manager's maps and the sessions.        *)
TypeOK ==
  /\ robots \subseteq Slots
  /\ is_connected \in [Slots -> BOOLEAN] /\ polling_enabled \in [Slots -> BOOLEAN]
  /\ shown \in [Slots -> 0..MaxSessions] /\ last_error \in [Slots -> BOOLEAN]
  /\ _drivers \in [Slots -> 0..MaxSessions] /\ _poll_threads \in [Slots -> 0..MaxSessions]
  /\ _thread_cache \in
       [Slots -> [pose : 0..MaxSessions, error : BOOLEAN, present : BOOLEAN]]
  /\ _timer_registered \in BOOLEAN
  /\ recording \in [Slots -> BOOLEAN]
  /\ main \in [at : {"free", "driver", "thread", "join", "cache", "attach", "start"},
               slot : Slots \cup {"none"},
               then : {"free", "disconnected", "remove", "attach"}]
  /\ sessions \in 0..MaxSessions
  /\ owner \in [Session -> Slots \cup {"none"}] /\ open \in [Session -> BOOLEAN]
  /\ pc \in [Session -> {"unborn", "loop", "read", "publish", "ended"}]
  /\ stop_event \in [Session -> BOOLEAN] /\ pose_ok \in [Session -> BOOLEAN]

(* A slot that shows "connected" has its driver, a poll thread on that very *)
(* driver that has not been told to stop, and the timer that mirrors it:    *)
(* none of these can go while another slot's disconnect or a reload ends.   *)
ConnectedIsServed ==
  main = Free => \A s \in robots : is_connected[s] =>
    /\ _drivers[s] # 0 /\ open[_drivers[s]]
    /\ _poll_threads[s] = _drivers[s]
    /\ Polling(_drivers[s]) /\ ~stop_event[_drivers[s]]
    /\ _timer_registered

(* No uid is ever polled by two threads that mean to go on: a reconnect     *)
(* never leaves the thread of the previous session running.                 *)
OneReader ==
  \A g, h \in Session :
    /\ Polling(g) /\ ~stop_event[g] /\ Polling(h) /\ ~stop_event[h]
    /\ owner[g] = owner[h]
    => g = h

(* What the timer copies into a connected slot was read in the session the  *)
(* slot is connected by, never in an earlier one.                           *)
MirrorsOwnSession ==
  [][\A s \in Slots : is_connected[s] /\ is_connected'[s] /\ shown'[s] # shown[s]
       => shown'[s] = _drivers'[s]]_vars

(* A recording that is active has a poll thread to feed it: "with the poll  *)
(* thread gone nothing would feed it, and a panel still showing 'recording' *)
(* would be a lie".                                                         *)
RecordingIsFed ==
  main = Free => \A s \in Slots : recording[s] => _poll_threads[s] # 0

(* A connected, polled slot ends up showing its own session's data or the   *)
(* error that keeps it from it: the thread never dies with the link, and    *)
(* the timer never skips the slot for good.                                 *)
SlotCatchesUp ==
  \A s \in Slots :
    is_connected[s] ~> \/ ~is_connected[s] \/ ~polling_enabled[s] \/ s \notin robots
                       \/ shown[s] = _drivers[s] \/ last_error[s]

(* A thread told to stop ends, and with it the operator that waits for it.  *)
StoppedEnds == \A g \in Session : stop_event[g] ~> pc[g] = "ended" /\ main = Free
=============================================================================

-------------------------- MODULE SlotSessionProofs -------------------------
(* Theorems about SlotSession, for every set of slots and every number of   *)
(* sessions.                                                                *)
EXTENDS SlotSession, TLAPS

-----------------------------------------------------------------------------
(* The inductive invariant.                                                *)

(* Sessions are numbered in order; a thread starts untold to stop and ends  *)
(* only when told to.                                                       *)
Numbered ==
  \A g \in Session :
    /\ g <= sessions => owner[g] \in Slots
    /\ g > sessions => pc[g] = "unborn"
    /\ pc[g] = "unborn" => ~stop_event[g]
    /\ pc[g] = "ended" => stop_event[g]

(* A registered driver is the open one of a session of its slot.            *)
Driven ==
  \A s \in Slots : _drivers[s] # 0 =>
    /\ _drivers[s] <= sessions
    /\ owner[_drivers[s]] = s
    /\ open[_drivers[s]]

(* A registered thread is a running one of its slot, not told to stop, and  *)
(* every such thread is registered.                                         *)
Threaded ==
  /\ \A s \in Slots : _poll_threads[s] # 0 =>
       /\ _poll_threads[s] <= sessions
       /\ owner[_poll_threads[s]] = s
       /\ pc[_poll_threads[s]] # "unborn"
       /\ ~stop_event[_poll_threads[s]]
  /\ \A g \in Session : Polling(g) /\ ~stop_event[g] => _poll_threads[owner[g]] = g

(* What the main thread has already done to the slot it is working on.      *)
Underway ==
  /\ main.at # "free" => main.slot \in Slots
  /\ main.at \in {"driver", "thread", "join", "cache", "attach"} => ~is_connected[main.slot]
  /\ main.at \in {"thread", "join", "cache", "attach"} => _drivers[main.slot] = 0
  /\ main.at \in {"join", "cache", "attach", "start"} => _poll_threads[main.slot] = 0
  /\ main.at = "start" => _drivers[main.slot] # 0 /\ pc[_drivers[main.slot]] = "unborn"

(* A connected slot has its driver, its thread and the timer, but for the   *)
(* last statements of its connect.                                          *)
Served ==
  \A s \in Slots : is_connected[s] /\ ~(main.at = "start" /\ main.slot = s) =>
    /\ _drivers[s] # 0
    /\ _poll_threads[s] = _drivers[s]
    /\ _timer_registered

IInv == TypeOK /\ Numbered /\ Driven /\ Threaded /\ Underway /\ Served

-----------------------------------------------------------------------------
(* What is registered is a session.                                        *)
LEMMA Registered ==
  ASSUME TypeOK, NEW s \in Slots
  PROVE  /\ _drivers[s] # 0 => _drivers[s] \in Session
         /\ _poll_threads[s] # 0 => _poll_threads[s] \in Session
<1>. QED
  BY SlotConstants DEF TypeOK, Session

-----------------------------------------------------------------------------
(* Each conjunct of the invariant is kept by every step.                    *)

(* Every step keeps the types.                                              *)
LEMMA TypeOKStep ==
  ASSUME IInv, [Next]_vars
  PROVE  TypeOK'
<1>. USE DEF IInv, Session, Free, blender, registry, threads
<1>1. ASSUME NEW s \in Slots, Connect(s) PROVE TypeOK'
  BY <1>1, SlotConstants DEF Connect, TypeOK, NoEntry, Underway
<1>2. ASSUME NEW s \in Slots, Disconnect(s) PROVE TypeOK'
  BY <1>2, SlotConstants DEF Disconnect, BeginDisconnect, TypeOK, NoEntry, Underway
<1>3. ASSUME NEW s \in Slots, RemoveSlot(s) PROVE TypeOK'
  <2>1. CASE BeginDisconnect(s, "remove")
    BY <1>3, <2>1, SlotConstants DEF RemoveSlot, BeginDisconnect, TypeOK
  <2>2. CASE ~is_connected[s] /\ robots' = robots \ {s}
             /\ UNCHANGED <<is_connected, polling_enabled, shown, last_error, registry,
                            _thread_cache, recording, main, threads>>
    BY <2>2 DEF TypeOK
  <2>. QED
    BY <1>3, <2>1, <2>2 DEF RemoveSlot
<1>4. ASSUME NEW s \in Slots, TogglePolling(s) PROVE TypeOK'
  BY <1>4, SlotConstants DEF TogglePolling, TypeOK, NoEntry, Underway
<1>5. ASSUME NEW s \in Slots, RecordStart(s) PROVE TypeOK'
  BY <1>5, SlotConstants DEF RecordStart, TypeOK, NoEntry, Underway
<1>6. ASSUME NEW s \in Slots, RecordStop(s) PROVE TypeOK'
  BY <1>6, SlotConstants DEF RecordStop, TypeOK, NoEntry, Underway
<1>7. CASE LoadPost
  <2>1. is_connected' \in [Slots -> BOOLEAN]
    BY <1>7 DEF LoadPost
  <2>2. shown' \in [Slots -> 0..MaxSessions] /\ last_error' \in [Slots -> BOOLEAN]
    <3>1. CASE UNCHANGED <<shown, last_error>>
      BY <3>1 DEF TypeOK
    <3>2. CASE /\ shown' = [s \in Slots |-> 0]
               /\ last_error' = [s \in Slots |-> FALSE]
      BY <3>2, SlotConstants
    <3>. QED
      BY <1>7, <3>1, <3>2 DEF LoadPost
  <2>. QED
    BY <1>7, <2>1, <2>2 DEF LoadPost, TypeOK
<1>8. CASE PopDriver
  <2>1. open' \in [Session -> BOOLEAN]
    BY <1>8 DEF PopDriver, TypeOK
  <2>2. _drivers' \in [Slots -> 0..MaxSessions]
    <3>1. _drivers \in [Slots -> 0..MaxSessions] /\ 0 \in 0..MaxSessions
      BY SlotConstants DEF TypeOK
    <3>2. _drivers' = [_drivers EXCEPT ![main.slot] = 0]
      BY <1>8 DEF PopDriver
    <3>. QED
      BY ONLY <3>1, <3>2
  <2>3. main' = [main EXCEPT !.at = "thread"]
    BY <1>8 DEF PopDriver, Go
  <2>. QED
    BY <1>8, <2>1, <2>2, <2>3, SlotConstants DEF PopDriver, TypeOK
<1>9. CASE StopThread
  BY <1>9, SlotConstants DEF StopThread, Go, TypeOK, NoEntry, Underway
<1>10. CASE Join
  BY <1>10, SlotConstants DEF Join, Go, TypeOK, NoEntry, Underway
<1>11. CASE PopCache
  <2>1. main.slot \in Slots /\ NoEntry \in [pose : 0..MaxSessions, error : BOOLEAN, present : BOOLEAN]
    BY <1>11, SlotConstants DEF PopCache, TypeOK, Underway, NoEntry
  <2>2. /\ _thread_cache' \in
             [Slots -> [pose : 0..MaxSessions, error : BOOLEAN, present : BOOLEAN]]
    BY <1>11, <2>1 DEF PopCache, TypeOK
  <2>5. /\ shown' \in [Slots -> 0..MaxSessions] /\ last_error' \in [Slots -> BOOLEAN]
        /\ robots' \subseteq Slots
    <3>1. CASE main.then = "attach"
      BY <1>11, <3>1 DEF PopCache, TypeOK
    <3>2. CASE main.then # "attach"
      <4>1. /\ shown' = [shown EXCEPT ![main.slot] = 0]
            /\ last_error' = [last_error EXCEPT ![main.slot] = FALSE]
            /\ robots' \subseteq robots
        BY <1>11, <3>2 DEF PopCache
      <4>. QED
        BY <4>1, <2>1, SlotConstants DEF TypeOK
    <3>. QED
      BY <3>1, <3>2
  <2>3. _timer_registered' \in BOOLEAN
    BY <1>11 DEF PopCache, TypeOK
  <2>4. main' \in [at : {"free", "driver", "thread", "join", "cache", "attach", "start"},
                  slot : Slots \cup {"none"},
                  then : {"free", "disconnected", "remove", "attach"}]
    BY <1>11 DEF PopCache, TypeOK
  <2>. QED
    BY <1>11, <2>2, <2>3, <2>4, <2>5 DEF PopCache, TypeOK
<1>12. CASE AttachFails
  BY <1>12, SlotConstants DEF AttachFails, TypeOK, NoEntry, Underway
<1>13. CASE Attach
  <2>1. main.slot \in Slots /\ sessions + 1 \in Session /\ sessions + 1 \in 0..MaxSessions
    BY <1>13, SlotConstants DEF Attach, Go, TypeOK, Underway
  <2>2. shown' \in [Slots -> 0..MaxSessions]
    BY <1>13, <2>1 DEF Attach, TypeOK
  <2>. QED
    BY <1>13, <2>1, <2>2 DEF Attach, Go, TypeOK
<1>14. CASE StartThread
  BY <1>14, SlotConstants DEF StartThread, TypeOK, NoEntry, Underway
<1>15. CASE PollAll
  BY <1>15, SlotConstants DEF PollAll, TypeOK, NoEntry, Underway
<1>16. ASSUME NEW g \in Session, NextCycle(g) PROVE TypeOK'
  BY <1>16, SlotConstants DEF NextCycle, ThreadStep, TypeOK, NoEntry, Underway
<1>17. ASSUME NEW g \in Session, ReadPose(g) PROVE TypeOK'
  BY <1>17, SlotConstants DEF ReadPose, ThreadStep, TypeOK, NoEntry, Underway
<1>18. ASSUME NEW g \in Session, Publish(g) PROVE TypeOK'
  <2>1. owner[g] \in Slots /\ g \in 0..MaxSessions
    BY <1>18, SlotConstants DEF Publish, ThreadStep, TypeOK, Numbered
  <2>2. _thread_cache[owner[g]].pose \in 0..MaxSessions
    BY <2>1 DEF TypeOK
  <2>. DEFINE entry == [pose |-> IF pose_ok[g] THEN g ELSE _thread_cache[owner[g]].pose,
                        error |-> ~pose_ok[g], present |-> TRUE]
  <2>3. entry \in [pose : 0..MaxSessions, error : BOOLEAN, present : BOOLEAN]
    BY <2>1, <2>2 DEF TypeOK
  <2>4. _thread_cache' = [_thread_cache EXCEPT ![owner[g]] = entry]
    BY <1>18 DEF Publish
  <2>. HIDE DEF entry
  <2>5. _thread_cache' \in
          [Slots -> [pose : 0..MaxSessions, error : BOOLEAN, present : BOOLEAN]]
    BY <2>3, <2>4 DEF TypeOK
  <2>. QED
    BY <1>18, <2>5 DEF Publish, ThreadStep, TypeOK
<1>19. CASE UNCHANGED vars
  BY <1>19, SlotConstants DEF vars, TypeOK, NoEntry, Underway
<1>. QED
  BY <1>1, <1>2, <1>3, <1>4, <1>5, <1>6, <1>7, <1>8, <1>9, <1>10, <1>11, <1>12, <1>13,
     <1>14, <1>15, <1>16, <1>17, <1>18, <1>19
     DEF Next, Operator, MainStep, Thread

(* Every step keeps the numbering.                                          *)
LEMMA NumberedStep ==
  ASSUME IInv, [Next]_vars
  PROVE  Numbered'
<1>. USE DEF IInv, Session, Free, blender, registry, threads
<1>0. ASSUME UNCHANGED <<sessions, owner, pc, stop_event>> PROVE Numbered'
  BY <1>0 DEF Numbered
<1>1. ASSUME NEW s \in Slots, Connect(s) PROVE Numbered'
  BY <1>1, <1>0 DEF Connect
<1>2. ASSUME NEW s \in Slots, Disconnect(s) PROVE Numbered'
  BY <1>2, <1>0 DEF Disconnect, BeginDisconnect
<1>3. ASSUME NEW s \in Slots, RemoveSlot(s) PROVE Numbered'
  BY <1>3, <1>0 DEF RemoveSlot, BeginDisconnect
<1>4. ASSUME NEW s \in Slots, TogglePolling(s) PROVE Numbered'
  BY <1>4, <1>0 DEF TogglePolling
<1>5. ASSUME NEW s \in Slots, RecordStart(s) PROVE Numbered'
  BY <1>5, <1>0 DEF RecordStart
<1>6. ASSUME NEW s \in Slots, RecordStop(s) PROVE Numbered'
  BY <1>6, <1>0 DEF RecordStop
<1>7. CASE LoadPost
  BY <1>7, <1>0 DEF LoadPost
<1>8. CASE PopDriver
  BY <1>8, <1>0 DEF PopDriver, Go
<1>9. CASE StopThread
  BY <1>9, SlotConstants DEF StopThread, Go, Numbered, TypeOK, Underway, Driven, Threaded
<1>10. CASE Join
  BY <1>10, <1>0 DEF Join, Go
<1>11. CASE PopCache
  BY <1>11, <1>0 DEF PopCache, LastDriverGone
<1>12. CASE AttachFails
  BY <1>12, <1>0 DEF AttachFails
<1>13. CASE Attach
  BY <1>13, SlotConstants DEF Attach, Go, Numbered, TypeOK, Underway, Driven, Threaded
<1>14. CASE StartThread
  BY <1>14, SlotConstants DEF StartThread, Numbered, TypeOK, Underway, Driven, Threaded
<1>15. CASE PollAll
  BY <1>15, <1>0 DEF PollAll
<1>16. ASSUME NEW g \in Session, NextCycle(g) PROVE Numbered'
  BY <1>16, SlotConstants DEF NextCycle, ThreadStep, Numbered, TypeOK, Underway, Driven, Threaded
<1>17. ASSUME NEW g \in Session, ReadPose(g) PROVE Numbered'
  BY <1>17, SlotConstants DEF ReadPose, ThreadStep, Numbered, TypeOK, Underway, Driven, Threaded
<1>18. ASSUME NEW g \in Session, Publish(g) PROVE Numbered'
  BY <1>18, SlotConstants DEF Publish, ThreadStep, Numbered, TypeOK, Underway, Driven, Threaded
<1>19. CASE UNCHANGED vars
  BY <1>19, <1>0 DEF vars
<1>. QED
  BY <1>1, <1>2, <1>3, <1>4, <1>5, <1>6, <1>7, <1>8, <1>9, <1>10, <1>11, <1>12, <1>13,
     <1>14, <1>15, <1>16, <1>17, <1>18, <1>19
     DEF Next, Operator, MainStep, Thread

(* Every step keeps the drivers.                                            *)
LEMMA DrivenStep ==
  ASSUME IInv, [Next]_vars
  PROVE  Driven'
<1>. USE DEF IInv, Session, Free, blender, registry, threads
<1>0. ASSUME UNCHANGED <<_drivers, sessions, owner, open>> PROVE Driven'
  BY <1>0 DEF Driven
<1>1. ASSUME NEW s \in Slots, Connect(s) PROVE Driven'
  BY <1>1, <1>0 DEF Connect
<1>2. ASSUME NEW s \in Slots, Disconnect(s) PROVE Driven'
  BY <1>2, <1>0 DEF Disconnect, BeginDisconnect
<1>3. ASSUME NEW s \in Slots, RemoveSlot(s) PROVE Driven'
  BY <1>3, <1>0 DEF RemoveSlot, BeginDisconnect
<1>4. ASSUME NEW s \in Slots, TogglePolling(s) PROVE Driven'
  BY <1>4, <1>0 DEF TogglePolling
<1>5. ASSUME NEW s \in Slots, RecordStart(s) PROVE Driven'
  BY <1>5, <1>0 DEF RecordStart
<1>6. ASSUME NEW s \in Slots, RecordStop(s) PROVE Driven'
  BY <1>6, <1>0 DEF RecordStop
<1>7. CASE LoadPost
  BY <1>7, <1>0 DEF LoadPost
<1>8. CASE PopDriver
  BY <1>8, SlotConstants DEF PopDriver, Go, Driven, TypeOK, Underway
<1>9. CASE StopThread
  BY <1>9, <1>0 DEF StopThread, Go
<1>10. CASE Join
  BY <1>10, <1>0 DEF Join, Go
<1>11. CASE PopCache
  BY <1>11, <1>0 DEF PopCache, LastDriverGone
<1>12. CASE AttachFails
  BY <1>12, <1>0 DEF AttachFails
<1>13. CASE Attach
  BY <1>13, SlotConstants DEF Attach, Go, Driven, TypeOK, Underway
<1>14. CASE StartThread
  BY <1>14, <1>0 DEF StartThread
<1>15. CASE PollAll
  BY <1>15, <1>0 DEF PollAll
<1>16. ASSUME NEW g \in Session, NextCycle(g) PROVE Driven'
  BY <1>16, <1>0 DEF NextCycle, ThreadStep
<1>17. ASSUME NEW g \in Session, ReadPose(g) PROVE Driven'
  BY <1>17, <1>0 DEF ReadPose, ThreadStep
<1>18. ASSUME NEW g \in Session, Publish(g) PROVE Driven'
  BY <1>18, <1>0 DEF Publish, ThreadStep
<1>19. CASE UNCHANGED vars
  BY <1>19, <1>0 DEF vars
<1>. QED
  BY <1>1, <1>2, <1>3, <1>4, <1>5, <1>6, <1>7, <1>8, <1>9, <1>10, <1>11, <1>12, <1>13,
     <1>14, <1>15, <1>16, <1>17, <1>18, <1>19
     DEF Next, Operator, MainStep, Thread

(* Every step keeps the threads registered.                                 *)
LEMMA ThreadedStep ==
  ASSUME IInv, [Next]_vars
  PROVE  Threaded'
<1>. USE DEF IInv, Session, Free, blender, registry, threads
<1>0. ASSUME UNCHANGED <<_poll_threads, sessions, owner, pc, stop_event>> PROVE Threaded'
  BY <1>0 DEF Threaded, Polling
<1>1. ASSUME NEW s \in Slots, Connect(s) PROVE Threaded'
  BY <1>1, <1>0 DEF Connect
<1>2. ASSUME NEW s \in Slots, Disconnect(s) PROVE Threaded'
  BY <1>2, <1>0 DEF Disconnect, BeginDisconnect
<1>3. ASSUME NEW s \in Slots, RemoveSlot(s) PROVE Threaded'
  BY <1>3, <1>0 DEF RemoveSlot, BeginDisconnect
<1>4. ASSUME NEW s \in Slots, TogglePolling(s) PROVE Threaded'
  BY <1>4, <1>0 DEF TogglePolling
<1>5. ASSUME NEW s \in Slots, RecordStart(s) PROVE Threaded'
  BY <1>5, <1>0 DEF RecordStart
<1>6. ASSUME NEW s \in Slots, RecordStop(s) PROVE Threaded'
  BY <1>6, <1>0 DEF RecordStop
<1>7. CASE LoadPost
  BY <1>7, <1>0 DEF LoadPost
<1>8. CASE PopDriver
  BY <1>8, <1>0 DEF PopDriver, Go
<1>9. CASE StopThread
  <2>1. ASSUME NEW s \in Slots, _poll_threads'[s] # 0
        PROVE  /\ _poll_threads'[s] <= sessions'
               /\ owner'[_poll_threads'[s]] = s
               /\ pc'[_poll_threads'[s]] # "unborn"
               /\ ~stop_event'[_poll_threads'[s]]
    BY <1>9, <2>1, Registered DEF StopThread, Go, Underway, Driven, Threaded, TypeOK
  <2>2. ASSUME NEW h \in Session, Polling(h)', ~stop_event'[h]
        PROVE  _poll_threads'[owner'[h]] = h
    <3>1. owner[h] \in Slots
      BY <1>9, <2>2, SlotConstants DEF StopThread, TypeOK, Numbered, Polling
    <3>2. Polling(h) /\ ~stop_event[h] /\ h # _poll_threads[main.slot]
      BY <1>9, <2>2 DEF StopThread, Polling
    <3>3. _poll_threads[owner[h]] = h
      BY <3>2 DEF Threaded
    <3>4. /\ _poll_threads' = [_poll_threads EXCEPT ![main.slot] = 0] /\ owner' = owner
          /\ _poll_threads \in [Slots -> 0..MaxSessions]
      BY <1>9 DEF StopThread, TypeOK
    <3>. QED
      BY ONLY <3>1, <3>2, <3>3, <3>4
  <2>. QED
    BY <2>1, <2>2 DEF Threaded
<1>10. CASE Join
  BY <1>10, <1>0 DEF Join, Go
<1>11. CASE PopCache
  BY <1>11, <1>0 DEF PopCache, LastDriverGone
<1>12. CASE AttachFails
  BY <1>12, <1>0 DEF AttachFails
<1>13. CASE Attach
  BY <1>13, SlotConstants DEF Attach, Go, Threaded, TypeOK, Underway, Numbered, Driven, Polling
<1>14. CASE StartThread
  <2>1. ASSUME NEW s \in Slots, _poll_threads'[s] # 0
        PROVE  /\ _poll_threads'[s] <= sessions'
               /\ owner'[_poll_threads'[s]] = s
               /\ pc'[_poll_threads'[s]] # "unborn"
               /\ ~stop_event'[_poll_threads'[s]]
    <3>. DEFINE g == _drivers[main.slot]
    <3>1. /\ main.slot \in Slots /\ g \in Session /\ pc[g] = "unborn"
          /\ g <= sessions /\ owner[g] = main.slot /\ ~stop_event[g]
      BY <1>14, Registered DEF StartThread, Underway, Driven, Numbered
    <3>2. /\ _poll_threads' = [_poll_threads EXCEPT ![main.slot] = g]
          /\ pc' = [pc EXCEPT ![g] = "loop"]
          /\ sessions' = sessions /\ owner' = owner /\ stop_event' = stop_event
      BY <1>14 DEF StartThread
    <3>3. /\ _poll_threads \in [Slots -> 0..MaxSessions]
          /\ pc \in [Session -> {"unborn", "loop", "read", "publish", "ended"}]
      BY DEF TypeOK
    <3>. HIDE DEF g
    <3>4. CASE s = main.slot
      BY <3>1, <3>2, <3>3, <3>4
    <3>5. CASE s # main.slot
      <4>1. _poll_threads'[s] = _poll_threads[s] /\ _poll_threads[s] \in Session
        BY <2>1, <3>2, <3>3, <3>5, Registered
      <4>2. _poll_threads[s] <= sessions /\ owner[_poll_threads[s]] = s
            /\ pc[_poll_threads[s]] # "unborn" /\ ~stop_event[_poll_threads[s]]
        BY <2>1, <4>1 DEF Threaded
      <4>. QED
        BY <3>1, <3>2, <3>3, <4>1, <4>2
    <3>. QED
      BY <3>4, <3>5
  <2>2. ASSUME NEW h \in Session, Polling(h)', ~stop_event'[h]
        PROVE  _poll_threads'[owner'[h]] = h
    BY <1>14, <2>2, SlotConstants DEF StartThread, TypeOK, Underway, Numbered, Driven, Threaded, Polling
  <2>. QED
    BY <2>1, <2>2 DEF Threaded
<1>15. CASE PollAll
  BY <1>15, <1>0 DEF PollAll
<1>16. ASSUME NEW g \in Session, NextCycle(g) PROVE Threaded'
  <2>1. ASSUME NEW s \in Slots, _poll_threads'[s] # 0
        PROVE  /\ _poll_threads'[s] <= sessions'
               /\ owner'[_poll_threads'[s]] = s
               /\ pc'[_poll_threads'[s]] # "unborn"
               /\ ~stop_event'[_poll_threads'[s]]
    BY <1>16, <2>1, Registered DEF NextCycle, ThreadStep, Underway, Driven, Threaded, TypeOK
  <2>2. ASSUME NEW h \in Session, Polling(h)', ~stop_event'[h]
        PROVE  _poll_threads'[owner'[h]] = h
    BY <1>16, <2>2, SlotConstants DEF NextCycle, ThreadStep, TypeOK, Underway, Numbered, Driven, Threaded, Polling
  <2>. QED
    BY <2>1, <2>2 DEF Threaded
<1>17. ASSUME NEW g \in Session, ReadPose(g) PROVE Threaded'
  BY <1>17, SlotConstants DEF ReadPose, ThreadStep, Threaded, TypeOK, Underway, Numbered, Driven, Polling
<1>18. ASSUME NEW g \in Session, Publish(g) PROVE Threaded'
  <2>1. ASSUME NEW s \in Slots, _poll_threads'[s] # 0
        PROVE  /\ _poll_threads'[s] <= sessions'
               /\ owner'[_poll_threads'[s]] = s
               /\ pc'[_poll_threads'[s]] # "unborn"
               /\ ~stop_event'[_poll_threads'[s]]
    BY <1>18, <2>1, Registered DEF Publish, ThreadStep, Underway, Driven, Threaded, TypeOK
  <2>2. ASSUME NEW h \in Session, Polling(h)', ~stop_event'[h]
        PROVE  _poll_threads'[owner'[h]] = h
    BY <1>18, <2>2, SlotConstants DEF Publish, ThreadStep, TypeOK, Underway, Numbered, Driven, Threaded, Polling
  <2>. QED
    BY <2>1, <2>2 DEF Threaded
<1>19. CASE UNCHANGED vars
  BY <1>19, <1>0 DEF vars
<1>. QED
  BY <1>1, <1>2, <1>3, <1>4, <1>5, <1>6, <1>7, <1>8, <1>9, <1>10, <1>11, <1>12, <1>13,
     <1>14, <1>15, <1>16, <1>17, <1>18, <1>19
     DEF Next, Operator, MainStep, Thread

(* Every step keeps the order of what the main thread does.                 *)
LEMMA UnderwayStep ==
  ASSUME IInv, [Next]_vars
  PROVE  Underway'
<1>. USE DEF IInv, Session, Free, blender, registry, threads
<1>1. ASSUME NEW s \in Slots, Connect(s) PROVE Underway'
  BY <1>1, SlotConstants DEF Connect, Underway, TypeOK, Numbered, Driven, Threaded
<1>2. ASSUME NEW s \in Slots, Disconnect(s) PROVE Underway'
  BY <1>2, SlotConstants DEF Disconnect, BeginDisconnect, Underway, TypeOK, Numbered, Driven, Threaded
<1>3. ASSUME NEW s \in Slots, RemoveSlot(s) PROVE Underway'
  BY <1>3, SlotConstants DEF RemoveSlot, BeginDisconnect, Underway, TypeOK, Numbered, Driven, Threaded
<1>4. ASSUME NEW s \in Slots, TogglePolling(s) PROVE Underway'
  BY <1>4, SlotConstants DEF TogglePolling, Underway, TypeOK, Numbered, Driven, Threaded
<1>5. ASSUME NEW s \in Slots, RecordStart(s) PROVE Underway'
  BY <1>5, SlotConstants DEF RecordStart, Underway, TypeOK, Numbered, Driven, Threaded
<1>6. ASSUME NEW s \in Slots, RecordStop(s) PROVE Underway'
  BY <1>6, SlotConstants DEF RecordStop, Underway, TypeOK, Numbered, Driven, Threaded
<1>7. CASE LoadPost
  BY <1>7, SlotConstants DEF LoadPost, Underway, TypeOK, Numbered, Driven, Threaded
<1>8. CASE PopDriver
  BY <1>8, SlotConstants DEF PopDriver, Go, Underway, TypeOK, Numbered, Driven, Threaded
<1>9. CASE StopThread
  BY <1>9, SlotConstants DEF StopThread, Go, Underway, TypeOK, Numbered, Driven, Threaded
<1>10. CASE Join
  BY <1>10, SlotConstants DEF Join, Go, Underway, TypeOK, Numbered, Driven, Threaded
<1>11. CASE PopCache
  <2>1. CASE main.then = "attach"
    BY <1>11, <2>1 DEF PopCache, Underway, TypeOK
  <2>2. CASE main.then # "attach"
    BY <1>11, <2>2 DEF PopCache, Underway, TypeOK
  <2>. QED
    BY <2>1, <2>2
<1>12. CASE AttachFails
  BY <1>12, SlotConstants DEF AttachFails, Underway, TypeOK, Numbered, Driven, Threaded
<1>13. CASE Attach
  BY <1>13, SlotConstants DEF Attach, Go, Underway, TypeOK, Numbered, Driven, Threaded
<1>14. CASE StartThread
  BY <1>14, SlotConstants DEF StartThread, Underway, TypeOK, Numbered, Driven, Threaded
<1>15. CASE PollAll
  BY <1>15, SlotConstants DEF PollAll, Underway, TypeOK, Numbered, Driven, Threaded
<1>16. ASSUME NEW g \in Session, NextCycle(g) PROVE Underway'
  BY <1>16, SlotConstants DEF NextCycle, ThreadStep, Underway, TypeOK, Numbered, Driven, Threaded
<1>17. ASSUME NEW g \in Session, ReadPose(g) PROVE Underway'
  BY <1>17, SlotConstants DEF ReadPose, ThreadStep, Underway, TypeOK, Numbered, Driven, Threaded
<1>18. ASSUME NEW g \in Session, Publish(g) PROVE Underway'
  BY <1>18, SlotConstants DEF Publish, ThreadStep, Underway, TypeOK, Numbered, Driven, Threaded
<1>19. CASE UNCHANGED vars
  BY <1>19, SlotConstants DEF vars, Underway, TypeOK, Numbered, Driven, Threaded
<1>. QED
  BY <1>1, <1>2, <1>3, <1>4, <1>5, <1>6, <1>7, <1>8, <1>9, <1>10, <1>11, <1>12, <1>13,
     <1>14, <1>15, <1>16, <1>17, <1>18, <1>19
     DEF Next, Operator, MainStep, Thread

(* Every step keeps connected slots served.                                 *)
LEMMA ServedStep ==
  ASSUME IInv, [Next]_vars
  PROVE  Served'
<1>. USE DEF IInv, Session, Free, blender, registry, threads
<1>1. ASSUME NEW s \in Slots, Connect(s) PROVE Served'
  BY <1>1, SlotConstants DEF Connect, Served, TypeOK, Underway
<1>2. ASSUME NEW s \in Slots, Disconnect(s) PROVE Served'
  BY <1>2, SlotConstants DEF Disconnect, BeginDisconnect, Served, TypeOK, Underway
<1>3. ASSUME NEW s \in Slots, RemoveSlot(s) PROVE Served'
  <2>1. CASE BeginDisconnect(s, "remove")
    BY <1>3, <2>1, SlotConstants DEF RemoveSlot, BeginDisconnect, Served, TypeOK, Underway
  <2>2. CASE ~is_connected[s] /\ robots' = robots \ {s}
             /\ UNCHANGED <<is_connected, polling_enabled, shown, last_error, registry,
                            _thread_cache, recording, main, threads>>
    BY <2>2 DEF Served
  <2>. QED
    BY <1>3, <2>1, <2>2 DEF RemoveSlot
<1>4. ASSUME NEW s \in Slots, TogglePolling(s) PROVE Served'
  BY <1>4, SlotConstants DEF TogglePolling, Served, TypeOK, Underway
<1>5. ASSUME NEW s \in Slots, RecordStart(s) PROVE Served'
  BY <1>5, SlotConstants DEF RecordStart, Served, TypeOK, Underway
<1>6. ASSUME NEW s \in Slots, RecordStop(s) PROVE Served'
  BY <1>6, SlotConstants DEF RecordStop, Served, TypeOK, Underway
<1>7. CASE LoadPost
  BY <1>7, SlotConstants DEF LoadPost, Served, TypeOK, Underway
<1>8. CASE PopDriver
  BY <1>8, SlotConstants DEF PopDriver, Go, Served, TypeOK, Underway
<1>9. CASE StopThread
  BY <1>9, SlotConstants DEF StopThread, Go, Served, TypeOK, Underway
<1>10. CASE Join
  BY <1>10, SlotConstants DEF Join, Go, Served, TypeOK, Underway
<1>11. CASE PopCache
  BY <1>11, SlotConstants DEF PopCache, LastDriverGone, Served, TypeOK, Underway
<1>12. CASE AttachFails
  BY <1>12, SlotConstants DEF AttachFails, Served, TypeOK, Underway
<1>13. CASE Attach
  BY <1>13, SlotConstants DEF Attach, Go, Served, TypeOK, Underway
<1>14. CASE StartThread
  BY <1>14, SlotConstants DEF StartThread, Served, TypeOK, Underway
<1>15. CASE PollAll
  BY <1>15, SlotConstants DEF PollAll, Served, TypeOK, Underway
<1>16. ASSUME NEW g \in Session, NextCycle(g) PROVE Served'
  BY <1>16, SlotConstants DEF NextCycle, ThreadStep, Served, TypeOK, Underway
<1>17. ASSUME NEW g \in Session, ReadPose(g) PROVE Served'
  BY <1>17, SlotConstants DEF ReadPose, ThreadStep, Served, TypeOK, Underway
<1>18. ASSUME NEW g \in Session, Publish(g) PROVE Served'
  BY <1>18, SlotConstants DEF Publish, ThreadStep, Served, TypeOK, Underway
<1>19. CASE UNCHANGED vars
  BY <1>19, SlotConstants DEF vars, Served, TypeOK, Underway
<1>. QED
  BY <1>1, <1>2, <1>3, <1>4, <1>5, <1>6, <1>7, <1>8, <1>9, <1>10, <1>11, <1>12, <1>13,
     <1>14, <1>15, <1>16, <1>17, <1>18, <1>19
     DEF Next, Operator, MainStep, Thread
-----------------------------------------------------------------------------
(* The theorems.                                                           *)

LEMMA Inductive == Spec => []IInv
<1>1. Init => IInv
  <2>. SUFFICES ASSUME Init PROVE IInv
    OBVIOUS
  <2>. USE SlotConstants DEF Init, Session, Free, NoEntry
  <2>1. /\ shown \in [Slots -> 0..MaxSessions] /\ last_error \in [Slots -> BOOLEAN]
        /\ is_connected \in [Slots -> BOOLEAN] /\ polling_enabled \in [Slots -> BOOLEAN]
        /\ recording \in [Slots -> BOOLEAN]
    OBVIOUS
  <2>2. /\ _drivers \in [Slots -> 0..MaxSessions] /\ _poll_threads \in [Slots -> 0..MaxSessions]
        /\ _thread_cache \in
             [Slots -> [pose : 0..MaxSessions, error : BOOLEAN, present : BOOLEAN]]
    OBVIOUS
  <2>3. /\ owner \in [Session -> Slots \cup {"none"}] /\ open \in [Session -> BOOLEAN]
        /\ pc \in [Session -> {"unborn", "loop", "read", "publish", "ended"}]
        /\ stop_event \in [Session -> BOOLEAN] /\ pose_ok \in [Session -> BOOLEAN]
    OBVIOUS
  <2>6. main \in [at : {"free", "driver", "thread", "join", "cache", "attach", "start"},
                 slot : Slots \cup {"none"},
                 then : {"free", "disconnected", "remove", "attach"}]
    OBVIOUS
  <2>4. TypeOK
    <3>1. robots \subseteq Slots /\ _timer_registered \in BOOLEAN
      BY DEF Init
    <3>2. sessions \in 0..MaxSessions
      BY SlotConstants DEF Init
    <3>. QED
      BY ONLY <2>1, <2>2, <2>3, <2>6, <3>1, <3>2 DEF TypeOK
  <2>5. Numbered /\ Driven /\ Threaded /\ Underway /\ Served
    BY DEF Numbered, Driven, Threaded, Underway, Served, Polling
  <2>. QED
    BY <2>4, <2>5 DEF IInv
<1>2. IInv /\ [Next]_vars => IInv'
  BY TypeOKStep, NumberedStep, DrivenStep, ThreadedStep, UnderwayStep, ServedStep DEF IInv
<1>. QED
  BY <1>1, <1>2, PTL DEF Spec

(* The types are kept, whatever the number of slots and sessions.           *)
THEOREM TypeCorrect == Spec => []TypeOK
<1>1. IInv => TypeOK
  BY DEF IInv
<1>. QED
  BY <1>1, Inductive, PTL

(* A slot that shows "connected" has its driver, its poll thread and the    *)
(* timer whenever the main thread is free.                                  *)
THEOREM ConnectedServed == Spec => []ConnectedIsServed
<1>1. IInv => ConnectedIsServed
  <2>. SUFFICES ASSUME IInv, main = Free, NEW s \in Slots, is_connected[s]
                PROVE  /\ _drivers[s] # 0 /\ open[_drivers[s]]
                       /\ _poll_threads[s] = _drivers[s]
                       /\ Polling(_drivers[s]) /\ ~stop_event[_drivers[s]]
                       /\ _timer_registered
    BY DEF ConnectedIsServed, IInv, TypeOK
  <2>1. _drivers[s] # 0 /\ _poll_threads[s] = _drivers[s] /\ _timer_registered
    BY DEF IInv, Served, Free
  <2>2. _drivers[s] \in Session
    BY <2>1, SlotConstants DEF IInv, TypeOK, Session
  <2>. QED
    BY <2>1, <2>2 DEF IInv, Driven, Threaded, Numbered, Polling
<1>. QED
  BY <1>1, Inductive, PTL

(* No uid is polled by two threads that mean to go on.                      *)
THEOREM ReaderIsUnique == Spec => []OneReader
<1>1. IInv => OneReader
  BY DEF IInv, Threaded, OneReader
<1>. QED
  BY <1>1, Inductive, PTL

-----------------------------------------------------------------------------
(* The cache, when no read outlasts the join.                              *)

(* A thread told to stop is running only while the main thread waits for it; *)
(* the pose in a slot's cache is that of the slot's thread, but between the *)
(* thread's end and the removal of the entry.                               *)
Waited ==
  \A g \in Session : Polling(g) /\ stop_event[g] => main.at = "join" /\ main.slot = owner[g]

OwnPose ==
  \A s \in Slots : _thread_cache[s].pose # 0 =>
    \/ _poll_threads[s] = _thread_cache[s].pose
    \/ main.at \in {"join", "cache"} /\ main.slot = s

(* Every step keeps stopped threads waited for.                             *)
LEMMA WaitedStep ==
  ASSUME IInv, ~JoinTimesOut, Waited, OwnPose, [Next]_vars
  PROVE  Waited'
<1>. USE DEF IInv, Session, Free, blender, registry, threads
<1>1. ASSUME NEW s \in Slots, Connect(s) PROVE Waited'
  BY <1>1 DEF Connect, Waited, TypeOK, Polling
<1>2. ASSUME NEW s \in Slots, Disconnect(s) PROVE Waited'
  BY <1>2 DEF Disconnect, BeginDisconnect, Waited, TypeOK, Polling
<1>3. ASSUME NEW s \in Slots, RemoveSlot(s) PROVE Waited'
  <2>1. CASE BeginDisconnect(s, "remove")
    BY <1>3, <2>1 DEF RemoveSlot, BeginDisconnect, Waited, Polling
  <2>2. CASE UNCHANGED <<main, threads>>
    BY <2>2 DEF Waited, Polling
  <2>. QED
    BY <1>3, <2>1, <2>2 DEF RemoveSlot
<1>4. ASSUME NEW s \in Slots, TogglePolling(s) PROVE Waited'
  BY <1>4 DEF TogglePolling, Waited, TypeOK, Polling
<1>5. ASSUME NEW s \in Slots, RecordStart(s) PROVE Waited'
  BY <1>5 DEF RecordStart, Waited, TypeOK, Polling
<1>6. ASSUME NEW s \in Slots, RecordStop(s) PROVE Waited'
  BY <1>6 DEF RecordStop, Waited, TypeOK, Polling
<1>7. CASE LoadPost
  BY <1>7 DEF LoadPost, Waited, TypeOK, Polling
<1>8. CASE PopDriver
  BY <1>8 DEF PopDriver, Go, Waited, TypeOK, Polling
<1>9. CASE StopThread
  BY <1>9, Registered DEF StopThread, Go, Waited, TypeOK, Polling, Underway, Threaded
<1>10. CASE Join
  BY <1>10 DEF Join, Go, Waited, TypeOK, Polling
<1>11. CASE PopCache
  BY <1>11 DEF PopCache, LastDriverGone, Waited, TypeOK, Polling
<1>12. CASE AttachFails
  BY <1>12 DEF AttachFails, Waited, TypeOK, Polling
<1>13. CASE Attach
  BY <1>13 DEF Attach, Go, Waited, TypeOK, Polling
<1>14. CASE StartThread
  BY <1>14, Registered DEF StartThread, Waited, TypeOK, Polling, Underway, Numbered
<1>15. CASE PollAll
  BY <1>15 DEF PollAll, Waited, TypeOK, Polling
<1>16. ASSUME NEW g \in Session, NextCycle(g) PROVE Waited'
  BY <1>16 DEF NextCycle, ThreadStep, Waited, TypeOK, Polling
<1>17. ASSUME NEW g \in Session, ReadPose(g) PROVE Waited'
  BY <1>17 DEF ReadPose, ThreadStep, Waited, TypeOK, Polling
<1>18. ASSUME NEW g \in Session, Publish(g) PROVE Waited'
  BY <1>18 DEF Publish, ThreadStep, Waited, TypeOK, Polling
<1>19. CASE UNCHANGED vars
  BY <1>19 DEF vars, Waited, TypeOK, Polling
<1>. QED
  BY <1>1, <1>2, <1>3, <1>4, <1>5, <1>6, <1>7, <1>8, <1>9, <1>10, <1>11, <1>12, <1>13,
     <1>14, <1>15, <1>16, <1>17, <1>18, <1>19
     DEF Next, Operator, MainStep, Thread

(* Every step keeps poses with their thread.                                *)
LEMMA OwnPoseStep ==
  ASSUME IInv, ~JoinTimesOut, Waited, OwnPose, [Next]_vars
  PROVE  OwnPose'
<1>. USE DEF IInv, Session, Free, blender, registry, threads
<1>1. ASSUME NEW s \in Slots, Connect(s) PROVE OwnPose'
  BY <1>1 DEF Connect, OwnPose, TypeOK
<1>2. ASSUME NEW s \in Slots, Disconnect(s) PROVE OwnPose'
  BY <1>2 DEF Disconnect, BeginDisconnect, OwnPose, TypeOK
<1>3. ASSUME NEW s \in Slots, RemoveSlot(s) PROVE OwnPose'
  BY <1>3 DEF RemoveSlot, BeginDisconnect, OwnPose, TypeOK
<1>4. ASSUME NEW s \in Slots, TogglePolling(s) PROVE OwnPose'
  BY <1>4 DEF TogglePolling, OwnPose, TypeOK
<1>5. ASSUME NEW s \in Slots, RecordStart(s) PROVE OwnPose'
  BY <1>5 DEF RecordStart, OwnPose, TypeOK
<1>6. ASSUME NEW s \in Slots, RecordStop(s) PROVE OwnPose'
  BY <1>6 DEF RecordStop, OwnPose, TypeOK
<1>7. CASE LoadPost
  BY <1>7 DEF LoadPost, OwnPose, TypeOK
<1>8. CASE PopDriver
  BY <1>8 DEF PopDriver, Go, OwnPose, TypeOK
<1>9. CASE StopThread
  BY <1>9 DEF StopThread, Go, OwnPose, TypeOK
<1>10. CASE Join
  BY <1>10 DEF Join, Go, OwnPose, TypeOK
<1>11. CASE PopCache
  BY <1>11, SlotConstants DEF PopCache, OwnPose, TypeOK, Underway, NoEntry
<1>12. CASE AttachFails
  BY <1>12 DEF AttachFails, OwnPose, TypeOK
<1>13. CASE Attach
  BY <1>13, SlotConstants DEF Attach, Go, OwnPose, TypeOK, Underway
<1>14. CASE StartThread
  BY <1>14, SlotConstants DEF StartThread, OwnPose, TypeOK, Underway
<1>15. CASE PollAll
  BY <1>15 DEF PollAll, OwnPose, TypeOK
<1>16. ASSUME NEW g \in Session, NextCycle(g) PROVE OwnPose'
  BY <1>16 DEF NextCycle, ThreadStep, OwnPose, TypeOK
<1>17. ASSUME NEW g \in Session, ReadPose(g) PROVE OwnPose'
  BY <1>17 DEF ReadPose, ThreadStep, OwnPose, TypeOK
<1>18. ASSUME NEW g \in Session, Publish(g) PROVE OwnPose'
  <2>1. owner[g] \in Slots /\ g \in Session
    BY <1>18, SlotConstants DEF Publish, ThreadStep, TypeOK, Numbered
  <2>2. ASSUME ~stop_event[g] PROVE _poll_threads[owner[g]] = g
    BY <1>18, <2>2 DEF Publish, ThreadStep, Threaded, Polling
  <2>3. ASSUME stop_event[g] PROVE main.at = "join" /\ main.slot = owner[g]
    BY <1>18, <2>3 DEF Publish, ThreadStep, Waited, Polling
  <2>4. _thread_cache'[owner[g]].pose \in {g, _thread_cache[owner[g]].pose}
    BY <1>18, <2>1 DEF Publish, TypeOK
  <2>5. ASSUME NEW s \in Slots, s # owner[g] PROVE _thread_cache'[s] = _thread_cache[s]
    BY <1>18, <2>5 DEF Publish, TypeOK
  <2>6. UNCHANGED <<_poll_threads, main>>
    BY <1>18 DEF Publish, ThreadStep
  <2>. QED
    BY <2>1, <2>2, <2>3, <2>4, <2>5, <2>6 DEF OwnPose
<1>19. CASE UNCHANGED vars
  BY <1>19 DEF vars, OwnPose, TypeOK
<1>. QED
  BY <1>1, <1>2, <1>3, <1>4, <1>5, <1>6, <1>7, <1>8, <1>9, <1>10, <1>11, <1>12, <1>13,
     <1>14, <1>15, <1>16, <1>17, <1>18, <1>19
     DEF Next, Operator, MainStep, Thread

(* What the timer copies into a connected slot was read in the session the  *)
(* slot is connected by, as long as no read outlasts the join at a          *)
(* disconnect.                                                              *)
THEOREM MirrorsOwn == ~JoinTimesOut => (Spec => MirrorsOwnSession)
<1>. SUFFICES ASSUME ~JoinTimesOut PROVE Spec => MirrorsOwnSession
  OBVIOUS
<1>1. Init => Waited /\ OwnPose
  BY DEF Init, Waited, OwnPose, Polling, NoEntry
<1>2. IInv /\ Waited /\ OwnPose /\ [Next]_vars => (Waited /\ OwnPose)'
  BY WaitedStep, OwnPoseStep
<1>3. ASSUME IInv, OwnPose, [Next]_vars, NEW s \in Slots,
             is_connected[s], is_connected'[s], shown'[s] # shown[s]
      PROVE  shown'[s] = _drivers'[s]

  <2>1. ASSUME NEW q \in Slots, Connect(q) PROVE FALSE
    BY <1>3, <2>1 DEF Connect, IInv, TypeOK, Underway, OwnPose, Served, Polled, Free, blender
  <2>2. ASSUME NEW q \in Slots, Disconnect(q) PROVE FALSE
    BY <1>3, <2>2 DEF Disconnect, BeginDisconnect, IInv, TypeOK, Underway, OwnPose, Served, Polled, Free, blender
  <2>3. ASSUME NEW q \in Slots, RemoveSlot(q) PROVE FALSE
    BY <1>3, <2>3 DEF RemoveSlot, BeginDisconnect, IInv, TypeOK, Underway, OwnPose, Served, Polled, Free, blender
  <2>4. ASSUME NEW q \in Slots, TogglePolling(q) PROVE FALSE
    BY <1>3, <2>4 DEF TogglePolling, IInv, TypeOK, Underway, OwnPose, Served, Polled, Free, blender
  <2>5. ASSUME NEW q \in Slots, RecordStart(q) PROVE FALSE
    BY <1>3, <2>5 DEF RecordStart, IInv, TypeOK, Underway, OwnPose, Served, Polled, Free, blender
  <2>6. ASSUME NEW q \in Slots, RecordStop(q) PROVE FALSE
    BY <1>3, <2>6 DEF RecordStop, IInv, TypeOK, Underway, OwnPose, Served, Polled, Free, blender
  <2>7. ASSUME LoadPost PROVE FALSE
    BY <1>3, <2>7 DEF LoadPost, IInv, TypeOK, Underway, OwnPose, Served, Polled, Free, blender
  <2>8. ASSUME PopDriver PROVE FALSE
    BY <1>3, <2>8 DEF PopDriver, Go, IInv, TypeOK, Underway, OwnPose, Served, Polled, Free, blender
  <2>9. ASSUME StopThread PROVE FALSE
    BY <1>3, <2>9 DEF StopThread, Go, IInv, TypeOK, Underway, OwnPose, Served, Polled, Free, blender
  <2>10. ASSUME Join PROVE FALSE
    BY <1>3, <2>10 DEF Join, Go, IInv, TypeOK, Underway, OwnPose, Served, Polled, Free, blender
  <2>11. ASSUME PopCache PROVE FALSE
    BY <1>3, <2>11 DEF PopCache, LastDriverGone, IInv, TypeOK, Underway, OwnPose, Served, Polled, Free, blender
  <2>12. ASSUME AttachFails PROVE FALSE
    BY <1>3, <2>12 DEF AttachFails, IInv, TypeOK, Underway, OwnPose, Served, Polled, Free, blender
  <2>13. CASE Attach
    BY <1>3, <2>13 DEF Attach, Go, IInv, TypeOK, Underway, OwnPose, Served, Polled, Free, blender
  <2>14. ASSUME StartThread PROVE FALSE
    BY <1>3, <2>14 DEF StartThread, IInv, TypeOK, Underway, OwnPose, Served, Polled, Free, blender
  <2>15. CASE PollAll
    <3>1. /\ main.at = "free" /\ UNCHANGED <<main, _drivers>>
          /\ shown' = [q \in Slots |->
               IF Polled(q) /\ ~_thread_cache[q].error /\ _thread_cache[q].pose # 0
               THEN _thread_cache[q].pose ELSE shown[q]]
      BY <2>15 DEF PollAll, Free, registry
    <3>2. _thread_cache[s].pose # 0 /\ shown'[s] = _thread_cache[s].pose
      BY <1>3, <3>1
    <3>3. _poll_threads[s] = _thread_cache[s].pose
      BY <1>3, <3>1, <3>2 DEF OwnPose
    <3>4. _poll_threads[s] = _drivers[s]
      BY <1>3, <3>1 DEF IInv, Served
    <3>. QED
      BY <3>1, <3>2, <3>3, <3>4
  <2>16. ASSUME NEW g \in Session, NextCycle(g) PROVE FALSE
    BY <1>3, <2>16 DEF NextCycle, ThreadStep, IInv, TypeOK, Underway, OwnPose, Served, Polled, Free, blender
  <2>17. ASSUME NEW g \in Session, ReadPose(g) PROVE FALSE
    BY <1>3, <2>17 DEF ReadPose, ThreadStep, IInv, TypeOK, Underway, OwnPose, Served, Polled, Free, blender
  <2>18. ASSUME NEW g \in Session, Publish(g) PROVE FALSE
    BY <1>3, <2>18 DEF Publish, ThreadStep, IInv, TypeOK, Underway, OwnPose, Served, Polled, Free, blender
  <2>19. ASSUME UNCHANGED vars PROVE FALSE
    BY <1>3, <2>19 DEF vars, IInv, TypeOK, Underway, OwnPose, Served, Polled, Free, blender
  <2>. QED
    BY <1>3, <2>1, <2>2, <2>3, <2>4, <2>5, <2>6, <2>7, <2>8, <2>9, <2>10,
       <2>11, <2>12, <2>13, <2>14, <2>15, <2>16, <2>17, <2>18, <2>19
       DEF Next, Operator, MainStep, Thread
<1>4. IInv /\ OwnPose /\ [Next]_vars
      => [\A s \in Slots : is_connected[s] /\ is_connected'[s] /\ shown'[s] # shown[s]
            => shown'[s] = _drivers'[s]]_vars
  BY <1>3
<1>. QED
  BY <1>1, <1>2, <1>4, Inductive, PTL DEF Spec, MirrorsOwnSession
=============================================================================

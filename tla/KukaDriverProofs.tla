-------------------------- MODULE KukaDriverProofs --------------------------
(* Theorems about two services of the KUKA driver.                          *)
(*                                                                         *)
(* KukaLink: callers get the replies to their own messages while none is    *)
(* late, a working link is kept and no socket is left open, for any number  *)
(* of timeouts, reconnections and callers.                                  *)
(*                                                                         *)
(* KukaProgram: the values a waypoint carries are written before it is      *)
(* planned, for every ring, set of programs and number of Stops.            *)
EXTENDS KukaLink, KukaProgram, TLAPS

-----------------------------------------------------------------------------
(* KukaLink: the socket that is open is the client's.                       *)
Socket ==
  /\ sockets = Held
  /\ peer = "open" => connected
  /\ client <=> peer # "none"

(* A connection that has ended holds no message, one that is reset no reply *)
(* either.                                                                  *)
Ended ==
  /\ peer # "open" => inbox = <<>>
  /\ peer \in {"none", "reset"} => replies = <<>>

(* Before the first timeout, what is under way is the message waited for or *)
(* its reply, and nothing else.                                             *)
Quiet == inbox = <<>> /\ replies = <<>>

OwnMessage(m) == \E known \in BOOLEAN : m = [of |-> "own", ok |-> known]

InTurn ==
  timeouts = 0 =>
    /\ got # "late"
    /\ at # "await" => Quiet
    /\ \/ Quiet
       \/ inbox = <<>> /\ (\E m \in Message : OwnMessage(m) /\ replies = <<m>>)
       \/ replies = <<>> /\ (\E m \in Message : OwnMessage(m) /\ inbox = <<m>>)

IInv == TypeOK /\ Socket /\ Ended /\ InTurn

-----------------------------------------------------------------------------
(* Giving messages up keeps what they are, and makes none where none was.   *)
LEMMA GivenUpMessages ==
  ASSUME NEW messages \in Seq(Message)
  PROVE  /\ GivenUp(messages) \in Seq(Message)
         /\ messages = <<>> => GivenUp(messages) = <<>>
<1>1. ASSUME NEW m \in Message PROVE [m EXCEPT !.of = "late"] \in Message
  <2>1. PICK of \in {"own", "late"}, ok \in BOOLEAN : m = [of |-> of, ok |-> ok]
    BY DEF Message
  <2>2. [m EXCEPT !.of = "late"] = [of |-> "late", ok |-> ok]
    BY <2>1
  <2>. QED
    BY <2>2, Zenon DEF Message
<1>2. \A i \in 1..Len(messages) : messages[i] \in Message
  OBVIOUS
<1>. QED
  BY <1>1, <1>2 DEF GivenUp

(* The flags are flags.                                                     *)
Flags ==
  /\ _robot \in BOOLEAN /\ tried \in BOOLEAN
  /\ connected \in BOOLEAN /\ client \in BOOLEAN /\ throttled \in BOOLEAN
  /\ listening \in BOOLEAN

LEMMA FlagStep ==
  ASSUME Flags, [Next]_vars
  PROVE  Flags'
<1>. USE DEF Flags
<1>1. ASSUME NEW what \in {"var", "control"}, Ask(what) PROVE Flags'
  BY <1>1, Zenon DEF Ask, socket, network
<1>2. CASE Connect
  BY <1>2, Zenon DEF Connect, Closed
<1>3. ASSUME Gone PROVE Flags'
  BY <1>3, Zenon DEF Gone, Closed
<1>4. CASE Throttled
  BY <1>4, Zenon DEF Throttled, Over, socket, network
<1>5. CASE Reconnect
  <2>1. CASE listening
    BY <1>5, <2>1, Zenon DEF Reconnect
  <2>2. CASE ~listening
    BY <1>5, <2>2, Zenon DEF Reconnect, Closed, Over
  <2>. QED
    BY <2>1, <2>2
<1>6. CASE Send
  BY <1>6, Zenon DEF Send, LinkFails, Over, socket
<1>7. CASE Receive
  <2>1. _robot' = _robot /\ tried' \in BOOLEAN /\ UNCHANGED <<socket, listening>>
    BY <1>7, Zenon DEF Receive, Over
  <2>. QED
    BY <2>1, Zenon DEF socket
<1>8. CASE Eof \/ Timeout
  BY <1>8, Zenon DEF Eof, Timeout, Over, socket, network
<1>9. CASE Reset
  BY <1>9, Zenon DEF Reset, LinkFails, Over, network
<1>10. CASE Answer \/ BridgeCloses \/ ConnectionLost
  BY <1>10, Zenon DEF Answer, BridgeCloses, ConnectionLost, driver, socket
<1>11. CASE BridgeStartsOrStops \/ HalfSecondPasses
  BY <1>11, Zenon DEF BridgeStartsOrStops, HalfSecondPasses, driver, socket, network
<1>12. CASE UNCHANGED vars
  BY <1>12, Zenon DEF vars, driver, socket, network
<1>. QED
  BY <1>1, <1>2, <1>3, <1>4, <1>5, <1>6, <1>7, <1>8, <1>9, <1>10, <1>11, <1>12
  DEF Next, Transact, Disconnect, Drop

(* Steps keep the other types.                                              *)
Places ==
  /\ kind \in {"var", "control", "first"}
  /\ at \in {"free", "connect", "send", "await", "dropped"}
  /\ peer \in {"none", "open", "closed", "resetting", "reset"}
  /\ sockets \in Nat /\ got \in {"none", "own", "late"} /\ timeouts \in 0..MaxTimeouts

Messages == inbox \in Seq(Message) /\ replies \in Seq(Message)

LEMMA PlaceStep ==
  ASSUME Places, Messages, Socket, [Next]_vars
  PROVE  Places'
<1>. USE DEF Places
<1>1. ASSUME NEW what \in {"var", "control"}, Ask(what) PROVE Places'
  BY <1>1 DEF Ask, socket, network, history
<1>2. sockets - Held \in Nat
  BY DEF Socket, Held
<1>3. CASE Connect
  BY <1>3, <1>2 DEF Connect, Closed
<1>4. ASSUME Gone PROVE Places'
  BY <1>4, <1>2 DEF Gone, Closed
<1>5. CASE Throttled
  BY <1>5 DEF Throttled, Over, network, history
<1>6. CASE Reconnect
  BY <1>6, <1>2, LinkConstants DEF Reconnect, Opened, Closed, Over
<1>7. CASE Send
  BY <1>7 DEF Send, LinkFails, Over
<1>8. CASE Receive
  <2>1. Head(replies) \in Message
    BY <1>8 DEF Receive, Messages
  <2>2. Head(replies).of \in {"own", "late"}
    BY <2>1 DEF Message
  <2>. QED
    BY <1>8, <2>2 DEF Receive, Over
<1>9. CASE Eof \/ Reset
  BY <1>9 DEF Eof, Reset, LinkFails, Over, network, history
<1>10. CASE Timeout
  BY <1>10, LinkConstants DEF Timeout, Over, network
<1>11. CASE Answer \/ BridgeCloses \/ ConnectionLost
  BY <1>11 DEF Answer, BridgeCloses, ConnectionLost, driver, history
<1>12. CASE BridgeStartsOrStops \/ HalfSecondPasses
  BY <1>12 DEF BridgeStartsOrStops, HalfSecondPasses, driver, network, history
<1>13. CASE UNCHANGED vars
  BY <1>13 DEF vars, driver, network, history
<1>. QED
  BY <1>1, <1>3, <1>4, <1>5, <1>6, <1>7, <1>8, <1>9, <1>10, <1>11, <1>12, <1>13
  DEF Next, Transact, Disconnect, Drop

LEMMA MessageStep ==
  ASSUME Messages, [Next]_vars
  PROVE  Messages'
<1>. USE DEF Messages
<1>1. <<>> \in Seq(Message)
  OBVIOUS
<1>2. CASE Reconnect \/ Connect \/ Gone
  BY <1>1, <1>2 DEF Reconnect, Opened, Closed, Connect, Gone
<1>3. CASE Send
  <2>1. \A known \in BOOLEAN : [of |-> "own", ok |-> known] \in Message
    BY Zenon DEF Message
  <2>2. GivenUp(inbox) \in Seq(Message) /\ GivenUp(replies) \in Seq(Message)
    BY GivenUpMessages
  <2>3. \A known \in BOOLEAN : Append(GivenUp(inbox), [of |-> "own", ok |-> known]) \in Seq(Message)
    <3>1. \A m \in Message : Append(GivenUp(inbox), m) \in Seq(Message)
      BY <2>2
    <3>. QED
      BY <2>1, <3>1, Zenon
  <2>. QED
    BY <1>3, <2>2, <2>3, Zenon DEF Send
<1>4. CASE Receive
  BY <1>4 DEF Receive
<1>5. CASE Answer
  <2>1. Head(inbox) \in Message /\ Tail(inbox) \in Seq(Message)
    BY <1>5 DEF Answer
  <2>. QED
    BY <1>5, <2>1 DEF Answer
<1>6. CASE BridgeCloses \/ ConnectionLost
  BY <1>1, <1>6 DEF BridgeCloses, ConnectionLost
<1>7. ASSUME UNCHANGED <<inbox, replies>> PROVE Messages'
  BY <1>7
<1>. QED
  BY <1>2, <1>3, <1>4, <1>5, <1>6, <1>7
  DEF Next, Transact, Disconnect, Drop, Ask, Throttled, Eof, Reset, Timeout,
      BridgeStartsOrStops, HalfSecondPasses, vars, network

LEMMA TypeStep ==
  ASSUME TypeOK, Socket, [Next]_vars
  PROVE  TypeOK'
<1>1. TypeOK <=> Flags /\ Places /\ Messages
  BY Zenon DEF TypeOK, Flags, Places, Messages
<1>2. TypeOK' <=> Flags' /\ Places' /\ Messages'
  BY Zenon DEF TypeOK, Flags, Places, Messages
<1>. QED
  BY <1>1, <1>2, FlagStep, PlaceStep, MessageStep

(* Every way to a new socket, and every way out, closes the one there was.  *)
LEMMA SocketStep ==
  ASSUME TypeOK, Socket, [Next]_vars
  PROVE  Socket'
<1>. USE DEF Socket, Held
<1>1. ASSUME NEW what \in {"var", "control"}, Ask(what) PROVE Socket'
  BY <1>1 DEF Ask, socket, network, history
<1>2. CASE Connect
  BY <1>2 DEF Connect, Closed, TypeOK
<1>3. ASSUME Gone PROVE Socket'
  BY <1>3 DEF Gone, Closed, TypeOK
<1>4. CASE Throttled \/ Receive \/ Eof \/ Timeout
  <2>1. UNCHANGED <<sockets, connected, client, peer>>
    BY <1>4 DEF Throttled, Receive, Eof, Timeout, socket, network, history
  <2>. QED
    BY <2>1
<1>5. CASE Reconnect
  <2>1. CASE listening
    BY <1>5, <2>1 DEF Reconnect, Opened, TypeOK
  <2>2. CASE ~listening
    BY <1>5, <2>2 DEF Reconnect, Closed, TypeOK
  <2>. QED
    BY <2>1, <2>2
<1>6. CASE Send
  BY <1>6 DEF Send, LinkFails, socket
<1>7. CASE Reset
  BY <1>7 DEF Reset, LinkFails, network, history
<1>8. CASE Answer \/ BridgeCloses \/ ConnectionLost \/ BridgeStartsOrStops \/ HalfSecondPasses
  BY <1>8 DEF Answer, BridgeCloses, ConnectionLost, BridgeStartsOrStops, HalfSecondPasses,
              driver, socket, network, history
<1>9. CASE UNCHANGED vars
  BY <1>9 DEF vars, driver, socket, network, history
<1>. QED
  BY <1>1, <1>2, <1>3, <1>4, <1>5, <1>6, <1>7, <1>8, <1>9
  DEF Next, Transact, Disconnect, Drop

(* The end of a connection takes what is on the way with it.                *)
LEMMA EndedStep ==
  ASSUME TypeOK, Ended, [Next]_vars
  PROVE  Ended'
<1>. USE DEF Ended
<1>1. ASSUME NEW what \in {"var", "control"}, Ask(what) PROVE Ended'
  BY <1>1 DEF Ask, socket, network, history
<1>2. CASE Connect \/ Gone
  BY <1>2 DEF Connect, Gone, Closed
<1>3. CASE Throttled \/ Eof \/ Reset \/ Timeout
  BY <1>3 DEF Throttled, Eof, Reset, Timeout, network
<1>4. CASE Reconnect
  BY <1>4 DEF Reconnect, Opened, Closed
<1>5. CASE Send
  BY <1>5, GivenUpMessages DEF Send, TypeOK
<1>6. CASE Receive
  BY <1>6 DEF Receive
<1>7. CASE Answer \/ BridgeCloses \/ ConnectionLost \/ BridgeStartsOrStops \/ HalfSecondPasses
  BY <1>7 DEF Answer, BridgeCloses, ConnectionLost, BridgeStartsOrStops, HalfSecondPasses,
              network
<1>8. CASE UNCHANGED vars
  BY <1>8 DEF vars, network
<1>. QED
  BY <1>1, <1>2, <1>3, <1>4, <1>5, <1>6, <1>7, <1>8
  DEF Next, Transact, Disconnect, Drop

(* The lock keeps messages and replies in turn.                             *)
LEMMA InTurnStep ==
  ASSUME TypeOK, Ended, InTurn, [Next]_vars
  PROVE  InTurn'
<1>. USE DEF Quiet, InTurn
<1>1. ASSUME NEW what \in {"var", "control"}, Ask(what) PROVE InTurn'
  <2>1. at # "await" /\ at' # "await" /\ UNCHANGED <<inbox, replies, got, timeouts>>
    BY <1>1 DEF Ask, Free, network, history
  <2>. QED
    BY <2>1
<1>2. CASE Connect \/ Gone
  BY <1>2 DEF Connect, Gone, Closed
<1>3. CASE Throttled
  BY <1>3 DEF Throttled, Over, network, history
<1>4. CASE Reconnect
  BY <1>4 DEF Reconnect, Opened, Closed, Over
<1>5. CASE Send
  <2>. SUFFICES ASSUME timeouts' = 0 PROVE InTurn'
    OBVIOUS
  <2>1. timeouts = 0 /\ Quiet /\ replies' = GivenUp(replies) /\ got' = "none"
    BY <1>5 DEF Send
  <2>2. GivenUp(inbox) = <<>> /\ replies' = <<>>
    BY <2>1, GivenUpMessages DEF TypeOK
  <2>3. ASSUME at' = "await", NEW known \in BOOLEAN,
               inbox' = Append(GivenUp(inbox), [of |-> "own", ok |-> known])
        PROVE  InTurn'
    <3>1. inbox' = <<[of |-> "own", ok |-> known]>>
      BY <2>2, <2>3
    <3>2. [of |-> "own", ok |-> known] \in Message /\ OwnMessage([of |-> "own", ok |-> known])
      BY Zenon DEF Message, OwnMessage
    <3>. QED
      BY <2>1, <2>2, <2>3, <3>1, <3>2
  <2>4. ASSUME inbox' = inbox PROVE InTurn'
    BY <2>1, <2>2, <2>4
  <2>. QED
    BY <1>5, <2>3, <2>4, Zenon DEF Send
<1>6. CASE Receive
  <2>. SUFFICES ASSUME timeouts' = 0 PROVE InTurn'
    OBVIOUS
  <2>1. timeouts = 0 /\ replies # <<>> /\ got' = Head(replies).of /\ replies' = Tail(replies)
        /\ inbox' = inbox
    BY <1>6 DEF Receive
  <2>2. PICK m \in Message : inbox = <<>> /\ OwnMessage(m) /\ replies = <<m>>
    BY <2>1
  <2>3. m.of = "own"
    BY <2>2 DEF OwnMessage
  <2>. QED
    BY <2>1, <2>2, <2>3
<1>7. CASE Eof \/ Reset
  <2>1. inbox = <<>> /\ replies = <<>> /\ UNCHANGED <<inbox, replies, got, timeouts>>
    BY <1>7 DEF Eof, Reset, Ended, network, history
  <2>. QED
    BY <2>1
<1>8. CASE Timeout
  <2>1. timeouts \in Nat /\ timeouts' = timeouts + 1
    BY <1>8 DEF Timeout, TypeOK
  <2>. QED
    BY <2>1
<1>9. CASE Answer
  <2>. SUFFICES ASSUME timeouts' = 0 PROVE InTurn'
    OBVIOUS
  <2>1. timeouts = 0 /\ inbox # <<>> /\ replies' = Append(replies, Head(inbox))
        /\ inbox' = Tail(inbox) /\ UNCHANGED <<at, got>>
    BY <1>9 DEF Answer, driver, history
  <2>2. PICK m \in Message : replies = <<>> /\ OwnMessage(m) /\ inbox = <<m>>
    BY <2>1
  <2>3. inbox' = <<>> /\ replies' = <<m>>
    BY <2>1, <2>2
  <2>. QED
    BY <2>1, <2>2, <2>3
<1>10. CASE BridgeCloses
  BY <1>10 DEF BridgeCloses, driver
<1>11. CASE ConnectionLost
  BY <1>11 DEF ConnectionLost, driver
<1>12. ASSUME UNCHANGED <<at, inbox, replies, got, timeouts>> PROVE InTurn'
  BY <1>12
<1>. QED
  BY <1>1, <1>2, <1>3, <1>4, <1>5, <1>6, <1>7, <1>8, <1>9, <1>10, <1>11, <1>12
  DEF Next, Transact, Disconnect, Drop, BridgeStartsOrStops, HalfSecondPasses,
      vars, driver, network, history

-----------------------------------------------------------------------------
(* The inductive invariant of the link: one socket, the client's, and       *)
(* messages and replies in turn until the first timeout.                    *)
THEOREM Inductive == Spec => []IInv
<1>1. Init => IInv
  <2>1. Init => TypeOK
    <3>1. Init => Flags
      BY Zenon DEF Init, Flags
    <3>2. Init => Places /\ Messages
      BY LinkConstants DEF Init, Places, Messages
    <3>. QED
      BY <3>1, <3>2, Zenon DEF TypeOK, Flags, Places, Messages
  <2>2. Init => Socket
    BY DEF Init, Socket, Held
  <2>3. Init => Ended /\ InTurn
    BY DEF Init, Ended, InTurn, Quiet
  <2>. QED
    BY <2>1, <2>2, <2>3 DEF IInv
<1>2. IInv /\ [Next]_vars => IInv'
  BY TypeStep, SocketStep, EndedStep, InTurnStep DEF IInv
<1>. QED
  BY <1>1, <1>2, PTL DEF Spec

(* Every variable of the driver, its client, the connection and the bridge  *)
(* keeps its type.                                                          *)
THEOREM TypeCorrect == Spec => []TypeOK
<1>1. IInv => TypeOK
  BY DEF IInv
<1>. QED
  BY <1>1, Inductive, PTL

(* Every reply is that of the message it is taken for, until one has been   *)
(* late on this connection.                                                 *)
THEOREM RepliesOwn == Spec => []ReplyIsOwn
<1>1. IInv => ReplyIsOwn
  BY DEF IInv, TypeOK, InTurn, ReplyIsOwn
<1>. QED
  BY <1>1, Inductive, PTL

(* The client holds a connection that works, whatever is answered on it.    *)
THEOREM LinkIsKept == Spec => []LinkKept
<1>1. IInv => LinkKept
  BY DEF IInv, Socket, LinkKept
<1>. QED
  BY <1>1, Inductive, PTL

(* At most one socket is open, over any number of reconnections.            *)
THEOREM OnlyOneSocket == Spec => []OneSocket
<1>1. IInv => OneSocket
  BY DEF IInv, Socket, Held, OneSocket
<1>. QED
  BY <1>1, Inductive, PTL

-----------------------------------------------------------------------------
(* KukaProgram: the ring.                                                   *)

(* The remainder is the only one there is.                                  *)
LEMMA RemainderUnique ==
  ASSUME NEW a \in Nat, NEW Q \in Nat, NEW R \in 0..(Ring - 1), a = Ring * Q + R
  PROVE  a % Ring = R
<1>. DEFINE q == a \div Ring
            r == a % Ring
<1>1. Ring \in Nat /\ Ring > 0
  BY ProgramConstants
<1>2. q \in Nat /\ r \in 0..(Ring - 1) /\ a = Ring * q + r
  BY <1>1
<1>. HIDE DEF q, r
<1>3. Ring * (q - Q) = R - r
  BY <1>1, <1>2
<1>4. CASE q - Q >= 1
  <2>1. Ring * (q - Q) >= Ring
    BY <1>1, <1>2, <1>4
  <2>. QED
    BY <1>1, <1>2, <1>3, <2>1
<1>5. CASE Q - q >= 1
  <2>1. Ring * (Q - q) >= Ring
    BY <1>1, <1>2, <1>5
  <2>2. Ring * (Q - q) = r - R
    BY <1>1, <1>2
  <2>. QED
    BY <1>1, <1>2, <2>1, <2>2
<1>6. CASE q = Q
  BY <1>1, <1>2, <1>6 DEF r
<1>. QED
  BY <1>2, <1>4, <1>5, <1>6

(* Consecutive waypoints go to consecutive slots, wrapping at Ring: the     *)
(* driver's modulo agrees with mq_stream's wrap-around counter.             *)
LEMMA SlotSucc ==
  ASSUME NEW k \in Nat \ {0}
  PROVE  /\ Slot(k) \in 1..Ring
         /\ Slot(1) = 1
         /\ Slot(k + 1) = IF Slot(k) + 1 > Ring THEN 1 ELSE Slot(k) + 1
<1>. DEFINE q == (k - 1) \div Ring
            r == (k - 1) % Ring
<1>1. /\ Ring \in Nat /\ Ring > 0
  BY ProgramConstants
<1>2. q \in Nat /\ r \in 0..(Ring - 1) /\ k - 1 = Ring * q + r
  BY <1>1
<1>3. Slot(1) = 1
  BY <1>1 DEF Slot
<1>4. Slot(k) = r + 1 /\ Slot(k + 1) = (k % Ring) + 1
  BY <1>1 DEF Slot
<1>. HIDE DEF q, r
<1>5. CASE r + 1 < Ring
  <2>1. k \in Nat /\ r + 1 \in 0..(Ring - 1) /\ k = Ring * q + (r + 1)
    BY <1>1, <1>2, <1>5
  <2>2. k % Ring = r + 1
    BY ONLY <1>2, <2>1, RemainderUnique
  <2>. QED
    BY <1>1, <1>2, <1>3, <1>4, <1>5, <2>2
<1>6. CASE r + 1 = Ring
  <2>1. k \in Nat /\ q + 1 \in Nat /\ 0 \in 0..(Ring - 1) /\ k = Ring * (q + 1) + 0
    BY <1>1, <1>2, <1>6
  <2>2. k % Ring = 0
    BY ONLY <2>1, RemainderUnique
  <2>. QED
    BY <1>1, <1>2, <1>3, <1>4, <1>6, <2>2
<1>. QED
  BY <1>1, <1>2, <1>5, <1>6

(* Two waypoints less than Ring apart never share a slot.                   *)
LEMMA SlotInjective ==
  ASSUME NEW i \in Nat \ {0}, NEW j \in Nat \ {0}, i < j, j - i < Ring
  PROVE  Slot(i) # Slot(j)
<1>1. /\ Ring \in Nat /\ Ring > 0
  BY ProgramConstants
<1>. DEFINE qi == (i - 1) \div Ring
            qj == (j - 1) \div Ring
            ri == (i - 1) % Ring
            rj == (j - 1) % Ring
<1>2. /\ qi \in Nat /\ ri \in 0..(Ring - 1) /\ i - 1 = Ring * qi + ri
      /\ qj \in Nat /\ rj \in 0..(Ring - 1) /\ j - 1 = Ring * qj + rj
  BY <1>1
<1>. HIDE DEF qi, qj, ri, rj
<1>3. SUFFICES ASSUME ri = rj PROVE FALSE
  BY <1>1, <1>2 DEF Slot, ri, rj
<1>4. j - i = Ring * (qj - qi)
  BY <1>1, <1>2, <1>3
<1>5. qj - qi >= 1
  BY <1>1, <1>2, <1>4
<1>6. Ring * (qj - qi) >= Ring
  BY <1>1, <1>2, <1>5
<1>. QED
  BY <1>1, <1>2, <1>4, <1>6

-----------------------------------------------------------------------------
(* KukaProgram: the inductive invariant.                                    *)

JobStates == {"none", "load", "before", "moving", "prepare", "feed", "tell", "after",
              "leaving", "over", "failed", "closed"}

JobRecord == [at : JobStates, plan : [before : BOOLEAN, points : Nat \ {0}, after : BOOLEAN],
              written : Nat, told : Nat, rd : Nat, cmd : Nat]

JobTypes ==
  /\ programs \in 0..MaxPrograms /\ _cmd_id \in Nat
  /\ MQ_ACTION \in {0, 1, 10} /\ MQ_CMD_ID \in Nat /\ MQ_DONE_ID \in Nat
  /\ MQ_RD_IDX \in Nat /\ MQ_WR_IDX \in Nat
  /\ pc \in {"off", "loop", "stream"}
  /\ job \in [1..MaxPrograms -> JobRecord]

(* Only the latest program has a job at work.                               *)
JobAlone == \A p \in 1..MaxPrograms : AtWork(p) => p = programs

(* A stream is asked for or consumed.                                       *)
Open == pc = "stream" \/ MQ_ACTION = 10

(* It is then the latest program's, which feeds it or has failed, and not   *)
(* acknowledged: so no other program begins, and this one has not gone on.  *)
JobCommand ==
  /\ MQ_CMD_ID = _cmd_id /\ MQ_DONE_ID <= _cmd_id
  /\ Open => /\ programs > 0
             /\ job[programs].at \in {"feed", "tell", "failed", "closed"}
             /\ job[programs].cmd = MQ_CMD_ID /\ MQ_DONE_ID < MQ_CMD_ID

(* Its waypoints are in their slots from MQ_RD_IDX to written, and these    *)
(* slots are no more than the ring has.                                     *)
JobLoaded ==
  Open =>
    /\ MQ_RD_IDX >= 1 /\ MQ_RD_IDX <= MQ_WR_IDX
    /\ MQ_WR_IDX = job[programs].written + 1
    /\ MQ_WR_IDX <= MQ_RD_IDX + Ring
    /\ \A k \in MQ_RD_IDX..job[programs].written : MQ_PT[Slot(k)] = [of |-> programs, k |-> k]
    /\ job[programs].at = "tell" => job[programs].rd <= MQ_RD_IDX

(* The interpreter's counter follows MQ_RD_IDX, and the waypoint handed     *)
(* over last is the one before it.                                          *)
JobRead ==
  /\ MQ_ACTION = 10 /\ pc = "loop" => MQ_RD_IDX = 1
  /\ pc = "stream" =>
       /\ MQ_I = IF MQ_RD_IDX = 1 THEN 0 ELSE Slot(MQ_RD_IDX - 1)
       /\ MQ_RD_IDX > 1 => handed = [of |-> programs, k |-> MQ_RD_IDX - 1]

(* The values of a waypoint are written before the waypoint.                *)
JobTold ==
  /\ \A p \in 1..MaxPrograms :
       job[p].written <= job[p].told /\ job[p].written <= job[p].plan.points
  /\ handed # ZeroFrame =>
       /\ handed.of \in 1..programs
       /\ handed.k \in 1..job[handed.of].told

JobInv == JobTypes /\ JobAlone /\ JobCommand /\ JobLoaded /\ JobRead /\ JobTold

LEMMA JobInit == ProgramInit => JobInv
<1>. SUFFICES ASSUME ProgramInit PROVE JobInv
  OBVIOUS
<1>1. MaxPrograms \in Nat
  BY ProgramConstants
<1>2. NoJob \in JobRecord /\ NoJob.at = "none" /\ NoJob.written = 0
      /\ NoJob.told = 0 /\ NoJob.plan.points = 1
  BY DEF NoJob, JobRecord, JobStates
<1>3. job = [p \in 1..MaxPrograms |-> NoJob]
  BY DEF ProgramInit, Program
<1>4. JobTypes
  BY <1>1, <1>2, <1>3 DEF ProgramInit, JobTypes
<1>5. JobAlone
  BY <1>2, <1>3 DEF JobAlone, AtWork
<1>6. JobCommand /\ JobLoaded /\ JobRead
  BY DEF ProgramInit, JobCommand, JobLoaded, JobRead, Open
<1>7. JobTold
  BY <1>2, <1>3 DEF ProgramInit, JobTold
<1>. QED
  BY <1>4, <1>5, <1>6, <1>7 DEF JobInv

(* One job's record changes.                                                *)
LEMMA JobExcept ==
  ASSUME JobTypes, NEW p \in 1..MaxPrograms, NEW r \in JobRecord, job' = [job EXCEPT ![p] = r]
  PROVE  /\ job' \in [1..MaxPrograms -> JobRecord]
         /\ job'[p] = r
         /\ \A q \in (1..MaxPrograms) \ {p} : job'[q] = job[q]
  BY DEF JobTypes

(* Filling the ring from waypoint n on, without going beyond what is free,  *)
(* puts each waypoint in its slot and leaves those not yet read in theirs.  *)
LEMMA FilledSlots ==
  ASSUME NEW p, NEW rd \in Nat \ {0}, NEW n \in Nat, NEW upto \in Nat,
         rd <= n + 1, upto < rd + Ring,
         \A k \in rd..n : MQ_PT[Slot(k)] = [of |-> p, k |-> k]
  PROVE  \A k \in rd..upto : Filled(p, n + 1, upto)[Slot(k)] = [of |-> p, k |-> k]
<1>. SUFFICES ASSUME NEW k \in rd..upto
              PROVE  Filled(p, n + 1, upto)[Slot(k)] = [of |-> p, k |-> k]
  OBVIOUS
<1>1. k \in Nat \ {0} /\ Slot(k) \in 1..Ring /\ Ring \in Nat
  BY SlotSucc, ProgramConstants
<1>. DEFINE ks == {j \in (n + 1)..upto : Slot(j) = Slot(k)}
<1>2. Filled(p, n + 1, upto)[Slot(k)]
        = IF ks = {} THEN MQ_PT[Slot(k)] ELSE [of |-> p, k |-> CHOOSE j \in ks : TRUE]
  BY <1>1 DEF Filled, Slot, Slot
<1>3. ASSUME NEW j \in ks PROVE j = k
  <2>1. j \in Nat \ {0} /\ j - k < Ring /\ k - j < Ring /\ Slot(j) = Slot(k)
    BY <1>1
  <2>. QED
    BY <1>1, <2>1, SlotInjective
<1>4. CASE k \in (n + 1)..upto
  <2>1. k \in ks
    BY <1>4
  <2>2. (CHOOSE j \in ks : TRUE) \in ks
    BY <2>1
  <2>3. (CHOOSE j \in ks : TRUE) = k
    BY <1>3, <2>2
  <2>. QED
    BY <1>2, <2>1, <2>3
<1>5. CASE k \in rd..n
  <2>1. ks = {}
    BY <1>1, <1>3, <1>5
  <2>. QED
    BY <1>2, <1>5, <2>1
<1>. QED
  BY <1>1, <1>4, <1>5

(* The constants, as the proofs use them.                                   *)
LEMMA JobConstants ==
  /\ MaxPrograms \in Nat /\ Ring \in Nat /\ Ring > 0
  /\ Plans \subseteq [before : BOOLEAN, points : Nat \ {0}, after : BOOLEAN]
  BY ProgramConstants

(* What the types say of one job, and that a job at work is the latest.     *)
LEMMA JobAt ==
  ASSUME JobTypes, JobAlone, NEW p \in 1..MaxPrograms
  PROVE  /\ job[p] \in JobRecord /\ job[p].at \in JobStates
         /\ job[p].written \in Nat /\ job[p].told \in Nat /\ job[p].rd \in Nat
         /\ job[p].cmd \in Nat /\ job[p].plan.points \in Nat \ {0}
         /\ AtWork(p) => p = programs /\ programs > 0
<1>1. MaxPrograms \in Nat
  BY JobConstants
<1>2. job[p] \in JobRecord
  BY DEF JobTypes
<1>3. AtWork(p) => p = programs
  BY DEF JobAlone
<1>. QED
  BY ONLY <1>1, <1>2, <1>3, p \in 1..MaxPrograms DEF JobRecord

(* Every step keeps the types.                                              *)
LEMMA JobTypesStep ==
  ASSUME JobInv, [ProgramNext]_(programVars)
  PROVE  JobTypes'
<1>. USE DEF JobInv, JobTypes, programVars, slot, jobs, command, ring,
  interp, traces
<1>0. MaxPrograms \in Nat /\ Ring \in Nat /\ Ring > 0
  BY JobConstants
<1>. USE <1>0
<1>1. CASE Start
  <2>1. programs + 1 \in 1..MaxPrograms
    BY <1>1, JobConstants DEF Start
  <2>2. PICK plan \in Plans :
          job' = [job EXCEPT ![programs + 1] = [NoJob EXCEPT !.at = "load", !.plan = plan]]
    BY <1>1 DEF Start
  <2>3. [NoJob EXCEPT !.at = "load", !.plan = plan] \in JobRecord
    BY JobConstants DEF NoJob, JobRecord, JobStates
  <2>4. job' \in [1..MaxPrograms -> JobRecord]
    BY <2>1, <2>2, <2>3, JobExcept
  <2>. QED
    BY <1>1, <2>1, <2>4 DEF Start
<1>2. CASE Stop
  BY <1>2 DEF Stop, Hit
<1>3. CASE Disarm
  BY <1>3 DEF Disarm, Hit
<1>4. CASE Halt
  BY <1>4 DEF Halt, Hit
<1>5. ASSUME NEW p \in 1..MaxPrograms, Close(p) PROVE JobTypes'
  <2>0. job[p] \in JobRecord /\ job[p].told + 1 \in Nat /\ _cmd_id + 1 \in Nat
    BY JobAt
  <2>1. PICK r : r = [job[p] EXCEPT !.at = "closed"]
    OBVIOUS
  <2>2. r \in JobRecord
    BY <1>5, <2>0, <2>1 DEF Close, JobRecord, JobStates
  <2>3. job' = [job EXCEPT ![p] = r]
    BY <1>5, <2>1 DEF Close
  <2>4. job' \in [1..MaxPrograms -> JobRecord]
    BY <2>2, <2>3, JobExcept
  <2>. QED
    BY <1>5, <2>4 DEF Close
<1>6. ASSUME NEW p \in 1..MaxPrograms, Load(p) PROVE JobTypes'
  <2>0. job[p] \in JobRecord /\ job[p].told + 1 \in Nat /\ _cmd_id + 1 \in Nat
    BY JobAt
  <2>1. PICK r : r = [job[p] EXCEPT
          !.at = IF job[p].plan.before THEN "before" ELSE "prepare"]
    OBVIOUS
  <2>2. r \in JobRecord
    BY <1>6, <2>0, <2>1 DEF Load, Goes, Outside, JobRecord, JobStates
  <2>3. job' = [job EXCEPT ![p] = r]
    BY <1>6, <2>1 DEF Load, Goes, Outside
  <2>4. job' \in [1..MaxPrograms -> JobRecord]
    BY <2>2, <2>3, JobExcept
  <2>. QED
    BY <1>6, <2>4 DEF Load, Goes, Outside
<1>7. ASSUME NEW p \in 1..MaxPrograms, SendMove(p) PROVE JobTypes'
  <2>0. job[p] \in JobRecord /\ job[p].told + 1 \in Nat /\ _cmd_id + 1 \in Nat
    BY JobAt
  <2>1. PICK r : r = [job[p] EXCEPT
          !.cmd = _cmd_id + 1,
          !.at = IF job[p].at = "before" THEN "moving" ELSE "leaving"]
    OBVIOUS
  <2>2. r \in JobRecord
    BY <1>7, <2>0, <2>1 DEF SendMove, Command, Outside, JobRecord, JobStates
  <2>3. job' = [job EXCEPT ![p] = r]
    BY <1>7, <2>1 DEF SendMove, Command, Outside
  <2>4. job' \in [1..MaxPrograms -> JobRecord]
    BY <2>2, <2>3, JobExcept
  <2>. QED
    BY <1>7, <2>4 DEF SendMove, Command, Outside
<1>8. ASSUME NEW p \in 1..MaxPrograms, MoveDone(p) PROVE JobTypes'
  <2>0. job[p] \in JobRecord /\ job[p].told + 1 \in Nat /\ _cmd_id + 1 \in Nat
    BY JobAt
  <2>1. PICK r : r = [job[p] EXCEPT
          !.at = IF job[p].at = "moving" THEN "prepare" ELSE "over"]
    OBVIOUS
  <2>2. r \in JobRecord
    BY <1>8, <2>0, <2>1 DEF MoveDone, Goes, Acknowledged, Outside,
      JobRecord, JobStates
  <2>3. job' = [job EXCEPT ![p] = r]
    BY <1>8, <2>1 DEF MoveDone, Goes, Acknowledged, Outside
  <2>4. job' \in [1..MaxPrograms -> JobRecord]
    BY <2>2, <2>3, JobExcept
  <2>. QED
    BY <1>8, <2>4 DEF MoveDone, Goes, Acknowledged, Outside
<1>9. ASSUME NEW p \in 1..MaxPrograms, TellInitial(p) PROVE JobTypes'
  <2>0. job[p] \in JobRecord /\ job[p].told + 1 \in Nat /\ _cmd_id + 1 \in Nat
    BY JobAt
  <2>1. PICK r : r = [job[p] EXCEPT !.told = job[p].told + 1]
    OBVIOUS
  <2>2. r \in JobRecord
    BY <1>9, <2>0, <2>1 DEF TellInitial, Tell, Outside, JobRecord, JobStates
  <2>3. job' = [job EXCEPT ![p] = r]
    BY <1>9, <2>1 DEF TellInitial, Tell, Outside
  <2>4. job' \in [1..MaxPrograms -> JobRecord]
    BY <2>2, <2>3, JobExcept
  <2>. QED
    BY <1>9, <2>4 DEF TellInitial, Tell, Outside
<1>10. ASSUME NEW p \in 1..MaxPrograms, StreamStart(p) PROVE JobTypes'
  <2>0. job[p] \in JobRecord /\ job[p].told + 1 \in Nat /\ _cmd_id + 1 \in Nat
        /\ Initial(p) \in Nat
    BY JobAt, JobConstants DEF Initial, Smaller
  <2>1. PICK r : r = [job[p] EXCEPT
          !.at = "feed",
          !.written = Initial(p),
          !.cmd = _cmd_id + 1]
    OBVIOUS
  <2>2. r \in JobRecord
    BY <1>10, <2>0, <2>1 DEF StreamStart, Command, Outside, JobRecord, JobStates
  <2>3. job' = [job EXCEPT ![p] = r]
    BY <1>10, <2>1 DEF StreamStart, Command, Outside
  <2>4. job' \in [1..MaxPrograms -> JobRecord]
    BY <2>2, <2>3, JobExcept
  <2>. QED
    BY <1>10, <2>0, <2>4 DEF StreamStart, Command, Outside
<1>11. ASSUME NEW p \in 1..MaxPrograms, ReadRdIdx(p) PROVE JobTypes'
  <2>0. job[p] \in JobRecord /\ job[p].told + 1 \in Nat /\ _cmd_id + 1 \in Nat
    BY JobAt
  <2>1. PICK r : r = [job[p] EXCEPT !.at = "tell", !.rd = MQ_RD_IDX]
    OBVIOUS
  <2>2. r \in JobRecord
    BY <1>11, <2>0, <2>1 DEF ReadRdIdx, Outside, JobRecord, JobStates
  <2>3. job' = [job EXCEPT ![p] = r]
    BY <1>11, <2>1 DEF ReadRdIdx, Outside
  <2>4. job' \in [1..MaxPrograms -> JobRecord]
    BY <2>2, <2>3, JobExcept
  <2>. QED
    BY <1>11, <2>4 DEF ReadRdIdx, Outside
<1>12. ASSUME NEW p \in 1..MaxPrograms, TellNext(p) PROVE JobTypes'
  <2>0. job[p] \in JobRecord /\ job[p].told + 1 \in Nat /\ _cmd_id + 1 \in Nat
    BY JobAt
  <2>1. PICK r : r = [job[p] EXCEPT !.told = job[p].told + 1]
    OBVIOUS
  <2>2. r \in JobRecord
    BY <1>12, <2>0, <2>1 DEF TellNext, Tell, Outside, JobRecord, JobStates
  <2>3. job' = [job EXCEPT ![p] = r]
    BY <1>12, <2>1 DEF TellNext, Tell, Outside
  <2>4. job' \in [1..MaxPrograms -> JobRecord]
    BY <2>2, <2>3, JobExcept
  <2>. QED
    BY <1>12, <2>4 DEF TellNext, Tell, Outside
<1>13. ASSUME NEW p \in 1..MaxPrograms, Refill(p) PROVE JobTypes'
  <2>0. job[p] \in JobRecord /\ job[p].told + 1 \in Nat /\ _cmd_id + 1 \in Nat
        /\ Smaller(job[p].written + FreeSlots(p), job[p].plan.points) \in Nat
    BY JobAt, JobConstants DEF FreeSlots, Smaller
  <2>1. PICK r : r = [job[p] EXCEPT
          !.at = "feed",
          !.written = Smaller(job[p].written + FreeSlots(p), job[p].plan.points)]
    OBVIOUS
  <2>2. r \in JobRecord
    BY <1>13, <2>0, <2>1 DEF Refill, Outside, JobRecord, JobStates
  <2>3. job' = [job EXCEPT ![p] = r]
    BY <1>13, <2>1 DEF Refill, Outside
  <2>4. job' \in [1..MaxPrograms -> JobRecord]
    BY <2>2, <2>3, JobExcept
  <2>. QED
    BY <1>13, <2>0, <2>4 DEF Refill, Outside
<1>14. ASSUME NEW p \in 1..MaxPrograms, StreamDone(p) PROVE JobTypes'
  <2>0. job[p] \in JobRecord /\ job[p].told + 1 \in Nat /\ _cmd_id + 1 \in Nat
    BY JobAt
  <2>1. PICK r : r = [job[p] EXCEPT !.at = IF job[p].plan.after THEN "after" ELSE "over"]
    OBVIOUS
  <2>2. r \in JobRecord
    BY <1>14, <2>0, <2>1 DEF StreamDone, Goes, Acknowledged, Outside,
      JobRecord, JobStates
  <2>3. job' = [job EXCEPT ![p] = r]
    BY <1>14, <2>1 DEF StreamDone, Goes, Acknowledged, Outside
  <2>4. job' \in [1..MaxPrograms -> JobRecord]
    BY <2>2, <2>3, JobExcept
  <2>. QED
    BY <1>14, <2>4 DEF StreamDone, Goes, Acknowledged, Outside
<1>15. ASSUME NEW p \in 1..MaxPrograms, Fail(p) PROVE JobTypes'
  <2>0. job[p] \in JobRecord /\ job[p].told + 1 \in Nat /\ _cmd_id + 1 \in Nat
    BY JobAt
  <2>1. PICK r : r = [job[p] EXCEPT !.at = "failed"]
    OBVIOUS
  <2>2. r \in JobRecord
    BY <1>15, <2>0, <2>1 DEF Fail, Outside, JobRecord, JobStates
  <2>3. job' = [job EXCEPT ![p] = r]
    BY <1>15, <2>1 DEF Fail, Outside
  <2>4. job' \in [1..MaxPrograms -> JobRecord]
    BY <2>2, <2>3, JobExcept
  <2>. QED
    BY <1>15, <2>4 DEF Fail, Outside
<1>16. CASE Move
  BY <1>16 DEF Move, Acknowledge, Driver
<1>17. CASE Accept
  BY <1>17 DEF Accept, Driver
<1>18. CASE Plan
  BY <1>18 DEF Plan, Driver
<1>19. CASE Finish
  BY <1>19 DEF Finish, Acknowledge, Driver
<1>20. CASE UNCHANGED programVars
  BY <1>20
<1>. QED
  BY <1>1, <1>2, <1>3, <1>4, <1>5, <1>6, <1>7, <1>8, <1>9, <1>10, <1>11, <1>12, <1>13,
    <1>14, <1>15, <1>16, <1>17, <1>18, <1>19, <1>20 DEF ProgramNext, Job, MqStream,
    Program

(* A program begins only when no job is at work.                            *)
LEMMA JobAloneStep ==
  ASSUME ~Overlap, JobInv, [ProgramNext]_(programVars)
  PROVE  JobAlone'
<1>. USE DEF JobInv, JobTypes, JobAlone, AtWork, programVars, slot, jobs,
  command, ring, interp, traces
<1>0. MaxPrograms \in Nat /\ Ring \in Nat /\ Ring > 0
  BY JobConstants
<1>. USE <1>0
<1>1. CASE Start
  <2>1. programs + 1 \in 1..MaxPrograms
    BY <1>1, JobConstants DEF Start
  <2>2. \A q \in 1..MaxPrograms : ~AtWork(q)
    BY <1>1, JobConstants DEF Start, Left, Program
  <2>3. \A q \in (1..MaxPrograms) \ {programs + 1} : job'[q] = job[q]
    BY <1>1 DEF Start
  <2>. QED
    BY <1>1, <2>2, <2>3 DEF Start
<1>2. CASE Stop
  BY <1>2 DEF Stop, Hit
<1>3. CASE Disarm
  BY <1>3 DEF Disarm, Hit
<1>4. CASE Halt
  BY <1>4 DEF Halt, Hit
<1>5. ASSUME NEW p \in 1..MaxPrograms, Close(p) PROVE JobAlone'
  BY <1>5 DEF Close
<1>6. ASSUME NEW p \in 1..MaxPrograms, Load(p) PROVE JobAlone'
  BY <1>6 DEF Load, Goes, Outside
<1>7. ASSUME NEW p \in 1..MaxPrograms, SendMove(p) PROVE JobAlone'
  BY <1>7 DEF SendMove, Command, Outside
<1>8. ASSUME NEW p \in 1..MaxPrograms, MoveDone(p) PROVE JobAlone'
  BY <1>8 DEF MoveDone, Goes, Acknowledged, Outside
<1>9. ASSUME NEW p \in 1..MaxPrograms, TellInitial(p) PROVE JobAlone'
  BY <1>9 DEF TellInitial, Tell, Outside
<1>10. ASSUME NEW p \in 1..MaxPrograms, StreamStart(p) PROVE JobAlone'
  BY <1>10 DEF StreamStart, Command, Outside
<1>11. ASSUME NEW p \in 1..MaxPrograms, ReadRdIdx(p) PROVE JobAlone'
  BY <1>11 DEF ReadRdIdx, Outside
<1>12. ASSUME NEW p \in 1..MaxPrograms, TellNext(p) PROVE JobAlone'
  BY <1>12 DEF TellNext, Tell, Outside
<1>13. ASSUME NEW p \in 1..MaxPrograms, Refill(p) PROVE JobAlone'
  BY <1>13 DEF Refill, Outside
<1>14. ASSUME NEW p \in 1..MaxPrograms, StreamDone(p) PROVE JobAlone'
  BY <1>14 DEF StreamDone, Goes, Acknowledged, Outside
<1>15. ASSUME NEW p \in 1..MaxPrograms, Fail(p) PROVE JobAlone'
  BY <1>15 DEF Fail, Outside
<1>16. CASE Move
  BY <1>16 DEF Move, Acknowledge, Driver
<1>17. CASE Accept
  BY <1>17 DEF Accept, Driver
<1>18. CASE Plan
  BY <1>18 DEF Plan, Driver
<1>19. CASE Finish
  BY <1>19 DEF Finish, Acknowledge, Driver
<1>20. CASE UNCHANGED programVars
  BY <1>20
<1>. QED
  BY <1>1, <1>2, <1>3, <1>4, <1>5, <1>6, <1>7, <1>8, <1>9, <1>10, <1>11, <1>12, <1>13,
    <1>14, <1>15, <1>16, <1>17, <1>18, <1>19, <1>20 DEF ProgramNext, Job, MqStream,
    Program

(* Every step keeps an open stream the latest program's.                    *)
LEMMA JobCommandStep ==
  ASSUME ~Overlap, JobInv, [ProgramNext]_(programVars)
  PROVE  JobCommand'
<1>. USE DEF JobInv, JobTypes, JobRecord, JobAlone, AtWork, JobCommand, Open, programVars,
  slot, jobs, command, ring, interp, traces
<1>0. MaxPrograms \in Nat /\ Ring \in Nat /\ Ring > 0
  BY JobConstants
<1>. USE <1>0
<1>1. CASE Start
  <2>1. ~Open
    BY <1>1, JobConstants DEF Start, Left
  <2>. QED
    BY <1>1, <2>1 DEF Start
<1>2. CASE Stop
  BY <1>2 DEF Stop, Hit
<1>3. CASE Disarm
  BY <1>3 DEF Disarm, Hit
<1>4. CASE Halt
  BY <1>4 DEF Halt, Hit
<1>5. ASSUME NEW p \in 1..MaxPrograms, Close(p) PROVE JobCommand'
  BY <1>5 DEF Close
<1>6. ASSUME NEW p \in 1..MaxPrograms, Load(p) PROVE JobCommand'
  BY <1>6 DEF Load, Goes, Outside
<1>7. ASSUME NEW p \in 1..MaxPrograms, SendMove(p) PROVE JobCommand'
  BY <1>7 DEF SendMove, Command, Outside
<1>8. ASSUME NEW p \in 1..MaxPrograms, MoveDone(p) PROVE JobCommand'
  BY <1>8 DEF MoveDone, Goes, Acknowledged, Outside
<1>9. ASSUME NEW p \in 1..MaxPrograms, TellInitial(p) PROVE JobCommand'
  BY <1>9 DEF TellInitial, Tell, Outside
<1>10. ASSUME NEW p \in 1..MaxPrograms, StreamStart(p) PROVE JobCommand'
  <2>1. p = programs /\ programs > 0
    BY <1>10, JobAt DEF StreamStart
  <2>2. job[p] \in JobRecord /\ job'[p].at = "feed" /\ job'[p].cmd = _cmd_id + 1
    BY <1>10 DEF StreamStart
  <2>3. _cmd_id \in Nat /\ MQ_DONE_ID \in Nat /\ MQ_DONE_ID <= _cmd_id
        /\ programs' = programs /\ MQ_DONE_ID' = MQ_DONE_ID /\ _cmd_id' = _cmd_id + 1
        /\ MQ_CMD_ID' = _cmd_id + 1
    BY <1>10 DEF StreamStart, Command, Outside
  <2>. QED
    BY ONLY <2>1, <2>2, <2>3 DEF JobCommand
<1>11. ASSUME NEW p \in 1..MaxPrograms, ReadRdIdx(p) PROVE JobCommand'
  BY <1>11 DEF ReadRdIdx, Outside
<1>12. ASSUME NEW p \in 1..MaxPrograms, TellNext(p) PROVE JobCommand'
  BY <1>12 DEF TellNext, Tell, Outside
<1>13. ASSUME NEW p \in 1..MaxPrograms, Refill(p) PROVE JobCommand'
  BY <1>13 DEF Refill, Outside
<1>14. ASSUME NEW p \in 1..MaxPrograms, StreamDone(p) PROVE JobCommand'
  BY <1>14 DEF StreamDone, Goes, Acknowledged, Outside
<1>15. ASSUME NEW p \in 1..MaxPrograms, Fail(p) PROVE JobCommand'
  BY <1>15 DEF Fail, Outside
<1>16. CASE Move
  BY <1>16 DEF Move, Acknowledge, Driver
<1>17. CASE Accept
  BY <1>17 DEF Accept, Driver
<1>18. CASE Plan
  BY <1>18 DEF Plan, Driver
<1>19. CASE Finish
  BY <1>19 DEF Finish, Acknowledge, Driver
<1>20. CASE UNCHANGED programVars
  BY <1>20
<1>. QED
  BY <1>1, <1>2, <1>3, <1>4, <1>5, <1>6, <1>7, <1>8, <1>9, <1>10, <1>11, <1>12, <1>13,
    <1>14, <1>15, <1>16, <1>17, <1>18, <1>19, <1>20 DEF ProgramNext, Job, MqStream,
    Program

(* A job's step that leaves the ring alone and writes nothing.              *)
LEMMA JobIdles ==
  ASSUME JobTypes, JobAlone, JobLoaded, NEW p \in 1..MaxPrograms,
         \A q \in (1..MaxPrograms) \ {p} : job'[q] = job[q],
         job'[p].written = job[p].written,
         Open' => Open /\ programs > 0,
         job'[p].at = "tell" =>
           job'[p].rd = MQ_RD_IDX \/ (job[p].at = "tell" /\ job'[p].rd = job[p].rd),
         UNCHANGED <<MQ_PT, MQ_RD_IDX, MQ_WR_IDX, programs>>
  PROVE  JobLoaded'
<1>. SUFFICES ASSUME Open' PROVE JobLoaded'
  BY DEF JobLoaded
<1>1. MQ_RD_IDX \in Nat /\ programs \in 1..MaxPrograms
  BY JobConstants DEF JobTypes
<1>2. job'[programs].written = job[programs].written
  BY <1>1
<1>3. job'[programs].at = "tell" =>
        job'[programs].rd = MQ_RD_IDX
        \/ (job[programs].at = "tell" /\ job'[programs].rd = job[programs].rd)
  BY <1>1
<1>. QED
  BY <1>1, <1>2, <1>3 DEF JobLoaded

(* A stream that starts has its first waypoints in the ring.                *)
LEMMA StreamStartLoads ==
  ASSUME JobTypes, JobAlone, NEW p \in 1..MaxPrograms, StreamStart(p)
  PROVE  JobLoaded'
<1>. DEFINE upto == Initial(p)
<1>1. p = programs /\ programs > 0
  BY JobAt DEF StreamStart, AtWork
<1>2. job'[p].at = "feed" /\ job'[p].written = upto
  BY DEF StreamStart, JobTypes, JobRecord
<1>3. upto \in 1..Ring /\ Ring \in Nat
  BY JobAt, JobConstants DEF Initial, Smaller
<1>. HIDE DEF upto
<1>4. \A k \in 1..upto : Filled(p, 0 + 1, upto)[Slot(k)] = [of |-> p, k |-> k]
  <2>1. \A k \in 1..0 : MQ_PT[Slot(k)] = [of |-> p, k |-> k]
    OBVIOUS
  <2>2. 1 \in Nat \ {0} /\ 0 \in Nat /\ upto \in Nat /\ 1 <= 0 + 1 /\ upto < 1 + Ring
    BY <1>3
  <2>. QED
    BY ONLY <2>1, <2>2, FilledSlots
<1>5. MQ_PT' = Filled(p, 1, upto) /\ MQ_RD_IDX' = 1 /\ MQ_WR_IDX' = upto + 1
      /\ programs' = programs
  BY DEF StreamStart, Outside, upto
<1>6. \A k \in 1..upto : MQ_PT'[Slot(k)] = [of |-> p, k |-> k]
  BY <1>4, <1>5
<1>. QED
  BY ONLY <1>1, <1>2, <1>3, <1>5, <1>6 DEF JobLoaded

(* A refill goes by a read index that was right once: since the index only  *)
(* grows, what it takes for free is free.                                   *)
LEMMA RefillLoads ==
  ASSUME JobTypes, JobAlone, JobLoaded, JobTold, Open' => Open,
         NEW p \in 1..MaxPrograms, Refill(p)
  PROVE  JobLoaded'
<1>. SUFFICES ASSUME Open PROVE JobLoaded'
  BY DEF JobLoaded
<1>. DEFINE n == job[p].written
            free == FreeSlots(p)
            upto == Smaller(n + free, job[p].plan.points)
<1>1. p = programs /\ programs > 0
  BY JobAt DEF Refill, AtWork
<1>2. n \in Nat /\ job[p].rd \in Nat /\ job[p].plan.points \in Nat /\ Ring \in Nat /\ Ring > 0
  BY JobAt, JobConstants
<1>3. MQ_RD_IDX \in Nat \ {0} /\ MQ_RD_IDX <= n + 1 /\ job[p].rd <= MQ_RD_IDX
      /\ MQ_WR_IDX = n + 1 /\ n + 1 <= MQ_RD_IDX + Ring
      /\ \A k \in MQ_RD_IDX..n : MQ_PT[Slot(k)] = [of |-> p, k |-> k]
  BY <1>1 DEF Refill, JobLoaded, JobTypes
<1>4. n <= job[p].plan.points
  BY DEF JobTold
<1>5. /\ free \in Nat /\ (free # 0 => n + free < MQ_RD_IDX + Ring)
  BY ONLY <1>2, <1>3 DEF FreeSlots
<1>6. MQ_PT' = Filled(p, n + 1, upto) /\ MQ_RD_IDX' = MQ_RD_IDX
      /\ MQ_WR_IDX' = (IF free > 0 THEN upto + 1 ELSE MQ_WR_IDX) /\ programs' = programs
  BY DEF Refill, Outside
<1>7. job'[p].at = "feed" /\ job'[p].written = upto
  BY DEF Refill, JobTypes, JobRecord
<1>. HIDE DEF free
<1>8. upto \in Nat /\ n <= upto /\ (free = 0 => upto = n)
      /\ (free # 0 => upto < MQ_RD_IDX + Ring)
  BY ONLY <1>2, <1>3, <1>4, <1>5 DEF Smaller
<1>. HIDE DEF upto, n
<1>9. \A k \in MQ_RD_IDX..upto : MQ_PT'[Slot(k)] = [of |-> p, k |-> k]
  <2>1. CASE free # 0
    <3>1. \A k \in MQ_RD_IDX..upto : Filled(p, n + 1, upto)[Slot(k)] = [of |-> p, k |-> k]
      <4>1. /\ MQ_RD_IDX \in Nat \ {0} /\ n \in Nat /\ upto \in Nat
            /\ MQ_RD_IDX <= n + 1 /\ upto < MQ_RD_IDX + Ring
        BY <1>2, <1>3, <1>8, <2>1
      <4>2. \A k \in MQ_RD_IDX..n : MQ_PT[Slot(k)] = [of |-> p, k |-> k]
        BY <1>3
      <4>3. ASSUME NEW k \in MQ_RD_IDX..upto
            PROVE  Filled(p, n + 1, upto)[Slot(k)] = [of |-> p, k |-> k]
        BY ONLY <4>1, <4>2, <4>3, FilledSlots
      <4>. QED
        BY <4>3
    <3>. QED
      BY <1>6, <3>1
  <2>2. CASE free = 0
    <3>1. ASSUME NEW k \in MQ_RD_IDX..n PROVE MQ_PT'[Slot(k)] = [of |-> p, k |-> k]
      <4>1. k \in Nat \ {0} /\ Slot(k) \in 1..Ring
        BY <1>2, <1>3, SlotSucc
      <4>2. (n + 1)..n = {}
        BY <1>2
      <4>3. MQ_PT'[Slot(k)] = MQ_PT[Slot(k)]
        BY <1>6, <1>8, <2>2, <4>1, <4>2 DEF Filled
      <4>. QED
        BY <1>3, <4>3
    <3>. QED
      BY <1>8, <2>2, <3>1
  <2>. QED
    BY <2>1, <2>2
<1>. QED
  BY ONLY <1>1, <1>2, <1>3, <1>5, <1>6, <1>7, <1>8, <1>9 DEF JobLoaded

(* Every step keeps the waypoints not yet read in their slots.              *)
LEMMA JobLoadedStep ==
  ASSUME ~Overlap, JobInv, [ProgramNext]_(programVars)
  PROVE  JobLoaded'
<1>. USE DEF JobInv, programVars, slot, jobs, command, ring, interp
<1>1. CASE Start
  <2>1. ~Open'
    BY <1>1, JobConstants DEF Start, Left, Open
  <2>. QED
    BY <2>1 DEF JobLoaded
<1>2. CASE Stop \/ Disarm \/ Halt \/ Accept \/ UNCHANGED programVars
  BY <1>2 DEF Stop, Disarm, Halt, Accept, Driver, JobLoaded, Open
<1>3. CASE Move \/ Finish
  <2>1. ~Open'
    BY <1>3 DEF Move, Finish, Acknowledge, Open
  <2>. QED
    BY <2>1 DEF JobLoaded
<1>4. ASSUME NEW p \in 1..MaxPrograms, Load(p) \/ SendMove(p) PROVE JobLoaded'
  <2>1. p = programs /\ programs > 0
    BY <1>4, JobAt DEF Load, SendMove, Goes, AtWork
  <2>2. ~Open
    BY <1>4, <2>1 DEF Load, SendMove, Goes, JobCommand
  <2>3. ~Open'
    BY <1>4, <2>2 DEF Load, SendMove, Command, Open
  <2>. QED
    BY <2>3 DEF JobLoaded
<1>5. ASSUME NEW p \in 1..MaxPrograms,
             Close(p) \/ MoveDone(p) \/ TellInitial(p) \/ ReadRdIdx(p)
             \/ TellNext(p) \/ StreamDone(p) \/ Fail(p)
      PROVE  JobLoaded'
  <2>. USE DEF Close, MoveDone, TellInitial, ReadRdIdx, TellNext,
        StreamDone, Fail, Goes, Tell, Outside
  <2>1. UNCHANGED <<MQ_PT, MQ_RD_IDX, MQ_WR_IDX, programs, pc, MQ_ACTION>>
    BY <1>5
  <2>2. Open' => Open /\ programs > 0
    BY <2>1 DEF Open, JobCommand
  <2>3. /\ job \in [1..MaxPrograms -> JobRecord] /\ job[p] \in JobRecord
        /\ \A q \in (1..MaxPrograms) \ {p} : job'[q] = job[q]
    BY <1>5, JobAt DEF JobTypes
  <2>4. /\ job'[p].written = job[p].written
        /\ job'[p].at = "tell" =>
             job'[p].rd = MQ_RD_IDX \/ (job[p].at = "tell" /\ job'[p].rd = job[p].rd)
    <3>1. CASE Close(p) \/ MoveDone(p) \/ StreamDone(p) \/ Fail(p)
      <4>1. job'[p].written = job[p].written /\ job'[p].at # "tell"
        <5>1. PICK a : a # "tell" /\ job' = [job EXCEPT ![p].at = a]
          BY <3>1
        <5>. QED
          BY ONLY <2>3, <5>1, p \in 1..MaxPrograms DEF JobRecord
      <4>. QED
        BY <4>1
    <3>2. CASE TellInitial(p) \/ TellNext(p)
      <4>1. job' = [job EXCEPT ![p].told = @ + 1]
        BY <3>2
      <4>2. job'[p].written = job[p].written /\ job'[p].at = job[p].at
            /\ job'[p].rd = job[p].rd
        BY ONLY <2>3, <4>1, p \in 1..MaxPrograms DEF JobRecord
      <4>. QED
        BY <4>2
    <3>3. CASE ReadRdIdx(p)
      BY <2>3, <3>3 DEF JobTypes, JobRecord
    <3>. QED
      BY <1>5, <3>1, <3>2, <3>3
  <2>. QED
    BY <2>1, <2>2, <2>3, <2>4, JobIdles
<1>6. ASSUME NEW p \in 1..MaxPrograms, StreamStart(p) PROVE JobLoaded'
  BY <1>6, StreamStartLoads
<1>7. ASSUME NEW p \in 1..MaxPrograms, Refill(p) PROVE JobLoaded'
  <2>1. Open' => Open
    BY <1>7 DEF Refill, Open
  <2>. QED
    BY <1>7, <2>1, RefillLoads
<1>8. CASE Plan
  <2>1. /\ Open /\ UNCHANGED <<job, programs, MQ_PT, MQ_WR_IDX>>
        /\ MQ_RD_IDX' = MQ_RD_IDX + 1 /\ MQ_RD_IDX # MQ_WR_IDX
    BY <1>8 DEF Plan, Driver, Open
  <2>2. programs \in 1..MaxPrograms
    BY <2>1, JobConstants DEF JobCommand, JobTypes
  <2>3. job[programs].written \in Nat /\ job[programs].rd \in Nat /\ Ring \in Nat
        /\ MQ_RD_IDX \in Nat /\ MQ_WR_IDX \in Nat
    BY <2>2, JobAt, JobConstants DEF JobTypes
  <2>. QED
    BY <2>1, <2>3 DEF JobLoaded
<1>. QED
  BY <1>1, <1>2, <1>3, <1>4, <1>5, <1>6, <1>7, <1>8
     DEF ProgramNext, Job, MqStream, Program

(* The interpreter hands over the waypoint it is due.                       *)
LEMMA PlanHands ==
  ASSUME JobInv, Plan
  PROVE  /\ MQ_I' = Slot(MQ_RD_IDX) /\ MQ_RD_IDX' = MQ_RD_IDX + 1
         /\ handed' = [of |-> programs, k |-> MQ_RD_IDX]
         /\ MQ_RD_IDX \in Nat \ {0} /\ programs \in 1..MaxPrograms
         /\ MQ_RD_IDX <= job[programs].written
<1>1. Open /\ pc = "stream" /\ MQ_RD_IDX # MQ_WR_IDX /\ MQ_RD_IDX' = MQ_RD_IDX + 1
      /\ MQ_I' = (IF MQ_I + 1 > Ring THEN 1 ELSE MQ_I + 1) /\ handed' = MQ_PT[MQ_I']
  BY DEF Plan, Open
<1>2. programs \in 1..MaxPrograms /\ MQ_RD_IDX \in Nat /\ MQ_WR_IDX \in Nat
  BY <1>1, JobConstants DEF JobInv, JobTypes, JobCommand
<1>3. job[programs].written \in Nat
  BY <1>2, JobAt DEF JobInv
<1>4. MQ_RD_IDX >= 1 /\ MQ_RD_IDX <= job[programs].written
  BY <1>1, <1>2, <1>3 DEF JobInv, JobLoaded
<1>5. MQ_I = IF MQ_RD_IDX = 1 THEN 0 ELSE Slot(MQ_RD_IDX - 1)
  BY <1>1 DEF JobInv, JobRead
<1>6. MQ_I' = Slot(MQ_RD_IDX)
  <2>1. CASE MQ_RD_IDX = 1
    BY <1>1, <1>5, <2>1, SlotSucc, JobConstants
  <2>2. CASE MQ_RD_IDX # 1
    <3>1. MQ_RD_IDX - 1 \in Nat \ {0} /\ (MQ_RD_IDX - 1) + 1 = MQ_RD_IDX
      BY <1>2, <1>4, <2>2
    <3>2. Slot(MQ_RD_IDX)
            = IF Slot(MQ_RD_IDX - 1) + 1 > Ring THEN 1 ELSE Slot(MQ_RD_IDX - 1) + 1
      BY <3>1, SlotSucc
    <3>. QED
      BY <1>1, <1>5, <2>2, <3>2
  <2>. QED
    BY <2>1, <2>2
<1>7. MQ_PT[Slot(MQ_RD_IDX)] = [of |-> programs, k |-> MQ_RD_IDX]
  BY <1>1, <1>2, <1>3, <1>4 DEF JobInv, JobLoaded
<1>. QED
  BY <1>1, <1>2, <1>4, <1>6, <1>7

(* Every step keeps the counter in line, and the waypoint handed over last  *)
(* the one before MQ_RD_IDX.                                                *)
LEMMA JobReadStep ==
  ASSUME ~Overlap, JobInv, [ProgramNext]_(programVars)
  PROVE  JobRead'
<1>. USE DEF programVars, slot, jobs, command, ring, interp, traces
<1>1. CASE Start
  <2>1. pc # "stream" /\ MQ_ACTION # 10
    BY <1>1, JobConstants DEF Start, Left
  <2>. QED
    BY <1>1, <2>1 DEF Start, JobRead
<1>2. CASE Stop \/ Disarm \/ Halt \/ UNCHANGED programVars
  BY <1>2 DEF Stop, Disarm, Halt, JobInv, JobRead
<1>3. CASE Move \/ Finish
  BY <1>3 DEF Move, Finish, Acknowledge, JobInv, JobRead
<1>4. CASE Accept
  BY <1>4 DEF Accept, Driver, JobInv, JobRead
<1>5. CASE Plan
  <2>1. /\ MQ_I' = Slot(MQ_RD_IDX) /\ MQ_RD_IDX' = MQ_RD_IDX + 1 /\ MQ_RD_IDX \in Nat \ {0}
        /\ handed' = [of |-> programs, k |-> MQ_RD_IDX]
    BY <1>5, PlanHands
  <2>2. pc' = "stream" /\ programs' = programs
    BY <1>5 DEF Plan, Driver
  <2>3. MQ_RD_IDX' > 1 /\ MQ_RD_IDX' - 1 = MQ_RD_IDX
    BY <2>1
  <2>. QED
    BY <2>1, <2>2, <2>3 DEF JobRead
<1>6. ASSUME NEW p \in 1..MaxPrograms, Load(p) \/ SendMove(p) \/ StreamStart(p)
      PROVE  JobRead'
  <2>1. p = programs /\ programs > 0
    BY <1>6, JobAt DEF Load, SendMove, StreamStart, Goes, AtWork, JobInv
  <2>2. ~Open
    BY <1>6, <2>1 DEF Load, SendMove, StreamStart, Goes, JobInv, JobCommand
  <2>. QED
    BY <1>6, <2>2 DEF Load, SendMove, StreamStart, Command, Open, JobRead
<1>7. ASSUME NEW p \in 1..MaxPrograms,
             Close(p) \/ MoveDone(p) \/ TellInitial(p) \/ ReadRdIdx(p)
             \/ TellNext(p) \/ Refill(p) \/ StreamDone(p) \/ Fail(p)
      PROVE  JobRead'
  <2>1. UNCHANGED <<MQ_ACTION, pc, MQ_RD_IDX, MQ_I, handed, programs>>
    BY <1>7 DEF Close, MoveDone, TellInitial, ReadRdIdx, TellNext,
       Refill, StreamDone, Fail, Outside
  <2>. QED
    BY <2>1 DEF JobInv, JobRead
<1>. QED
  BY <1>1, <1>2, <1>3, <1>4, <1>5, <1>6, <1>7
     DEF ProgramNext, Job, MqStream, Program

(* A refill reaches no further than the values written before it.           *)
LEMMA RefillTold ==
  ASSUME JobInv, NEW p \in 1..MaxPrograms, Refill(p)
  PROVE  /\ job'[p].written <= job'[p].told /\ job'[p].written <= job'[p].plan.points
         /\ job'[p].told = job[p].told
<1>. DEFINE n == job[p].written
            upto == Smaller(n + FreeSlots(p), job[p].plan.points)
<1>1. n \in Nat /\ job[p].rd \in Nat /\ job[p].told \in Nat /\ job[p].plan.points \in Nat
      /\ Ring \in Nat /\ Ring > 0 /\ n <= job[p].told /\ n <= job[p].plan.points
  BY JobAt, JobConstants DEF JobInv, JobTold
<1>2. job'[p].written = upto /\ job'[p].told = job[p].told /\ job'[p].plan = job[p].plan
  BY DEF Refill, JobInv, JobTypes, JobRecord
<1>3. job[p].told >= Smaller(job[p].rd + Ring + 1, job[p].plan.points)
  BY DEF Refill, TellUpTo
<1>4. upto <= job[p].told /\ upto <= job[p].plan.points
  BY ONLY <1>1, <1>3 DEF Smaller, FreeSlots
<1>. QED
  BY <1>2, <1>4

(* A step of one job that keeps or adds to what it has told.                *)
LEMMA JobTells ==
  ASSUME JobInv, NEW p \in 1..MaxPrograms,
         \A q \in (1..MaxPrograms) \ {p} : job'[q] = job[q],
         job'[p].written <= job'[p].told, job'[p].written <= job'[p].plan.points,
         job'[p].told \in Nat, job'[p].told >= job[p].told, UNCHANGED <<programs, handed>>
  PROVE  JobTold'
<1>1. \A q \in 1..MaxPrograms :
        job'[q].written <= job'[q].told /\ job'[q].written <= job'[q].plan.points
  BY DEF JobInv, JobTold
<1>2. ASSUME handed # ZeroFrame
      PROVE  handed.of \in 1..programs /\ handed.k \in 1..job'[handed.of].told
  <2>1. handed.of \in 1..programs /\ handed.k \in 1..job[handed.of].told
    BY <1>2 DEF JobInv, JobTold
  <2>2. handed.of \in 1..MaxPrograms
    BY <2>1, JobConstants DEF JobInv, JobTypes
  <2>3. job[handed.of].told \in Nat
    BY <2>2, JobAt DEF JobInv
  <2>4. job'[handed.of].told \in Nat /\ job'[handed.of].told >= job[handed.of].told
    BY <2>2, <2>3
  <2>. QED
    BY <2>1, <2>3, <2>4
<1>. QED
  BY <1>1, <1>2 DEF JobTold, ZeroFrame

(* Every step keeps the values of a waypoint written before the waypoint.   *)
LEMMA JobToldStep ==
  ASSUME JobInv, [ProgramNext]_(programVars)
  PROVE  JobTold'
<1>. USE DEF programVars, slot, jobs, command, ring, interp, traces
<1>1. CASE Start
  <2>1. PICK plan \in Plans :
          job' = [job EXCEPT ![programs + 1] = [NoJob EXCEPT !.at = "load", !.plan = plan]]
    BY <1>1 DEF Start
  <2>2. programs + 1 \in 1..MaxPrograms /\ programs \in Nat /\ MaxPrograms \in Nat
        /\ programs' = programs + 1 /\ UNCHANGED handed
    BY <1>1, JobConstants DEF Start, JobInv, JobTypes
  <2>3. /\ job'[programs + 1].written = 0 /\ job'[programs + 1].told = 0
        /\ job'[programs + 1].plan.points \in Nat
        /\ \A q \in (1..MaxPrograms) \ {programs + 1} : job'[q] = job[q]
    BY <2>1, <2>2, JobConstants DEF NoJob, JobInv, JobTypes
  <2>4. \A q \in 1..MaxPrograms :
          job'[q].written <= job'[q].told /\ job'[q].written <= job'[q].plan.points
    BY <2>3 DEF JobInv, JobTold
  <2>5. ASSUME handed # ZeroFrame
        PROVE  handed.of \in 1..(programs + 1) /\ handed.k \in 1..job'[handed.of].told
    <3>1. handed.of \in 1..programs /\ handed.k \in 1..job[handed.of].told
      BY <2>5 DEF JobInv, JobTold
    <3>2. handed.of \in 1..(programs + 1) /\ handed.of \in (1..MaxPrograms) \ {programs + 1}
      BY <2>2, <3>1
    <3>. QED
      BY <2>3, <3>1, <3>2
  <2>. QED
    BY <2>2, <2>4, <2>5 DEF JobTold, ZeroFrame
<1>2. CASE Stop \/ Disarm \/ Halt \/ UNCHANGED programVars \/ Move
           \/ Finish \/ Accept
  <2>1. UNCHANGED <<job, programs, handed>>
    BY <1>2 DEF Stop, Disarm, Halt, Move, Finish, Accept, Driver
  <2>. QED
    BY <2>1 DEF JobInv, JobTold, ZeroFrame
<1>3. CASE Plan
  <2>1. UNCHANGED <<job, programs>>
    BY <1>3 DEF Plan, Driver
  <2>2. /\ handed' = [of |-> programs, k |-> MQ_RD_IDX] /\ MQ_RD_IDX \in Nat \ {0}
        /\ programs \in 1..MaxPrograms /\ MQ_RD_IDX <= job[programs].written
    BY <1>3, PlanHands
  <2>3. job[programs].written \in Nat /\ job[programs].told \in Nat
        /\ job[programs].written <= job[programs].told
    BY <2>2, JobAt DEF JobInv, JobTold
  <2>4. handed'.of \in 1..programs /\ handed'.k \in 1..job[handed'.of].told
    BY <2>2, <2>3
  <2>. QED
    BY <2>1, <2>4 DEF JobInv, JobTold
<1>4. ASSUME NEW p \in 1..MaxPrograms, Job(p) \/ Close(p) \/ Fail(p)
      PROVE  JobTold'
  <2>. USE DEF Job, Outside
  <2>1. UNCHANGED <<programs, handed>>
    BY <1>4 DEF Close, Fail, Load, SendMove, MoveDone, TellInitial,
       StreamStart, ReadRdIdx, TellNext, Refill, StreamDone
  <2>2. /\ job \in [1..MaxPrograms -> JobRecord]
        /\ job[p].written \in Nat /\ job[p].told \in Nat /\ job[p].plan.points \in Nat
        /\ job[p].written <= job[p].told /\ job[p].written <= job[p].plan.points
    BY JobAt DEF JobInv, JobTypes, JobTold
  <2>3. \A q \in (1..MaxPrograms) \ {p} : job'[q] = job[q]
    BY <1>4, <2>2 DEF Close, Fail, Load, SendMove, MoveDone,
       TellInitial, StreamStart, ReadRdIdx, TellNext, Refill,
       StreamDone, Goes, Tell
  <2>4. /\ job'[p].written <= job'[p].told /\ job'[p].written <= job'[p].plan.points
        /\ job'[p].told \in Nat /\ job'[p].told >= job[p].told
    <3>1. CASE Close(p) \/ Fail(p) \/ Load(p) \/ MoveDone(p)
               \/ StreamDone(p)
      <4>1. PICK a : job' = [job EXCEPT ![p].at = a]
        BY <3>1 DEF Close, Fail, Load, MoveDone, StreamDone, Goes
      <4>2. job'[p].written = job[p].written /\ job'[p].told = job[p].told
            /\ job'[p].plan = job[p].plan
        BY ONLY <2>2, <4>1, p \in 1..MaxPrograms DEF JobRecord
      <4>. QED
        BY <2>2, <4>2
    <3>2. CASE SendMove(p)
      <4>1. PICK a, c : job' = [job EXCEPT ![p].cmd = c, ![p].at = a]
        BY <3>2 DEF SendMove
      <4>2. job'[p].written = job[p].written /\ job'[p].told = job[p].told
            /\ job'[p].plan = job[p].plan
        BY ONLY <2>2, <4>1, p \in 1..MaxPrograms DEF JobRecord
      <4>. QED
        BY <2>2, <4>2
    <3>3. CASE ReadRdIdx(p)
      <4>1. job' = [job EXCEPT ![p].at = "tell", ![p].rd = MQ_RD_IDX]
        BY <3>3 DEF ReadRdIdx
      <4>2. job'[p].written = job[p].written /\ job'[p].told = job[p].told
            /\ job'[p].plan = job[p].plan
        BY ONLY <2>2, <4>1, p \in 1..MaxPrograms DEF JobRecord
      <4>. QED
        BY <2>2, <4>2
    <3>4. CASE TellInitial(p) \/ TellNext(p)
      <4>1. job' = [job EXCEPT ![p].told = @ + 1]
        BY <3>4 DEF TellInitial, TellNext, Tell
      <4>2. job'[p].written = job[p].written /\ job'[p].told = job[p].told + 1
            /\ job'[p].plan = job[p].plan
        BY ONLY <2>2, <4>1, p \in 1..MaxPrograms DEF JobRecord
      <4>. QED
        BY <2>2, <4>2
    <3>5. CASE StreamStart(p)
      <4>1. job'[p].written = Initial(p) /\ job'[p].told = job[p].told
            /\ job'[p].plan = job[p].plan /\ job[p].told = Initial(p)
        BY <2>2, <3>5 DEF StreamStart, JobRecord
      <4>2. Initial(p) <= job[p].plan.points
        BY <2>2, JobConstants DEF Initial, Smaller
      <4>. QED
        BY <2>2, <4>1, <4>2
    <3>6. CASE Refill(p)
      BY <2>2, <3>6, RefillTold
    <3>. QED
      BY <1>4, <3>1, <3>2, <3>3, <3>4, <3>5, <3>6
  <2>. QED
    BY <2>1, <2>3, <2>4, JobTells
<1>. QED
  BY <1>1, <1>2, <1>3, <1>4 DEF ProgramNext, MqStream, Program

(* The invariant of the job of a program, as long as none begins over what  *)
(* another has left.                                                        *)
THEOREM JobInductive == ~Overlap => (ProgramSpec => []JobInv)
<1>. SUFFICES ASSUME ~Overlap PROVE ProgramSpec => []JobInv
  OBVIOUS
<1>1. ProgramInit => JobInv
  BY JobInit
<1>2. JobInv /\ [ProgramNext]_(programVars) => JobInv'
  BY JobTypesStep, JobAloneStep, JobCommandStep, JobLoadedStep, JobReadStep, JobToldStep
     DEF JobInv
<1>. QED
  BY <1>1, <1>2, PTL DEF ProgramSpec

(* mq_stream plans the waypoint it is due, of the program whose command it  *)
(* has, and not before the values that waypoint carries have been written,  *)
(* if no program begins over what another has left.                         *)
THEOREM EventsBeforePointsHolds == ~Overlap => (ProgramSpec => []EventsBeforePoints)
<1>. SUFFICES ASSUME ~Overlap PROVE ProgramSpec => []EventsBeforePoints
  OBVIOUS
<1>1. JobInv => EventsBeforePoints
  <2>. SUFFICES ASSUME JobInv, handed # ZeroFrame PROVE EventsBeforePoints
    BY DEF EventsBeforePoints
  <2>1. handed.of \in 1..programs /\ handed.k \in 1..job[handed.of].told
    BY DEF JobInv, JobTold
  <2>2. handed.of \in 1..MaxPrograms
    BY <2>1, JobConstants DEF JobInv, JobTypes
  <2>3. handed.k <= job[handed.of].told
    BY <2>1, <2>2, JobAt DEF JobInv
  <2>4. ASSUME pc = "stream", MQ_RD_IDX > 1
        PROVE  handed.k = MQ_RD_IDX - 1 /\ job[handed.of].cmd = MQ_CMD_ID
    BY <2>4 DEF JobInv, JobRead, JobCommand, Open
  <2>. QED
    BY <2>3, <2>4 DEF EventsBeforePoints
<1>. QED
  BY <1>1, JobInductive, PTL
=============================================================================

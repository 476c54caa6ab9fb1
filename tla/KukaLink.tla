------------------------------ MODULE KukaLink ------------------------------
(***************************************************************************)
(* The link to a KUKA controller: kukaproxydriver's client (class KUKA)    *)
(* behind the lock of KUKADriver, the bridge that answers it, and the TCP  *)
(* connection between them.                                                *)
(*                                                                         *)
(* The callers (the poll thread, operators, job threads) take the lock for *)
(* a transaction: a message and its reply.  Reads and writes of variables  *)
(* make the connection again when it is down; selecting, starting and      *)
(* stopping a program do not.  Messages are numbered 0 by everybody, so a  *)
(* reply is known only by its place: in the model it is the reply of the   *)
(* message waited for ("own") or of one that was given up ("late").        *)
(*                                                                         *)
(* A reply comes whole or not at all (a timeout inside of one has the      *)
(* consequences of a late one), and names and values are left out but for  *)
(* whether the bridge knows the variable.  upload_file is a row of control *)
(* messages and left out.                                                  *)
(***************************************************************************)
EXTENDS Naturals, Sequences

CONSTANTS
  MaxTimeouts   (* bound on the timeouts of a connection                   *)

ASSUME LinkConstants == MaxTimeouts \in Nat

VARIABLES
  (* the driver: _robot # None, and the transaction that holds _lock: its  *)
  (* kind and how far it is; tried: a control message was answered no      *)
  _robot, kind, at, tried,
  (* the client: connected, client # None, RECONNECT_MIN_INTERVAL running  *)
  connected, client, throttled,
  (* the bridge accepts connections; the connection as its client sees it; *)
  (* messages the bridge has to answer; replies on the way                 *)
  listening, peer, inbox, replies,
  (* history: sockets open, what the last message was answered with,       *)
  (* timeouts of this connection                                           *)
  sockets, got, timeouts

driver  == <<_robot, kind, at, tried>>
socket  == <<connected, client, throttled>>
network == <<listening, peer, inbox, replies>>
history == <<sockets, got, timeouts>>
vars    == <<driver, socket, network, history>>

Free == at = "free"

-----------------------------------------------------------------------------
(* Transactions begin and end                                              *)

(* Mutant: without the lock.                                                *)
AskUnlocked(what) ==
  /\ _robot /\ at \in {"free", "await"}
  /\ kind' = what /\ tried' = FALSE
  /\ at' = IF connected THEN "send" ELSE IF what = "control" THEN "free" ELSE "connect"
  /\ UNCHANGED <<_robot, socket, network, history>>

(* _ensure and the lock.                                                    *)
Ask(what) ==
  /\ Free /\ _robot
  /\ kind' = what /\ tried' = FALSE
  /\ at' = IF connected THEN "send" ELSE IF what = "control" THEN "free" ELSE "connect"
  /\ UNCHANGED <<_robot, socket, network, history>>

(* The transaction is over.  A first read that fails leaves no driver, and  *)
(* its client is collected.                                                 *)
Over(ok) ==
  /\ at' = IF ok \/ kind # "first" THEN "free" ELSE "dropped"
  /\ tried' = FALSE /\ UNCHANGED <<_robot, kind>>

-----------------------------------------------------------------------------
(* KUKA.connect and disconnect                                             *)

Held == IF client THEN 1 ELSE 0

(* Mutant: the socket that failed is replaced without being closed.         *)
OpenedOver ==
  /\ peer' = "open" /\ inbox' = <<>> /\ replies' = <<>>
  /\ sockets' = sockets + 1
  /\ got' = "none" /\ timeouts' = 0

(* The client's socket is closed first; nothing of it is read any more.     *)
Opened ==
  /\ peer' = "open" /\ inbox' = <<>> /\ replies' = <<>>
  /\ sockets' = sockets - Held + 1
  /\ got' = "none" /\ timeouts' = 0

Closed ==
  /\ peer' = "none" /\ inbox' = <<>> /\ replies' = <<>>
  /\ sockets' = sockets - Held
  /\ connected' = FALSE /\ client' = FALSE
  /\ UNCHANGED <<got, timeouts>>

Throttled ==
  /\ at = "connect" /\ throttled
  /\ Over(FALSE)
  /\ UNCHANGED <<socket, network, history>>

Reconnect ==
  /\ at = "connect" /\ ~throttled
  /\ throttled' = TRUE
  /\ IF listening
     THEN /\ connected' = TRUE /\ client' = TRUE
          /\ Opened
          /\ at' = "send" /\ UNCHANGED <<_robot, kind, tried>>
     ELSE Closed /\ Over(FALSE)
  /\ UNCHANGED listening

(* KUKADriver.connect: another client, which does not know when the last    *)
(* one tried, and a first read to see that it works.                        *)
Connect ==
  /\ Free
  /\ kind' = "first" /\ tried' = FALSE
  /\ _robot' = TRUE /\ at' = "connect"
  /\ throttled' = FALSE
  /\ Closed
  /\ UNCHANGED listening

Gone ==
  /\ _robot' = FALSE /\ at' = "free" /\ Closed
  /\ UNCHANGED <<kind, tried, throttled, listening>>

Disconnect == Free /\ _robot /\ Gone
Drop       == at = "dropped" /\ Gone

-----------------------------------------------------------------------------
(* KUKA.send, and the messages of program control                          *)

(* Mutant: nobody marks it.                                                 *)
LinkFailsUnmarked ==
  /\ Over(FALSE)
  /\ UNCHANGED socket

(* The transport fails under a transaction: a variable's marks the client   *)
(* disconnected, a control message only reports it.                         *)
LinkFails ==
  /\ connected' = (kind = "control")
  /\ Over(FALSE)
  /\ UNCHANGED <<client, throttled>>

(* Whatever is under way is no longer waited for.                           *)
GivenUp(messages) == [i \in 1..Len(messages) |-> [messages[i] EXCEPT !.of = "late"]]

(* A connection the bridge has closed takes one message more; what comes    *)
(* back is a reset.                                                         *)
Send ==
  /\ at = "send"
  /\ \/ /\ peer = "open"
        /\ \E known \in BOOLEAN : inbox' = Append(GivenUp(inbox), [of |-> "own", ok |-> known])
        /\ at' = "await" /\ UNCHANGED <<_robot, kind, tried, socket, peer>>
     \/ /\ peer \in {"closed", "resetting"}
        /\ peer' = "resetting"
        /\ at' = "await" /\ UNCHANGED <<_robot, kind, tried, socket, inbox>>
     \/ /\ peer = "reset"
        /\ LinkFails
        /\ UNCHANGED <<peer, inbox>>
  /\ replies' = GivenUp(replies)
  /\ got' = "none"
  /\ UNCHANGED <<listening, sockets, timeouts>>

(* Mutant: any failure of a transaction is taken for one of the link.       *)
ReceiveMarks ==
  /\ at = "await" /\ replies # <<>>
  /\ LET reply == Head(replies)
     IN  /\ got' = reply.of
         /\ connected' = (reply.ok \/ kind = "control")
         /\ IF kind = "control" /\ ~reply.ok /\ ~tried
            THEN at' = "send" /\ tried' = TRUE /\ UNCHANGED <<_robot, kind>>
            ELSE Over(reply.ok)
  /\ replies' = Tail(replies)
  /\ UNCHANGED <<client, throttled, listening, peer, inbox, sockets, timeouts>>

(* A reply is taken for the message's.  An answer no to a read or a write   *)
(* is a VariableError; to a control message for one interpreter, the other  *)
(* is tried.                                                                *)
Receive ==
  /\ at = "await" /\ replies # <<>>
  /\ LET reply == Head(replies)
     IN  /\ got' = reply.of
         /\ IF kind = "control" /\ ~reply.ok /\ ~tried
            THEN at' = "send" /\ tried' = TRUE /\ UNCHANGED <<_robot, kind>>
            ELSE Over(reply.ok)
  /\ replies' = Tail(replies)
  /\ UNCHANGED <<socket, listening, peer, inbox, sockets, timeouts>>

(* Two seconds without a byte: the message is given up, the connection is   *)
(* not.                                                                     *)
Timeout ==
  /\ at = "await" /\ peer = "open" /\ replies = <<>>
  /\ timeouts < MaxTimeouts /\ timeouts' = timeouts + 1
  /\ Over(FALSE)
  /\ UNCHANGED <<socket, network, sockets, got>>

(* The connection ends under a reply.  At its end recv returns nothing,     *)
(* which is not told from a variable's failure; a reset is a socket error.  *)
Eof ==
  /\ at = "await" /\ replies = <<>> /\ peer \in {"closed", "resetting"}
  /\ Over(FALSE)
  /\ UNCHANGED <<socket, network, history>>

Reset ==
  /\ at = "await" /\ replies = <<>> /\ peer = "reset"
  /\ LinkFails
  /\ UNCHANGED <<network, history>>

Transact == Drop \/ Throttled \/ Reconnect \/ Send \/ Receive \/ Eof \/ Reset

-----------------------------------------------------------------------------
(* The bridge, the network, the clock                                      *)

Answer ==
  /\ peer = "open" /\ inbox # <<>>
  /\ replies' = Append(replies, Head(inbox))
  /\ inbox' = Tail(inbox)
  /\ UNCHANGED <<driver, socket, listening, peer, history>>

(* Replies already on the way are still read; a reset loses them.           *)
BridgeCloses ==
  /\ peer = "open"
  /\ peer' = "closed" /\ inbox' = <<>>
  /\ UNCHANGED <<driver, socket, listening, replies, sockets, got, timeouts>>

ConnectionLost ==
  /\ \/ peer = "open" \/ peer = "resetting"
  /\ peer' = "reset" /\ inbox' = <<>> /\ replies' = <<>>
  /\ UNCHANGED <<driver, socket, listening, sockets, got, timeouts>>

ResetArrives == peer = "resetting" /\ ConnectionLost

BridgeStartsOrStops ==
  /\ listening' = ~listening
  /\ UNCHANGED <<driver, socket, peer, inbox, replies, history>>

HalfSecondPasses ==
  /\ throttled /\ throttled' = FALSE
  /\ UNCHANGED <<driver, connected, client, network, history>>

-----------------------------------------------------------------------------
Init ==
  /\ _robot = FALSE /\ kind = "var" /\ at = "free" /\ tried = FALSE
  /\ connected = FALSE /\ client = FALSE /\ throttled = FALSE
  /\ listening = TRUE /\ peer = "none" /\ inbox = <<>> /\ replies = <<>>
  /\ sockets = 0 /\ got = "none" /\ timeouts = 0

Next ==
  \/ Ask("var") \/ Ask("control") \/ Connect \/ Disconnect
  \/ Transact \/ Timeout
  \/ Answer \/ BridgeCloses \/ ConnectionLost \/ BridgeStartsOrStops \/ HalfSecondPasses

Spec == Init /\ [][Next]_vars

(* A transaction goes on; the poll thread gets the lock again and again;    *)
(* resets arrive and time passes.                                           *)
FairSpec ==
  /\ Spec
  /\ WF_vars(Transact) /\ SF_vars(Ask("var"))
  /\ WF_vars(ResetArrives) /\ WF_vars(HalfSecondPasses)

-----------------------------------------------------------------------------
(* Properties                                                              *)

Message == [of : {"own", "late"}, ok : BOOLEAN]

(* Types.                                                                   *)
TypeOK ==
  /\ _robot \in BOOLEAN /\ kind \in {"var", "control", "first"} /\ tried \in BOOLEAN
  /\ at \in {"free", "connect", "send", "await", "dropped"}
  /\ connected \in BOOLEAN /\ client \in BOOLEAN /\ throttled \in BOOLEAN
  /\ listening \in BOOLEAN /\ peer \in {"none", "open", "closed", "resetting", "reset"}
  /\ inbox \in Seq(Message) /\ replies \in Seq(Message)
  /\ sockets \in Nat /\ got \in {"none", "own", "late"} /\ timeouts \in 0..MaxTimeouts

(* Callers take turns on one socket without telling their messages apart,   *)
(* and everyone gets the reply to his own, as long as no reply of this      *)
(* connection has been late: from then on everyone gets that of another.    *)
ReplyIsOwn == got = "late" => timeouts > 0

(* "A bad variable or value does not invalidate the connection": one that   *)
(* works is not given up, whatever the bridge answers on it.                *)
LinkKept == peer = "open" => connected

(* "Never replace a socket without closing it".                             *)
OneSocket == sockets <= 1

(* A connection that has ended is noticed and made again, although its end  *)
(* is taken for a variable's failure and control messages never report it   *)
(* to the client.                                                           *)
LinkHeals ==
  _robot /\ peer \in {"closed", "resetting", "reset"} ~>
    peer = "open" \/ ~_robot \/ ~listening
=============================================================================

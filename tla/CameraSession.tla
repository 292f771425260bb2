---------------------------- MODULE CameraSession ----------------------------
(***************************************************************************)
(* Sessions with cameras (VCameraSession, VTx2Session) and the function    *)
(* that connects and reconnects them (connect_and_reconnect), all run by   *)
(* the one thread of an io_service (io_thread_fun, tcp_client).            *)
(*                                                                         *)
(* A frame is a header of 8 bytes and "next" bytes more: the value of its  *)
(* length field and the checksum.  asyncRecv reads first the one and then  *)
(* the other into _recv_buf, whose contents are abstracted to the number   *)
(* of its bytes and to whether a message is made of one frame.             *)
(*                                                                         *)
(* asyncSend and asyncTask are never started and are left out.             *)
(***************************************************************************)
EXTENDS Integers

CONSTANTS
  Sessions,  \* beg .. end - 1
  Lengths,   \* what nextLoad can return for a frame of a camera
  Garbage,   \* ... and for bytes that begin no frame, 0 left aside
  MaxBuffer  \* bound on both

ASSUME LengthsAssumption ==
  MaxBuffer \in Nat /\ Lengths \subseteq 4 .. MaxBuffer /\ Garbage \subseteq 1 .. MaxBuffer

VARIABLES
  begun,      \* the io thread has called connect_and_reconnect
  stopped,    \* run has returned: from now on it returns at once
  session,    \* sessions[i] has been created
  sock,       \* state of sockets[i]
  connecting, \* an async_connect is pending
  started,    \* _started
  reading,    \* an async_read is pending
  phase,      \* _recv_offset: 0 is the head of a frame, 8 its body
  next,       \* _recv_size when a body is read
  buf,        \* _recv_buf.size()
  aligned,    \* the next byte to be read begins the head or body awaited
  cut,        \* history: aligned has been FALSE
  gaveUp,     \* history: the session's last operation failed, and no other follows
  mixed,      \* history: a message of bytes of several frames was processed
  lost,       \* history: a whole frame was not processed
  passedOver, \* history: sessions without a connection, or an attempt at
              \* one, that connect_and_reconnect has passed over
  down        \* the process has ended

ioVars == <<begun, stopped>>
connVars == <<session, sock, connecting>>
recvVars == <<phase, next, buf, aligned, cut>>
histVars == <<mixed, lost>>
vars == <<ioVars, connVars, started, reading, recvVars, gaveUp, histVars, passedOver, down>>

TypeOK ==
  /\ begun \in BOOLEAN /\ stopped \in BOOLEAN /\ down \in BOOLEAN
  /\ session \in [Sessions -> BOOLEAN]
  /\ sock \in [Sessions -> {"closed", "open", "up", "lost"}]
  /\ connecting \in [Sessions -> BOOLEAN]
  /\ started \in [Sessions -> BOOLEAN]
  /\ reading \in [Sessions -> BOOLEAN]
  /\ phase \in [Sessions -> {"head", "body"}]
  /\ next \in [Sessions -> 0 .. MaxBuffer]
  /\ buf \in [Sessions -> 8 .. MaxBuffer + 8]
  /\ aligned \in [Sessions -> BOOLEAN]
  /\ cut \in [Sessions -> BOOLEAN]
  /\ gaveUp \in [Sessions -> BOOLEAN]
  /\ mixed \in [Sessions -> BOOLEAN]
  /\ lost \in [Sessions -> BOOLEAN]
  /\ passedOver \subseteq Sessions

Init ==
  /\ begun = FALSE /\ stopped = FALSE /\ down = FALSE
  /\ session = [i \in Sessions |-> FALSE]
  /\ sock = [i \in Sessions |-> "closed"]
  /\ connecting = [i \in Sessions |-> FALSE]
  /\ started = [i \in Sessions |-> FALSE]
  /\ reading = [i \in Sessions |-> FALSE]
  /\ phase = [i \in Sessions |-> "head"]
  /\ next = [i \in Sessions |-> 0]
  /\ buf = [i \in Sessions |-> 8]
  /\ aligned = [i \in Sessions |-> TRUE]
  /\ cut = [i \in Sessions |-> FALSE]
  /\ gaveUp = [i \in Sessions |-> FALSE]
  /\ mixed = [i \in Sessions |-> FALSE]
  /\ lost = [i \in Sessions |-> FALSE]
  /\ passedOver = {}

-----------------------------------------------------------------------------
(* connect_and_reconnect, called in a state of the sockets: it creates the *)
(* sessions, passes over the open sockets and connects the others, which   *)
(* opens them.                                                             *)
ConnectAndReconnect(socks, conns) ==
  /\ session' = [i \in Sessions |-> TRUE]
  /\ sock' = [i \in Sessions |-> IF socks[i] = "closed" THEN "open" ELSE socks[i]]
  /\ connecting' = [i \in Sessions |-> conns[i] \/ socks[i] = "closed"]
  /\ passedOver' = {i \in Sessions : socks[i] = "open" /\ ~conns[i]}

Working == \E i \in Sessions : connecting[i] \/ reading[i]

(* The loop of the io thread: connect_and_reconnect, then run, which       *)
(* returns when nothing is pending and, having done so once, every time.   *)
IoLoop ==
  /\ ~begun \/ stopped \/ ~Working
  /\ begun' = TRUE
  /\ stopped' = begun
  /\ ConnectAndReconnect(sock, connecting)
  /\ UNCHANGED <<started, reading, recvVars, gaveUp, histVars, down>>

(* The handler of async_connect: start the session, that is, begin to read *)
(* and ask for images; a connection that is gone by then throws.           *)
ConnectDone(i) ==
  /\ connecting[i]
  /\ connecting' = [connecting EXCEPT ![i] = FALSE]
  /\ \/ sock' = [sock EXCEPT ![i] = "up"] /\ down' = FALSE
     \/ sock' = [sock EXCEPT ![i] = "lost"] /\ down' = TRUE
  /\ started' = [started EXCEPT ![i] = TRUE]
  /\ reading' = [reading EXCEPT ![i] = TRUE]
  /\ gaveUp' = [gaveUp EXCEPT ![i] = FALSE]
  /\ UNCHANGED <<ioVars, session, recvVars, histVars, passedOver>>

(* ... with an error: try again. *)
ConnectFails(i) ==
  /\ connecting[i]
  /\ gaveUp' = [gaveUp EXCEPT ![i] = TRUE]
  /\ ConnectAndReconnect(sock, [connecting EXCEPT ![i] = FALSE])
  /\ UNCHANGED <<ioVars, started, reading, recvVars, histVars, down>>

-----------------------------------------------------------------------------
(* asyncRecv and its handler.                                              *)

(* Mutant: the room for the head is forgotten. *)
MutGrown(size, n) == IF size < n THEN n ELSE size

(* Mutant: the buffer grows by a frame instead of to a frame. *)
MutGrownBy(size, n) == IF size < n THEN size + n ELSE size

Grown(size, n) == IF size < n THEN n + 8 ELSE size

(* The body is read behind the head, whether or not there is room for it.  *)
AwaitBody(i, n) ==
  /\ phase' = [phase EXCEPT ![i] = "body"]
  /\ next' = [next EXCEPT ![i] = n]
  /\ buf' = [buf EXCEPT ![i] = Grown(@, n)]
  /\ IF 8 + n <= buf'[i] THEN down' = FALSE ELSE down' \in BOOLEAN

(* Bytes read out of step end, by chance, where a frame begins. *)
FallInStep(i) == \E yes \in BOOLEAN : aligned' = [aligned EXCEPT ![i] = @ \/ yes]

HeadRead(i) ==
  /\ reading[i] /\ phase[i] = "head"
  /\ sock[i] \in {"up", "lost"}
  /\ \/ aligned[i] /\ (\E n \in Lengths : AwaitBody(i, n)) /\ UNCHANGED aligned
     \/ ~aligned[i] /\ (\E n \in Garbage : AwaitBody(i, n)) /\ UNCHANGED aligned
     \/ ~aligned[i] /\ FallInStep(i) /\ UNCHANGED <<phase, next, buf, down>>
  /\ UNCHANGED <<ioVars, connVars, started, reading, cut, gaveUp, histVars, passedOver>>

(* load takes a message out of the buffer unless the buffer is shorter     *)
(* than the frame.                                                         *)
BodyRead(i) ==
  /\ reading[i] /\ phase[i] = "body"
  /\ sock[i] \in {"up", "lost"}
  /\ LET whole == buf[i] >= 8 + next[i] IN
       /\ mixed' = [mixed EXCEPT ![i] = @ \/ (whole /\ ~aligned[i])]
       /\ lost' = [lost EXCEPT ![i] = @ \/ (~whole /\ aligned[i])]
  /\ phase' = [phase EXCEPT ![i] = "head"]
  /\ FallInStep(i)
  /\ UNCHANGED <<ioVars, connVars, started, reading, next, buf, cut, gaveUp, passedOver, down>>

(* Mutant: the owner is not told that the session broke off. *)
MutReadFails(i) ==
  /\ reading[i] /\ sock[i] = "lost"
  /\ reading' = [reading EXCEPT ![i] = FALSE]
  /\ started' = [started EXCEPT ![i] = FALSE]
  /\ aligned' = [aligned EXCEPT ![i] = phase[i] = "head"]
  /\ cut' = [cut EXCEPT ![i] = @ \/ phase[i] = "body"]
  /\ sock' = [sock EXCEPT ![i] = "closed"]
  /\ UNCHANGED <<ioVars, session, connecting, phase, next, buf, gaveUp, histVars, passedOver,
                 down>>

(* asyncError for the errors of a connection that is gone: closeSession    *)
(* and sessionAborted, whose owner reconnects.  The offset and the size of *)
(* the next read stay what they were.                                      *)
ReadFails(i) ==
  /\ reading[i] /\ sock[i] = "lost"
  /\ reading' = [reading EXCEPT ![i] = FALSE]
  /\ started' = [started EXCEPT ![i] = FALSE]
  /\ aligned' = [aligned EXCEPT ![i] = phase[i] = "head"]
  /\ cut' = [cut EXCEPT ![i] = @ \/ phase[i] = "body"]
  /\ ConnectAndReconnect([sock EXCEPT ![i] = "closed"], connecting)
  /\ UNCHANGED <<ioVars, phase, next, buf, gaveUp, histVars, down>>

(* asyncError for every other error: nothing. *)
ReadFailsOtherwise(i) ==
  /\ reading[i] /\ sock[i] \in {"up", "lost"}
  /\ reading' = [reading EXCEPT ![i] = FALSE]
  /\ gaveUp' = [gaveUp EXCEPT ![i] = TRUE]
  /\ UNCHANGED <<ioVars, connVars, started, recvVars, histVars, passedOver, down>>

LoseConnection(i) ==
  /\ sock[i] = "up"
  /\ sock' = [sock EXCEPT ![i] = "lost"]
  /\ UNCHANGED <<ioVars, session, connecting, started, reading, recvVars, gaveUp, histVars,
                 passedOver, down>>

Next ==
  /\ ~down
  /\ \/ IoLoop
     \/ \E i \in Sessions :
          \/ ConnectDone(i) \/ ConnectFails(i)
          \/ HeadRead(i) \/ BodyRead(i) \/ ReadFails(i) \/ ReadFailsOtherwise(i)
          \/ LoseConnection(i)

Spec == Init /\ [][Next]_vars

-----------------------------------------------------------------------------
(* Properties.                                                             *)

(* Once the io thread has begun, a session always has an operation pending *)
(* that will lead on, until a connect failed or a read failed with an      *)
(* error asyncError does not know.                                         *)
LostOnlyByError ==
  begun => \A i \in Sessions :
    \/ connecting[i] /\ sock[i] = "open" /\ ~reading[i]
    \/ reading[i] /\ started[i] /\ sock[i] \in {"up", "lost"} /\ ~connecting[i]
    \/ gaveUp[i]

(* The lengths of frames are longer than the first buffer and differ by    *)
(* more than a head.                                                       *)
Spaced == \A m, n \in Lengths : n > 8 /\ ~(m < n /\ n <= m + 8)

(* For such lengths, as long as no connection broke off in the middle of a *)
(* frame, the buffer has room for the frame that is read into it, and      *)
(* every frame is processed.                                               *)
RoomForFrame ==
  Spaced => \A i \in Sessions :
    ~cut[i] => /\ phase[i] = "body" => 8 + next[i] <= buf[i]
               /\ ~lost[i]

(* "if the socket is open and connected, ignore the code below":           *)
(* connect_and_reconnect passes over no other session.                     *)
PassedOverIsConnected == passedOver = {}

(* "ends the reception of one frame of an image": the message handed to    *)
(* processMessage is one frame.                                            *)
MessageIsOneFrame == \A i \in Sessions : ~mixed[i]
=============================================================================

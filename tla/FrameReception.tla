--------------------------- MODULE FrameReception ---------------------------
(***************************************************************************)
(* What asyncRecv of one session does to the bytes of _recv_buf: where     *)
(* CameraSession has the number of bytes and whether they begin a frame,   *)
(* this module has the bytes, and findLeadCode, nextLoad and load that     *)
(* look at them.                                                           *)
(*                                                                         *)
(* A byte is a number; the bytes of the lead code are 1, 2, 3, 4.  Of the  *)
(* four bytes of the length field only the first is used.                  *)
(***************************************************************************)
EXTENDS Integers, Sequences

CONSTANTS
  FrameLengths, \* the length fields of the frames a camera sends
  Most,         \* bound on the length field of bytes that begin no frame
  Modulus       \* of the arithmetic on the length field, 2^32

ASSUME FrameAssumption ==
  /\ Most \in Nat /\ Modulus \in Nat
  /\ FrameLengths \subseteq 0 .. Most
  /\ Most + 12 < Modulus

VARIABLES
  recvBuf,     \* _recv_buf
  recvOffset,  \* _recv_offset
  recvSize,    \* _recv_size
  bodySize,    \* history: recvSize when a body was last awaited
  atFrame,     \* the next byte begins the head or the body awaited
  mixedUp,     \* history: a message of bytes of several frames was processed
  missed,      \* history: a whole frame was not processed
  overrun      \* bytes written past the end of _recv_buf ended the process

receptionVars == <<recvBuf, recvOffset, recvSize, bodySize, atFrame, mixedUp, missed, overrun>>

LeadCode == <<1, 2, 3, 4>>
Zeros(n) == [i \in 1 .. n |-> 0]

ReceptionInit ==
  /\ recvBuf = Zeros(8) /\ recvOffset = 0 /\ recvSize = 8 /\ bodySize = 0
  /\ atFrame \in BOOLEAN
  /\ mixedUp = FALSE /\ missed = FALSE /\ overrun = FALSE

-----------------------------------------------------------------------------
(* safe_strchr counts the byte it stands on as gone: near the end of the   *)
(* buffer a beginning of the lead code counts for the whole of it.         *)
Least(a, b) == IF a < b THEN a ELSE b

FindLeadCode(bytes) ==
  \E p \in 1 .. Len(bytes) - 1 :
    \A k \in 1 .. Least(Len(bytes) - p, 4) : bytes[p + k - 1] = LeadCode[k]

(* What nextLoad and load have for "begins with the lead code". *)
SomeInPlace(bytes) == \E k \in 1 .. 4 : bytes[k] = LeadCode[k]

(* Mutant: the bytes of the checksum are not counted. *)
MutNextLoad(bytes) == IF SomeInPlace(bytes) THEN bytes[5] % Modulus ELSE 0

NextLoad(bytes) == IF SomeInPlace(bytes) THEN (bytes[5] + 4) % Modulus ELSE 0

(* load returns a message; that is, an empty one otherwise. *)
LoadsMessage(bytes) == SomeInPlace(bytes) /\ Len(bytes) >= (8 + bytes[5] + 4) % Modulus

(* async_read into the buffer; what there is no room for is not kept. *)
Written(bytes, at) ==
  [i \in DOMAIN recvBuf |-> IF i - at \in DOMAIN bytes THEN bytes[i - at] ELSE recvBuf[i]]

(* resize *)
Lengthened(bytes, n) == bytes \o Zeros(n + 8 - Len(bytes))

-----------------------------------------------------------------------------
Heads ==
  {start \o <<v, 0, b, 0>> :
     start \in {LeadCode, Zeros(4), <<1, 0, 0, 0>>, <<0, 2, 3, 0>>}, v \in {0, Most}, b \in {0, 1}}

(* The handler after a head. *)
HeadArrives ==
  /\ recvOffset = 0 /\ recvSize = 8
  /\ \E head \in (IF atFrame THEN {LeadCode \o <<v, 0, 0, 0>> : v \in FrameLengths} ELSE Heads) :
       LET bytes == Written(head, 0)
           next == NextLoad(bytes)
       IN  IF FindLeadCode(bytes) /\ next # 0
             THEN /\ recvBuf' = IF Len(bytes) < next THEN Lengthened(bytes, next) ELSE bytes
                  /\ recvOffset' = 8 /\ recvSize' = next /\ bodySize' = next
                  /\ IF 8 + next <= Len(recvBuf') THEN overrun' = FALSE ELSE overrun' \in BOOLEAN
             ELSE /\ recvBuf' = bytes
                  /\ UNCHANGED <<recvOffset, recvSize, bodySize, overrun>>
  /\ UNCHANGED <<atFrame, mixedUp, missed>>

(* A body of zeros, one that holds a lead code, one that ends with the     *)
(* first byte of one.                                                      *)
BodyBytes(n) ==
  {Zeros(n), [i \in 1 .. n |-> IF i <= 4 THEN LeadCode[i] ELSE 0], [Zeros(n) EXCEPT ![n] = 1]}

(* The handler after a body. *)
BodyArrives ==
  /\ ~(recvOffset = 0 /\ recvSize = 8)
  /\ \E body \in BodyBytes(recvSize) : recvBuf' = Written(body, recvOffset)
  /\ LET message == LoadsMessage(recvBuf') IN
       /\ mixedUp' = (mixedUp \/ (message /\ ~atFrame))
       /\ missed' = (missed \/ (~message /\ atFrame))
  /\ recvOffset' = 0 /\ recvSize' = 8
  /\ \E yes \in BOOLEAN : atFrame' = (atFrame \/ yes)
  /\ UNCHANGED <<bodySize, overrun>>

ReceptionNext == ~overrun /\ (HeadArrives \/ BodyArrives)

ReceptionSpec == ReceptionInit /\ [][ReceptionNext]_receptionVars

-----------------------------------------------------------------------------
(* The session whose bytes these are, connected and reading. *)
Only(value) == [i \in {1} |-> value]

Session == INSTANCE CameraSession WITH
  Sessions <- {1},
  Lengths <- {v + 4 : v \in FrameLengths},
  Garbage <- {4, Most + 4},
  MaxBuffer <- Most + 4,
  begun <- TRUE, stopped <- FALSE,
  session <- Only(TRUE), sock <- Only("up"), connecting <- Only(FALSE),
  started <- Only(TRUE), reading <- Only(TRUE),
  phase <- Only(IF recvOffset = 0 THEN "head" ELSE "body"),
  next <- Only(bodySize),
  buf <- Only(Len(recvBuf)),
  aligned <- Only(atFrame), cut <- Only(FALSE), gaveUp <- Only(FALSE),
  mixed <- Only(mixedUp), lost <- Only(missed),
  passedOver <- {}, down <- overrun

(* What happens to the bytes is what CameraSession says of their number:   *)
(* every head of a frame is recognised and awaits the rest of it, whatever *)
(* the frames before have left in the buffer; a head of other bytes awaits *)
(* a body or another head; and load returns a message if and only if the   *)
(* buffer is as long as the frame.                                         *)
ReceivesLikeSession ==
  [][Session!HeadRead(1) \/ Session!BodyRead(1)]_receptionVars
=============================================================================

---------------------------- MODULE Camera_proofs ----------------------------
(***************************************************************************)
(* Theorems about a camera's connection: CameraSession, for any sessions   *)
(* and frames; FrameReception, for frames of any lengths and any modulus   *)
(* far enough from them, and that it is the reception CameraSession has;   *)
(* and CameraMessage, for any variables, tokens and data.                  *)
(***************************************************************************)
EXTENDS CameraSession, FrameReception, CameraMessage, SequenceTheorems, TLAPS

-----------------------------------------------------------------------------
(* The type invariant.                                                     *)

LEMMA LengthsType ==
  /\ MaxBuffer \in Nat
  /\ \A n \in Lengths \cup Garbage : n \in 0 .. MaxBuffer /\ n > 0
BY LengthsAssumption

LEMMA AwaitBodyType ==
  ASSUME TypeOK, NEW i \in Sessions, NEW n \in Lengths \cup Garbage, AwaitBody(i, n)
  PROVE  /\ phase' \in [Sessions -> {"head", "body"}]
         /\ next' \in [Sessions -> 0 .. MaxBuffer]
         /\ buf' \in [Sessions -> 8 .. MaxBuffer + 8]
         /\ down' \in BOOLEAN
<1>1. n \in 0 .. MaxBuffer
  BY LengthsType
<1>2. Grown(buf[i], n) \in 8 .. MaxBuffer + 8
  BY <1>1, LengthsType DEF TypeOK, Grown
<1> QED
  BY <1>1, <1>2 DEF TypeOK, AwaitBody

LEMMA FallInStepType ==
  ASSUME TypeOK, NEW i \in Sessions, FallInStep(i)
  PROVE  aligned' \in [Sessions -> BOOLEAN]
BY DEF TypeOK, FallInStep

LEMMA TypeStep == TypeOK /\ [Next]_vars => TypeOK'
<1> SUFFICES ASSUME TypeOK, [Next]_vars PROVE TypeOK'
  OBVIOUS
<1>1. CASE IoLoop
  BY <1>1 DEF TypeOK, IoLoop, ConnectAndReconnect, recvVars, histVars
<1>2. ASSUME NEW i \in Sessions, ConnectDone(i) PROVE TypeOK'
  BY <1>2 DEF TypeOK, ConnectDone, ioVars, recvVars, histVars
<1>3. ASSUME NEW i \in Sessions, ConnectFails(i) PROVE TypeOK'
  BY <1>3 DEF TypeOK, ConnectFails, ConnectAndReconnect, ioVars, recvVars, histVars
<1>4. ASSUME NEW i \in Sessions, HeadRead(i) PROVE TypeOK'
  <2>1. /\ phase' \in [Sessions -> {"head", "body"}]
        /\ next' \in [Sessions -> 0 .. MaxBuffer]
        /\ buf' \in [Sessions -> 8 .. MaxBuffer + 8]
        /\ down' \in BOOLEAN
        /\ aligned' \in [Sessions -> BOOLEAN]
    BY <1>4, AwaitBodyType, FallInStepType DEF TypeOK, HeadRead
  <2> QED
    BY <1>4, <2>1 DEF TypeOK, HeadRead, ioVars, connVars, histVars
<1>5. ASSUME NEW i \in Sessions, BodyRead(i) PROVE TypeOK'
  BY <1>5, FallInStepType DEF TypeOK, BodyRead, ioVars, connVars
<1>6. ASSUME NEW i \in Sessions, ReadFails(i) PROVE TypeOK'
  BY <1>6 DEF TypeOK, ReadFails, ConnectAndReconnect, ioVars, histVars
<1>7. ASSUME NEW i \in Sessions, ReadFailsOtherwise(i) PROVE TypeOK'
  BY <1>7 DEF TypeOK, ReadFailsOtherwise, ioVars, connVars, recvVars, histVars
<1>8. ASSUME NEW i \in Sessions, LoseConnection(i) PROVE TypeOK'
  BY <1>8 DEF TypeOK, LoseConnection, ioVars, recvVars, histVars
<1>9. CASE UNCHANGED vars
  BY <1>9 DEF TypeOK, vars, ioVars, connVars, recvVars, histVars
<1> QED
  BY <1>1, <1>2, <1>3, <1>4, <1>5, <1>6, <1>7, <1>8, <1>9 DEF Next

(* Every reachable state of the io thread, its sockets and its sessions is *)
(* well typed (VCameraSession, connect_and_reconnect).                     *)
THEOREM TypeCorrect == Spec => []TypeOK
<1>1. Init => TypeOK
  <2>1. 0 \in 0 .. MaxBuffer /\ 8 \in 8 .. MaxBuffer + 8
    BY LengthsType
  <2>2. ASSUME Init PROVE passedOver \subseteq Sessions
    BY <2>2 DEF Init
  <2>3. ASSUME Init
        PROVE  /\ sock \in [Sessions -> {"closed", "open", "up", "lost"}]
               /\ phase \in [Sessions -> {"head", "body"}]
               /\ next \in [Sessions -> 0 .. MaxBuffer]
               /\ buf \in [Sessions -> 8 .. MaxBuffer + 8]
    BY <2>1, <2>3 DEF Init
  <2>4. ASSUME Init PROVE begun \in BOOLEAN /\ stopped \in BOOLEAN /\ down \in BOOLEAN
    BY <2>4, Zenon DEF Init
  <2>5. ASSUME Init
        PROVE  /\ session \in [Sessions -> BOOLEAN] /\ connecting \in [Sessions -> BOOLEAN]
               /\ started \in [Sessions -> BOOLEAN] /\ reading \in [Sessions -> BOOLEAN]
               /\ aligned \in [Sessions -> BOOLEAN] /\ cut \in [Sessions -> BOOLEAN]
               /\ gaveUp \in [Sessions -> BOOLEAN] /\ mixed \in [Sessions -> BOOLEAN]
               /\ lost \in [Sessions -> BOOLEAN]
    BY <2>5 DEF Init
  <2> QED BY <2>2, <2>3, <2>4, <2>5, Zenon DEF TypeOK
<1> QED
  BY <1>1, TypeStep, PTL DEF Spec

-----------------------------------------------------------------------------
(* No session is lost but by an error.                                     *)

(* What one session is waiting for, once the io thread has begun; before,  *)
(* there is nothing.                                                       *)
LeadsOn(i) ==
  /\ sock[i] # "closed"
  /\ \/ connecting[i] /\ sock[i] = "open" /\ ~reading[i]
     \/ reading[i] /\ started[i] /\ sock[i] \in {"up", "lost"} /\ ~connecting[i]
     \/ gaveUp[i]

Fresh(i) == sock[i] = "closed" /\ ~connecting[i] /\ ~reading[i]

Attended == \A i \in Sessions : IF begun THEN LeadsOn(i) ELSE Fresh(i)

(* connect_and_reconnect leaves a session whose socket is open as it is    *)
(* and makes one whose socket is closed wait for its connection.           *)
LEMMA ConnectLeadsOn ==
  ASSUME TypeOK, NEW j \in Sessions,
         NEW socks \in [Sessions -> {"closed", "open", "up", "lost"}],
         NEW conns \in [Sessions -> BOOLEAN],
         ConnectAndReconnect(socks, conns)
  PROVE  /\ socks[j] = "closed" => sock'[j] = "open" /\ connecting'[j]
         /\ socks[j] # "closed" => sock'[j] = socks[j] /\ connecting'[j] = conns[j]
BY DEF ConnectAndReconnect

LEMMA AttendedStep == TypeOK /\ Attended /\ [Next]_vars => Attended'
<1> SUFFICES ASSUME TypeOK, Attended, [Next]_vars, NEW j \in Sessions
             PROVE  (IF begun THEN LeadsOn(j) ELSE Fresh(j))'
  BY DEF Attended
<1>0. \A i \in Sessions : IF begun THEN LeadsOn(i) ELSE Fresh(i)
  BY DEF Attended
<1>1. CASE IoLoop
  <2>1. /\ sock[j] = "closed" => sock'[j] = "open" /\ connecting'[j]
        /\ sock[j] # "closed" => sock'[j] = sock[j] /\ connecting'[j] = connecting[j]
    BY <1>1, ConnectLeadsOn DEF IoLoop, TypeOK
  <2> QED
    BY <1>0, <1>1, <2>1 DEF IoLoop, LeadsOn, Fresh
<1>2. ASSUME NEW i \in Sessions, ConnectDone(i)
      PROVE  (IF begun THEN LeadsOn(j) ELSE Fresh(j))'
  BY <1>0, <1>2 DEF ConnectDone, LeadsOn, Fresh, TypeOK, ioVars
<1>3. ASSUME NEW i \in Sessions, ConnectFails(i)
      PROVE  (IF begun THEN LeadsOn(j) ELSE Fresh(j))'
  <2> DEFINE conns == [connecting EXCEPT ![i] = FALSE]
  <2>1. begun /\ begun' /\ sock[j] # "closed"
    BY <1>0, <1>3 DEF ConnectFails, LeadsOn, Fresh, ioVars
  <2>2. sock'[j] = sock[j] /\ connecting'[j] = conns[j]
    <3>1. conns \in [Sessions -> BOOLEAN]
      BY DEF TypeOK
    <3>2. ConnectAndReconnect(sock, conns)
      BY <1>3 DEF ConnectFails
    <3> HIDE DEF conns
    <3> QED BY <2>1, <3>1, <3>2, ConnectLeadsOn DEF TypeOK
  <2> QED
    BY <1>0, <1>3, <2>1, <2>2 DEF ConnectFails, LeadsOn, TypeOK
<1>4. ASSUME NEW i \in Sessions, HeadRead(i) \/ BodyRead(i)
      PROVE  (IF begun THEN LeadsOn(j) ELSE Fresh(j))'
  BY <1>0, <1>4 DEF HeadRead, BodyRead, LeadsOn, Fresh, ioVars, connVars
<1>5. ASSUME NEW i \in Sessions, ReadFails(i)
      PROVE  (IF begun THEN LeadsOn(j) ELSE Fresh(j))'
  <2> DEFINE socks == [sock EXCEPT ![i] = "closed"]
  <2>1. begun /\ begun' /\ sock[j] # "closed"
    BY <1>0, <1>5 DEF ReadFails, LeadsOn, Fresh, ioVars
  <2>2. /\ socks[j] = "closed" => sock'[j] = "open" /\ connecting'[j]
        /\ socks[j] # "closed" => sock'[j] = socks[j] /\ connecting'[j] = connecting[j]
    <3>1. socks \in [Sessions -> {"closed", "open", "up", "lost"}]
      BY DEF TypeOK
    <3>2. ConnectAndReconnect(socks, connecting)
      BY <1>5 DEF ReadFails
    <3> HIDE DEF socks
    <3> QED BY <3>1, <3>2, ConnectLeadsOn DEF TypeOK
  <2> QED
    BY <1>0, <1>5, <2>1, <2>2 DEF ReadFails, LeadsOn, TypeOK
<1>6. ASSUME NEW i \in Sessions, ReadFailsOtherwise(i)
      PROVE  (IF begun THEN LeadsOn(j) ELSE Fresh(j))'
  BY <1>0, <1>6 DEF ReadFailsOtherwise, LeadsOn, Fresh, TypeOK, ioVars, connVars
<1>7. ASSUME NEW i \in Sessions, LoseConnection(i)
      PROVE  (IF begun THEN LeadsOn(j) ELSE Fresh(j))'
  BY <1>0, <1>7 DEF LoseConnection, LeadsOn, Fresh, TypeOK, ioVars
<1>8. CASE UNCHANGED vars
  BY <1>0, <1>8 DEF LeadsOn, Fresh, vars, ioVars, connVars
<1> QED
  BY <1>1, <1>2, <1>3, <1>4, <1>5, <1>6, <1>7, <1>8 DEF Next

(* A session of the io thread always waits for its connection or for its   *)
(* next frame, unless a connect failed or a read failed with an error that *)
(* asyncError does not know.                                               *)
THEOREM NoneIsLost == Spec => []LostOnlyByError
<1>1. Init => Attended
  BY DEF Init, Attended, Fresh
<1>2. Attended => LostOnlyByError
  BY DEF Attended, LeadsOn, LostOnlyByError
<1> QED
  BY <1>1, <1>2, AttendedStep, TypeCorrect, PTL DEF Spec

-----------------------------------------------------------------------------
(* The buffer has room for the frame.                                      *)

(* The buffer is as long as when it was created, or as the frame that last *)
(* made it grow.                                                           *)
Fits(i) ==
  ~cut[i] => /\ aligned[i]
             /\ ~lost[i]
             /\ buf[i] = 8 \/ \E m \in Lengths : buf[i] = m + 8
             /\ phase[i] = "body" => next[i] \in Lengths /\ 8 + next[i] <= buf[i]

(* _recv_buf.resize(next + 8) is enough although only next is compared: a  *)
(* buffer in which a frame's body fits without its head does not occur.    *)
LEMMA GrownFits ==
  ASSUME Spaced, NEW size \in Nat, NEW n \in Lengths,
         size = 8 \/ \E m \in Lengths : size = m + 8
  PROVE  /\ 8 + n <= Grown(size, n)
         /\ Grown(size, n) = 8 \/ \E m \in Lengths : Grown(size, n) = m + 8
<1>1. \A m \in Lengths : m \in Nat
  BY LengthsType
<1>2. CASE size < n
  BY <1>1, <1>2 DEF Grown
<1>3. CASE ~(size < n)
  <2>1. PICK m \in Lengths : size = m + 8
    BY <1>1, <1>3 DEF Spaced
  <2>2. n <= m
    BY <1>1, <1>3, <2>1 DEF Spaced
  <2> QED BY <1>1, <1>3, <2>1, <2>2 DEF Grown
<1> QED BY <1>1, <1>2, <1>3

LEMMA FitsStep ==
  ASSUME TypeOK, Spaced, \A i \in Sessions : Fits(i), [Next]_vars, NEW j \in Sessions
  PROVE  Fits(j)'
<1>0. Fits(j)
  OBVIOUS
<1>1. CASE IoLoop
  BY <1>0, <1>1 DEF IoLoop, Fits, recvVars, histVars
<1>2. ASSUME NEW i \in Sessions, ConnectDone(i) \/ ConnectFails(i) PROVE Fits(j)'
  BY <1>0, <1>2 DEF ConnectDone, ConnectFails, Fits, recvVars, histVars
<1>3. ASSUME NEW i \in Sessions, HeadRead(i) PROVE Fits(j)'
  <2>1. CASE j # i
    BY <1>0, <1>3, <2>1 DEF HeadRead, AwaitBody, FallInStep, Fits, TypeOK, histVars
  <2>2. CASE j = i /\ cut[i]
    BY <1>3, <2>2 DEF HeadRead, Fits
  <2>3. CASE j = i /\ ~cut[i]
    <3>1. PICK n \in Lengths : AwaitBody(i, n)
      BY <1>0, <1>3, <2>3 DEF HeadRead, Fits
    <3>2. /\ 8 + n <= Grown(buf[i], n)
          /\ Grown(buf[i], n) = 8 \/ \E m \in Lengths : Grown(buf[i], n) = m + 8
      BY <1>0, <2>3, GrownFits DEF Fits, TypeOK
    <3>3. next'[i] = n /\ buf'[i] = Grown(buf[i], n)
      BY <3>1 DEF AwaitBody, TypeOK
    <3>4. UNCHANGED <<aligned, cut, lost>>
      BY <1>0, <1>3, <2>3 DEF HeadRead, Fits, histVars
    <3> QED BY <1>0, <2>3, <3>2, <3>3, <3>4 DEF Fits
  <2> QED BY <2>1, <2>2, <2>3
<1>4. ASSUME NEW i \in Sessions, BodyRead(i) PROVE Fits(j)'
  <2>1. CASE j # i
    BY <1>0, <1>4, <2>1 DEF BodyRead, FallInStep, Fits, TypeOK
  <2>2. CASE j = i
    <3>1. ~cut[i] => buf[i] >= 8 + next[i] /\ aligned[i] /\ ~lost[i]
      BY <1>0, <1>4, <2>2, LengthsType DEF BodyRead, Fits, TypeOK
    <3>2. ~cut[i] => aligned'[i] /\ ~lost'[i]
      BY <1>4, <3>1 DEF BodyRead, FallInStep, TypeOK
    <3>3. phase'[i] = "head" /\ UNCHANGED <<buf, cut>>
      BY <1>4 DEF BodyRead, TypeOK
    <3> QED BY <1>0, <2>2, <3>2, <3>3 DEF Fits
  <2> QED BY <2>1, <2>2
<1>5. ASSUME NEW i \in Sessions, ReadFails(i) PROVE Fits(j)'
  BY <1>0, <1>5 DEF ReadFails, Fits, TypeOK, histVars
<1>6. ASSUME NEW i \in Sessions, ReadFailsOtherwise(i) \/ LoseConnection(i) PROVE Fits(j)'
  BY <1>0, <1>6 DEF ReadFailsOtherwise, LoseConnection, Fits, recvVars, histVars
<1>7. CASE UNCHANGED vars
  BY <1>0, <1>7 DEF Fits, vars, recvVars, histVars
<1> QED
  BY <1>1, <1>2, <1>3, <1>4, <1>5, <1>6, <1>7 DEF Next

(* Until a connection breaks inside a frame, every frame of well spaced    *)
(* lengths fits into _recv_buf and is processed (asyncRecv, load).         *)
THEOREM FramesFit == Spec => []RoomForFrame
<1> DEFINE Inv == Spaced => \A i \in Sessions : Fits(i)
<1>1. Init => Inv
  BY DEF Init, Fits
<1>2. TypeOK /\ Inv /\ [Next]_vars => Inv'
  BY FitsStep DEF Spaced
<1>3. Inv => RoomForFrame
  BY DEF Fits, RoomForFrame
<1> HIDE DEF Inv
<1> QED
  BY <1>1, <1>2, <1>3, TypeCorrect, PTL DEF Spec

-----------------------------------------------------------------------------
(* FrameReception: that the bytes do what CameraSession says of their      *)
(* number.  While a body is awaited the buffer begins with the head that   *)
(* announced it.                                                           *)
BodyAwaited ==
  /\ recvOffset = 8 /\ recvSize = bodySize
  /\ SomeInPlace(recvBuf)
  /\ recvBuf[5] \in 0 .. Most /\ bodySize = recvBuf[5] + 4

ReceptionInv ==
  /\ recvBuf \in Seq(Nat) /\ Len(recvBuf) >= 8
  /\ (recvOffset = 0 /\ recvSize = 8) \/ BodyAwaited
  /\ atFrame \in BOOLEAN /\ mixedUp \in BOOLEAN /\ missed \in BOOLEAN /\ overrun \in BOOLEAN

LEMMA FunctionSeq ==
  ASSUME NEW k \in Nat, NEW S, NEW f \in [1 .. k -> S]
  PROVE  f \in Seq(S) /\ Len(f) = k
OBVIOUS

LEMMA HeadShape ==
  ASSUME NEW start \in Seq(Nat), Len(start) = 4, NEW v \in Nat, NEW b \in Nat
  PROVE  /\ start \o <<v, 0, b, 0>> \in Seq(Nat) /\ Len(start \o <<v, 0, b, 0>>) = 8
         /\ \A k \in 1 .. 4 : (start \o <<v, 0, b, 0>>)[k] = start[k]
         /\ (start \o <<v, 0, b, 0>>)[5] = v
<1> DEFINE w == <<v, 0, b, 0>>
           h == start \o w
<1>1. w \in Seq(Nat) /\ Len(w) = 4 /\ w[1] = v
  OBVIOUS
<1> HIDE DEF w
<1>2. /\ h \in Seq(Nat) /\ Len(h) = Len(start) + Len(w)
      /\ \A i \in 1 .. Len(start) + Len(w) :
           h[i] = IF i <= Len(start) THEN start[i] ELSE w[i - Len(start)]
  BY <1>1, ConcatProperties
<1> HIDE DEF h
<1>3. h \in Seq(Nat) /\ Len(h) = 8 /\ (\A k \in 1 .. 4 : h[k] = start[k]) /\ h[5] = v
  BY <1>1, <1>2
<1> QED BY <1>3 DEF h, w

(* Reading into the buffer keeps its length, and what lies outside.        *)
LEMMA WrittenFacts ==
  ASSUME recvBuf \in Seq(Nat), NEW bytes \in Seq(Nat), NEW at \in Nat
  PROVE  /\ Written(bytes, at) \in Seq(Nat) /\ Len(Written(bytes, at)) = Len(recvBuf)
         /\ \A i \in 1 .. Len(recvBuf) :
              Written(bytes, at)[i] = IF i - at \in 1 .. Len(bytes) THEN bytes[i - at] ELSE recvBuf[i]
<1>1. DOMAIN recvBuf = 1 .. Len(recvBuf) /\ DOMAIN bytes = 1 .. Len(bytes) /\ Len(recvBuf) \in Nat
  BY LenProperties
<1>2. \A i \in 1 .. Len(recvBuf) : recvBuf[i] \in Nat
  BY ElementOfSeq
<1>3. \A j \in 1 .. Len(bytes) : bytes[j] \in Nat
  BY ElementOfSeq
<1> DEFINE f == Written(bytes, at)
<1>4. f = [i \in 1 .. Len(recvBuf) |-> IF i - at \in 1 .. Len(bytes) THEN bytes[i - at] ELSE recvBuf[i]]
  BY <1>1 DEF Written
<1> HIDE DEF f
<1>5. f \in [1 .. Len(recvBuf) -> Nat]
  BY <1>2, <1>3, <1>4
<1>6. f \in Seq(Nat) /\ Len(f) = Len(recvBuf)
  <2> DEFINE n == Len(recvBuf)
  <2>1. n \in Nat /\ f \in [1 .. n -> Nat]
    BY <1>1, <1>5
  <2> HIDE DEF n
  <2>2. f \in Seq(Nat) /\ Len(f) = n
    BY <2>1, FunctionSeq
  <2> QED BY <2>2 DEF n
<1> QED BY <1>4, <1>6 DEF f

LEMMA LengthenedFacts ==
  ASSUME NEW bytes \in Seq(Nat), NEW n \in Nat, Len(bytes) < n
  PROVE  /\ Lengthened(bytes, n) \in Seq(Nat) /\ Len(Lengthened(bytes, n)) = n + 8
         /\ \A i \in 1 .. Len(bytes) : Lengthened(bytes, n)[i] = bytes[i]
<1> DEFINE k == n + 8 - Len(bytes)
           z == Zeros(k)
<1>1. Len(bytes) \in Nat /\ k \in Nat
  BY LenProperties
<1>2. z \in Seq(Nat) /\ Len(z) = k
  <2> HIDE DEF k
  <2>1. z \in [1 .. k -> Nat]
    BY DEF Zeros
  <2> QED BY <1>1, <2>1
<1> HIDE DEF z
<1>3. /\ bytes \o z \in Seq(Nat) /\ Len(bytes \o z) = Len(bytes) + Len(z)
      /\ \A i \in 1 .. Len(bytes) + Len(z) :
           (bytes \o z)[i] = IF i <= Len(bytes) THEN bytes[i] ELSE z[i - Len(bytes)]
  BY <1>2, ConcatProperties
<1>4. Lengthened(bytes, n) = bytes \o z
  BY DEF Lengthened, z
<1> DEFINE r == bytes \o z
<1> HIDE DEF r
<1>5. /\ r \in Seq(Nat) /\ Len(r) = Len(bytes) + Len(z)
      /\ \A i \in 1 .. Len(bytes) + Len(z) :
           r[i] = IF i <= Len(bytes) THEN bytes[i] ELSE z[i - Len(bytes)]
  BY <1>3 DEF r
<1>6. r \in Seq(Nat) /\ Len(r) = n + 8 /\ \A i \in 1 .. Len(bytes) : r[i] = bytes[i]
  <2> DEFINE a == Len(bytes)
             c == Len(z)
  <2>1. a \in Nat /\ c \in Nat /\ c = n + 8 - a
    BY <1>1, <1>2
  <2>2. /\ r \in Seq(Nat) /\ Len(r) = a + c
        /\ \A i \in 1 .. a + c : r[i] = IF i <= a THEN bytes[i] ELSE z[i - a]
    BY <1>5
  <2> HIDE DEF a, c
  <2>3. Len(r) = n + 8 /\ \A i \in 1 .. a : r[i] = bytes[i]
    BY <2>1, <2>2
  <2> QED BY <2>2, <2>3 DEF a
<1> QED BY <1>4, <1>6 DEF r

(* The length field, plus the checksum, is far from the modulus. *)
LEMMA NoWrap ==
  ASSUME NEW v \in 0 .. Most
  PROVE  (v + 4) % Modulus = v + 4 /\ (8 + v + 4) % Modulus = v + 12 /\ v \in Nat
<1>1. v + 4 \in 0 .. Modulus - 1 /\ v + 12 \in 0 .. Modulus - 1 /\ Modulus \in Nat /\ v \in Nat
  BY FrameAssumption
<1>2. 8 + v + 4 = v + 12
  BY <1>1
<1>3. \A x \in 0 .. Modulus - 1 : x % Modulus = x
  BY <1>1
<1> QED BY <1>1, <1>2, <1>3

(* What the buffer holds after a head was read, where it did not begin a   *)
(* frame and where it did.                                                 *)
LEMMA HeadFacts ==
  ASSUME ReceptionInv,
         NEW head \in (IF atFrame THEN {LeadCode \o <<v, 0, 0, 0>> : v \in FrameLengths} ELSE Heads)
  PROVE  LET bytes == Written(head, 0) IN
         /\ bytes \in Seq(Nat) /\ Len(bytes) = Len(recvBuf)
         /\ bytes[5] \in 0 .. Most
         /\ NextLoad(bytes) = IF SomeInPlace(bytes) THEN bytes[5] + 4 ELSE 0
         /\ atFrame => bytes[5] \in FrameLengths /\ SomeInPlace(bytes) /\ FindLeadCode(bytes)
         /\ ~atFrame => bytes[5] \in {0, Most}
<1> DEFINE bytes == Written(head, 0)
<1>0. recvBuf \in Seq(Nat) /\ Len(recvBuf) >= 8 /\ Len(recvBuf) \in Nat
  BY LenProperties DEF ReceptionInv
<1>1. LeadCode \in Seq(Nat) /\ Len(LeadCode) = 4
  BY DEF LeadCode
<1>2. /\ head \in Seq(Nat) /\ Len(head) = 8 /\ head[5] \in 0 .. Most
      /\ atFrame => (head[5] \in FrameLengths /\ \A k \in 1 .. 4 : head[k] = LeadCode[k])
      /\ ~atFrame => head[5] \in {0, Most}
  <2>1. CASE atFrame
    <3>1. PICK v \in FrameLengths : head = LeadCode \o <<v, 0, 0, 0>>
      BY <2>1
    <3>2. v \in Nat /\ v \in 0 .. Most /\ 0 \in Nat
      BY FrameAssumption
    <3>3. /\ LeadCode \o <<v, 0, 0, 0>> \in Seq(Nat) /\ Len(LeadCode \o <<v, 0, 0, 0>>) = 8
          /\ \A k \in 1 .. 4 : (LeadCode \o <<v, 0, 0, 0>>)[k] = LeadCode[k]
          /\ (LeadCode \o <<v, 0, 0, 0>>)[5] = v
      BY <1>1, <3>2, HeadShape
    <3> HIDE DEF bytes
    <3> QED BY <2>1, <3>1, <3>2, <3>3
  <2>2. CASE ~atFrame
    <3> DEFINE Starts == {LeadCode, Zeros(4), <<1, 0, 0, 0>>, <<0, 2, 3, 0>>}
    <3>0. head \in Heads
      BY <2>2
    <3>1. PICK start \in Starts, v \in {0, Most}, b \in {0, 1} : head = start \o <<v, 0, b, 0>>
      <4> DEFINE H(st, v, b) == st \o <<v, 0, b, 0>>
      <4>1. Heads = {H(st, v, b) : st \in Starts, v \in {0, Most}, b \in {0, 1}}
        BY DEF Heads
      <4> HIDE DEF bytes, Starts, H
      <4>2. \E start \in Starts, v \in {0, Most}, b \in {0, 1} : head = H(start, v, b)
        BY <3>0, <4>1
      <4> QED BY <4>2 DEF H
    <3>2. start \in Seq(Nat) /\ Len(start) = 4
      <4>1. Zeros(4) \in Seq(Nat) /\ Len(Zeros(4)) = 4
        <5>1. Zeros(4) \in [1 .. 4 -> Nat]
          BY DEF Zeros
        <5> QED BY <5>1, FunctionSeq
      <4>2. <<1, 0, 0, 0>> \in Seq(Nat) /\ Len(<<1, 0, 0, 0>>) = 4
        OBVIOUS
      <4>3. <<0, 2, 3, 0>> \in Seq(Nat) /\ Len(<<0, 2, 3, 0>>) = 4
        OBVIOUS
      <4> QED BY <1>1, <3>1, <4>1, <4>2, <4>3, Zenon
    <3>3. v \in Nat /\ v \in 0 .. Most /\ b \in Nat
      BY FrameAssumption
    <3> HIDE DEF Starts
    <3>4. start \o <<v, 0, b, 0>> \in Seq(Nat) /\ Len(start \o <<v, 0, b, 0>>) = 8
          /\ (start \o <<v, 0, b, 0>>)[5] = v
      BY <3>2, <3>3, HeadShape
    <3> QED BY <2>2, <3>1, <3>3, <3>4
  <2> QED BY <2>1, <2>2
<1> DEFINE at == 0
           n == Len(recvBuf)
           eight == Len(head)
<1>a. at = 0 /\ at \in Nat /\ n \in Nat /\ n >= 8 /\ eight = 8
  BY <1>0, <1>2
<1>b. bytes = Written(head, at)
  OBVIOUS
<1> HIDE DEF bytes, at
<1>3. /\ bytes \in Seq(Nat) /\ Len(bytes) = n
      /\ \A i \in 1 .. n : bytes[i] = IF i - at \in 1 .. eight THEN head[i - at] ELSE recvBuf[i]
  <2>1. /\ Written(head, at) \in Seq(Nat) /\ Len(Written(head, at)) = Len(recvBuf)
        /\ \A i \in 1 .. Len(recvBuf) :
             Written(head, at)[i] = IF i - at \in 1 .. Len(head) THEN head[i - at] ELSE recvBuf[i]
    <3>1. recvBuf \in Seq(Nat) /\ head \in Seq(Nat) /\ at \in Nat
      BY <1>0, <1>2, <1>a
    <3> QED BY <3>1, WrittenFacts
  <2> QED BY <1>b, <2>1
<1> HIDE DEF n, eight
<1>4. \A i \in 1 .. 8 : bytes[i] = head[i]
  BY <1>3, <1>a
<1>5. bytes[5] = head[5]
  BY <1>4
<1>6. NextLoad(bytes) = IF SomeInPlace(bytes) THEN bytes[5] + 4 ELSE 0
  <2> DEFINE v == bytes[5]
  <2>1. v \in 0 .. Most
    BY <1>2, <1>5
  <2> HIDE DEF v
  <2>2. (v + 4) % Modulus = v + 4
    BY <2>1, NoWrap
  <2> QED BY <2>2 DEF NextLoad, v
<1>7. ASSUME atFrame PROVE SomeInPlace(bytes) /\ FindLeadCode(bytes)
  <2>0. \A k \in 1 .. 4 : head[k] = LeadCode[k]
    BY <1>2, <1>7
  <2>1. \A k \in 1 .. 4 : bytes[k] = LeadCode[k]
    <3>1. \A k \in 1 .. 4 : k \in 1 .. 8
      OBVIOUS
    <3> QED BY <1>4, <2>0, <3>1, Zenon
  <2>2. SomeInPlace(bytes)
    BY <2>1 DEF SomeInPlace
  <2>3. 1 \in 1 .. Len(bytes) - 1 /\ Least(Len(bytes) - 1, 4) = 4
    BY <1>a, <1>3 DEF Least
  <2>4. \A k \in 1 .. Least(Len(bytes) - 1, 4) : bytes[1 + k - 1] = LeadCode[k]
    <3>1. \A k \in 1 .. 4 : 1 + k - 1 = k
      OBVIOUS
    <3> QED BY <2>1, <2>3, <3>1
  <2> QED BY <2>2, <2>3, <2>4 DEF FindLeadCode
<1>8. bytes \in Seq(Nat) /\ Len(bytes) = Len(recvBuf)
  BY <1>3 DEF n
<1>9. bytes[5] \in 0 .. Most /\ (atFrame => bytes[5] \in FrameLengths) /\ (~atFrame => bytes[5] \in {0, Most})
  BY <1>2, <1>5
<1> QED BY <1>6, <1>7, <1>8, <1>9 DEF bytes

LEMMA OnlyFacts ==
  ASSUME NEW v, NEW w
  PROVE  Only(v)[1] = v /\ [Only(v) EXCEPT ![1] = w] = Only(w)
BY DEF Only

(* What becomes of the buffer, the offset and the size when a head has     *)
(* arrived: a body is awaited, or another head.                            *)
HeadAnnounces(n) ==
  /\ recvOffset' = 8 /\ recvSize' = n /\ bodySize' = n
  /\ Len(recvBuf') = IF Len(recvBuf) < n THEN n + 8 ELSE Len(recvBuf)
  /\ IF 8 + n <= Len(recvBuf') THEN overrun' = FALSE ELSE overrun' \in BOOLEAN
  /\ SomeInPlace(recvBuf') /\ recvBuf'[5] \in 0 .. Most /\ n = recvBuf'[5] + 4

LEMMA HeadStep ==
  ASSUME ReceptionInv, HeadArrives
  PROVE  /\ recvOffset = 0 /\ recvSize = 8
         /\ UNCHANGED <<atFrame, mixedUp, missed>>
         /\ recvBuf' \in Seq(Nat) /\ Len(recvBuf') >= 8
         /\ \/ /\ atFrame
               /\ \E v \in FrameLengths : HeadAnnounces(v + 4)
            \/ /\ ~atFrame
               /\ \E v \in {0, Most} : HeadAnnounces(v + 4)
            \/ /\ ~atFrame
               /\ Len(recvBuf') = Len(recvBuf) /\ UNCHANGED <<recvOffset, recvSize, bodySize, overrun>>
<1>0. recvBuf \in Seq(Nat) /\ Len(recvBuf) >= 8 /\ Len(recvBuf) \in Nat /\ atFrame \in BOOLEAN
  BY LenProperties DEF ReceptionInv
<1>1. recvOffset = 0 /\ recvSize = 8 /\ UNCHANGED <<atFrame, mixedUp, missed>>
  BY DEF HeadArrives
<1>2. PICK head \in (IF atFrame THEN {LeadCode \o <<v, 0, 0, 0>> : v \in FrameLengths} ELSE Heads) :
        LET bytes == Written(head, 0)
            more == NextLoad(bytes)
        IN  IF FindLeadCode(bytes) /\ more # 0
              THEN /\ recvBuf' = IF Len(bytes) < more THEN Lengthened(bytes, more) ELSE bytes
                   /\ recvOffset' = 8 /\ recvSize' = more /\ bodySize' = more
                   /\ IF 8 + more <= Len(recvBuf') THEN overrun' = FALSE ELSE overrun' \in BOOLEAN
              ELSE /\ recvBuf' = bytes
                   /\ UNCHANGED <<recvOffset, recvSize, bodySize, overrun>>
  BY DEF HeadArrives
<1> DEFINE bytes == Written(head, 0)
           more == NextLoad(bytes)
<1>3. /\ bytes \in Seq(Nat) /\ Len(bytes) = Len(recvBuf)
      /\ bytes[5] \in 0 .. Most
      /\ more = IF SomeInPlace(bytes) THEN bytes[5] + 4 ELSE 0
      /\ atFrame => bytes[5] \in FrameLengths /\ SomeInPlace(bytes) /\ FindLeadCode(bytes)
      /\ ~atFrame => bytes[5] \in {0, Most}
  BY HeadFacts
<1>4. IF FindLeadCode(bytes) /\ more # 0
        THEN /\ recvBuf' = IF Len(bytes) < more THEN Lengthened(bytes, more) ELSE bytes
             /\ recvOffset' = 8 /\ recvSize' = more /\ bodySize' = more
             /\ IF 8 + more <= Len(recvBuf') THEN overrun' = FALSE ELSE overrun' \in BOOLEAN
        ELSE /\ recvBuf' = bytes
             /\ UNCHANGED <<recvOffset, recvSize, bodySize, overrun>>
  BY <1>2
<1> HIDE DEF bytes, more
<1>5. bytes[5] \in Nat
  BY <1>3, NoWrap
<1>6. CASE FindLeadCode(bytes) /\ more # 0
  <2>1. SomeInPlace(bytes) /\ more = bytes[5] + 4 /\ more \in Nat /\ more >= 4
    BY <1>3, <1>5, <1>6
  <2>2. /\ recvBuf' \in Seq(Nat)
        /\ Len(recvBuf') = IF Len(recvBuf) < more THEN more + 8 ELSE Len(recvBuf)
        /\ \A i \in 1 .. Len(bytes) : recvBuf'[i] = bytes[i]
    <3>1. CASE Len(bytes) < more
      <4>1. recvBuf' = Lengthened(bytes, more)
        BY <1>4, <1>6, <3>1
      <4>2. /\ Lengthened(bytes, more) \in Seq(Nat) /\ Len(Lengthened(bytes, more)) = more + 8
            /\ \A i \in 1 .. Len(bytes) : Lengthened(bytes, more)[i] = bytes[i]
        BY <1>3, <2>1, <3>1, LengthenedFacts
      <4> QED BY <1>3, <3>1, <4>1, <4>2
    <3>2. CASE ~(Len(bytes) < more)
      BY <1>3, <1>4, <1>6, <3>2
    <3> QED BY <3>1, <3>2
  <2>3. /\ recvOffset' = 8 /\ recvSize' = more /\ bodySize' = more
        /\ IF 8 + more <= Len(recvBuf') THEN overrun' = FALSE ELSE overrun' \in BOOLEAN
    BY <1>4, <1>6
  <2>4. \A i \in 1 .. 8 : recvBuf'[i] = bytes[i]
    <3>1. \A i \in 1 .. 8 : i \in 1 .. Len(bytes)
      BY <1>0, <1>3
    <3> QED BY <2>2, <3>1, Zenon
  <2>5. recvBuf'[5] = bytes[5]
    BY <2>4
  <2>6. SomeInPlace(recvBuf')
    <3>1. PICK k \in 1 .. 4 : bytes[k] = LeadCode[k]
      BY <2>1 DEF SomeInPlace
    <3>2. k \in 1 .. 8
      OBVIOUS
    <3> QED BY <2>4, <3>1, <3>2 DEF SomeInPlace
  <2>7. HeadAnnounces(bytes[5] + 4)
    <3>1. bytes[5] + 4 = recvBuf'[5] + 4 /\ recvBuf'[5] \in 0 .. Most
      BY <1>3, <2>5
    <3> QED BY <2>1, <2>2, <2>3, <2>6, <3>1, Zenon DEF HeadAnnounces
  <2>8. Len(recvBuf') >= 8
    BY <1>0, <2>1, <2>2
  <2> QED BY <1>1, <1>3, <2>2, <2>7, <2>8, Zenon
<1>7. CASE ~(FindLeadCode(bytes) /\ more # 0)
  <2>1. ~atFrame
    BY <1>3, <1>5, <1>7
  <2>2. recvBuf' = bytes /\ UNCHANGED <<recvOffset, recvSize, bodySize, overrun>>
    BY <1>4, <1>7
  <2> QED BY <1>0, <1>1, <1>3, <2>1, <2>2
<1> QED BY <1>6, <1>7

(* What has become of them when a body has arrived. *)
LEMMA BodyStep ==
  ASSUME ReceptionInv, BodyArrives
  PROVE  /\ BodyAwaited
         /\ recvBuf' \in Seq(Nat) /\ Len(recvBuf') = Len(recvBuf)
         /\ LoadsMessage(recvBuf') <=> Len(recvBuf) >= 8 + bodySize
         /\ mixedUp' = (mixedUp \/ (LoadsMessage(recvBuf') /\ ~atFrame))
         /\ missed' = (missed \/ (~LoadsMessage(recvBuf') /\ atFrame))
         /\ recvOffset' = 0 /\ recvSize' = 8
         /\ \E yes \in BOOLEAN : atFrame' = (atFrame \/ yes)
         /\ UNCHANGED <<bodySize, overrun>>
<1>0. BodyAwaited
  BY DEF ReceptionInv, BodyArrives
<1>1. recvBuf \in Seq(Nat) /\ Len(recvBuf) >= 8 /\ Len(recvBuf) \in Nat
  BY LenProperties DEF ReceptionInv
<1>2. PICK body \in BodyBytes(recvSize) : recvBuf' = Written(body, recvOffset)
  BY DEF BodyArrives
<1>3. body \in Seq(Nat)
  <2>1. recvSize \in Nat /\ recvSize >= 4
    BY <1>0, NoWrap DEF BodyAwaited
  <2>2. body \in [1 .. recvSize -> Nat]
    <3>1. \A i \in 1 .. recvSize : i <= 4 => LeadCode[i] \in Nat
      <4>1. LeadCode \in Seq(Nat) /\ Len(LeadCode) = 4
        BY DEF LeadCode
      <4>2. \A i \in 1 .. recvSize : i <= 4 => i \in 1 .. 4
        BY <2>1
      <4> QED BY <4>1, <4>2, ElementOfSeq
    <3>2. Zeros(recvSize) \in [1 .. recvSize -> Nat]
      BY DEF Zeros
    <3>3. [i \in 1 .. recvSize |-> IF i <= 4 THEN LeadCode[i] ELSE 0] \in [1 .. recvSize -> Nat]
      BY <3>1
    <3>4. [Zeros(recvSize) EXCEPT ![recvSize] = 1] \in [1 .. recvSize -> Nat]
      BY <3>2
    <3>5. \/ body = Zeros(recvSize)
          \/ body = [i \in 1 .. recvSize |-> IF i <= 4 THEN LeadCode[i] ELSE 0]
          \/ body = [Zeros(recvSize) EXCEPT ![recvSize] = 1]
      BY <1>2 DEF BodyBytes
    <3> DEFINE b1 == Zeros(recvSize)
               b2 == [i \in 1 .. recvSize |-> IF i <= 4 THEN LeadCode[i] ELSE 0]
               b3 == [Zeros(recvSize) EXCEPT ![recvSize] = 1]
    <3>6. /\ body = b1 \/ body = b2 \/ body = b3
          /\ b1 \in [1 .. recvSize -> Nat] /\ b2 \in [1 .. recvSize -> Nat] /\ b3 \in [1 .. recvSize -> Nat]
      BY <3>2, <3>3, <3>4, <3>5
    <3> HIDE DEF b1, b2, b3
    <3> QED BY <3>6
  <2> QED BY <2>1, <2>2, FunctionSeq
<1> DEFINE n == Len(recvBuf)
           m == Len(body)
           at == recvOffset
<1>4. /\ Written(body, at) \in Seq(Nat) /\ Len(Written(body, at)) = n
      /\ \A i \in 1 .. n : Written(body, at)[i] = IF i - at \in 1 .. m THEN body[i - at] ELSE recvBuf[i]
  <2>1. at \in Nat
    BY <1>0 DEF BodyAwaited
  <2> QED BY <1>1, <1>3, <2>1, WrittenFacts
<1>5. n \in Nat /\ n >= 8 /\ m \in Nat /\ at = 8
  BY <1>0, <1>1, <1>3, LenProperties DEF BodyAwaited
<1> HIDE DEF n, m, at
<1>6. recvBuf' \in Seq(Nat) /\ Len(recvBuf') = n /\ \A i \in 1 .. 8 : recvBuf'[i] = recvBuf[i]
  <2>1. recvBuf' = Written(body, at)
    BY <1>2 DEF at
  <2> QED BY <1>4, <1>5, <2>1
<1>7. SomeInPlace(recvBuf') /\ recvBuf'[5] = recvBuf[5]
  <2>1. PICK k \in 1 .. 4 : recvBuf[k] = LeadCode[k]
    BY <1>0 DEF BodyAwaited, SomeInPlace
  <2>2. k \in 1 .. 8
    OBVIOUS
  <2>3. recvBuf'[k] = LeadCode[k]
    BY <1>6, <2>1, <2>2
  <2>4. recvBuf'[5] = recvBuf[5]
    BY <1>6
  <2> QED BY <2>3, <2>4 DEF SomeInPlace
<1>8. LoadsMessage(recvBuf') <=> n >= 8 + bodySize
  <2> DEFINE v == recvBuf[5]
  <2>1. v \in 0 .. Most /\ bodySize = v + 4
    BY <1>0 DEF BodyAwaited
  <2> HIDE DEF v
  <2>2. (8 + v + 4) % Modulus = v + 12 /\ v \in Nat
    BY <2>1, NoWrap
  <2>3. LoadsMessage(recvBuf') <=> n >= (8 + v + 4) % Modulus
    BY <1>6, <1>7 DEF LoadsMessage, v
  <2>4. v + 12 = 8 + bodySize
    BY <2>1, <2>2
  <2> QED BY <2>2, <2>3, <2>4
<1>9. /\ mixedUp' = (mixedUp \/ (LoadsMessage(recvBuf') /\ ~atFrame))
      /\ missed' = (missed \/ (~LoadsMessage(recvBuf') /\ atFrame))
      /\ recvOffset' = 0 /\ recvSize' = 8
      /\ \E yes \in BOOLEAN : atFrame' = (atFrame \/ yes)
      /\ UNCHANGED <<bodySize, overrun>>
  BY Zenon DEF BodyArrives
<1> QED BY <1>0, <1>6, <1>8, <1>9, Zenon DEF n

LEMMA ReceptionInitInv == ReceptionInit => ReceptionInv
<1> SUFFICES ASSUME ReceptionInit PROVE ReceptionInv
  OBVIOUS
<1>1. Zeros(8) \in Seq(Nat) /\ Len(Zeros(8)) = 8
  <2>1. Zeros(8) \in [1 .. 8 -> Nat]
    BY DEF Zeros
  <2> QED BY <2>1, FunctionSeq
<1>2. recvBuf \in Seq(Nat) /\ Len(recvBuf) >= 8
  <2>1. recvBuf = Zeros(8)
    BY DEF ReceptionInit
  <2> DEFINE z == Zeros(8)
             n == Len(z)
  <2>2. z \in Seq(Nat) /\ n = 8 /\ recvBuf = z /\ Len(recvBuf) = n
    BY <1>1, <2>1
  <2> HIDE DEF z, n
  <2> QED BY <2>2
<1> QED BY <1>2 DEF ReceptionInit, ReceptionInv

LEMMA ReceptionStep == ReceptionInv /\ [ReceptionNext]_receptionVars => ReceptionInv'
<1> SUFFICES ASSUME ReceptionInv, [ReceptionNext]_receptionVars PROVE ReceptionInv'
  OBVIOUS
<1>1. CASE HeadArrives
  <2>1. /\ recvOffset = 0 /\ recvSize = 8
        /\ UNCHANGED <<atFrame, mixedUp, missed>>
        /\ recvBuf' \in Seq(Nat) /\ Len(recvBuf') >= 8
    BY <1>1, HeadStep
  <2>2. ASSUME NEW n, HeadAnnounces(n)
        PROVE  overrun' \in BOOLEAN /\ BodyAwaited'
    <3>1. overrun' \in BOOLEAN
      BY <2>2 DEF HeadAnnounces
    <3>2. BodyAwaited'
      BY <2>2 DEF HeadAnnounces, BodyAwaited, SomeInPlace
    <3> QED BY <3>1, <3>2
  <2>3. \/ \E n : HeadAnnounces(n)
        \/ UNCHANGED <<recvOffset, recvSize, bodySize, overrun>>
    BY <1>1, HeadStep, Zenon
  <2> QED BY <2>1, <2>2, <2>3 DEF ReceptionInv
<1>2. CASE BodyArrives
  <2>1. /\ recvBuf' \in Seq(Nat) /\ Len(recvBuf') = Len(recvBuf)
        /\ mixedUp' = (mixedUp \/ (LoadsMessage(recvBuf') /\ ~atFrame))
        /\ missed' = (missed \/ (~LoadsMessage(recvBuf') /\ atFrame))
        /\ recvOffset' = 0 /\ recvSize' = 8
        /\ \E yes \in BOOLEAN : atFrame' = (atFrame \/ yes)
        /\ UNCHANGED <<bodySize, overrun>>
    BY <1>2, BodyStep, Zenon
  <2>2. mixedUp' \in BOOLEAN /\ missed' \in BOOLEAN /\ atFrame' \in BOOLEAN
    BY <2>1 DEF ReceptionInv
  <2> QED BY <2>1, <2>2 DEF ReceptionInv
<1>3. CASE UNCHANGED receptionVars
  BY <1>3 DEF receptionVars, ReceptionInv, BodyAwaited, SomeInPlace
<1> QED BY <1>1, <1>2, <1>3 DEF ReceptionNext

(* Every step of the bytes is one of the session's. *)
LEMMA SessionHead ==
  ASSUME ReceptionInv, HeadArrives
  PROVE  Session!HeadRead(1)
<1>1. /\ recvOffset = 0 /\ recvSize = 8
      /\ UNCHANGED <<atFrame, mixedUp, missed>>
      /\ \/ /\ atFrame
            /\ \E v \in FrameLengths : HeadAnnounces(v + 4)
         \/ /\ ~atFrame
            /\ \E v \in {0, Most} : HeadAnnounces(v + 4)
         \/ /\ ~atFrame
            /\ Len(recvBuf') = Len(recvBuf) /\ UNCHANGED <<recvOffset, recvSize, bodySize, overrun>>
  BY HeadStep
<1>2. ASSUME NEW v, HeadAnnounces(v + 4)
      PROVE  Session!AwaitBody(1, v + 4)
  <2>1. /\ recvOffset' = 8 /\ bodySize' = v + 4
        /\ Len(recvBuf') = Session!Grown(Len(recvBuf), v + 4)
        /\ IF 8 + (v + 4) <= Len(recvBuf') THEN overrun' = FALSE ELSE overrun' \in BOOLEAN
    BY <1>2 DEF HeadAnnounces, Session!Grown
  <2>2. Only(IF recvOffset' = 0 THEN "head" ELSE "body")
          = [Only(IF recvOffset = 0 THEN "head" ELSE "body") EXCEPT ![1] = "body"]
    BY <2>1 DEF Only
  <2>3. Only(bodySize') = [Only(bodySize) EXCEPT ![1] = v + 4]
    BY <2>1 DEF Only
  <2>4. Only(Len(recvBuf')) = [Only(Len(recvBuf)) EXCEPT ![1] = Session!Grown(@, v + 4)]
    BY <2>1 DEF Only
  <2>5. Only(Len(recvBuf'))[1] = Len(recvBuf')
    BY DEF Only
  <2> QED BY <2>1, <2>2, <2>3, <2>4, <2>5 DEF Session!AwaitBody
<1>3. /\ Only(TRUE)[1] /\ Only("up")[1] \in {"up", "lost"}
      /\ Only(IF recvOffset = 0 THEN "head" ELSE "body")[1] = "head"
      /\ Only(atFrame)[1] = atFrame
      /\ UNCHANGED Only(atFrame)
  BY <1>1 DEF Only
<1>4. UNCHANGED <<Session!ioVars, Session!connVars, Only(TRUE), Only(TRUE), Only(FALSE), Only(FALSE),
                  Session!histVars, {}>>
  BY <1>1 DEF Only, Session!ioVars, Session!connVars, Session!histVars
<1>5. \/ Only(atFrame)[1] /\ (\E n \in {v + 4 : v \in FrameLengths} : Session!AwaitBody(1, n))
      \/ ~Only(atFrame)[1] /\ (\E n \in {4, Most + 4} : Session!AwaitBody(1, n))
      \/ /\ ~Only(atFrame)[1] /\ Session!FallInStep(1)
         /\ UNCHANGED <<Only(IF recvOffset = 0 THEN "head" ELSE "body"), Only(bodySize),
                        Only(Len(recvBuf)), overrun>>
  <2>1. ASSUME atFrame, NEW v \in FrameLengths, HeadAnnounces(v + 4)
        PROVE  Only(atFrame)[1] /\ \E n \in {u + 4 : u \in FrameLengths} : Session!AwaitBody(1, n)
    BY <1>2, <1>3, <2>1
  <2>2. ASSUME ~atFrame, NEW v \in {0, Most}, HeadAnnounces(v + 4)
        PROVE  ~Only(atFrame)[1] /\ \E n \in {4, Most + 4} : Session!AwaitBody(1, n)
    <3>1. v + 4 \in {4, Most + 4}
      OBVIOUS
    <3> QED BY <1>2, <1>3, <2>2, <3>1
  <2>3. ASSUME ~atFrame, Len(recvBuf') = Len(recvBuf),
               UNCHANGED <<recvOffset, recvSize, bodySize, overrun>>
        PROVE  /\ ~Only(atFrame)[1] /\ Session!FallInStep(1)
               /\ UNCHANGED <<Only(IF recvOffset = 0 THEN "head" ELSE "body"), Only(bodySize),
                              Only(Len(recvBuf)), overrun>>
    <3>1. Session!FallInStep(1)
      <4>1. Only(atFrame') = [Only(atFrame) EXCEPT ![1] = @ \/ FALSE]
        <5>1. atFrame' = (atFrame \/ FALSE)
          BY <1>1, <2>3 DEF ReceptionInv
        <5> QED BY <5>1 DEF Only
      <4> QED BY <4>1 DEF Session!FallInStep
    <3>2. UNCHANGED <<Only(IF recvOffset = 0 THEN "head" ELSE "body"), Only(bodySize),
                      Only(Len(recvBuf)), overrun>>
      BY <2>3 DEF Only
    <3> QED BY <1>3, <2>3, <3>1, <3>2
  <2> QED BY <1>1, <2>1, <2>2, <2>3
<1> QED BY <1>3, <1>4, <1>5 DEF Session!HeadRead

LEMMA SessionBody ==
  ASSUME ReceptionInv, BodyArrives
  PROVE  Session!BodyRead(1)
<1>1. /\ recvOffset = 8 /\ recvOffset' = 0
      /\ Len(recvBuf') = Len(recvBuf)
      /\ LoadsMessage(recvBuf') <=> Len(recvBuf) >= 8 + bodySize
      /\ mixedUp' = (mixedUp \/ (LoadsMessage(recvBuf') /\ ~atFrame))
      /\ missed' = (missed \/ (~LoadsMessage(recvBuf') /\ atFrame))
      /\ \E yes \in BOOLEAN : atFrame' = (atFrame \/ yes)
      /\ UNCHANGED <<bodySize, overrun>>
  BY BodyStep, Zenon DEF BodyAwaited
<1>2. /\ Only(TRUE)[1] /\ Only("up")[1] \in {"up", "lost"}
      /\ Only(IF recvOffset = 0 THEN "head" ELSE "body")[1] = "body"
      /\ Only(atFrame)[1] = atFrame /\ Only(Len(recvBuf))[1] = Len(recvBuf)
      /\ Only(bodySize)[1] = bodySize /\ Only(mixedUp)[1] = mixedUp /\ Only(missed)[1] = missed
  BY <1>1 DEF Only
<1>3. LET whole == Only(Len(recvBuf))[1] >= 8 + Only(bodySize)[1] IN
        /\ Only(mixedUp') = [Only(mixedUp) EXCEPT ![1] = @ \/ (whole /\ ~Only(atFrame)[1])]
        /\ Only(missed') = [Only(missed) EXCEPT ![1] = @ \/ (~whole /\ Only(atFrame)[1])]
  <2> DEFINE whole == Len(recvBuf) >= 8 + bodySize
  <2>1. mixedUp' = (mixedUp \/ (whole /\ ~atFrame)) /\ missed' = (missed \/ (~whole /\ atFrame))
    BY <1>1, Zenon
  <2>2. Only(mixedUp') = [Only(mixedUp) EXCEPT ![1] = mixedUp \/ (whole /\ ~atFrame)]
    BY <2>1, OnlyFacts, Zenon
  <2>3. Only(missed') = [Only(missed) EXCEPT ![1] = missed \/ (~whole /\ atFrame)]
    BY <2>1, OnlyFacts, Zenon
  <2> QED BY <1>2, <2>2, <2>3, Zenon
<1>4. Only(IF recvOffset' = 0 THEN "head" ELSE "body")
        = [Only(IF recvOffset = 0 THEN "head" ELSE "body") EXCEPT ![1] = "head"]
  BY <1>1 DEF Only
<1>5. Session!FallInStep(1)
  <2>1. PICK yes \in BOOLEAN : atFrame' = (atFrame \/ yes)
    BY <1>1
  <2>2. Only(atFrame') = [Only(atFrame) EXCEPT ![1] = @ \/ yes]
    BY <2>1 DEF Only
  <2> QED BY <2>2 DEF Session!FallInStep
<1>6. UNCHANGED <<Session!ioVars, Session!connVars, Only(TRUE), Only(TRUE), Only(bodySize),
                  Only(Len(recvBuf)), Only(FALSE), Only(FALSE), {}, overrun>>
  BY <1>1 DEF Only, Session!ioVars, Session!connVars
<1> QED BY <1>2, <1>3, <1>4, <1>5, <1>6 DEF Session!BodyRead

(* What asyncRecv, findLeadCode, nextLoad and load do to the bytes is what *)
(* CameraSession says of their number, for frames of any lengths and any   *)
(* modulus they are far enough from.                                       *)
THEOREM BytesLikeSession == ReceptionSpec => ReceivesLikeSession
<1>1. ReceptionInv /\ [ReceptionNext]_receptionVars =>
        [Session!HeadRead(1) \/ Session!BodyRead(1)]_receptionVars
  BY SessionHead, SessionBody DEF ReceptionNext
<1> QED BY <1>1, ReceptionInitInv, ReceptionStep, PTL DEF ReceptionSpec, ReceivesLikeSession

-----------------------------------------------------------------------------
(* Messages: what is known of the bytes of a variable.                     *)

(* A sequence, of words of any kind. *)
Sequence(s) == \E S : s \in Seq(S)

(* The bytes that token t, length n and data body were put into. *)
Shape(s, t, n, body) ==
  /\ Sequence(s) /\ Len(s) = Len(body) + 4
  /\ s[1] = Lead /\ s[2] = Num(n) /\ s[3] = Tok(t)
  /\ \A i \in 1 .. Len(body) : s[3 + i] = Datum(body[i])

(* The length is the one of the data, and the checksum is up to date. *)
Checked(s, n, body) == n = 1 + Len(body) /\ s[Len(s)] = Crc(Middle(s))

(* The bytes s are those the fields w were put into, if there are any. *)
Agree(s, w) ==
  /\ Sequence(s) /\ Len(s) <= MaxLength + 3
  /\ w \in Messages \cup {None}
  /\ w # None => /\ Shape(s, w.token, w.length, w.data)
                 /\ w.fresh => Checked(s, w.length, w.data)

MessageInv ==
  /\ held \in [Msgs -> BOOLEAN]
  /\ string = [m \in Msgs |-> string[m]] /\ put = [m \in Msgs |-> put[m]]
  /\ \A m \in Msgs : Agree(string[m], put[m])
  /\ outside \in {"no", "bytes", "null"}
  /\ StaysInside

-----------------------------------------------------------------------------
(* Sequences of any kind.                                                  *)
LEMMA SequenceLen ==
  ASSUME NEW s, Sequence(s)
  PROVE  Len(s) \in Nat /\ DOMAIN s = 1 .. Len(s)
BY LenProperties DEF Sequence

LEMMA SequenceAppend ==
  ASSUME NEW s, Sequence(s), NEW x
  PROVE  /\ Sequence(Append(s, x)) /\ Len(Append(s, x)) = Len(s) + 1
         /\ \A i \in 1 .. Len(s) : Append(s, x)[i] = s[i]
         /\ Append(s, x)[Len(s) + 1] = x
<1>1. PICK S : s \in Seq(S)
  BY DEF Sequence
<1>2. s \in Seq(S \cup {x})
  BY <1>1, SeqMonotonic
<1> QED BY <1>2, AppendProperties DEF Sequence

LEMMA SequenceConcat ==
  ASSUME NEW s, NEW t, Sequence(s), Sequence(t)
  PROVE  /\ Sequence(s \o t) /\ Len(s \o t) = Len(s) + Len(t)
         /\ \A i \in 1 .. Len(s) : (s \o t)[i] = s[i]
         /\ \A i \in 1 .. Len(t) : (s \o t)[Len(s) + i] = t[i]
<1>1. PICK S : s \in Seq(S)
  BY DEF Sequence
<1>2. PICK T : t \in Seq(T)
  BY DEF Sequence
<1>3. s \in Seq(S \cup T) /\ t \in Seq(S \cup T)
  BY <1>1, <1>2, SeqMonotonic
<1>4. Len(s) \in Nat /\ Len(t) \in Nat
  BY SequenceLen
<1> QED BY <1>3, <1>4, ConcatProperties DEF Sequence

LEMMA FunctionSequence ==
  ASSUME NEW k \in Nat, NEW S, NEW f \in [1 .. k -> S]
  PROVE  Sequence(f) /\ Len(f) = k
<1>1. f \in Seq(S) /\ Len(f) = k
  OBVIOUS
<1> QED BY <1>1 DEF Sequence

LEMMA SequencePart ==
  ASSUME NEW s, Sequence(s), NEW a \in Nat, NEW b \in Nat, 1 <= a, b <= Len(s)
  PROVE  /\ Sequence(SubSeq(s, a, b))
         /\ Len(SubSeq(s, a, b)) = IF a <= b THEN b - a + 1 ELSE 0
         /\ \A i \in 1 .. b - a + 1 : SubSeq(s, a, b)[i] = s[a + i - 1]
<1>1. PICK S : s \in Seq(S)
  BY DEF Sequence
<1>2. \A i \in a .. b : s[i] \in S
  BY <1>1, ElementOfSeq
<1> QED BY <1>2, SubSeqProperties DEF Sequence

LEMMA SequenceExcept ==
  ASSUME NEW s, Sequence(s), NEW i \in 1 .. Len(s), NEW x
  PROVE  /\ Sequence([s EXCEPT ![i] = x]) /\ Len([s EXCEPT ![i] = x]) = Len(s)
         /\ \A j \in 1 .. Len(s) : [s EXCEPT ![i] = x][j] = IF j = i THEN x ELSE s[j]
<1>1. PICK S : s \in Seq(S)
  BY DEF Sequence
<1>2. s \in Seq(S \cup {x})
  BY <1>1, SeqMonotonic
<1> QED BY <1>2, ExceptSeq DEF Sequence

LEMMA SequenceEqual ==
  ASSUME NEW s, NEW t, Sequence(s), Sequence(t), Len(s) = Len(t),
         \A i \in 1 .. Len(s) : s[i] = t[i]
  PROVE  s = t
<1>1. PICK S : s \in Seq(S)
  BY DEF Sequence
<1>2. PICK T : t \in Seq(T)
  BY DEF Sequence
<1>3. s \in Seq(S \cup T) /\ t \in Seq(S \cup T)
  BY <1>1, <1>2, SeqMonotonic
<1> QED BY <1>3, SeqEqual

LEMMA BodyFacts ==
  ASSUME NEW body \in Bodies
  PROVE  /\ Len(body) \in Nat /\ Len(body) <= MaxData /\ DOMAIN body = 1 .. Len(body)
         /\ Sequence(Data(body)) /\ Len(Data(body)) = Len(body)
         /\ \A i \in 1 .. Len(body) : Data(body)[i] = Datum(body[i])
<1>1. PICK k \in 0 .. MaxData : body \in [1 .. k -> Words]
  BY DEF Bodies
<1>2. k \in Nat /\ k <= MaxData
  BY <1>1, DataAssumption
<1>3. body \in Seq(Words) /\ Len(body) = k /\ DOMAIN body = 1 .. k
  BY <1>1, <1>2
<1>4. Data(body) \in [1 .. k -> {Datum(w) : w \in Words}]
  BY <1>1, <1>3 DEF Data
<1>5. Data(body) \in Seq({Datum(w) : w \in Words}) /\ Len(Data(body)) = k
  BY <1>2, <1>4
<1> QED BY <1>2, <1>3, <1>5 DEF Data, Sequence

-----------------------------------------------------------------------------
(* The bytes of a message.                                                 *)
LEMMA ShapeReads ==
  ASSUME NEW s, NEW t, NEW n \in 0 .. MaxLength, NEW body \in Bodies, Shape(s, t, n, body)
  PROVE  /\ Len(s) \in Nat /\ LengthsOf(s) = {n}
         /\ SubSeq(s, 4, Len(s) - 1) = Data(body)
         /\ HasCrc(s, n) <=> n <= 1 + Len(body)
         /\ n = 1 + Len(body) =>
              /\ Loads(s, n) /\ MessageIn(s, n) = s
              /\ Checked(s, n, body) => CheckCrc(s, n)
<1>1. Len(body) \in Nat /\ Sequence(s) /\ Len(s) = Len(body) + 4
  BY BodyFacts DEF Shape
<1>2. LengthsOf(s) = {n}
  <2>1. s[2] = Num(n) /\ Len(s) >= 2
    BY <1>1 DEF Shape
  <2>2. \A k \in 0 .. MaxLength : Num(n) = Num(k) <=> k = n
    BY DEF Num
  <2>3. s[2][1] = "num"
    BY <2>1 DEF Num
  <2> QED BY <2>1, <2>2, <2>3 DEF LengthsOf
<1>3. HasCrc(s, n) <=> n <= 1 + Len(body)
  BY <1>1 DEF HasCrc
<1>4. SubSeq(s, 4, Len(s) - 1) = Data(body)
  <2> DEFINE d == SubSeq(s, 4, 3 + Len(body))
  <2>1. /\ Sequence(d) /\ Len(d) = Len(body)
        /\ \A i \in 1 .. Len(body) : d[i] = s[3 + i]
    <3>1. /\ Sequence(d) /\ Len(d) = IF 4 <= 3 + Len(body) THEN 3 + Len(body) - 4 + 1 ELSE 0
          /\ \A i \in 1 .. 3 + Len(body) - 4 + 1 : d[i] = s[4 + i - 1]
      BY <1>1, SequencePart
    <3> HIDE DEF d
    <3> QED BY <1>1, <3>1
  <2>2. Len(s) - 1 = 3 + Len(body)
    BY <1>1
  <2> HIDE DEF d
  <2>3. d = Data(body)
    BY <2>1, BodyFacts, SequenceEqual DEF Shape
  <2> QED BY <2>2, <2>3 DEF d
<1>5. ASSUME n = 1 + Len(body)
      PROVE  /\ Loads(s, n) /\ MessageIn(s, n) = s
             /\ Checked(s, n, body) => CheckCrc(s, n)
  <2>1. 3 + n = Len(s)
    BY <1>1, <1>5
  <2>2. Loads(s, n)
    BY <1>1, <2>1 DEF Loads, Shape
  <2>3. MessageIn(s, n) = s
    <3>1. SubSeq(s, 1, Len(s)) = s
      BY <1>1, SubSeqFull DEF Sequence
    <3> QED BY <2>1, <3>1 DEF MessageIn
  <2>4. Checked(s, n, body) => CheckCrc(s, n)
    BY <2>1 DEF Checked, CheckCrc
  <2> QED BY <2>2, <2>3, <2>4
<1> QED BY <1>1, <1>2, <1>3, <1>4, <1>5

(* A word put over the checksum, which may be the one updateCrc computes:  *)
(* the checksum is not counted in it.                                      *)
LEMMA ShapeCrc ==
  ASSUME NEW s, NEW t, NEW n, NEW body \in Bodies, Shape(s, t, n, body),
         n = 1 + Len(body), NEW l, l = 3 + n, NEW x
  PROVE  /\ Shape([s EXCEPT ![l] = x], t, n, body)
         /\ x = Crc(Middle(s)) => Checked([s EXCEPT ![l] = x], n, body)
<1> DEFINE r == [s EXCEPT ![l] = x]
<1>1. /\ Len(body) \in Nat /\ Sequence(s) /\ Len(s) = Len(body) + 4
      /\ l = Len(s) /\ l \in 1 .. Len(s)
  BY BodyFacts DEF Shape
<1>2. /\ Sequence(r) /\ Len(r) = Len(s) /\ r[l] = x
      /\ \A j \in 1 .. Len(s) - 1 : r[j] = s[j]
  <2>1. l \in 1 .. Len(s) /\ Sequence(s)
    BY <1>1
  <2>2. Sequence(r)
    BY <2>1, SequenceExcept
  <2>3. Len(r) = Len(s)
    BY <2>1, SequenceExcept
  <2>4. \A j \in 1 .. Len(s) : r[j] = IF j = l THEN x ELSE s[j]
    BY <2>1, SequenceExcept
  <2> HIDE DEF r
  <2> QED BY <1>1, <2>2, <2>3, <2>4
<1> HIDE DEF r
<1>3. Middle(r) = Middle(s)
  <2>1. /\ Sequence(Middle(s)) /\ Len(Middle(s)) = Len(s) - 2
        /\ \A i \in 1 .. Len(s) - 2 : Middle(s)[i] = s[i + 1]
    <3>1. Len(s) - 1 \in Nat /\ 2 <= Len(s) - 1 /\ Len(s) - 1 <= Len(s)
      BY <1>1
    <3> QED BY <1>1, <3>1, SequencePart DEF Middle
  <2>2. /\ Sequence(Middle(r)) /\ Len(Middle(r)) = Len(s) - 2
        /\ \A i \in 1 .. Len(s) - 2 : Middle(r)[i] = r[i + 1]
    <3>1. Len(r) - 1 \in Nat /\ 2 <= Len(r) - 1 /\ Len(r) - 1 <= Len(r)
      BY <1>1, <1>2
    <3> QED BY <1>1, <1>2, <3>1, SequencePart DEF Middle
  <2>3. \A i \in 1 .. Len(s) - 2 : Middle(r)[i] = Middle(s)[i]
    BY <1>1, <1>2, <2>1, <2>2
  <2> QED BY <2>1, <2>2, <2>3, SequenceEqual
<1>4. /\ r[1] = Lead /\ r[2] = Num(n) /\ r[3] = Tok(t)
      /\ \A i \in 1 .. Len(body) : r[3 + i] = Datum(body[i])
  BY <1>1, <1>2 DEF Shape
<1>5. Shape(r, t, n, body)
  BY <1>1, <1>2, <1>4 DEF Shape
<1>6. x = Crc(Middle(s)) => Checked(r, n, body)
  BY <1>1, <1>2, <1>3 DEF Checked
<1> QED BY <1>5, <1>6 DEF r

(* setToken and setLength before updateCrc. *)
LEMMA ShapeHead ==
  ASSUME NEW s, NEW t, NEW n, NEW body \in Bodies, Shape(s, t, n, body),
         NEW u, NEW k
  PROVE  /\ Shape([s EXCEPT ![3] = Tok(u)], u, n, body)
         /\ Shape([s EXCEPT ![2] = Num(k)], t, k, body)
<1>1. Len(body) \in Nat /\ Sequence(s) /\ Len(s) = Len(body) + 4
  BY BodyFacts DEF Shape
<1>2. 2 \in 1 .. Len(s) /\ 3 \in 1 .. Len(s)
  BY <1>1
<1>3. Shape([s EXCEPT ![3] = Tok(u)], u, n, body)
  <2> DEFINE x == Tok(u)
             r == [s EXCEPT ![3] = x]
  <2>1. Sequence(r) /\ Len(r) = Len(s) /\ \A j \in 1 .. Len(s) : r[j] = IF j = 3 THEN x ELSE s[j]
    <3> HIDE DEF x
    <3>1. Sequence(r)
      BY <1>1, <1>2, SequenceExcept
    <3>2. Len(r) = Len(s)
      BY <1>1, <1>2, SequenceExcept
    <3>3. \A j \in 1 .. Len(s) : r[j] = IF j = 3 THEN x ELSE s[j]
      BY <1>1, <1>2, SequenceExcept
    <3> QED BY <3>1, <3>2, <3>3
  <2> HIDE DEF r
  <2>2. Shape(r, u, n, body)
    BY <1>1, <2>1 DEF Shape
  <2> QED BY <2>2 DEF r
<1>4. Shape([s EXCEPT ![2] = Num(k)], t, k, body)
  <2> DEFINE x == Num(k)
             r == [s EXCEPT ![2] = x]
  <2>1. Sequence(r) /\ Len(r) = Len(s) /\ \A j \in 1 .. Len(s) : r[j] = IF j = 2 THEN x ELSE s[j]
    <3> HIDE DEF x
    <3>1. Sequence(r)
      BY <1>1, <1>2, SequenceExcept
    <3>2. Len(r) = Len(s)
      BY <1>1, <1>2, SequenceExcept
    <3>3. \A j \in 1 .. Len(s) : r[j] = IF j = 2 THEN x ELSE s[j]
      BY <1>1, <1>2, SequenceExcept
    <3> QED BY <3>1, <3>2, <3>3
  <2> HIDE DEF r
  <2>2. Shape(r, t, k, body)
    BY <1>1, <2>1 DEF Shape
  <2> QED BY <2>2 DEF r
<1> QED BY <1>3, <1>4

(* Some words and data behind them. *)
LEMMA DataBehind ==
  ASSUME NEW h, Sequence(h), NEW body \in Bodies
  PROVE  /\ Sequence(h \o Data(body)) /\ Len(h \o Data(body)) = Len(h) + Len(body)
         /\ \A i \in 1 .. Len(h) : (h \o Data(body))[i] = h[i]
         /\ \A i \in 1 .. Len(body) : (h \o Data(body))[Len(h) + i] = Datum(body[i])
<1> DEFINE d == Data(body)
<1>1. Sequence(d)
  BY BodyFacts
<1>2. /\ Sequence(h \o d) /\ Len(h \o d) = Len(h) + Len(d)
      /\ \A i \in 1 .. Len(h) : (h \o d)[i] = h[i]
      /\ \A i \in 1 .. Len(d) : (h \o d)[Len(h) + i] = d[i]
  <2> HIDE DEF d
  <2> QED BY <1>1, SequenceConcat
<1>3. Len(d) = Len(body) /\ \A i \in 1 .. Len(body) : d[i] = Datum(body[i])
  BY BodyFacts
<1> HIDE DEF d
<1>4. /\ Sequence(h \o d) /\ Len(h \o d) = Len(h) + Len(body)
      /\ \A i \in 1 .. Len(h) : (h \o d)[i] = h[i]
      /\ \A i \in 1 .. Len(body) : (h \o d)[Len(h) + i] = Datum(body[i])
  <2> DEFINE u == h \o d
  <2> HIDE DEF u
  <2>1. /\ Sequence(u) /\ Len(u) = Len(h) + Len(d)
        /\ \A i \in 1 .. Len(h) : u[i] = h[i]
        /\ \A i \in 1 .. Len(d) : u[Len(h) + i] = d[i]
    BY <1>2 DEF u
  <2>2. /\ Sequence(u) /\ Len(u) = Len(h) + Len(body)
        /\ \A i \in 1 .. Len(h) : u[i] = h[i]
        /\ \A i \in 1 .. Len(body) : u[Len(h) + i] = Datum(body[i])
    BY <1>3, <2>1
  <2> QED BY <2>2 DEF u
<1> QED BY <1>4 DEF d

(* ... and a place for the checksum. *)
LEMMA Joined ==
  ASSUME NEW h, Sequence(h), NEW body \in Bodies
  PROVE  /\ Sequence(h \o Data(body) \o <<Zero>>)
         /\ Len(h \o Data(body) \o <<Zero>>) = Len(h) + Len(body) + 1
         /\ \A i \in 1 .. Len(h) : (h \o Data(body) \o <<Zero>>)[i] = h[i]
         /\ \A i \in 1 .. Len(body) :
              (h \o Data(body) \o <<Zero>>)[Len(h) + i] = Datum(body[i])
<1> DEFINE a == h \o Data(body)
           z == <<Zero>>
           r == a \o z
<1>1. /\ Sequence(a) /\ Len(a) = Len(h) + Len(body)
      /\ \A i \in 1 .. Len(h) : a[i] = h[i]
      /\ \A i \in 1 .. Len(body) : a[Len(h) + i] = Datum(body[i])
  BY DataBehind
<1>2. Sequence(z) /\ Len(z) = 1
  <2>1. <<Zero>> \in Seq({Zero})
    OBVIOUS
  <2> QED BY <2>1 DEF Sequence
<1>3. Len(h) \in Nat /\ Len(body) \in Nat
  BY SequenceLen, BodyFacts
<1> HIDE DEF a, z
<1>4. Sequence(a) /\ Sequence(z)
  BY <1>1, <1>2
<1>5. Sequence(r) /\ Len(r) = Len(a) + Len(z) /\ \A i \in 1 .. Len(a) : r[i] = a[i]
  BY <1>4, SequenceConcat
<1> HIDE DEF r
<1>6. /\ Sequence(r) /\ Len(r) = Len(h) + Len(body) + 1
      /\ \A i \in 1 .. Len(h) : r[i] = h[i]
      /\ \A i \in 1 .. Len(body) : r[Len(h) + i] = Datum(body[i])
  BY <1>1, <1>2, <1>3, <1>5
<1> QED BY <1>6 DEF a, z, r

LEMMA ResizedFacts ==
  ASSUME NEW s
  PROVE  /\ Sequence(Resized(s)) /\ Len(Resized(s)) = 3
         /\ \A i \in 1 .. 3 : Resized(s)[i] = IF i <= Len(s) THEN s[i] ELSE Zero
<1> DEFINE S == {Resized(s)[i] : i \in 1 .. 3}
<1>1. Resized(s) \in [1 .. 3 -> S]
  BY DEF Resized
<1>2. Sequence(Resized(s)) /\ Len(Resized(s)) = 3
  <2> HIDE DEF S
  <2> QED BY <1>1, FunctionSequence
<1> QED BY <1>2 DEF Resized

(* The bytes setData leaves, of any bytes. *)
LEMMA WithDataFacts ==
  ASSUME NEW s, NEW body \in Bodies
  PROVE  LET r == WithData(s, body)
         IN  /\ Sequence(r) /\ Len(r) = 4 + Len(body)
             /\ r[1] = Resized(s)[1] /\ r[2] = Num(1 + Len(body)) /\ r[3] = Resized(s)[3]
             /\ \A i \in 1 .. Len(body) : r[3 + i] = Datum(body[i])
<1> DEFINE f == Resized(s)
           x == Num(1 + Len(body))
           h == [f EXCEPT ![2] = x]
           q == WithData(s, body)
<1>1. Sequence(f) /\ Len(f) = 3
  BY ResizedFacts
<1>2. Sequence(h) /\ Len(h) = 3 /\ h[1] = f[1] /\ h[2] = x /\ h[3] = f[3]
  <2> HIDE DEF f, x
  <2>a. Sequence(f) /\ 2 \in 1 .. Len(f)
    BY <1>1
  <2>1. Sequence(h)
    BY <2>a, SequenceExcept
  <2>2. Len(h) = Len(f)
    BY <2>a, SequenceExcept
  <2>3. \A j \in 1 .. Len(f) : h[j] = IF j = 2 THEN x ELSE f[j]
    BY <2>a, SequenceExcept
  <2> HIDE DEF h
  <2> QED BY <1>1, <2>1, <2>2, <2>3
<1>3. /\ Sequence(q) /\ Len(q) = Len(h) + Len(body) + 1
      /\ \A i \in 1 .. Len(h) : q[i] = h[i]
      /\ \A i \in 1 .. Len(body) : q[Len(h) + i] = Datum(body[i])
  <2>1. Sequence(h)
    BY <1>2
  <2>2. q = h \o Data(body) \o <<Zero>>
    BY DEF WithData, Filled
  <2> HIDE DEF h, q
  <2> QED BY <2>1, <2>2, Joined
<1>4. Len(body) \in Nat
  BY BodyFacts
<1> HIDE DEF q, h, f, x
<1>5. /\ Sequence(q) /\ Len(q) = 4 + Len(body)
      /\ q[1] = f[1] /\ q[2] = x /\ q[3] = f[3]
      /\ \A i \in 1 .. Len(body) : q[3 + i] = Datum(body[i])
  BY <1>2, <1>3, <1>4
<1> QED BY <1>5 DEF q, f, x

(* setData of a message that has one, before updateCrc. *)
LEMMA ShapeData ==
  ASSUME NEW s, NEW t, NEW n, NEW old \in Bodies, Shape(s, t, n, old),
         NEW body \in Bodies
  PROVE  Shape(WithData(s, body), t, 1 + Len(body), body)
<1> DEFINE f == Resized(s)
           r == WithData(s, body)
<1>1. f[1] = Lead /\ f[3] = Tok(t)
  <2>1. Len(s) >= 4 /\ s[1] = Lead /\ s[3] = Tok(t)
    BY BodyFacts DEF Shape
  <2>2. Len(s) \in Nat
    BY BodyFacts DEF Shape
  <2> QED BY <2>1, <2>2, ResizedFacts
<1>2. /\ Sequence(r) /\ Len(r) = 4 + Len(body)
      /\ r[1] = f[1] /\ r[2] = Num(1 + Len(body)) /\ r[3] = f[3]
      /\ \A i \in 1 .. Len(body) : r[3 + i] = Datum(body[i])
  BY WithDataFacts
<1>3. Len(body) \in Nat
  BY BodyFacts
<1> HIDE DEF f, r
<1>4. Shape(r, t, 1 + Len(body), body)
  BY <1>1, <1>2, <1>3 DEF Shape
<1> QED BY <1>4 DEF r

(* The constructor. *)
LEMMA FrameShape ==
  ASSUME NEW t, NEW body \in Bodies, NEW crc \in BOOLEAN
  PROVE  /\ Shape(Frame(t, body, crc), t, 1 + Len(body), body)
         /\ crc => Checked(Frame(t, body, crc), 1 + Len(body), body)
<1> DEFINE h == <<Lead, Num(1 + Len(body)), Tok(t)>>
           start == h \o Data(body)
           x == IF crc THEN Crc(Tail(start)) ELSE Zero
           r == Append(start, x)
<1>1. Sequence(h) /\ Len(h) = 3
  <2>1. h \in Seq({Lead, Num(1 + Len(body)), Tok(t)})
    OBVIOUS
  <2> QED BY <2>1 DEF Sequence
<1>2. /\ Sequence(Data(body)) /\ Len(Data(body)) = Len(body) /\ Len(body) \in Nat
      /\ \A i \in 1 .. Len(body) : Data(body)[i] = Datum(body[i])
  BY BodyFacts
<1>3. h[1] = Lead /\ h[2] = Num(1 + Len(body)) /\ h[3] = Tok(t)
  OBVIOUS
<1>4. /\ Sequence(start) /\ Len(start) = 3 + Len(body)
      /\ \A i \in 1 .. 3 : start[i] = h[i]
      /\ \A i \in 1 .. Len(body) : start[3 + i] = Datum(body[i])
  <2>1. Sequence(h)
    BY <1>1
  <2> HIDE DEF h
  <2>2. /\ Sequence(start) /\ Len(start) = Len(h) + Len(body)
        /\ \A i \in 1 .. Len(h) : start[i] = h[i]
        /\ \A i \in 1 .. Len(body) : start[Len(h) + i] = Datum(body[i])
    BY <2>1, DataBehind
  <2> HIDE DEF start
  <2> QED BY <1>1, <2>2
<1>5. /\ Sequence(r) /\ Len(r) = Len(start) + 1 /\ r[Len(start) + 1] = x
      /\ \A i \in 1 .. Len(start) : r[i] = start[i]
  <2> HIDE DEF start, x
  <2> QED BY <1>4, SequenceAppend
<1>6. Tail(start) = Middle(r)
  <2> HIDE DEF start, r
  <2>1. /\ Sequence(Tail(start)) /\ Len(Tail(start)) = Len(start) - 1
        /\ \A i \in 1 .. Len(start) - 1 : Tail(start)[i] = start[i + 1]
    <3>1. PICK S : start \in Seq(S)
      BY <1>4 DEF Sequence
    <3>2. start # <<>>
      BY <1>2, <1>4, EmptySeq
    <3> QED BY <3>1, <3>2, HeadTailProperties DEF Sequence
  <2>2. /\ Sequence(Middle(r)) /\ Len(Middle(r)) = Len(start) - 1
        /\ \A i \in 1 .. Len(start) - 1 : Middle(r)[i] = r[i + 1]
    <3>1. Len(r) - 1 \in Nat /\ 2 <= Len(r) - 1 /\ Len(r) - 1 <= Len(r)
      BY <1>2, <1>4, <1>5
    <3> QED BY <1>2, <1>4, <1>5, <3>1, SequencePart DEF Middle
  <2>3. \A i \in 1 .. Len(start) - 1 : Tail(start)[i] = Middle(r)[i]
    BY <1>2, <1>4, <1>5, <2>1, <2>2
  <2> QED BY <2>1, <2>2, <2>3, SequenceEqual
<1>7. Frame(t, body, crc) = r
  BY DEF Frame
<1>8. Shape(r, t, 1 + Len(body), body)
  <2> HIDE DEF start, r, h
  <2>1. /\ r[1] = Lead /\ r[2] = Num(1 + Len(body)) /\ r[3] = Tok(t)
        /\ \A i \in 1 .. Len(body) : r[3 + i] = Datum(body[i])
    <3>1. \A i \in 1 .. 3 : r[i] = h[i]
      BY <1>2, <1>4, <1>5
    <3>2. \A i \in 1 .. Len(body) : r[3 + i] = start[3 + i]
      BY <1>2, <1>4, <1>5
    <3>. QED BY <1>3, <1>4, <3>1, <3>2
  <2> QED BY <1>2, <1>4, <1>5, <2>1 DEF Shape
<1>9. crc => Checked(r, 1 + Len(body), body)
  <2>1. Len(r) = Len(start) + 1 /\ r[Len(start) + 1] = x
    BY <1>5
  <2> HIDE DEF r
  <2> QED BY <1>6, <2>1 DEF Checked
<1> QED BY <1>7, <1>8, <1>9

-----------------------------------------------------------------------------
(* Bytes and fields in accord.                                             *)
LEMMA MessageFields ==
  ASSUME NEW w \in Messages
  PROVE  /\ w # None /\ w.token \in Tokens /\ w.length \in 0 .. MaxLength
         /\ w.data \in Bodies /\ w.fresh \in BOOLEAN
BY DataAssumption DEF Messages, None, Fields

LEMMA FieldsMessage ==
  ASSUME NEW t \in Tokens, NEW n \in 0 .. MaxLength, NEW body \in Bodies, NEW fresh \in BOOLEAN
  PROVE  /\ Fields(t, n, body, fresh) \in Messages
         /\ Fields(t, n, body, fresh).token = t /\ Fields(t, n, body, fresh).length = n
         /\ Fields(t, n, body, fresh).data = body /\ Fields(t, n, body, fresh).fresh = fresh
BY DEF Messages, Fields

LEMMA FreshMessage ==
  ASSUME NEW w \in Messages, NEW fresh \in BOOLEAN
  PROVE  [w EXCEPT !.fresh = fresh] = Fields(w.token, w.length, w.data, fresh)
BY DEF Messages, Fields

LEMMA AgreeNone ==
  ASSUME NEW s, Sequence(s), Len(s) <= MaxLength + 3
  PROVE  Agree(s, None)
BY DEF Agree

LEMMA AgreeFields ==
  ASSUME NEW t \in Tokens, NEW n \in 0 .. MaxLength, NEW body \in Bodies, NEW fresh \in BOOLEAN,
         NEW s, Shape(s, t, n, body), fresh => Checked(s, n, body)
  PROVE  Agree(s, Fields(t, n, body, fresh))
<1> DEFINE w == Fields(t, n, body, fresh)
<1>1. /\ w \in Messages
      /\ w.token = t /\ w.length = n /\ w.data = body /\ w.fresh = fresh
  BY FieldsMessage
<1>2. Sequence(s) /\ Len(s) <= MaxLength + 3
  BY BodyFacts, DataAssumption DEF Shape
<1> HIDE DEF w
<1>3. Agree(s, w)
  BY <1>1, <1>2 DEF Agree
<1> QED BY <1>3 DEF w

LEMMA AgreeFacts ==
  ASSUME NEW s, NEW w, Agree(s, w), w # None
  PROVE  /\ w \in Messages /\ w.token \in Tokens /\ w.length \in 0 .. MaxLength
         /\ w.data \in Bodies /\ w.fresh \in BOOLEAN
         /\ Shape(s, w.token, w.length, w.data)
         /\ w.fresh => Checked(s, w.length, w.data)
<1>1. w \in Messages
  BY DEF Agree
<1>2. Shape(s, w.token, w.length, w.data) /\ (w.fresh => Checked(s, w.length, w.data))
  BY DEF Agree
<1> QED BY <1>1, <1>2, MessageFields

(* The same fields with the checksum known to be up to date or not. *)
LEMMA AgreeFresh ==
  ASSUME NEW s, NEW w \in Messages, Shape(s, w.token, w.length, w.data), NEW fresh \in BOOLEAN,
         fresh => Checked(s, w.length, w.data)
  PROVE  Agree(s, [w EXCEPT !.fresh = fresh])
<1>1. /\ w.token \in Tokens /\ w.length \in 0 .. MaxLength /\ w.data \in Bodies
  BY MessageFields
<1>2. [w EXCEPT !.fresh = fresh] = Fields(w.token, w.length, w.data, fresh)
  BY FreshMessage
<1>3. Agree(s, Fields(w.token, w.length, w.data, fresh))
  BY <1>1, AgreeFields
<1> QED BY <1>2, <1>3

LEMMA AgreeUnchecked ==
  ASSUME NEW s, NEW w, Agree(s, w)
  PROVE  Agree(s, Unchecked(w))
<1>1. CASE w = None
  BY <1>1 DEF Unchecked
<1>2. CASE w # None
  <2>1. w \in Messages /\ Shape(s, w.token, w.length, w.data)
    BY <1>2, AgreeFacts
  <2>2. Agree(s, [w EXCEPT !.fresh = FALSE])
    BY <2>1, AgreeFresh
  <2> QED BY <1>2, <2>2 DEF Unchecked
<1> QED BY <1>1, <1>2

(* What is read of the bytes of a message. *)
LEMMA AgreeReads ==
  ASSUME NEW s, NEW w, Agree(s, w), w # None
  PROVE  /\ Len(s) \in Nat /\ LengthsOf(s) = {w.length}
         /\ s[1] = Lead /\ s[3] = Tok(w.token)
         /\ SubSeq(s, 4, Len(s) - 1) = Data(w.data)
         /\ HasCrc(s, w.length) <=> w.length <= 1 + Len(w.data)
         /\ Fitting(w) =>
              /\ Loads(s, w.length) /\ MessageIn(s, w.length) = s
              /\ w.fresh => CheckCrc(s, w.length)
<1> DEFINE t == w.token
           k == w.length
           body == w.data
<1>1. k \in 0 .. MaxLength /\ body \in Bodies /\ Shape(s, t, k, body)
  BY AgreeFacts
<1>2. w.fresh => Checked(s, k, body)
  BY AgreeFacts
<1>3. Fitting(w) => k = 1 + Len(body)
  BY DEF Fitting
<1>4. s[1] = Lead /\ s[3] = Tok(t)
  BY <1>1 DEF Shape
<1> HIDE DEF t, k, body
<1>5. /\ Len(s) \in Nat /\ LengthsOf(s) = {k}
      /\ SubSeq(s, 4, Len(s) - 1) = Data(body)
      /\ HasCrc(s, k) <=> k <= 1 + Len(body)
      /\ k = 1 + Len(body) =>
           /\ Loads(s, k) /\ MessageIn(s, k) = s
           /\ Checked(s, k, body) => CheckCrc(s, k)
  BY <1>1, ShapeReads
<1> QED BY <1>2, <1>3, <1>4, <1>5 DEF t, k, body

(* A word put where the checksum of length n belongs. *)
LEMMA AgreeCrc ==
  ASSUME NEW s, NEW w, Agree(s, w), NEW n \in LengthsOf(s), HasCrc(s, n),
         NEW fresh \in BOOLEAN, NEW x, fresh => x = Crc(Middle(s))
  PROVE  Agree([s EXCEPT ![3 + n] = x], IF Fitting(w) THEN [w EXCEPT !.fresh = fresh] ELSE None)
<1> DEFINE l == 3 + n
           r == [s EXCEPT ![l] = x]
<1>1. CASE Fitting(w)
  <2> DEFINE t == w.token
             body == w.data
  <2>1. w # None /\ w.length = 1 + Len(body)
    BY <1>1 DEF Fitting
  <2>2. n = w.length
    BY <2>1, AgreeReads
  <2>3. w \in Messages /\ body \in Bodies /\ Shape(s, t, n, body)
    BY <2>1, <2>2, AgreeFacts
  <2>4. l = 3 + n
    OBVIOUS
  <2> HIDE DEF t, body, l
  <2>5. Shape(r, t, n, body) /\ (x = Crc(Middle(s)) => Checked(r, n, body))
    BY <2>1, <2>2, <2>3, <2>4, ShapeCrc
  <2> HIDE DEF r
  <2>6. Shape(r, w.token, w.length, w.data) /\ (fresh => Checked(r, w.length, w.data))
    BY <2>2, <2>5 DEF t, body
  <2>7. Agree(r, [w EXCEPT !.fresh = fresh])
    BY <2>3, <2>6, AgreeFresh
  <2> QED BY <1>1, <2>7 DEF r, l
<1>2. CASE ~Fitting(w)
  <2>1. Sequence(s) /\ Len(s) \in Nat /\ Len(s) <= MaxLength + 3
    BY SequenceLen DEF Agree
  <2>2. l \in 1 .. Len(s)
    BY <2>1 DEF HasCrc, LengthsOf
  <2>3. Sequence(r) /\ Len(r) = Len(s)
    <3> HIDE DEF l
    <3>1. Sequence(r)
      BY <2>1, <2>2, SequenceExcept
    <3>2. Len(r) = Len(s)
      BY <2>1, <2>2, SequenceExcept
    <3> QED BY <3>1, <3>2
  <2> HIDE DEF r
  <2>4. Agree(r, None)
    BY <2>1, <2>3, AgreeNone
  <2> QED BY <1>2, <2>4 DEF r
<1> QED BY <1>1, <1>2

-----------------------------------------------------------------------------
(* The inductive invariant.                                                *)

(* Fields whose length may count more than the bytes they are in. *)
Hollow(w) == w = None \/ w.length > 1 + Len(w.data)

LEMMA VariableFacts ==
  ASSUME MessageInv, NEW m \in Msgs
  PROVE  /\ held[m] \in BOOLEAN /\ Agree(string[m], put[m])
         /\ Sequence(string[m]) /\ Len(string[m]) \in Nat /\ Len(string[m]) <= MaxLength + 3
         /\ put[m] \in Messages \cup {None}
BY SequenceLen DEF MessageInv, Agree

(* No checksum where the length says: that is no message that was put      *)
(* there, or its length was set beyond its data.                           *)
LEMMA HollowMessage ==
  ASSUME NEW s, NEW w, Agree(s, w), NEW n \in LengthsOf(s), ~HasCrc(s, n)
  PROVE  Hollow(w)
<1> SUFFICES ASSUME w # None PROVE w.length > 1 + Len(w.data)
  BY DEF Hollow
<1>1. n = w.length /\ ~(w.length <= 1 + Len(w.data))
  BY AgreeReads
<1>2. w.length \in Nat /\ Len(w.data) \in Nat
  BY AgreeFacts, BodyFacts, DataAssumption
<1> QED BY <1>1, <1>2

LEMMA StaysInsideNow ==
  ASSUME NEW m \in Msgs, held'[m], Hollow(put'[m])
  PROVE  StaysInside'
BY DEF StaysInside, Hollow

(* Bytes and fields in accord, written to a variable. *)
LEMMA WriteInv ==
  ASSUME MessageInv, NEW m \in Msgs, NEW s, NEW w, Agree(s, w), NEW o \in {"no", "bytes"},
         held' \in [Msgs -> BOOLEAN], Write(m, s, w, o), o = "bytes" => held'[m] /\ Hollow(w)
  PROVE  MessageInv'
<1>1. string' = [q \in Msgs |-> string'[q]] /\ put' = [q \in Msgs |-> put'[q]]
  BY DEF MessageInv, Write
<1>2. string'[m] = s /\ put'[m] = w /\ outside' = o
  BY DEF MessageInv, Write
<1>3. ASSUME NEW q \in Msgs
      PROVE  Agree(string'[q], put'[q])
  <2>1. CASE q = m
    BY <1>2, <2>1
  <2>2. CASE q # m
    <3>1. string'[q] = string[q] /\ put'[q] = put[q]
      BY <2>2 DEF MessageInv, Write
    <3> QED BY <3>1, VariableFacts
  <2> QED BY <2>1, <2>2
<1>4. StaysInside'
  <2>1. CASE o = "no"
    BY <1>2, <2>1 DEF StaysInside
  <2>2. CASE o = "bytes"
    BY <1>2, <2>2, StaysInsideNow
  <2> QED BY <2>1, <2>2
<1> QED BY <1>1, <1>2, <1>3, <1>4 DEF MessageInv, Agree

(* No bytes are written. *)
LEMMA RestInv ==
  ASSUME MessageInv, held' \in [Msgs -> BOOLEAN], UNCHANGED <<string, put>>,
         outside' \in {"no", "bytes", "null"}, StaysInside'
  PROVE  MessageInv'
BY DEF MessageInv, Agree, Shape

LEMMA HeldStays ==
  ASSUME MessageInv, UNCHANGED held
  PROVE  held' \in [Msgs -> BOOLEAN]
BY DEF MessageInv

LEMMA EmptyBytes == Sequence(<<>>) /\ Len(<<>>) = 0 /\ Agree(<<>>, None)
<1>1. Sequence(<<>>) /\ Len(<<>>) = 0
  <2>1. <<>> \in Seq({})
    OBVIOUS
  <2>2. Len(<<>>) = 0
    BY EmptySeq
  <2> QED BY <2>1, <2>2 DEF Sequence
<1>2. 0 <= MaxLength + 3
  BY DataAssumption
<1> QED BY <1>1, <1>2, AgreeNone

LEMMA MessageInitInv == MessageInit => MessageInv
BY EmptyBytes DEF MessageInit, MessageInv, StaysInside

LEMMA BecomesInv ==
  ASSUME MessageInv, NEW m \in Msgs, NEW h \in BOOLEAN, NEW s, NEW w, Agree(s, w),
         Becomes(m, h, s, w)
  PROVE  MessageInv'
<1>1. held' \in [Msgs -> BOOLEAN] /\ Write(m, s, w, "no")
  BY DEF Becomes, MessageInv
<1> QED BY <1>1, WriteInv

LEMMA PutCrcInv ==
  ASSUME MessageInv, NEW m \in Msgs, held[m], UNCHANGED held, NEW s, NEW w, Agree(s, w),
         NEW n \in LengthsOf(s), NEW fresh \in BOOLEAN, NEW x,
         fresh => x = Crc(Middle(s)), PutCrc(m, s, n, x, w, fresh)
  PROVE  MessageInv'
<1>1. held' \in [Msgs -> BOOLEAN] /\ held'[m]
  BY HeldStays
<1>2. CASE HasCrc(s, n)
  <2> DEFINE r == [s EXCEPT ![3 + n] = x]
             v == IF Fitting(w) THEN [w EXCEPT !.fresh = fresh] ELSE None
  <2>1. Agree(r, v)
    BY <1>2, AgreeCrc
  <2>2. Write(m, r, v, "no")
    BY <1>2 DEF PutCrc
  <2> HIDE DEF r, v
  <2> QED BY <1>1, <2>1, <2>2, WriteInv
<1>3. CASE ~HasCrc(s, n)
  <2>1. Write(m, s, w, "bytes")
    BY <1>3 DEF PutCrc
  <2>2. Hollow(w)
    BY <1>3, HollowMessage
  <2> QED BY <1>1, <2>1, <2>2, WriteInv
<1> QED BY <1>2, <1>3

LEMMA UpdatedInv ==
  ASSUME MessageInv, NEW m \in Msgs, held[m], UNCHANGED held, NEW s, NEW w, Agree(s, w),
         Updated(m, s, w)
  PROVE  MessageInv'
<1>1. PICK n \in LengthsOf(s) : PutCrc(m, s, n, Crc(Middle(s)), w, TRUE)
  BY DEF Updated
<1> DEFINE x == Crc(Middle(s))
<1>2. x = Crc(Middle(s)) /\ PutCrc(m, s, n, x, w, TRUE)
  BY <1>1
<1> HIDE DEF x
<1> QED BY <1>2, PutCrcInv

(* The bytes s get the fields w, whose checksum is not known, and updateCrc *)
(* then or not.                                                            *)
LEMMA ChangeInv ==
  ASSUME MessageInv, NEW m \in Msgs, held[m], NEW s, NEW w, Agree(s, w),
         NEW up \in BOOLEAN, Change(m, s, w, up)
  PROVE  MessageInv'
<1>1. UNCHANGED held /\ IF up THEN Updated(m, s, w) ELSE Write(m, s, w, "no")
  BY DEF Change
<1>2. CASE up
  BY <1>1, <1>2, UpdatedInv
<1>3. CASE ~up
  <2>1. Write(m, s, w, "no") /\ held' \in [Msgs -> BOOLEAN]
    BY <1>1, <1>3, HeldStays
  <2> QED BY <2>1, WriteInv
<1> QED BY <1>2, <1>3

LEMMA UpdateCrcInv ==
  ASSUME MessageInv, NEW m \in Msgs, UpdateCrc(m)
  PROVE  MessageInv'
<1> DEFINE w == Unchecked(put[m])
<1>1. Agree(string[m], w)
  BY VariableFacts, AgreeUnchecked
<1>2. held[m] /\ Updated(m, string[m], w) /\ UNCHANGED held
  BY DEF UpdateCrc
<1> HIDE DEF w
<1> QED BY <1>1, <1>2, UpdatedInv

LEMMA SetCrcInv ==
  ASSUME MessageInv, NEW m \in Msgs, SetCrc(m)
  PROVE  MessageInv'
<1> DEFINE w == Unchecked(put[m])
<1>1. Agree(string[m], w)
  BY VariableFacts, AgreeUnchecked
<1>2. held[m] /\ UNCHANGED held
  BY DEF SetCrc
<1>3. PICK n \in LengthsOf(string[m]) : PutCrc(m, string[m], n, Zero, w, FALSE)
  BY DEF SetCrc
<1> HIDE DEF w
<1> QED BY <1>1, <1>2, <1>3, PutCrcInv

(* A word beyond the bytes of a variable: they are no message. *)
LEMMA MissesInv ==
  ASSUME MessageInv, NEW m \in Msgs, held[m], NEW i \in 1 .. 3, Misses(m, i)
  PROVE  MessageInv'
<1>1. put[m] = None
  <2> SUFFICES ASSUME put[m] # None PROVE FALSE
    OBVIOUS
  <2>1. put[m].data \in Bodies /\ Shape(string[m], put[m].token, put[m].length, put[m].data)
    BY VariableFacts, AgreeFacts
  <2>2. Len(put[m].data) \in Nat /\ Len(string[m]) = Len(put[m].data) + 4
    BY <2>1, BodyFacts DEF Shape
  <2>3. i > Len(string[m])
    BY DEF Misses
  <2> QED BY <2>2, <2>3
<1>2. outside' = "bytes" /\ UNCHANGED <<held, string, put>>
  BY DEF Misses
<1>3. StaysInside'
  BY <1>1, <1>2 DEF StaysInside
<1> QED BY <1>2, <1>3, HeldStays, RestInv

LEMMA SetTokenInv ==
  ASSUME MessageInv, NEW m \in Msgs, SetToken(m)
  PROVE  MessageInv'
<1>1. held[m]
  BY DEF SetToken
<1>2. CASE Misses(m, 3)
  BY <1>1, <1>2, MissesInv
<1>3. ASSUME 3 <= Len(string[m]), NEW t \in Tokens, NEW up \in BOOLEAN,
             Change(m, [string[m] EXCEPT ![3] = Tok(t)],
                    IF put[m] = None THEN None
                      ELSE Fields(t, put[m].length, put[m].data, FALSE), up)
      PROVE  MessageInv'
  <2> DEFINE s == string[m]
             x == Tok(t)
             r == [s EXCEPT ![3] = x]
             w == IF put[m] = None THEN None ELSE Fields(t, put[m].length, put[m].data, FALSE)
  <2>1. CASE put[m] = None
    <3>1. Sequence(s) /\ 3 \in 1 .. Len(s) /\ Len(s) <= MaxLength + 3
      BY <1>3, VariableFacts
    <3>2. Sequence(r) /\ Len(r) = Len(s)
      <4> HIDE DEF s, x
      <4>1. Sequence(r)
        BY <3>1, SequenceExcept
      <4>2. Len(r) = Len(s)
        BY <3>1, SequenceExcept
      <4> QED BY <4>1, <4>2
    <3>3. Change(m, r, None, up)
      BY <1>3, <2>1
    <3> HIDE DEF r
    <3>4. Agree(r, None)
      BY <3>1, <3>2, AgreeNone
    <3> QED BY <1>1, <3>3, <3>4, ChangeInv
  <2>2. CASE put[m] # None
    <3>1. /\ put[m].length \in 0 .. MaxLength /\ put[m].data \in Bodies
          /\ Shape(s, put[m].token, put[m].length, put[m].data)
      BY <2>2, VariableFacts, AgreeFacts
    <3>2. Shape(r, t, put[m].length, put[m].data)
      BY <3>1, ShapeHead
    <3>3. Change(m, r, w, up) /\ w = Fields(t, put[m].length, put[m].data, FALSE)
      BY <1>3, <2>2
    <3> HIDE DEF r, w
    <3>4. Agree(r, w)
      BY <3>1, <3>2, <3>3, AgreeFields
    <3> QED BY <1>1, <3>3, <3>4, ChangeInv
  <2> QED BY <2>1, <2>2
<1> QED BY <1>2, <1>3 DEF SetToken

LEMMA SetLengthInv ==
  ASSUME MessageInv, NEW m \in Msgs, SetLength(m)
  PROVE  MessageInv'
<1>1. held[m]
  BY DEF SetLength
<1>2. CASE Misses(m, 2)
  BY <1>1, <1>2, MissesInv
<1>3. ASSUME 2 <= Len(string[m]), NEW n \in 0 .. MaxLength, NEW up \in BOOLEAN,
             Change(m, [string[m] EXCEPT ![2] = Num(n)],
                    IF put[m] = None THEN None
                      ELSE Fields(put[m].token, n, put[m].data, FALSE), up)
      PROVE  MessageInv'
  <2> DEFINE s == string[m]
             x == Num(n)
             r == [s EXCEPT ![2] = x]
             w == IF put[m] = None THEN None ELSE Fields(put[m].token, n, put[m].data, FALSE)
  <2>1. CASE put[m] = None
    <3>1. Sequence(s) /\ 2 \in 1 .. Len(s) /\ Len(s) <= MaxLength + 3
      BY <1>3, VariableFacts
    <3>2. Sequence(r) /\ Len(r) = Len(s)
      <4> HIDE DEF s, x
      <4>1. Sequence(r)
        BY <3>1, SequenceExcept
      <4>2. Len(r) = Len(s)
        BY <3>1, SequenceExcept
      <4> QED BY <4>1, <4>2
    <3>3. Change(m, r, None, up)
      BY <1>3, <2>1
    <3> HIDE DEF r
    <3>4. Agree(r, None)
      BY <3>1, <3>2, AgreeNone
    <3> QED BY <1>1, <3>3, <3>4, ChangeInv
  <2>2. CASE put[m] # None
    <3>1. /\ put[m].token \in Tokens /\ put[m].data \in Bodies
          /\ Shape(s, put[m].token, put[m].length, put[m].data)
      BY <2>2, VariableFacts, AgreeFacts
    <3>2. Shape(r, put[m].token, n, put[m].data)
      BY <3>1, ShapeHead
    <3>3. Change(m, r, w, up) /\ w = Fields(put[m].token, n, put[m].data, FALSE)
      BY <1>3, <2>2
    <3> HIDE DEF r, w
    <3>4. Agree(r, w)
      BY <3>1, <3>2, <3>3, AgreeFields
    <3> QED BY <1>1, <3>3, <3>4, ChangeInv
  <2> QED BY <2>1, <2>2
<1> QED BY <1>2, <1>3 DEF SetLength

LEMMA SetDataInv ==
  ASSUME MessageInv, NEW m \in Msgs, SetData(m)
  PROVE  MessageInv'
<1> DEFINE s == string[m]
<1>1. PICK body \in Bodies, up \in BOOLEAN :
    \/ /\ held[m]
       /\ Change(m, WithData(s, body),
                 IF put[m] = None THEN None
                   ELSE Fields(put[m].token, 1 + Len(body), body, FALSE), up)
    \/ /\ ~held[m]
       /\ Becomes(m, FALSE, Filled(Resized(s), body), None)
  BY DEF SetData
<1>2. Len(body) \in Nat /\ 1 + Len(body) \in 0 .. MaxLength /\ 4 + Len(body) <= MaxLength + 3
  BY BodyFacts, DataAssumption
<1>3. CASE /\ held[m]
           /\ Change(m, WithData(s, body),
                     IF put[m] = None THEN None
                       ELSE Fields(put[m].token, 1 + Len(body), body, FALSE), up)
  <2> DEFINE r == WithData(s, body)
             n == 1 + Len(body)
             w == IF put[m] = None THEN None ELSE Fields(put[m].token, n, body, FALSE)
  <2>1. CASE put[m] = None
    <3>1. Sequence(r) /\ Len(r) = 4 + Len(body)
      BY WithDataFacts
    <3>2. Change(m, r, None, up)
      BY <1>3, <2>1
    <3> HIDE DEF r
    <3>3. Agree(r, None)
      BY <1>2, <3>1, AgreeNone
    <3> QED BY <1>3, <3>2, <3>3, ChangeInv
  <2>2. CASE put[m] # None
    <3>1. /\ put[m].token \in Tokens /\ put[m].data \in Bodies
          /\ Shape(s, put[m].token, put[m].length, put[m].data)
      BY <2>2, VariableFacts, AgreeFacts
    <3>2. Shape(r, put[m].token, n, body)
      BY <3>1, ShapeData
    <3>3. Change(m, r, w, up) /\ w = Fields(put[m].token, n, body, FALSE)
      BY <1>3, <2>2
    <3> HIDE DEF r, w
    <3>4. Agree(r, w)
      BY <1>2, <3>1, <3>2, <3>3, AgreeFields
    <3> QED BY <1>3, <3>3, <3>4, ChangeInv
  <2> QED BY <2>1, <2>2
<1>4. CASE /\ ~held[m]
           /\ Becomes(m, FALSE, Filled(Resized(s), body), None)
  <2> DEFINE h == Resized(s)
             r == Filled(h, body)
  <2>1. Sequence(h) /\ Len(h) = 3
    BY ResizedFacts
  <2>2. Sequence(r) /\ Len(r) = 4 + Len(body)
    <3>1. Sequence(r) /\ Len(r) = Len(h) + Len(body) + 1
      <4> HIDE DEF h
      <4> QED BY <2>1, Joined DEF Filled
    <3> HIDE DEF r, h
    <3> QED BY <1>2, <2>1, <3>1
  <2> HIDE DEF r
  <2>3. Agree(r, None)
    BY <1>2, <2>2, AgreeNone
  <2>4. Becomes(m, FALSE, r, None)
    BY <1>4 DEF r
  <2> QED BY <2>3, <2>4, BecomesInv
<1> QED BY <1>1, <1>3, <1>4

LEMMA ConstructInv ==
  ASSUME MessageInv, NEW m \in Msgs, Construct(m)
  PROVE  MessageInv'
<1>1. PICK t \in Tokens, body \in Bodies, crc \in BOOLEAN :
        Becomes(m, TRUE, Frame(t, body, crc), Fields(t, 1 + Len(body), body, crc))
  BY DEF Construct
<1> DEFINE s == Frame(t, body, crc)
           n == 1 + Len(body)
           w == Fields(t, n, body, crc)
<1>2. n \in 0 .. MaxLength
  BY BodyFacts, DataAssumption
<1>3. Shape(s, t, n, body) /\ (crc => Checked(s, n, body))
  BY FrameShape
<1>4. Becomes(m, TRUE, s, w)
  BY <1>1
<1>5. Agree(s, w)
  <2> HIDE DEF s, n
  <2> QED BY <1>2, <1>3, AgreeFields
<1> HIDE DEF s, w
<1> QED BY <1>4, <1>5, BecomesInv

LEMMA ConstructRawInv ==
  ASSUME MessageInv, NEW m \in Msgs, NEW p \in Msgs, ConstructRaw(m, p)
  PROVE  MessageInv'
<1>1. Becomes(m, TRUE, string[p], put[p]) /\ Agree(string[p], put[p])
  BY VariableFacts DEF ConstructRaw
<1> QED BY <1>1, BecomesInv

-----------------------------------------------------------------------------
(* What load finds in a part of a variable's bytes, or in more.            *)
Received(s) == {SubSeq(s, 1, k) : k \in 2 .. Len(s)} \cup {Append(s, Zero)}

LEMMA ReceivedFacts ==
  ASSUME NEW s, Sequence(s), NEW r \in Received(s)
  PROVE  /\ Sequence(r) /\ Len(r) \in Nat
         /\ \A i \in 1 .. Len(s) : i <= Len(r) => r[i] = s[i]
<1>1. Len(s) \in Nat
  BY SequenceLen
<1>2. CASE r = Append(s, Zero)
  BY <1>1, <1>2, SequenceAppend
<1>3. ASSUME NEW n \in 2 .. Len(s), r = SubSeq(s, 1, n)
      PROVE  /\ Sequence(r) /\ Len(r) = n /\ \A i \in 1 .. n : r[i] = s[i]
  BY <1>1, <1>3, SequencePart
<1> QED BY <1>1, <1>2, <1>3 DEF Received

(* A message whose length is the one of its data loads as itself. *)
LEMMA LoadsWhole ==
  ASSUME NEW s, NEW t, NEW body \in Bodies, Shape(s, t, 1 + Len(body), body),
         NEW r \in Received(s), Len(r) >= 2, NEW n \in LengthsOf(r), Loads(r, n)
  PROVE  MessageIn(r, n) = s
<1>1. /\ Len(body) \in Nat /\ Sequence(s) /\ Len(s) = Len(body) + 4
      /\ s[2] = Num(1 + Len(body))
  BY BodyFacts DEF Shape
<1>2. /\ Sequence(r) /\ Len(r) \in Nat
      /\ \A i \in 1 .. Len(s) : i <= Len(r) => r[i] = s[i]
  BY <1>1, ReceivedFacts
<1>3. n = 1 + Len(body)
  <2>1. r[2] = Num(1 + Len(body))
    BY <1>1, <1>2
  <2>2. r[2][1] = "num"
    BY <2>1 DEF Num
  <2>3. r[2] = Num(n)
    BY <2>2 DEF LengthsOf
  <2> QED BY <2>1, <2>3 DEF Num
<1>4. Len(r) >= Len(s) /\ 3 + n = Len(s)
  BY <1>1, <1>3 DEF Loads
<1> DEFINE w == SubSeq(r, 1, Len(s))
<1>5. Sequence(w) /\ Len(w) = Len(s) /\ \A i \in 1 .. Len(s) : w[i] = r[i]
  BY <1>1, <1>2, <1>4, SequencePart
<1> HIDE DEF w
<1>6. w = s
  BY <1>1, <1>2, <1>4, <1>5, SequenceEqual
<1> QED BY <1>4, <1>6 DEF w, MessageIn

LEMMA LoadFromInv ==
  ASSUME MessageInv, NEW m \in Msgs, NEW p \in Msgs, LoadFrom(m, p)
  PROVE  MessageInv'
<1> DEFINE s == string[p]
           w == IF Fitting(put[p]) THEN put[p] ELSE None
<1>1. PICK r \in Received(s) :
        /\ Len(r) >= 2
        /\ \E n \in LengthsOf(r) :
             \/ Loads(r, n) /\ Becomes(m, TRUE, MessageIn(r, n), w)
             \/ ~Loads(r, n) /\ Becomes(m, FALSE, <<>>, None)
  BY DEF LoadFrom, Received
<1>2. PICK n \in LengthsOf(r) :
        \/ Loads(r, n) /\ Becomes(m, TRUE, MessageIn(r, n), w)
        \/ ~Loads(r, n) /\ Becomes(m, FALSE, <<>>, None)
  BY <1>1
<1>3. Agree(s, put[p]) /\ Sequence(s)
  BY VariableFacts
<1>4. CASE Loads(r, n) /\ Becomes(m, TRUE, MessageIn(r, n), w)
  <2>1. Agree(MessageIn(r, n), w)
    <3>1. CASE Fitting(put[p])
      <4> DEFINE t == put[p].token
                 body == put[p].data
      <4>1. put[p] # None /\ put[p].length = 1 + Len(body)
        BY <3>1 DEF Fitting
      <4>2. body \in Bodies /\ Shape(s, t, 1 + Len(body), body)
        BY <1>3, <4>1, AgreeFacts
      <4> HIDE DEF t, body, s
      <4>3. MessageIn(r, n) = s
        BY <1>1, <1>4, <4>2, LoadsWhole
      <4> QED BY <1>3, <3>1, <4>3
    <3>2. CASE ~Fitting(put[p])
      <4>1. Sequence(r) /\ Len(r) \in Nat /\ n \in Nat /\ n <= MaxLength /\ 3 + n <= Len(r)
        <5>1. Sequence(r) /\ Len(r) \in Nat
          BY <1>3, ReceivedFacts
        <5>2. n \in Nat /\ n <= MaxLength
          BY DataAssumption DEF LengthsOf
        <5> QED BY <1>4, <5>1, <5>2 DEF Loads
      <4> DEFINE b == 3 + n
      <4>2. b \in Nat /\ 1 <= b /\ b <= Len(r) /\ b <= MaxLength + 3
        BY <4>1, DataAssumption
      <4>3. Sequence(SubSeq(r, 1, b)) /\ Len(SubSeq(r, 1, b)) = b
        <5> HIDE DEF b
        <5>1. Len(SubSeq(r, 1, b)) = IF 1 <= b THEN b - 1 + 1 ELSE 0
          BY <4>1, <4>2, SequencePart
        <5>2. Sequence(SubSeq(r, 1, b))
          BY <4>1, <4>2, SequencePart
        <5> QED BY <4>2, <5>1, <5>2
      <4>4. MessageIn(r, n) = SubSeq(r, 1, b)
        BY DEF MessageIn
      <4>5. Agree(MessageIn(r, n), None)
        <5> HIDE DEF b
        <5> QED BY <4>2, <4>3, <4>4, AgreeNone
      <4> QED BY <3>2, <4>5
    <3> QED BY <3>1, <3>2
  <2> HIDE DEF w
  <2> QED BY <1>4, <2>1, BecomesInv
<1>5. CASE ~Loads(r, n) /\ Becomes(m, FALSE, <<>>, None)
  BY <1>5, EmptyBytes, BecomesInv
<1> QED BY <1>2, <1>4, <1>5

-----------------------------------------------------------------------------
LEMMA CopyInv ==
  ASSUME MessageInv, NEW m \in Msgs, NEW p \in Msgs, Copy(m, p)
  PROVE  MessageInv'
<1>1. CASE ~held[p] /\ outside' = "null" /\ UNCHANGED <<held, string, put>>
  <2>1. StaysInside'
    BY <1>1 DEF StaysInside
  <2> QED BY <1>1, <2>1, HeldStays, RestInv
<1>2. ASSUME held[p], NEW n \in LengthsOf(string[p]), HasCrc(string[p], n),
             Becomes(m, TRUE, SubSeq(string[p], 4, 3 + n), None)
      PROVE  MessageInv'
  <2> DEFINE b == 3 + n
             s == string[p]
             r == SubSeq(s, 4, b)
  <2>1. Sequence(s) /\ Len(s) \in Nat /\ Len(s) <= MaxLength + 3
    BY VariableFacts
  <2>2. b \in Nat /\ b <= Len(s)
    BY <1>2, <2>1, DataAssumption DEF HasCrc, LengthsOf
  <2>3. Sequence(r) /\ Len(r) = IF 4 <= b THEN b - 4 + 1 ELSE 0
    <3> HIDE DEF b, s
    <3>1. Sequence(r)
      BY <2>1, <2>2, SequencePart
    <3>2. Len(r) = IF 4 <= b THEN b - 4 + 1 ELSE 0
      BY <2>1, <2>2, SequencePart
    <3> QED BY <3>1, <3>2
  <2>4. Becomes(m, TRUE, r, None)
    BY <1>2
  <2>5. MaxLength \in Nat
    BY DataAssumption
  <2> HIDE DEF r, b, s
  <2>6. Agree(r, None)
    BY <2>1, <2>2, <2>3, <2>5, AgreeNone
  <2> QED BY <2>4, <2>6, BecomesInv
<1>3. ASSUME held[p], NEW n \in LengthsOf(string[p]), ~HasCrc(string[p], n),
             outside' = "bytes", UNCHANGED <<held, string, put>>
      PROVE  MessageInv'
  <2>1. Hollow(put[p])
    BY <1>3, VariableFacts, HollowMessage
  <2>2. held'[p] /\ Hollow(put'[p])
    BY <1>3, <2>1
  <2>3. StaysInside'
    BY <2>2, StaysInsideNow
  <2> QED BY <1>3, <2>3, HeldStays, RestInv
<1> QED BY <1>1, <1>2, <1>3 DEF Copy

LEMMA AssignInv ==
  ASSUME MessageInv, outside = "no", NEW m \in Msgs, NEW p \in Msgs, Assign(m, p) \/ MoveAssign(m, p)
  PROVE  MessageInv'
<1>1. held' \in [Msgs -> BOOLEAN]
  BY DEF MessageInv, Assign, MoveAssign
<1>2. UNCHANGED <<string, put, outside>>
  BY DEF Assign, MoveAssign
<1>3. StaysInside'
  BY <1>2 DEF StaysInside
<1> QED BY <1>1, <1>2, <1>3, RestInv

LEMMA MoveInv ==
  ASSUME MessageInv, NEW m \in Msgs, NEW p \in Msgs, Move(m, p)
  PROVE  MessageInv'
<1>1. held' \in [Msgs -> BOOLEAN] /\ Write(m, <<>>, None, "no")
  BY DEF MessageInv, Move
<1> QED BY <1>1, EmptyBytes, WriteInv

LEMMA ReadInv ==
  ASSUME MessageInv, NEW m \in Msgs, Read(m)
  PROVE  MessageInv'
<1>1. held[m] /\ UNCHANGED <<held, string, put>>
  BY DEF Read
<1>2. PICK n \in LengthsOf(string[m]) :
        outside' = IF HasCrc(string[m], n) THEN "no" ELSE "bytes"
  BY DEF Read
<1>3. StaysInside'
  <2>1. CASE HasCrc(string[m], n)
    BY <1>2, <2>1 DEF StaysInside
  <2>2. CASE ~HasCrc(string[m], n)
    <3>1. Hollow(put[m])
      BY <2>2, VariableFacts, HollowMessage
    <3>2. held'[m] /\ Hollow(put'[m])
      BY <1>1, <3>1
    <3> QED BY <3>2, StaysInsideNow
  <2> QED BY <2>1, <2>2
<1>4. outside' \in {"no", "bytes", "null"}
  BY <1>2
<1> QED BY <1>1, <1>3, <1>4, HeldStays, RestInv

LEMMA MessageStep == MessageInv /\ [MessageNext]_messageVars => MessageInv'
<1> SUFFICES ASSUME MessageInv, [MessageNext]_messageVars PROVE MessageInv'
  OBVIOUS
<1>1. CASE UNCHANGED messageVars
  BY <1>1 DEF messageVars, MessageInv, Agree, StaysInside
<1>2. CASE MessageNext
  <2>1. PICK m \in Msgs :
          \/ Construct(m) \/ Read(m)
          \/ SetToken(m) \/ SetLength(m) \/ SetData(m) \/ SetCrc(m) \/ UpdateCrc(m)
          \/ \E p \in Msgs \ {m} : \/ ConstructRaw(m, p) \/ LoadFrom(m, p)
                                   \/ Copy(m, p) \/ Assign(m, p)
                                   \/ Move(m, p) \/ MoveAssign(m, p)
    BY <1>2 DEF MessageNext
  <2>2. outside = "no"
    BY <1>2 DEF MessageNext
  <2>3. CASE Construct(m)
    BY <2>3, ConstructInv
  <2>4. CASE Read(m)
    BY <2>4, ReadInv
  <2>5. CASE SetToken(m)
    BY <2>5, SetTokenInv
  <2>6. CASE SetLength(m)
    BY <2>6, SetLengthInv
  <2>7. CASE SetData(m)
    BY <2>7, SetDataInv
  <2>8. CASE SetCrc(m)
    BY <2>8, SetCrcInv
  <2>9. CASE UpdateCrc(m)
    BY <2>9, UpdateCrcInv
  <2>10. ASSUME NEW p \in Msgs \ {m}, ConstructRaw(m, p)
         PROVE  MessageInv'
    BY <2>10, ConstructRawInv
  <2>11. ASSUME NEW p \in Msgs \ {m}, LoadFrom(m, p)
         PROVE  MessageInv'
    BY <2>11, LoadFromInv
  <2>12. ASSUME NEW p \in Msgs \ {m}, Copy(m, p)
         PROVE  MessageInv'
    BY <2>12, CopyInv
  <2>13. ASSUME NEW p \in Msgs \ {m}, Assign(m, p) \/ MoveAssign(m, p)
         PROVE  MessageInv'
    BY <2>2, <2>13, AssignInv
  <2>14. ASSUME NEW p \in Msgs \ {m}, Move(m, p)
         PROVE  MessageInv'
    BY <2>14, MoveInv
  <2> QED BY <2>1, <2>3, <2>4, <2>5, <2>6, <2>7, <2>8, <2>9, <2>10, <2>11, <2>12, <2>13, <2>14
<1> QED BY <1>1, <1>2

LEMMA MessageInvariance == MessageSpec => []MessageInv
BY MessageInitInv, MessageStep, PTL DEF MessageSpec

-----------------------------------------------------------------------------
(* What it promises.                                                       *)

(* Each variable is empty or not, its bytes are at most as many as the     *)
(* greatest length allows, and what was put into them is a message.        *)
THEOREM MessageTypeCorrect == MessageSpec => []MessageTypeOK
<1>1. MessageInv => MessageTypeOK
  <2> SUFFICES ASSUME MessageInv PROVE MessageTypeOK
    OBVIOUS
  <2>1. \A m \in Msgs : Len(string[m]) <= MaxLength + 3 /\ put[m] \in Messages \cup {None}
    BY VariableFacts
  <2>2. DOMAIN string = Msgs /\ put \in [Msgs -> Messages \cup {None}]
    BY <2>1 DEF MessageInv
  <2> QED BY <2>1, <2>2 DEF MessageInv, MessageTypeOK
<1> QED BY <1>1, MessageInvariance, PTL

(* Whatever is done with variables of VCameraMessage, the bytes a message  *)
(* was put into keep the fields that were put last until they are written  *)
(* over; and when the length among them is the one of the data, they load  *)
(* as themselves, and pass checkCrc once the checksum was updated.         *)
THEOREM MessagesReadBack == MessageSpec => []ReadsBack
<1>1. MessageInv => ReadsBack
  <2> SUFFICES ASSUME MessageInv, NEW m \in Msgs, put[m] # None
               PROVE  /\ string[m][1] = Lead
                      /\ LengthsOf(string[m]) = {put[m].length}
                      /\ string[m][3] = Tok(put[m].token)
                      /\ SubSeq(string[m], 4, Len(string[m]) - 1) = Data(put[m].data)
                      /\ Fitting(put[m]) =>
                           /\ Loads(string[m], put[m].length)
                           /\ MessageIn(string[m], put[m].length) = string[m]
                           /\ put[m].fresh => CheckCrc(string[m], put[m].length)
    BY DEF ReadsBack
  <2>1. Agree(string[m], put[m])
    BY VariableFacts
  <2> QED BY <2>1, AgreeReads
<1> QED BY <1>1, MessageInvariance, PTL

(* token(), data(), checkCrc(), copies and setters keep to the bytes of a  *)
(* message unless some variable that is not empty has bytes no message was *)
(* put into, or a length that counts more than there is.                   *)
THEOREM MessagesStayInside == MessageSpec => []StaysInside
<1>1. MessageInv => StaysInside
  BY DEF MessageInv
<1> QED BY <1>1, MessageInvariance, PTL
=============================================================================

-------------------------- MODULE LoadControl_proofs --------------------------
(***************************************************************************)
(* Lemmas about LoadControl that the proofs about the two sending sides    *)
(* share, for any choice of clicks: its types, and what the flags will be  *)
(* once the handler that runs has performed its assignments.               *)
(***************************************************************************)
EXTENDS LoadControl, TLAPS

(* A handler's list of assignments is a sequence of pairs. *)
LEMMA TwoWrites ==
  ASSUME NEW S, NEW p \in S, NEW q \in S
  PROVE  <<p, q>> \in Seq(S)
OBVIOUS

LEMMA ThreeWrites ==
  ASSUME NEW S, NEW p \in S, NEW q \in S, NEW r \in S
  PROVE  <<p, q, r>> \in Seq(S)
OBVIOUS

LEMMA AWrite ==
  ASSUME NEW f \in Flags, NEW v \in BOOLEAN
  PROVE  <<f, v>> \in Flags \X BOOLEAN
OBVIOUS

(* Every click and every assignment of a handler keeps the dialog typed.   *)
LEMMA LoadNextType ==
  ASSUME LoadTypeOK, LoadNext
  PROVE  LoadTypeOK'
<1>1. CASE WriteFlag
  <2>1. writes # <<>>
    BY <1>1 DEF WriteFlag, UIReady
  <2>2. /\ Head(writes) \in Flags \X BOOLEAN
        /\ Tail(writes) \in Seq(Flags \X BOOLEAN)
    BY <2>1 DEF LoadTypeOK
  <2>3. Head(writes)[2] \in BOOLEAN
    BY <2>2
  <2> QED BY <1>1, <2>2, <2>3 DEF WriteFlag, LoadTypeOK
<1>a. /\ "batch" \in Flags /\ "single" \in Flags /\ "last" \in Flags
      /\ TRUE \in BOOLEAN /\ FALSE \in BOOLEAN
  BY DEF Flags
<1>2. CASE OnBnClickedCheckBatchLoad
  <2>1. batchChecked' \in BOOLEAN /\ (~batchChecked') \in BOOLEAN
    BY <1>2 DEF OnBnClickedCheckBatchLoad
  <2>2. writes' \in Seq(Flags \X BOOLEAN)
    <3>1. /\ <<"batch", batchChecked'>> \in Flags \X BOOLEAN
          /\ <<"single", ~batchChecked'>> \in Flags \X BOOLEAN
          /\ <<"last", FALSE>> \in Flags \X BOOLEAN
      BY <1>a, <2>1, AWrite
    <3> QED BY <1>2, <3>1, ThreeWrites DEF OnBnClickedCheckBatchLoad
  <2> QED BY <1>2, <2>1, <2>2 DEF OnBnClickedCheckBatchLoad, LoadTypeOK, Buttons
<1>3. CASE OnBnClickedCheckSingleLoad
  <2>1. batchChecked' \in BOOLEAN /\ (~batchChecked') \in BOOLEAN
    BY <1>3 DEF OnBnClickedCheckSingleLoad
  <2>2. writes' \in Seq(Flags \X BOOLEAN)
    <3>1. /\ <<"batch", batchChecked'>> \in Flags \X BOOLEAN
          /\ <<"single", ~batchChecked'>> \in Flags \X BOOLEAN
          /\ <<"last", FALSE>> \in Flags \X BOOLEAN
      BY <1>a, <2>1, AWrite
    <3> QED BY <1>3, <3>1, ThreeWrites DEF OnBnClickedCheckSingleLoad
  <2> QED BY <1>3, <2>1, <2>2 DEF OnBnClickedCheckSingleLoad, LoadTypeOK, Buttons
<1>4. CASE OnBnClickedImageSendingStart
  <2>1. writes' \in Seq(Flags \X BOOLEAN)
    <3>1. /\ <<"batch", TRUE>> \in Flags \X BOOLEAN
          /\ <<"single", FALSE>> \in Flags \X BOOLEAN
      BY <1>a, AWrite
    <3> QED BY <1>4, <3>1, TwoWrites DEF OnBnClickedImageSendingStart
  <2> QED BY <1>4, <2>1 DEF OnBnClickedImageSendingStart, LoadTypeOK
<1>5. CASE OnBnClickedImageNext
  <2>1. writes' \in Seq(Flags \X BOOLEAN)
    <3>1. /\ <<"single", TRUE>> \in Flags \X BOOLEAN
          /\ <<"last", FALSE>> \in Flags \X BOOLEAN
          /\ <<"batch", FALSE>> \in Flags \X BOOLEAN
      BY <1>a, AWrite
    <3> QED BY <1>5, <3>1, ThreeWrites DEF OnBnClickedImageNext
  <2> QED BY <1>5, <2>1 DEF OnBnClickedImageNext, LoadTypeOK
<1>6. CASE OnBnClickedImagePrevious
  <2>1. writes' \in Seq(Flags \X BOOLEAN)
    <3>1. /\ <<"single", FALSE>> \in Flags \X BOOLEAN
          /\ <<"last", TRUE>> \in Flags \X BOOLEAN
          /\ <<"batch", FALSE>> \in Flags \X BOOLEAN
      BY <1>a, AWrite
    <3> QED BY <1>6, <3>1, ThreeWrites DEF OnBnClickedImagePrevious
  <2> QED BY <1>6, <2>1 DEF OnBnClickedImagePrevious, LoadTypeOK
<1>7. CASE OnBnClickedCheckModeSelect
  BY <1>7 DEF OnBnClickedCheckModeSelect, ShowModeControls, LoadTypeOK
<1>8. CASE OnBnClickedCheckClientSend
  BY <1>8 DEF OnBnClickedCheckClientSend, ShowModeControls, LoadTypeOK
<1> QED BY <1>1, <1>2, <1>3, <1>4, <1>5, <1>6, <1>7, <1>8 DEF LoadNext

-----------------------------------------------------------------------------
(* The flags once the assignments a handler still has to perform are made. *)
Pends(f) == \E i \in 1 .. Len(writes) : writes[i][1] = f
WillBe(f, v) ==
  IF Pends(f) THEN \E i \in 1 .. Len(writes) : writes[i] = <<f, v>> ELSE load[f] = v

(* A handler assigns a flag once, and what it assigns agrees with the box. *)
FlagsInv ==
  /\ \A i, j \in 1 .. Len(writes) : writes[i][1] = writes[j][1] => i = j
  /\ WillBe("batch", batchChecked)
  /\ WillBe("single", TRUE) => ~batchChecked /\ WillBe("last", FALSE)

(* Performing the next assignment does not change what the flags will be.  *)
LEMMA WriteKeeps ==
  ASSUME LoadTypeOK, FlagsInv, WriteFlag, NEW f \in Flags, NEW v \in BOOLEAN
  PROVE  WillBe(f, v)' <=> WillBe(f, v)
<1>1. /\ writes \in Seq(Flags \X BOOLEAN) /\ writes # <<>> /\ load \in [Flags -> BOOLEAN]
      /\ writes' = Tail(writes)
      /\ load' = [load EXCEPT ![Head(writes)[1]] = Head(writes)[2]]
  BY DEF LoadTypeOK, WriteFlag, UIReady
<1>2. /\ Len(writes) \in Nat /\ Len(writes) >= 1 /\ Len(writes') = Len(writes) - 1
      /\ \A i \in 1 .. Len(writes') : writes'[i] = writes[i + 1]
      /\ Head(writes) = writes[1]
      /\ \A i \in 1 .. Len(writes) : writes[i] \in Flags \X BOOLEAN
  BY <1>1
<1>3. /\ writes[1][1] \in Flags /\ writes[1][2] \in BOOLEAN
      /\ writes[1] = <<writes[1][1], writes[1][2]>>
  BY <1>2
<1>4. /\ 1 \in 1 .. Len(writes)
      /\ \A i \in 1 .. Len(writes) : i = 1 \/ (i - 1 \in 1 .. Len(writes') /\ (i - 1) + 1 = i)
      /\ \A i \in 1 .. Len(writes') : i + 1 \in 1 .. Len(writes) /\ i + 1 # 1
  BY <1>2
<1>5. CASE writes[1][1] = f
  <2>1. ~Pends(f)'
    BY <1>2, <1>4, <1>5 DEF FlagsInv, Pends
  <2>2. Pends(f)
    BY <1>4, <1>5 DEF Pends
  <2>3. load'[f] = writes[1][2]
    BY <1>1, <1>2, <1>5
  <2>4. (\E i \in 1 .. Len(writes) : writes[i] = <<f, v>>) <=> writes[1][2] = v
    <3>1. ASSUME NEW i \in 1 .. Len(writes), writes[i] = <<f, v>>
          PROVE  writes[1][2] = v
      <4>1. i = 1
        BY <1>4, <1>5, <3>1 DEF FlagsInv
      <4> QED BY <3>1, <4>1
    <3> QED BY <1>3, <1>4, <1>5, <3>1
  <2> QED BY <2>1, <2>2, <2>3, <2>4 DEF WillBe
<1>6. CASE writes[1][1] # f
  <2>1. Pends(f)' <=> Pends(f)
    <3>1. ASSUME NEW i \in 1 .. Len(writes), writes[i][1] = f
          PROVE  \E k \in 1 .. Len(writes') : writes'[k][1] = f
      BY <1>2, <1>4, <1>6, <3>1
    <3>2. ASSUME NEW i \in 1 .. Len(writes'), writes'[i][1] = f
          PROVE  \E k \in 1 .. Len(writes) : writes[k][1] = f
      BY <1>2, <1>4, <3>2
    <3> QED BY <3>1, <3>2 DEF Pends
  <2>2. (\E i \in 1 .. Len(writes') : writes'[i] = <<f, v>>)
          <=> (\E i \in 1 .. Len(writes) : writes[i] = <<f, v>>)
    <3>1. ASSUME NEW i \in 1 .. Len(writes), writes[i] = <<f, v>>
          PROVE  \E k \in 1 .. Len(writes') : writes'[k] = <<f, v>>
      <4>1. writes[i][1] = f
        BY <3>1
      <4>2. i # 1
        BY <1>6, <4>1
      <4>3. i - 1 \in 1 .. Len(writes') /\ writes'[i - 1] = <<f, v>>
        BY <1>2, <1>4, <3>1, <4>2
      <4> QED BY <4>3
    <3>2. ASSUME NEW i \in 1 .. Len(writes'), writes'[i] = <<f, v>>
          PROVE  \E k \in 1 .. Len(writes) : writes[k] = <<f, v>>
      BY <1>2, <1>4, <3>2
    <3> QED BY <3>1, <3>2
  <2>3. load'[f] = load[f]
    BY <1>1, <1>2, <1>3, <1>6
  <2> QED BY <2>1, <2>2, <2>3 DEF WillBe
<1> QED BY <1>5, <1>6

LEMMA WriteFlagFlags ==
  ASSUME LoadTypeOK, FlagsInv, WriteFlag
  PROVE  FlagsInv'
<1>1. batchChecked' = batchChecked /\ batchChecked \in BOOLEAN
  BY DEF WriteFlag, LoadTypeOK
<1>2. WillBe("batch", batchChecked)'
  <2>1. WillBe("batch", TRUE)' <=> WillBe("batch", TRUE)
    BY WriteKeeps DEF Flags
  <2>2. WillBe("batch", FALSE)' <=> WillBe("batch", FALSE)
    BY WriteKeeps DEF Flags
  <2> QED BY <1>1, <2>1, <2>2 DEF FlagsInv
<1>3. WillBe("single", TRUE)' => ~batchChecked' /\ WillBe("last", FALSE)'
  BY <1>1, WriteKeeps DEF FlagsInv, Flags
<1>4. \A i, j \in 1 .. Len(writes') : writes'[i][1] = writes'[j][1] => i = j
  <2>1. /\ Len(writes) \in Nat /\ Len(writes') = Len(writes) - 1
        /\ \A i \in 1 .. Len(writes') : writes'[i] = writes[i + 1]
    BY DEF LoadTypeOK, WriteFlag, UIReady
  <2> QED BY <2>1 DEF FlagsInv
<1> QED BY <1>2, <1>3, <1>4 DEF FlagsInv

(* What a handler that starts assigns is a list of at most three.          *)
LEMMA ThreeFlags ==
  ASSUME NEW f1, NEW v1, NEW f2, NEW v2, NEW f3, NEW v3,
         f1 # f2, f1 # f3, f2 # f3,
         writes' = << <<f1, v1>>, <<f2, v2>>, <<f3, v3>> >>
  PROVE  /\ \A i, j \in 1 .. Len(writes') : writes'[i][1] = writes'[j][1] => i = j
         /\ \A v : WillBe(f1, v)' <=> v = v1
         /\ \A v : WillBe(f2, v)' <=> v = v2
         /\ \A v : WillBe(f3, v)' <=> v = v3
<1>1. /\ 1 .. Len(writes') = {1, 2, 3}
      /\ writes'[1] = <<f1, v1>> /\ writes'[2] = <<f2, v2>> /\ writes'[3] = <<f3, v3>>
  OBVIOUS
<1> QED BY <1>1 DEF WillBe, Pends

LEMMA TwoFlags ==
  ASSUME NEW f1, NEW v1, NEW f2, NEW v2, f1 # f2,
         writes' = << <<f1, v1>>, <<f2, v2>> >>
  PROVE  /\ \A i, j \in 1 .. Len(writes') : writes'[i][1] = writes'[j][1] => i = j
         /\ \A v : WillBe(f1, v)' <=> v = v1
         /\ \A v : WillBe(f2, v)' <=> v = v2
<1>1. /\ 1 .. Len(writes') = {1, 2}
      /\ writes'[1] = <<f1, v1>> /\ writes'[2] = <<f2, v2>>
  OBVIOUS
<1> QED BY <1>1 DEF WillBe, Pends

(* Every click and every assignment keeps the flags in step with the box.  *)
LEMMA LoadNextFlags ==
  ASSUME LoadTypeOK, FlagsInv, LoadNext
  PROVE  FlagsInv'
<1>1. CASE WriteFlag
  BY <1>1, WriteFlagFlags
<1>2. CASE OnBnClickedCheckBatchLoad \/ OnBnClickedCheckSingleLoad
  <2>1. writes' = << <<"batch", batchChecked'>>, <<"single", ~batchChecked'>>, <<"last", FALSE>> >>
    BY <1>2 DEF OnBnClickedCheckBatchLoad, OnBnClickedCheckSingleLoad
  <2>2. batchChecked' \in BOOLEAN
    BY <1>2 DEF OnBnClickedCheckBatchLoad, OnBnClickedCheckSingleLoad
  <2>3. CASE batchChecked'
    <3>1. writes' = << <<"batch", TRUE>>, <<"single", FALSE>>, <<"last", FALSE>> >>
      BY <2>1, <2>2, <2>3
    <3>2. batchChecked' = TRUE
      BY <2>2, <2>3
    <3>3. /\ \A i, j \in 1 .. Len(writes') : writes'[i][1] = writes'[j][1] => i = j
          /\ WillBe("batch", TRUE)' /\ ~WillBe("single", TRUE)'
      BY <3>1, ThreeFlags
    <3> QED BY <3>2, <3>3 DEF FlagsInv
  <2>4. CASE ~batchChecked'
    <3>1. writes' = << <<"batch", FALSE>>, <<"single", TRUE>>, <<"last", FALSE>> >>
      BY <2>1, <2>2, <2>4
    <3>2. batchChecked' = FALSE
      BY <2>2, <2>4
    <3> QED BY <3>1, <3>2, ThreeFlags DEF FlagsInv
  <2> QED BY <2>3, <2>4
<1>3. CASE OnBnClickedImageSendingStart
  <2>1. writes' = << <<"batch", TRUE>>, <<"single", FALSE>> >> /\ batchChecked' = TRUE
    BY <1>3 DEF OnBnClickedImageSendingStart
  <2> QED BY <2>1, TwoFlags DEF FlagsInv
<1>4. CASE OnBnClickedImageNext
  <2>1. /\ writes' = << <<"single", TRUE>>, <<"last", FALSE>>, <<"batch", FALSE>> >>
        /\ batchChecked' = FALSE
    BY <1>4 DEF OnBnClickedImageNext
  <2> QED BY <2>1, ThreeFlags DEF FlagsInv
<1>5. CASE OnBnClickedImagePrevious
  <2>1. /\ writes' = << <<"single", FALSE>>, <<"last", TRUE>>, <<"batch", FALSE>> >>
        /\ batchChecked' = FALSE
    BY <1>5 DEF OnBnClickedImagePrevious
  <2> QED BY <2>1, ThreeFlags DEF FlagsInv
<1>6. CASE OnBnClickedCheckModeSelect \/ OnBnClickedCheckClientSend
  <2>1. load' = load /\ writes' = writes /\ batchChecked' = batchChecked
    BY <1>6 DEF OnBnClickedCheckModeSelect, OnBnClickedCheckClientSend
  <2>2. \A f, v : WillBe(f, v)' <=> WillBe(f, v)
    BY <2>1 DEF WillBe, Pends
  <2> QED BY <2>1, <2>2 DEF FlagsInv
<1> QED BY <1>1, <1>2, <1>3, <1>4, <1>5, <1>6 DEF LoadNext

(* So does a thread that takes NEXT or PREVIOUS.                           *)
LEMMA TakenFlag ==
  ASSUME LoadTypeOK, FlagsInv, NEW f \in {"single", "last"},
         load' = [load EXCEPT ![f] = FALSE], writes' = writes, batchChecked' = batchChecked
  PROVE  FlagsInv'
<1>1. /\ load'["batch"] = load["batch"]
      /\ load'["single"] => load["single"]
      /\ load["last"] = FALSE => load'["last"] = FALSE
      /\ load["single"] \in BOOLEAN /\ load'["single"] \in BOOLEAN
  BY DEF LoadTypeOK, Flags
<1>2. WillBe("batch", batchChecked)'
  BY <1>1 DEF FlagsInv, WillBe, Pends
<1>3. WillBe("single", TRUE)' => WillBe("single", TRUE)
  BY <1>1 DEF WillBe, Pends
<1>4. WillBe("last", FALSE) => WillBe("last", FALSE)'
  BY <1>1 DEF WillBe, Pends
<1> QED BY <1>2, <1>3, <1>4 DEF FlagsInv

(* With no assignment left, the flags are what they will be. *)
LEMMA FlagsNow ==
  ASSUME LoadTypeOK, FlagsInv, UIReady
  PROVE  load["batch"] = batchChecked /\ (load["single"] => ~load["batch"] /\ ~load["last"])
<1>1. \A f : ~Pends(f)
  BY DEF UIReady, Pends
<1>2. load["single"] \in BOOLEAN /\ load["last"] \in BOOLEAN
  BY DEF LoadTypeOK, Flags
<1> QED BY <1>1, <1>2 DEF FlagsInv, WillBe

LEMMA InitFlags == LoadInit => FlagsInv
<1> SUFFICES ASSUME LoadInit PROVE FlagsInv
  OBVIOUS
<1>1. Len(writes) = 0 /\ \A f : ~Pends(f)
  BY DEF LoadInit, Pends
<1>2. load["batch"] = TRUE /\ load["single"] = FALSE /\ batchChecked = TRUE
  BY DEF LoadInit, Flags
<1>3. WillBe("batch", batchChecked) /\ ~WillBe("single", TRUE)
  BY <1>1, <1>2 DEF WillBe
<1>4. \A i, j \in 1 .. Len(writes) : writes[i][1] = writes[j][1] => i = j
  BY <1>1
<1> QED BY <1>3, <1>4 DEF FlagsInv
=============================================================================

---------------------------- MODULE Dialog_proofs ----------------------------
(***************************************************************************)
(* Theorems about the parts of the dialog that share nothing: TextWindow,  *)
(* for every number of rows, every width of the window and every content   *)
(* of the rows at the start, and Settings, for any speeds and numbers      *)
(* typed and any contents of the file.                                     *)
(***************************************************************************)
EXTENDS TextWindow, Settings, WellFoundedInduction, TLAPS

-----------------------------------------------------------------------------
(* The text window keeps the latest lines in order.  What makes it         *)
(* inductive is where lines can be: in the rows the width allows, and      *)
(* never below an empty one of them.                                       *)

InUse == 0 .. RowsFor(magnification) - 1

(* Where the lines are. *)
Packed(r) ==
  \A i \in Slots : r[i] > 0 =>
    /\ i < RowsFor(magnification)
    /\ \A j \in 0 .. i - 1 : r[j] # Empty

Sound(r, n) == Packed(r) /\ InOrder(r) /\ Latest(r, n)

TInv == TextTypeOK /\ (~narrowed => Sound(rows, pushed))

(* The rows in use are rows of the array. *)
LEMMA RowsExist ==
  ASSUME magnification \in Magnifications
  PROVE  /\ RowsFor(magnification) \in Nat \ {0}
         /\ RowsFor(magnification) <= Rows
         /\ RowsFor(magnification) - 1 \in Slots
         /\ InUse \subseteq Slots
<1>1. RowsFor(magnification) <= Rows
  BY WindowAssumption
<1>2. magnification \in Nat /\ ShowTextLength \in Nat \ {0} /\ Spare \in Nat \ {0}
      /\ Rows \in Nat
  BY SizesAssumption
<1>3. ShowTextLength * magnification \in Nat
  BY <1>2
<1>4. RowsFor(magnification) \in Nat \ {0}
  BY <1>2, <1>3 DEF RowsFor
<1>. QED
  BY <1>1, <1>2, <1>4 DEF Slots, InUse

(* If some row in use is empty there is a first one: what the search       *)
(* finds.                                                                  *)
LEMMA FirstFree ==
  ASSUME magnification \in Magnifications, NEW r, ~Full(r)
  PROVE  \E k \in Slots : FreeRow(r, k)
<1>. DEFINE Free == {i \in InUse : r[i] = Empty}
<1>1. Free # {}
  BY DEF Full, InUse
<1>2. InUse \subseteq Slots /\ RowsFor(magnification) \in Nat \ {0}
  BY RowsExist
<1>3. InUse \subseteq Nat
  BY <1>2 DEF InUse
<1>4. Free \subseteq Nat
  BY <1>3
<1>5. PICK k \in Free : \A j \in Free : ~(<<j, k>> \in OpToRel(<, Nat))
  <2>. HIDE DEF Free
  <2>. QED BY <1>1, <1>4, NatLessThanWellFounded, WFMin
<1>6. \A j \in Free : ~(j < k)
  BY <1>4, <1>5 DEF OpToRel
<1>7. \A j \in 0 .. k - 1 : r[j] # Empty
  BY <1>2, <1>6 DEF InUse
<1>. QED
  BY <1>2, <1>7 DEF FreeRow, InUse

(* The two outcomes of a push, row by row. *)
LEMMA PushFull ==
  ASSUME magnification \in Magnifications, NEW n, NEW r, Full(r)
  PROVE  /\ AfterPush(r, n) = Shifted(r, n)
         /\ DOMAIN Shifted(r, n) = Slots
         /\ \A i \in Slots :
              /\ i < RowsFor(magnification) - 1 => Shifted(r, n)[i] = r[i + 1] /\ i + 1 \in Slots
              /\ i = RowsFor(magnification) - 1 => Shifted(r, n)[i] = n
              /\ i > RowsFor(magnification) - 1 => Shifted(r, n)[i] = r[i]
<1>1. RowsFor(magnification) - 1 \in Slots /\ RowsFor(magnification) \in Nat /\ Rows \in Nat
  BY RowsExist, SizesAssumption
<1>2. \A i \in Slots : i < RowsFor(magnification) - 1 => i + 1 \in Slots
  BY <1>1 DEF Slots
<1>3. \A i \in Slots : i \in Int
  BY <1>1 DEF Slots
<1>. QED
  BY <1>1, <1>2, <1>3 DEF AfterPush, Shifted

LEMMA PushFree ==
  ASSUME magnification \in Magnifications, NEW n, NEW r \in [Slots -> Int], ~Full(r)
  PROVE  \E k \in Slots : FreeRow(r, k) /\ AfterPush(r, n) = [r EXCEPT ![k] = n]
  BY FirstFree DEF AfterPush

LEMMA PushType ==
  ASSUME magnification \in Magnifications, NEW n \in Nat, NEW r \in [Slots -> -1 .. n]
  PROVE  AfterPush(r, n + 1) \in [Slots -> -1 .. n + 1]
<1>. r \in [Slots -> Int] /\ r \in [Slots -> -1 .. n + 1] /\ n + 1 \in -1 .. n + 1
  OBVIOUS
<1>1. CASE Full(r)
  <2>1. \A i \in Slots : i < RowsFor(magnification) - 1 => i + 1 \in Slots
    BY <1>1, PushFull
  <2>2. Shifted(r, n + 1) \in [Slots -> -1 .. n + 1]
    BY <2>1 DEF Shifted
  <2>. QED BY <1>1, <2>2, PushFull
<1>2. CASE ~Full(r)
  BY <1>2, PushFree
<1>. QED BY <1>1, <1>2

(* What one push does to the lines. *)
LEMMA PushKeeps ==
  ASSUME magnification \in Magnifications, NEW n \in Nat, NEW r \in [Slots -> -1 .. n],
         Sound(r, n)
  PROVE  Sound(AfterPush(r, n + 1), n + 1)
<1>. DEFINE B == RowsFor(magnification)
            s == AfterPush(r, n + 1)
<1>a. B \in Nat \ {0} /\ B <= Rows /\ B - 1 \in Slots
  BY RowsExist
<1>b. Rows \in Nat
  BY SizesAssumption
<1>c. \A i \in Slots : i \in Nat /\ r[i] \in Int /\ r[i] <= n
  BY DEF Slots
<1>1. CASE Full(r)
  <2>1. \A i \in Slots : /\ i < B - 1 => s[i] = r[i + 1] /\ i + 1 \in Slots
                         /\ i = B - 1 => s[i] = n + 1
                         /\ i > B - 1 => s[i] = r[i]
    BY <1>1, PushFull
  <2>2. \A i \in Slots : i > B - 1 => ~(r[i] > 0)
    BY <1>a, <1>c DEF Sound, Packed
  <2>3. \A i \in Slots : s[i] > 0 => i <= B - 1
    BY <1>a, <1>c, <2>1, <2>2
  <2>4. Packed(s)
    <3>1. \A j \in 0 .. B - 1 : r[j] # Empty
      BY <1>1 DEF Full
    <3>2. \A j \in 0 .. B - 2 : s[j] # Empty
      <4>1. \A j \in 0 .. B - 2 : j \in Slots /\ j < B - 1 /\ j + 1 \in 0 .. B - 1
        <5>. HIDE DEF B
        <5>. QED BY <1>a, <1>b DEF Slots
      <4>. HIDE DEF B, s
      <4>. QED BY <2>1, <3>1, <4>1
    <3>. QED BY <1>a, <1>c, <2>3, <3>2 DEF Packed, Slots
  <2>5. InOrder(s)
    <3>. SUFFICES ASSUME NEW i \in Slots, NEW j \in Slots, i < j, s[i] > 0, s[j] > 0
                  PROVE  s[i] < s[j]
      BY DEF InOrder
    <3>1. i < B - 1 /\ j <= B - 1
      BY <1>a, <1>c, <2>3
    <3>2. s[i] = r[i + 1] /\ i + 1 \in Slots
      BY <2>1, <3>1
    <3>3. CASE j = B - 1
      BY <1>c, <2>1, <3>2, <3>3
    <3>4. CASE j < B - 1
      BY <1>c, <2>1, <3>2, <3>4 DEF Sound, InOrder
    <3>. QED BY <1>a, <1>c, <3>1, <3>3, <3>4
  <2>6. Latest(s, n + 1)
    <3>. SUFFICES ASSUME NEW i \in Slots, s[i] > 0, NEW k \in s[i] .. n + 1
                  PROVE  \E j \in Slots : s[j] = k
      BY DEF Latest
    <3>1. CASE k = n + 1
      BY <1>a, <2>1, <3>1
    <3>2. CASE k # n + 1
      <4>1. i < B - 1
        BY <1>a, <1>c, <2>1, <2>3, <3>2
      <4>2. s[i] = r[i + 1] /\ i + 1 \in Slots /\ k \in r[i + 1] .. n
        BY <2>1, <3>2, <4>1, <1>c
      <4>3. PICK j \in Slots : r[j] = k
        BY <4>2 DEF Sound, Latest
      <4>4. j < B /\ k > 0
        BY <1>c, <4>2, <4>3 DEF Sound, Packed
      <4>5. j # 0
        BY <1>c, <4>2, <4>3, <4>4 DEF Sound, InOrder
      <4>6. j - 1 \in Slots /\ j - 1 < B - 1
        <5>. HIDE DEF B
        <5>. QED BY <1>a, <1>b, <4>4, <4>5 DEF Slots
      <4>. QED BY <1>c, <2>1, <4>3, <4>6
    <3>. QED BY <3>1, <3>2
  <2>. QED BY <2>4, <2>5, <2>6 DEF Sound
<1>2. CASE ~Full(r)
  <2>0. r \in [Slots -> Int]
    OBVIOUS
  <2>1. PICK f \in Slots : FreeRow(r, f) /\ s = [r EXCEPT ![f] = n + 1]
    BY <1>2, <2>0, PushFree
  <2>2. /\ f < B /\ r[f] = Empty /\ \A j \in 0 .. f - 1 : r[j] # Empty
        /\ s[f] = n + 1
        /\ \A i \in Slots : i # f => s[i] = r[i]
    <3>1. f < B /\ r[f] = Empty /\ \A j \in 0 .. f - 1 : r[j] # Empty
      BY <1>a, <1>c, <2>1 DEF FreeRow
    <3>. HIDE DEF s
    <3>. QED BY <2>0, <2>1, <3>1
  <2>3. \A i \in Slots : i > f => ~(r[i] > 0)
    BY <1>c, <2>2 DEF Sound, Packed
  <2>4. Packed(s)
    <3>. SUFFICES ASSUME NEW i \in Slots, s[i] > 0
                  PROVE  i < B /\ \A j \in 0 .. i - 1 : s[j] # Empty
      BY DEF Packed
    <3>0. \A j \in 0 .. i - 1 : j \in Slots
      <4>. HIDE DEF s
      <4>. QED BY <1>b DEF Slots
    <3>1. CASE i = f
      <4>1. \A j \in 0 .. f - 1 : s[j] = r[j]
        <5>. HIDE DEF s
        <5>. QED BY <1>c, <2>2, <3>0, <3>1
      <4>. QED BY <2>2, <3>1, <4>1
    <3>2. CASE i # f
      <4>1. r[i] > 0 /\ i < B /\ \A j \in 0 .. i - 1 : r[j] # Empty
        BY <2>2, <3>2 DEF Sound, Packed
      <4>. HIDE DEF s
      <4>. QED BY <2>2, <3>0, <4>1 DEF Empty
    <3>. QED BY <3>1, <3>2
  <2>5. InOrder(s)
    BY <1>c, <2>2, <2>3 DEF Sound, InOrder
  <2>6. Latest(s, n + 1)
    <3>. SUFFICES ASSUME NEW i \in Slots, s[i] > 0, NEW k \in s[i] .. n + 1
                  PROVE  \E j \in Slots : s[j] = k
      BY DEF Latest
    <3>1. CASE k = n + 1
      BY <2>2, <3>1
    <3>2. CASE k # n + 1
      <4>1. i # f /\ s[i] = r[i] /\ k \in r[i] .. n /\ k > 0
        BY <1>c, <2>2, <3>2
      <4>2. PICK j \in Slots : r[j] = k
        BY <4>1 DEF Sound, Latest
      <4>3. j # f
        BY <2>2, <4>1, <4>2 DEF Empty
      <4>. QED BY <2>2, <4>2, <4>3
    <3>. QED BY <3>1, <3>2
  <2>. QED BY <2>4, <2>5, <2>6 DEF Sound
<1>. QED BY <1>1, <1>2

-----------------------------------------------------------------------------
LEMMA Initially == TextInit => TInv
<1>. SUFFICES ASSUME TextInit PROVE TInv
  OBVIOUS
<1>0. rows \in [Slots -> Leftovers] /\ Leftovers \subseteq {0, -1} /\ pushed = 0
  BY SizesAssumption DEF TextInit, Empty, Garbage
<1>1. TextTypeOK
  <2>1. Leftovers \subseteq -1 .. 0
    BY <1>0
  <2>2. rows \in [Slots -> -1 .. 0]
    BY <1>0, <2>1
  <2>3. clean \in BOOLEAN /\ narrowed \in BOOLEAN /\ magnification \in Magnifications
    BY DEF TextInit
  <2>. QED BY <1>0, <2>2, <2>3 DEF TextTypeOK
<1>2. \A i \in Slots : ~(rows[i] > 0)
  <2>1. \A i \in Slots : rows[i] \in {0, -1}
    BY <1>0
  <2>. QED BY <2>1
<1>. QED BY <1>1, <1>2 DEF TInv, Sound, Packed, InOrder, Latest

LEMMA TypeStepwise == TextTypeOK /\ [TextNext]_textVars => TextTypeOK'
<1>. SUFFICES ASSUME TextTypeOK, [TextNext]_textVars PROVE TextTypeOK'
  OBVIOUS
<1>a. magnification \in Magnifications /\ pushed \in Nat /\ rows \in [Slots -> -1 .. pushed]
  BY DEF TextTypeOK
<1>1. CASE PushTailShowText
  BY <1>1, <1>a, PushType DEF PushTailShowText, TextTypeOK, Slots
<1>2. CASE OnPaint
  <2>. DEFINE r1 == AfterPush(rows, pushed + 1)
              r2 == AfterPush(r1, pushed + 2)
              r3 == AfterPush(r2, pushed + 3)
  <2>1. /\ r1 \in [Slots -> -1 .. pushed + 1] /\ pushed + 1 \in Nat
        /\ pushed + 2 = (pushed + 1) + 1
    BY <1>a, PushType
  <2>2. /\ r2 \in [Slots -> -1 .. pushed + 2] /\ pushed + 2 \in Nat
        /\ pushed + 3 = (pushed + 2) + 1
    <3>. HIDE DEF r1
    <3>. QED BY <1>a, <2>1, PushType
  <2>3. r3 \in [Slots -> -1 .. pushed + 3]
    <3>. HIDE DEF r2
    <3>. QED BY <1>a, <2>2, PushType
  <2>. QED BY <1>2, <1>a, <2>3 DEF OnPaint, TextTypeOK, Slots
<1>3. CASE OnSize
  BY <1>3 DEF OnSize, TextTypeOK, Slots
<1>4. CASE UNCHANGED textVars
  BY <1>4 DEF textVars, TextTypeOK, Slots
<1>. QED BY <1>1, <1>2, <1>3, <1>4 DEF TextNext

LEMMA Stepwise == TInv /\ [TextNext]_textVars => TInv'
<1>. SUFFICES ASSUME TInv, [TextNext]_textVars PROVE TInv'
  OBVIOUS
<1>. USE DEF TInv
<1>a. magnification \in Magnifications /\ pushed \in Nat /\ rows \in [Slots -> -1 .. pushed]
  BY DEF TextTypeOK
<1>b. TextTypeOK'
  BY TypeStepwise
<1>1. CASE PushTailShowText
  <2>2. ~narrowed' => Sound(rows, pushed)'
    <3>1. ~narrowed => Sound(AfterPush(rows, pushed + 1), pushed + 1)
      BY <1>a, PushKeeps
    <3>2. /\ rows' = AfterPush(rows, pushed + 1) /\ pushed' = pushed + 1
          /\ narrowed' = narrowed /\ magnification' = magnification
      BY <1>1 DEF PushTailShowText
    <3>. QED BY <3>1, <3>2 DEF Sound, Packed, InOrder, Latest, Slots, RowsFor
  <2>. QED BY <1>b, <2>2
<1>2. CASE OnPaint
  <2>. DEFINE r1 == AfterPush(rows, pushed + 1)
              r2 == AfterPush(r1, pushed + 2)
              r3 == AfterPush(r2, pushed + 3)
  <2>1. /\ r1 \in [Slots -> -1 .. pushed + 1] /\ pushed + 1 \in Nat
        /\ pushed + 2 = (pushed + 1) + 1
    BY <1>a, PushType
  <2>2. /\ r2 \in [Slots -> -1 .. pushed + 2] /\ pushed + 2 \in Nat
        /\ pushed + 3 = (pushed + 2) + 1
    <3>. HIDE DEF r1
    <3>. QED BY <1>a, <2>1, PushType
  <2>5. ASSUME ~narrowed PROVE Sound(r3, pushed + 3)
    <3>1. Sound(r1, pushed + 1)
      BY <1>a, <2>5, PushKeeps
    <3>2. Sound(r2, pushed + 2)
      <4>. HIDE DEF r1
      <4>. QED BY <1>a, <2>1, <3>1, PushKeeps
    <3>3. Sound(r3, pushed + 3)
      <4>. HIDE DEF r2
      <4>. QED BY <1>a, <2>2, <3>2, PushKeeps
    <3>. QED BY <3>3
  <2>6. rows' = r3 /\ pushed' = pushed + 3 /\ narrowed' = narrowed /\ magnification' = magnification
    BY <1>2 DEF OnPaint
  <2>7. ~narrowed' => Sound(rows, pushed)'
    <3>. HIDE DEF r3
    <3>. QED BY <2>5, <2>6 DEF Sound, Packed, InOrder, Latest, Slots, RowsFor
  <2>. QED BY <1>b, <2>7
<1>3. CASE OnSize
  <2>2. ASSUME ~narrowed' PROVE Sound(rows, pushed)'
    <3>1. /\ ~narrowed /\ magnification' \in Magnifications /\ magnification <= magnification'
          /\ rows' = rows /\ pushed' = pushed
      <4>1. PICK m \in Magnifications : magnification' = m /\ narrowed' = (narrowed \/ m < magnification)
        BY <1>3 DEF OnSize
      <4>2. ~narrowed /\ ~(m < magnification)
        BY <2>2, <4>1
      <4>3. m \in Nat /\ magnification \in Nat
        BY <1>a, SizesAssumption
      <4>. QED BY <1>3, <4>1, <4>2, <4>3 DEF OnSize
    <3>2. RowsFor(magnification) <= RowsFor(magnification')
      <4>1. magnification \in Nat /\ magnification' \in Nat /\ ShowTextLength \in Nat /\ Spare \in Nat
        BY <1>a, <3>1, SizesAssumption
      <4>2. PICK d \in Nat : magnification' = magnification + d
        BY <3>1, <4>1
      <4>3. ShowTextLength * (magnification + d) = ShowTextLength * magnification + ShowTextLength * d
        BY <4>1
      <4>4. ShowTextLength * magnification \in Nat /\ ShowTextLength * d \in Nat
        BY <4>1
      <4>. QED BY <4>1, <4>2, <4>3, <4>4 DEF RowsFor
    <3>3. RowsFor(magnification) \in Int /\ RowsFor(magnification') \in Int
      BY <1>a, <3>1, SizesAssumption DEF RowsFor
    <3>. QED BY <3>1, <3>2, <3>3 DEF Sound, Packed, InOrder, Latest, Slots, RowsFor
  <2>. QED BY <1>b, <2>2
<1>4. CASE UNCHANGED textVars
  BY <1>4, <1>b DEF textVars, TextTypeOK, Sound, Packed, InOrder, Latest, Slots, RowsFor
<1>. QED BY <1>1, <1>2, <1>3, <1>4 DEF TextNext

(* Every row holds nothing, a leftover, or a line that has been pushed.    *)
THEOREM TextTypeCorrect == TextSpec => []TextTypeOK
<1>1. TInv => TextTypeOK
  BY DEF TInv
<1>. QED BY <1>1, Initially, Stepwise, PTL DEF TextSpec

(* The text window shows the latest lines in their order, for every width, *)
(* every number of rows and whatever the rows held at the start.           *)
THEOREM LatestLinesInOrder == TextSpec => []LatestInOrder
<1>1. TInv => LatestInOrder
  BY DEF TInv, Sound, LatestInOrder
<1>. QED BY <1>1, Initially, Stepwise, PTL DEF TextSpec

-----------------------------------------------------------------------------
(* How far the newest line can be from the rows that are drawn: in a       *)
(* window of the usual width, whose rows began empty, the lines fill the   *)
(* rows from the top without a gap.                                        *)
LinedUpAt(i, line, n) ==
  /\ line >= 0
  /\ line > 0 => line >= i + 1
  /\ i < RowsFor(magnification) /\ line = 0 => n <= i
  /\ i < RowsFor(magnification) /\ line > 0 => line >= n - (RowsFor(magnification) - 1 - i)

LinedUp(r, n) == \A i \in Slots : LinedUpAt(i, r[i], n)

DrawnInv ==
  /\ TextTypeOK
  /\ ~narrowed => magnification >= 1
  /\ clean /\ ~narrowed /\ magnification = 1 => LinedUp(rows, pushed)

(* The line pushed is in one of the rows in use. *)
LEMMA PushShows ==
  ASSUME magnification \in Magnifications, NEW n, NEW r \in [Slots -> Int]
  PROVE  \E i \in InUse : AfterPush(r, n)[i] = n
<1>. DEFINE B == RowsFor(magnification)
<1>a. B \in Nat \ {0} /\ B - 1 \in Slots
  BY RowsExist
<1>1. CASE Full(r)
  <2>1. B - 1 \in InUse
    BY <1>a DEF InUse
  <2>2. AfterPush(r, n)[B - 1] = n
    BY <1>1, <1>a, PushFull
  <2>. QED BY <2>1, <2>2
<1>2. CASE ~Full(r)
  <2>1. PICK k \in Slots : FreeRow(r, k) /\ AfterPush(r, n) = [r EXCEPT ![k] = n]
    BY <1>2, PushFree
  <2>2. k \in InUse
    BY <2>1 DEF FreeRow, InUse
  <2>. QED BY <2>1, <2>2
<1>. QED BY <1>1, <1>2

LEMMA PushLinesUp ==
  ASSUME magnification \in Magnifications, NEW n \in Nat, NEW r \in [Slots -> -1 .. n],
         LinedUp(r, n)
  PROVE  LinedUp(AfterPush(r, n + 1), n + 1)
<1>. DEFINE B == RowsFor(magnification)
            s == AfterPush(r, n + 1)
<1>a. B \in Nat \ {0} /\ B <= Rows /\ Rows \in Nat
  BY RowsExist, SizesAssumption
<1>b. \A i \in Slots : i \in Nat /\ r[i] \in Int /\ r[i] <= n
  BY DEF Slots
<1>c. \A i \in Slots :
        /\ r[i] >= 0
        /\ r[i] > 0 => r[i] >= i + 1
        /\ i < B /\ r[i] = 0 => n <= i
        /\ i < B /\ r[i] > 0 => r[i] >= n - (B - 1 - i)
  BY DEF LinedUp, LinedUpAt
<1>d. \A i \in Slots : s[i] \in Int
  <2>1. s \in [Slots -> -1 .. n + 1]
    BY PushType
  <2>. HIDE DEF s
  <2>. QED BY <2>1
<1>2. CASE Full(r)
  <2>1. \A i \in Slots : /\ i < B - 1 => s[i] = r[i + 1] /\ i + 1 \in Slots
                         /\ i = B - 1 => s[i] = n + 1
                         /\ i > B - 1 => s[i] = r[i]
    BY <1>2, PushFull
  <2>2. \A i \in Slots : i < B => r[i] # 0
    <3>1. \A i \in 0 .. B - 1 : r[i] # 0
      BY <1>2 DEF Full, Empty
    <3>. HIDE DEF B
    <3>. QED BY <1>a, <1>b, <3>1
  <2>3. n + 1 >= B
    <3>1. B - 1 \in Slots
      BY RowsExist
    <3>2. r[B - 1] > 0
      BY <1>a, <1>b, <1>c, <2>2, <3>1
    <3>. QED BY <1>a, <1>b, <1>c, <3>1, <3>2
  <2>. HIDE DEF s
  <2>4. ASSUME NEW i \in Slots
        PROVE  LinedUpAt(i, s[i], n + 1)
    <3>. SUFFICES /\ s[i] >= 0
                  /\ s[i] > 0 => s[i] >= i + 1
                  /\ i < B /\ s[i] = 0 => n + 1 <= i
                  /\ i < B /\ s[i] > 0 => s[i] >= n + 1 - (B - 1 - i)
      BY <1>a, <1>b, <1>d DEF LinedUpAt
    <3>. HIDE DEF B
    <3>1. CASE i < B - 1
      <4>1. s[i] = r[i + 1] /\ i + 1 \in Slots /\ i + 1 < B /\ r[i + 1] # 0
        BY <1>a, <1>b, <2>1, <2>2, <3>1
      <4>2. r[i + 1] >= i + 2 /\ r[i + 1] >= n - (B - 2 - i)
        BY <1>a, <1>b, <1>c, <4>1
      <4>. QED BY <1>a, <1>b, <4>1, <4>2
    <3>2. CASE i = B - 1
      BY <1>a, <1>b, <2>1, <2>3, <3>2
    <3>3. CASE i > B - 1
      BY <1>a, <1>b, <1>c, <2>1, <3>3
    <3>. QED BY <1>a, <1>b, <3>1, <3>2, <3>3
  <2>. QED BY <2>4 DEF LinedUp, s
<1>3. CASE ~Full(r)
  <2>0. r \in [Slots -> Int]
    OBVIOUS
  <2>1. PICK f \in Slots : FreeRow(r, f) /\ s = [r EXCEPT ![f] = n + 1]
    BY <1>3, <2>0, PushFree
  <2>2. /\ f < B /\ r[f] = 0 /\ \A j \in 0 .. f - 1 : r[j] # 0
    BY <1>a, <1>b, <2>1 DEF FreeRow, Empty
  <2>3. s[f] = n + 1 /\ \A i \in Slots : i # f => s[i] = r[i]
    <3>. HIDE DEF s
    <3>. QED BY <2>0, <2>1
  <2>4. n <= f
    BY <1>c, <2>2
  <2>5. n >= f
    <3>1. CASE f = 0
      BY <3>1
    <3>2. CASE f # 0
      <4>1. f - 1 \in Slots /\ f - 1 \in 0 .. f - 1
        <5>. HIDE DEF B, s
        <5>. QED BY <1>a, <1>b, <3>2 DEF Slots
      <4>2. r[f - 1] > 0 /\ r[f - 1] >= f - 1 + 1
        BY <1>b, <1>c, <2>2, <4>1
      <4>. QED BY <1>b, <4>1, <4>2
    <3>. QED BY <3>1, <3>2
  <2>6. \A i \in Slots : i < f => r[i] # 0
    BY <1>b, <2>2
  <2>. HIDE DEF s
  <2>7. ASSUME NEW i \in Slots
        PROVE  LinedUpAt(i, s[i], n + 1)
    <3>. SUFFICES /\ s[i] >= 0
                  /\ s[i] > 0 => s[i] >= i + 1
                  /\ i < B /\ s[i] = 0 => n + 1 <= i
                  /\ i < B /\ s[i] > 0 => s[i] >= n + 1 - (B - 1 - i)
      BY <1>a, <1>b, <1>d DEF LinedUpAt
    <3>. HIDE DEF B
    <3>1. CASE i = f
      BY <1>a, <1>b, <2>2, <2>3, <2>4, <2>5, <3>1
    <3>2. CASE i # f
      <4>1. s[i] = r[i]
        BY <2>3, <3>2
      <4>2. i < B /\ r[i] = 0 => n + 1 <= i
        BY <1>b, <2>4, <2>5, <2>6, <3>2
      <4>3. i < B /\ r[i] > 0 => r[i] >= n + 1 - (B - 1 - i)
        BY <1>a, <1>b, <1>c, <2>2, <2>4
      <4>. QED BY <1>c, <4>1, <4>2, <4>3
    <3>. QED BY <3>1, <3>2
  <2>. QED BY <2>7 DEF LinedUp, s
<1>. QED BY <1>2, <1>3

LEMMA DrawnInitially == TextInit => DrawnInv
<1>. SUFFICES ASSUME TextInit PROVE DrawnInv
  OBVIOUS
<1>1. TextTypeOK
  BY Initially DEF TInv
<1>2. magnification = 1 /\ pushed = 0
  BY DEF TextInit
<1>3. ASSUME clean PROVE LinedUp(rows, pushed)
  <2>1. \A i \in Slots : rows[i] = 0
    BY <1>3 DEF TextInit, Empty
  <2>2. \A i \in Slots : i \in Nat
    BY SizesAssumption DEF Slots
  <2>. QED BY <1>2, <2>1, <2>2 DEF LinedUp, LinedUpAt
<1>. QED BY <1>1, <1>2, <1>3 DEF DrawnInv

(* The rows after the three lines of a repaint. *)
LEMMA PaintFacts ==
  ASSUME TextTypeOK, NEW r1, NEW r2, NEW r3,
         r1 = AfterPush(rows, pushed + 1), r2 = AfterPush(r1, pushed + 2),
         r3 = AfterPush(r2, pushed + 3)
  PROVE  /\ \E i \in InUse : r3[i] = pushed + 3
         /\ LinedUp(rows, pushed) => LinedUp(r3, pushed + 3)
<1>a. magnification \in Magnifications /\ pushed \in Nat /\ rows \in [Slots -> -1 .. pushed]
  BY DEF TextTypeOK
<1>b. pushed + 1 \in Nat /\ pushed + 2 \in Nat /\ pushed + 2 = (pushed + 1) + 1
      /\ pushed + 3 = (pushed + 2) + 1
  BY <1>a
<1>1. r1 \in [Slots -> -1 .. pushed + 1]
  BY <1>a, PushType
<1>2. r2 \in [Slots -> -1 .. pushed + 2]
  BY <1>a, <1>b, <1>1, PushType
<1>3. \E i \in InUse : r3[i] = pushed + 3
  <2>1. r2 \in [Slots -> Int]
    BY <1>2
  <2>. QED BY <1>a, <2>1, PushShows
<1>4. ASSUME LinedUp(rows, pushed) PROVE LinedUp(r3, pushed + 3)
  <2>1. LinedUp(r1, pushed + 1)
    BY <1>a, <1>4, PushLinesUp
  <2>2. LinedUp(r2, pushed + 2)
    BY <1>a, <1>b, <1>1, <2>1, PushLinesUp
  <2>. QED BY <1>a, <1>b, <1>2, <2>2, PushLinesUp
<1>. QED BY <1>3, <1>4

(* What one push or one repaint does. *)
LEMMA PushedFacts ==
  ASSUME TextTypeOK, PushTailShowText \/ OnPaint
  PROVE  /\ magnification' = magnification /\ clean' = clean /\ narrowed' = narrowed
         /\ \E i \in InUse : rows'[i] = pushed'
         /\ LinedUp(rows, pushed) => LinedUp(rows', pushed')
<1>a. magnification \in Magnifications /\ pushed \in Nat /\ rows \in [Slots -> -1 .. pushed]
      /\ rows \in [Slots -> Int]
  BY DEF TextTypeOK
<1>1. CASE PushTailShowText
  <2>1. rows' = AfterPush(rows, pushed + 1) /\ pushed' = pushed + 1
        /\ magnification' = magnification /\ clean' = clean /\ narrowed' = narrowed
    BY <1>1 DEF PushTailShowText
  <2>2. \E i \in InUse : rows'[i] = pushed'
    BY <1>a, <2>1, PushShows
  <2>3. LinedUp(rows, pushed) => LinedUp(rows', pushed')
    BY <1>a, <2>1, PushLinesUp
  <2>. QED BY <2>1, <2>2, <2>3
<1>2. CASE OnPaint
  <2>1. rows' = AfterPush(AfterPush(AfterPush(rows, pushed + 1), pushed + 2), pushed + 3)
        /\ pushed' = pushed + 3
        /\ magnification' = magnification /\ clean' = clean /\ narrowed' = narrowed
    BY <1>2 DEF OnPaint
  <2>. QED BY <2>1, PaintFacts
<1>. QED BY <1>1, <1>2

LEMMA DrawnStepwise == DrawnInv /\ [TextNext]_textVars => DrawnInv'
<1>. SUFFICES ASSUME DrawnInv, [TextNext]_textVars PROVE DrawnInv'
  OBVIOUS
<1>1. TextTypeOK'
  <2>1. TextTypeOK
    BY DEF DrawnInv
  <2>. QED BY <2>1, TypeStepwise
<1>2. CASE PushTailShowText \/ OnPaint
  <2>1. /\ magnification' = magnification /\ clean' = clean /\ narrowed' = narrowed
        /\ LinedUp(rows, pushed) => LinedUp(rows', pushed')
    BY <1>2, PushedFacts DEF DrawnInv
  <2>2. (LinedUp(rows, pushed))' <=> LinedUp(rows', pushed')
    BY <2>1 DEF LinedUp, LinedUpAt, Slots, RowsFor
  <2>. QED BY <1>1, <2>1, <2>2 DEF DrawnInv
<1>3. CASE OnSize
  <2>1. PICK m \in Magnifications :
          m # magnification /\ magnification' = m /\ narrowed' = (narrowed \/ m < magnification)
    BY <1>3 DEF OnSize
  <2>2. m \in Nat /\ magnification \in Nat
    BY <2>1, SizesAssumption DEF DrawnInv, TextTypeOK
  <2>3. ~narrowed' => ~narrowed /\ magnification > 0 /\ m > magnification
    <3>1. ~narrowed' => ~narrowed /\ ~(m < magnification)
      BY <2>1
    <3>. QED BY <2>1, <2>2, <3>1 DEF DrawnInv
  <2>. QED BY <1>1, <2>1, <2>2, <2>3 DEF DrawnInv
<1>4. CASE UNCHANGED textVars
  <2>1. (LinedUp(rows, pushed))' <=> LinedUp(rows, pushed)
    BY <1>4 DEF textVars, LinedUp, LinedUpAt, Slots, RowsFor
  <2>. QED BY <1>1, <1>4, <2>1 DEF DrawnInv, textVars
<1>. QED BY <1>2, <1>3, <1>4 DEF TextNext

(* A line is drawn at the latest when as many more have been pushed as     *)
(* there are rows that a window of the usual width does not draw, if the   *)
(* rows began empty.                                                       *)
THEOREM NewLinesAreDrawn == TextSpec => DrawnSoon
<1>1. ASSUME DrawnInv, [TextNext]_textVars, pushed' # pushed, magnification >= 1, ~narrowed, clean
      PROVE  \/ pushed' <= Spare
             \/ \E i \in Drawn : rows'[i] >= pushed' - Spare
  <2>a. /\ TextTypeOK /\ magnification \in Nat /\ ShowTextLength \in Nat \ {0}
        /\ Spare \in Nat \ {0} /\ pushed \in Nat /\ Rows \in Nat
    BY <1>1, SizesAssumption DEF DrawnInv, TextTypeOK
  <2>b. PushTailShowText \/ OnPaint
    BY <1>1 DEF TextNext, OnSize, textVars
  <2>c. /\ magnification' = magnification
        /\ \E i \in InUse : rows'[i] = pushed'
        /\ LinedUp(rows, pushed) => LinedUp(rows', pushed')
    BY <2>a, <2>b, PushedFacts
  <2>d. pushed' \in Nat /\ pushed' > 0
    BY <2>a, <2>b DEF PushTailShowText, OnPaint
  <2>1. CASE magnification > 1
    <3>1. Drawn = InUse
      BY <2>1 DEF Drawn, InUse
    <3>. QED BY <2>a, <2>c, <2>d, <3>1
  <2>2. CASE magnification = 1
    <3>1. /\ LinedUp(rows', pushed') /\ RowsFor(magnification) = ShowTextLength + Spare
          /\ Drawn = 0 .. ShowTextLength - 1
      <4>1. ShowTextLength * 1 = ShowTextLength
        BY <2>a
      <4>2. RowsFor(magnification) = ShowTextLength + Spare /\ Drawn = 0 .. ShowTextLength - 1
        BY <2>2, <4>1 DEF RowsFor, Drawn
      <4>. QED BY <1>1, <2>2, <2>c, <4>2 DEF DrawnInv
    <3>2. ShowTextLength + Spare <= Rows
      BY <1>1, <3>1, WindowAssumption DEF DrawnInv, TextTypeOK
    <3>3. \A i \in 0 .. ShowTextLength - 1 :
            /\ i \in Slots /\ i \in Drawn /\ rows'[i] \in Int /\ rows'[i] >= 0
            /\ rows'[i] > 0 => rows'[i] >= i + 1
            /\ rows'[i] = 0 => pushed' <= i
            /\ rows'[i] > 0 => rows'[i] >= pushed' - (ShowTextLength + Spare - 1 - i)
      <4>1. \A i \in 0 .. ShowTextLength - 1 :
              i \in Slots /\ i \in Drawn /\ i < ShowTextLength + Spare
        BY <2>a, <3>1, <3>2 DEF Slots
      <4>2. TextTypeOK'
        BY <2>a, <1>1, TypeStepwise
      <4>3. \A i \in Slots : rows'[i] \in Int
        BY <4>2 DEF TextTypeOK, Slots
      <4>4. ASSUME NEW i \in 0 .. ShowTextLength - 1
            PROVE  /\ rows'[i] >= 0
                   /\ rows'[i] > 0 => rows'[i] >= i + 1
                   /\ rows'[i] = 0 => pushed' <= i
                   /\ rows'[i] > 0 => rows'[i] >= pushed' - (ShowTextLength + Spare - 1 - i)
        <5>1. LinedUpAt(i, rows'[i], pushed')
          BY <3>1, <4>1 DEF LinedUp
        <5>. QED BY <2>a, <2>d, <3>1, <4>1, <4>3, <5>1 DEF LinedUpAt
      <4>. QED BY <4>1, <4>3, <4>4
    <3>4. CASE rows'[ShowTextLength - 1] > 0
      <4>1. ShowTextLength - 1 \in 0 .. ShowTextLength - 1
        BY <2>a
      <4>2. rows'[ShowTextLength - 1] >= pushed' - (ShowTextLength + Spare - 1 - (ShowTextLength - 1))
        BY <3>3, <3>4, <4>1
      <4>3. ShowTextLength + Spare - 1 - (ShowTextLength - 1) = Spare
        BY <2>a
      <4>. QED BY <3>3, <4>1, <4>2, <4>3
    <3>5. CASE ~(rows'[ShowTextLength - 1] > 0)
      <4>1. ShowTextLength - 1 \in 0 .. ShowTextLength - 1
        BY <2>a
      <4>2. pushed' <= ShowTextLength - 1
        BY <3>3, <3>5, <4>1
      <4>3. pushed' - 1 \in 0 .. ShowTextLength - 1
        <5>1. ShowTextLength \in Nat /\ pushed' \in Nat /\ pushed' > 0
          BY <2>a, <2>d
        <5>. DEFINE q == pushed'
        <5>2. q \in Nat /\ q > 0 /\ q <= ShowTextLength - 1 /\ ShowTextLength \in Nat
          BY <4>2, <5>1
        <5>. HIDE DEF q
        <5>3. q - 1 \in 0 .. ShowTextLength - 1
          BY <5>2
        <5>. QED BY <5>3 DEF q
      <4>4. rows'[pushed' - 1] >= pushed'
        BY <2>d, <3>3, <4>3
      <4>5. rows'[pushed' - 1] >= pushed' - Spare
        <5>1. rows'[pushed' - 1] \in Int
          BY <3>3, <4>3
        <5>2. pushed' \in Nat /\ Spare \in Nat
          BY <2>a, <2>d
        <5>. QED BY <4>4, <5>1, <5>2
      <4>. QED BY <3>3, <4>3, <4>5
    <3>. QED BY <3>4, <3>5
  <2>. QED BY <1>1, <2>1, <2>2, <2>a
<1>2. DrawnInv /\ [TextNext]_textVars =>
        [pushed' # pushed /\ magnification >= 1 /\ ~narrowed /\ clean =>
           \/ pushed' <= Spare
           \/ \E i \in Drawn : rows'[i] >= pushed' - Spare]_textVars
  BY <1>1
<1>. QED BY <1>2, DrawnInitially, DrawnStepwise, PTL DEF TextSpec, DrawnSoon

-----------------------------------------------------------------------------
(* Settings: the type invariant, that the title tells the camera, and that *)
(* the pause fits the speed shown.                                         *)

LEMMA RoundedIsInt == \A x \in Int : Rounded(x) \in Int
  BY DEF Rounded, Shown

(* Without another simulator the title follows the number in the file      *)
(* whenever that is one of the cameras', and the window shows the speed    *)
(* the file holds.                                                         *)
TitleFollowsFile == ~foreign /\ iniNumber \in Cameras => title = iniNumber
ShownIsFile == shownSpeed = iniSpeed
UsedIsShown == confirmed => shownSpeed = Rounded(usedSpeed)

SettingsInv ==
  SettingsTypeOK /\ TitleFollowsFile /\ TitleTellsCamera /\ ShownIsFile /\ UsedIsShown

LEMMA SettingsInitInv == SettingsInit => SettingsInv
<1> SUFFICES ASSUME SettingsInit PROVE SettingsInv
  OBVIOUS
<1>1. title \in Cameras \cup {Nobody}
  BY DEF SettingsInit
<1>2. SettingsTypeOK
  <2>1. iniNumber \in Int /\ number \in Int /\ sendsAs \in Int
    BY SpeedsAssumption DEF SettingsInit, Nothing
  <2> QED
    BY <1>1, <2>1 DEF SettingsInit, SettingsTypeOK
<1>3. TitleFollowsFile /\ ShownIsFile /\ UsedIsShown
  BY DEF SettingsInit, TitleFollowsFile, ShownIsFile, UsedIsShown
<1>4. TitleTellsCamera
  BY DEF SettingsInit, TitleTellsCamera, Cameras, Nothing
<1> QED
  BY <1>2, <1>3, <1>4 DEF SettingsInv

(* START changes the number, what the thread sends as and a history only.  *)
LEMMA StartChanges ==
  OnBnClickedStartNetserver =>
    /\ sendsAs' = iniNumber /\ number' = iniNumber /\ renamed' \in BOOLEAN
    /\ iniSpeed' = iniSpeed /\ shownSpeed' = shownSpeed /\ usedSpeed' = usedSpeed
    /\ confirmed' = confirmed /\ iniNumber' = iniNumber
    /\ title' = title /\ box' = box /\ foreign' = foreign
<1> SUFFICES ASSUME OnBnClickedStartNetserver
             PROVE  /\ sendsAs' = iniNumber /\ number' = iniNumber /\ renamed' \in BOOLEAN
                    /\ iniSpeed' = iniSpeed /\ shownSpeed' = shownSpeed /\ usedSpeed' = usedSpeed
                    /\ confirmed' = confirmed /\ iniNumber' = iniNumber
                    /\ title' = title /\ box' = box /\ foreign' = foreign
  OBVIOUS
<1>1. sendsAs' = iniNumber /\ number' = iniNumber
  BY DEF OnBnClickedStartNetserver
<1>2. renamed' \in BOOLEAN
  BY DEF OnBnClickedStartNetserver
<1>3. /\ iniSpeed' = iniSpeed /\ shownSpeed' = shownSpeed /\ usedSpeed' = usedSpeed
      /\ confirmed' = confirmed
  BY DEF OnBnClickedStartNetserver, speedVars
<1>4. /\ iniNumber' = iniNumber /\ title' = title /\ box' = box /\ foreign' = foreign
  BY DEF OnBnClickedStartNetserver
<1> QED
  BY <1>1, <1>2, <1>3, <1>4

LEMMA TypeStep == ASSUME SettingsTypeOK, SettingsNext
                  PROVE  SettingsTypeOK'
<1> USE DEF SettingsTypeOK, speedVars
<1>1. CASE OnBnClickedScanSpeedSetting
  BY <1>1 DEF OnBnClickedScanSpeedSetting
<1>2. CASE OpenNetworkSetting
  <2>1. box' \in Boxes
    BY <1>2 DEF OpenNetworkSetting, Boxes, Cameras
  <2> QED
    BY <1>2, <2>1 DEF OpenNetworkSetting
<1>3. CASE OnEnChangeSimulateCamera
  <2>1. box' \in Boxes
    BY <1>3 DEF OnEnChangeSimulateCamera, Boxes, Cameras, Nobody
  <2> QED
    BY <1>3, <2>1 DEF OnEnChangeSimulateCamera
<1>4. CASE TypeNumber
  <2>1. box \in Boxes
    BY <1>4 DEF TypeNumber, Ready
  <2>2. box' \in Boxes
    BY <1>4, <2>1, SpeedsAssumption DEF TypeNumber, Boxes
  <2> QED
    BY <1>4, <2>2 DEF TypeNumber
<1>5. CASE CancelNetworkSetting
  BY <1>5 DEF CancelNetworkSetting
<1>6. CASE OnBnClickedNetworkSetting
  <2>1. box.number \in Int
    BY <1>6 DEF OnBnClickedNetworkSetting, Ready, Boxes
  <2>2. iniNumber' \in Int /\ number' \in Int
    BY <1>6, <2>1 DEF OnBnClickedNetworkSetting
  <2>3. title' \in Cameras \cup {Nobody}
    BY <1>6 DEF OnBnClickedNetworkSetting, TitleFor
  <2>4. renamed' \in BOOLEAN
    BY <1>6 DEF OnBnClickedNetworkSetting
  <2> QED
    BY <1>6, <2>2, <2>3, <2>4 DEF OnBnClickedNetworkSetting
<1>7. CASE OnBnClickedCheckBatchLoad
  BY <1>7 DEF OnBnClickedCheckBatchLoad, TitleFor
<1>8. CASE OnBnClickedStartNetserver
  <2>1. sendsAs' \in Int /\ number' \in Int /\ iniNumber' \in Int
    <3>1. iniNumber \in Int
      OBVIOUS
    <3> QED
      BY <1>8, <3>1, StartChanges
  <2>2. renamed' \in BOOLEAN
    BY <1>8, StartChanges
  <2>5. confirmed' \in BOOLEAN /\ foreign' \in BOOLEAN
    BY <1>8, StartChanges
  <2>3. title' \in Cameras \cup {Nobody} /\ box' \in Boxes \cup {Closed}
    BY <1>8, StartChanges
  <2>4. /\ iniSpeed' \in {Rounded(x) : x \in Typed} \cup FileSpeeds
        /\ shownSpeed' \in {Rounded(x) : x \in Typed} \cup FileSpeeds
        /\ usedSpeed' \in Typed \cup {10000}
    BY <1>8, StartChanges
  <2> QED
    BY <2>1, <2>2, <2>3, <2>4, <2>5
<1>9. CASE OtherSimulatorWrites
  BY <1>9, SpeedsAssumption DEF OtherSimulatorWrites
<1> QED
  BY <1>1, <1>2, <1>3, <1>4, <1>5, <1>6, <1>7, <1>8, <1>9 DEF SettingsNext

LEMMA TitleStep == ASSUME SettingsInv, SettingsNext
                   PROVE  TitleFollowsFile' /\ TitleTellsCamera'
<1> USE DEF SettingsInv, TitleFollowsFile, TitleTellsCamera, speedVars
<1>1. CASE OnBnClickedScanSpeedSetting
  BY <1>1 DEF OnBnClickedScanSpeedSetting
<1>2. CASE OpenNetworkSetting \/ OnEnChangeSimulateCamera \/ TypeNumber \/ CancelNetworkSetting
  BY <1>2 DEF OpenNetworkSetting, OnEnChangeSimulateCamera, TypeNumber, CancelNetworkSetting
<1>3. CASE OnBnClickedNetworkSetting
  BY <1>3 DEF OnBnClickedNetworkSetting, TitleFor, SettingsTypeOK
<1>4. CASE OnBnClickedCheckBatchLoad
  BY <1>4 DEF OnBnClickedCheckBatchLoad, TitleFor
<1>5. CASE OnBnClickedStartNetserver
  BY <1>5 DEF OnBnClickedStartNetserver
<1>6. CASE OtherSimulatorWrites
  BY <1>6 DEF OtherSimulatorWrites
<1> QED
  BY <1>1, <1>2, <1>3, <1>4, <1>5, <1>6 DEF SettingsNext

LEMMA SpeedStep == ASSUME SettingsInv, SettingsNext
                   PROVE  ShownIsFile' /\ UsedIsShown'
<1> USE DEF SettingsInv, ShownIsFile, UsedIsShown, speedVars
<1>1. CASE OnBnClickedScanSpeedSetting
  BY <1>1 DEF OnBnClickedScanSpeedSetting
<1>2. CASE OnBnClickedNetworkSetting
  BY <1>2 DEF OnBnClickedNetworkSetting
<1>3. CASE UNCHANGED speedVars
  BY <1>3
<1> QED
  BY <1>1, <1>2, <1>3 DEF SettingsNext, OpenNetworkSetting, OnEnChangeSimulateCamera, TypeNumber,
     CancelNetworkSetting, OnBnClickedCheckBatchLoad, OnBnClickedStartNetserver,
     OtherSimulatorWrites

LEMMA SettingsInvariance == SettingsSpec => []SettingsInv
<1>1. SettingsInv /\ [SettingsNext]_settingsVars => SettingsInv'
  <2>1. ASSUME SettingsInv, SettingsNext PROVE SettingsInv'
    BY <2>1, TypeStep, TitleStep, SpeedStep DEF SettingsInv
  <2>2. ASSUME SettingsInv, UNCHANGED settingsVars PROVE SettingsInv'
    BY <2>2 DEF settingsVars, SettingsInv, SettingsTypeOK, TitleFollowsFile, TitleTellsCamera,
                ShownIsFile, UsedIsShown
  <2> QED
    BY <2>1, <2>2
<1> QED
  BY <1>1, SettingsInitInv, PTL DEF SettingsSpec

(* The file, the dialogs, the members and the title are always well typed; *)
(* the title is one of the four cameras' or none.                          *)
THEOREM SettingsTypeCorrect == SettingsSpec => []SettingsTypeOK
<1>1. SettingsInv => SettingsTypeOK
  BY DEF SettingsInv
<1> QED
  BY <1>1, SettingsInvariance, PTL

(* Whatever is typed, cancelled, not written or clicked, a thread started  *)
(* as one of the four cameras is the one in the title, as long as no other *)
(* simulator writes the file and the user confirms no other number.        *)
THEOREM TitleIsCamera == SettingsSpec => []TitleTellsCamera
<1>1. SettingsInv => TitleTellsCamera
  BY DEF SettingsInv
<1> QED
  BY <1>1, SettingsInvariance, PTL

-----------------------------------------------------------------------------
(* A speed that is shown as more than 0.00 is at least 0.005, and the      *)
(* pause after an image at most 20 seconds.                                *)
LEMMA PauseBound == \A x \in Int : Rounded(x) > 0 =>
                      Milliseconds(x) \in Int /\ Milliseconds(x) >= 0 /\ Milliseconds(x) <= 20000
<1> SUFFICES ASSUME NEW x \in Int, Rounded(x) > 0
             PROVE  Milliseconds(x) \in Int /\ Milliseconds(x) >= 0 /\ Milliseconds(x) <= 20000
  OBVIOUS
<1>1. x >= 50
  BY SMT DEF Rounded, Shown
<1>2. /\ 1000000 \div x \in Int
      /\ 1000000 \div x >= 0
      /\ 1000000 \div x <= 20000
  BY <1>1, SMT
<1>3. Milliseconds(x) = 1000000 \div x
  BY <1>1, SMT DEF Milliseconds
<1> QED
  BY <1>2, <1>3, SMT

(* A confirmed speed that has reached the file and of which the window     *)
(* shows more than 0.00 is the one images are sent with, and gives client  *)
(* and server the same pause, of at most 20 seconds.                       *)
THEOREM PauseFits == SettingsSpec => []PauseFitsSpeedShown
<1>1. SettingsInv => PauseFitsSpeedShown
  <2> SUFFICES ASSUME SettingsInv, confirmed, shownSpeed > 0
               PROVE  /\ shownSpeed = Rounded(usedSpeed)
                      /\ ClientPause(usedSpeed) <= 20000
                      /\ ServerPause(usedSpeed) = ClientPause(usedSpeed)
    BY DEF PauseFitsSpeedShown
  <2>1. shownSpeed = Rounded(usedSpeed) /\ usedSpeed \in Int
    BY SpeedsAssumption DEF SettingsInv, UsedIsShown, SettingsTypeOK
  <2>2. Rounded(usedSpeed) > 0
    BY <2>1
  <2>3. /\ Milliseconds(usedSpeed) \in Int
        /\ Milliseconds(usedSpeed) >= 0
        /\ Milliseconds(usedSpeed) <= 20000
    BY <2>1, <2>2, PauseBound
  <2>4. ~(Milliseconds(usedSpeed) < 0)
    BY <2>3
  <2>5. /\ ClientPause(usedSpeed) = Milliseconds(usedSpeed)
        /\ ServerPause(usedSpeed) = Milliseconds(usedSpeed)
    BY <2>4 DEF ClientPause, ServerPause
  <2> QED
    BY <2>1, <2>3, <2>5
<1> QED
  BY <1>1, SettingsInvariance, PTL
=============================================================================

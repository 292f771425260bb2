------------------------------ MODULE TextWindow ------------------------------
(***************************************************************************)
(* The lines of text the dialog shows: the array m_strShowText, what       *)
(* PushTailShowText does to it and what ShowText draws of it, in a window  *)
(* the user makes wider and narrower.                                      *)
(*                                                                         *)
(* A line is its number in the order in which lines were pushed; what it   *)
(* says is left out.  The array is a member of a dialog that lives on the  *)
(* stack and nothing clears it, so its rows begin with anything.           *)
(***************************************************************************)
EXTENDS Integers

CONSTANTS
  ShowTextLength, \* SHOWTEXTLENGTH
  Spare,          \* rows PushTailShowText uses beyond those, 4 in the source
  Rows,           \* rows of m_strShowText, SHOWTEXTLENGTH * 10
  Magnifications, \* widths of the window in units of m_nWindowWidth
  Leftovers,      \* what the rows may hold before the first line
  MaxLines        \* bound on the lines pushed

Empty == 0
Garbage == -1

RowsFor(m) == ShowTextLength * m + Spare

ASSUME SizesAssumption ==
  /\ ShowTextLength \in Nat \ {0} /\ Spare \in Nat \ {0} /\ Rows \in Nat
  /\ Magnifications \subseteq Nat
  /\ Leftovers \subseteq {Empty, Garbage}
  /\ MaxLines \in Nat

(* A window ten times as wide as the one it was designed for, 7160 pixels, *)
(* would need more rows than there are.                                    *)
ASSUME WindowAssumption == \A m \in Magnifications : RowsFor(m) <= Rows

VARIABLES
  rows,          \* m_strShowText
  magnification, \* GetClientRect, divided by m_nWindowWidth
  pushed,        \* history: how many lines have been pushed
  clean,         \* history: the rows began empty
  narrowed       \* history: the window has been made narrower

textVars == <<rows, magnification, pushed, clean, narrowed>>

Slots == 0 .. Rows - 1

TextTypeOK ==
  /\ rows \in [Slots -> -1 .. pushed]
  /\ magnification \in Magnifications
  /\ pushed \in Nat
  /\ clean \in BOOLEAN /\ narrowed \in BOOLEAN

TextInit ==
  /\ rows \in [Slots -> Leftovers]
  /\ magnification \in Magnifications \cap {1}
  /\ pushed = 0
  /\ clean = (\A i \in Slots : rows[i] = Empty)
  /\ narrowed = FALSE

-----------------------------------------------------------------------------
FreeRow(r, i) ==
  /\ i \in 0 .. RowsFor(magnification) - 1
  /\ r[i] = Empty
  /\ \A j \in 0 .. i - 1 : r[j] # Empty

Full(r) == \A i \in 0 .. RowsFor(magnification) - 1 : r[i] # Empty

(* Mutant: the shift begins one row too low, row 0 stays. *)
MutShifted(r, n) ==
  [[i \in Slots |-> IF i \in 1 .. RowsFor(magnification) - 2 THEN r[i + 1] ELSE r[i]]
     EXCEPT ![RowsFor(magnification) - 1] = n]

Shifted(r, n) ==
  [[i \in Slots |-> IF i < RowsFor(magnification) - 1 THEN r[i + 1] ELSE r[i]]
     EXCEPT ![RowsFor(magnification) - 1] = n]

(* Mutant: the search for an empty row uses one row more. *)
MutAfterPush(r, n) ==
  IF \E i \in Slots : r[i] = Empty /\ i <= RowsFor(magnification)
    THEN LET k == CHOOSE i \in Slots : r[i] = Empty /\ \A j \in Slots : r[j] = Empty => i <= j
         IN [r EXCEPT ![k] = n]
    ELSE Shifted(r, n)

(* PushTailShowText: the first empty row, or all rows move up by one. *)
AfterPush(r, n) ==
  IF Full(r) THEN Shifted(r, n)
             ELSE [r EXCEPT ![CHOOSE i \in Slots : FreeRow(r, i)] = n]

(* START in server mode and the handler of code 10 push one line. *)
PushTailShowText ==
  /\ pushed < MaxLines
  /\ rows' = AfterPush(rows, pushed + 1)
  /\ pushed' = pushed + 1
  /\ UNCHANGED <<magnification, clean, narrowed>>

(* Mutant: one of the three lines is not counted. *)
MutOnPaint ==
  /\ pushed + 3 <= MaxLines
  /\ rows' = AfterPush(AfterPush(AfterPush(rows, pushed + 1), pushed + 2), pushed + 3)
  /\ pushed' = pushed + 2
  /\ UNCHANGED <<magnification, clean, narrowed>>

(* Every repaint pushes the title, the speed and the server's address. *)
OnPaint ==
  /\ pushed + 3 <= MaxLines
  /\ rows' = AfterPush(AfterPush(AfterPush(rows, pushed + 1), pushed + 2), pushed + 3)
  /\ pushed' = pushed + 3
  /\ UNCHANGED <<magnification, clean, narrowed>>

OnSize ==
  /\ \E m \in Magnifications :
       /\ m # magnification
       /\ magnification' = m
       /\ narrowed' = (narrowed \/ m < magnification)
  /\ UNCHANGED <<rows, pushed, clean>>

TextNext == PushTailShowText \/ OnPaint \/ OnSize

TextSpec == TextInit /\ [][TextNext]_textVars

-----------------------------------------------------------------------------
(* Mutant: the rows a wide window draws, also in one of the usual width. *)
MutDrawn == 0 .. ShowTextLength * magnification - 2

(* ShowText draws the spare rows only in a window of double width. *)
Drawn ==
  IF magnification > 1 THEN 0 .. RowsFor(magnification) - 1
                       ELSE 0 .. ShowTextLength * magnification - 1

InOrder(r) ==
  \A i, j \in Slots : i < j /\ r[i] > 0 /\ r[j] > 0 => r[i] < r[j]

(* From the oldest line that is kept on, every line is kept. *)
Latest(r, n) ==
  \A i \in Slots : r[i] > 0 => \A k \in r[i] .. n : \E j \in Slots : r[j] = k

(* PushTailShowText keeps the latest lines, in the order in which they     *)
(* were pushed, from the top to the bottom of the window, whatever the     *)
(* rows held at the start, until the window is made narrower.              *)
LatestInOrder == ~narrowed => InOrder(rows) /\ Latest(rows, pushed)

(* PushTailShowText fills rows that ShowText does not draw in a window of  *)
(* the usual width: the user sees a line at the latest when as many more   *)
(* have been pushed as there are spare rows, if the rows began empty.      *)
DrawnSoon ==
  [][pushed' # pushed /\ magnification >= 1 /\ ~narrowed /\ clean =>
       \/ pushed' <= Spare
       \/ \E i \in Drawn : rows'[i] >= pushed' - Spare]_textVars
=============================================================================

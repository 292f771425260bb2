------------------------------- MODULE Settings -------------------------------
(***************************************************************************)
(* The camera's speed and number: the file param.ini, the two dialogs that *)
(* write it, the members of CDataSimulatorDlg and of its Communicator that *)
(* are copied from it, and what the window shows of them.                  *)
(*                                                                         *)
(* A speed is in units of 1/10000.  The file holds two decimals of it, so  *)
(* a multiple of Shown; a key the file does not have reads as 0.           *)
(***************************************************************************)
EXTENDS Integers

CONSTANTS
  FileSpeeds,  \* the speed in the file when the program starts
  Typed,       \* the speeds a user types
  FileNumbers, \* the camera's number in the file when the program starts
  TypedNumbers \* what a user types as camera number

Cameras == 1 .. 4   \* cameras A to D
Nobody == 0         \* the title before a camera has been named
Nothing == -1       \* no thread has been started
Shown == 100
MinInt == -2147483647 - 1

(* What "%.2f" keeps of a speed; no speed of the runs lies half-way.       *)
Rounded(x) == ((x + Shown \div 2) \div Shown) * Shown

ASSUME SpeedsAssumption ==
  /\ Typed \subseteq Int /\ \A x \in FileSpeeds : x \in Int /\ Rounded(x) = x
  /\ FileNumbers \subseteq Int /\ TypedNumbers \subseteq Int

VARIABLES
  iniSpeed,    \* scan_speed in param.ini
  iniNumber,   \* camera_serial_number in param.ini
  shownSpeed,  \* CDataSimulatorDlg::camera_scan_speed
  usedSpeed,   \* Communicator::camera_scan_speed
  number,      \* CDataSimulatorDlg::camera_serial_number
  title,       \* the camera in the window's title
  box,         \* the network dialog: its letter and its number, or closed
  sendsAs,     \* the camera number the last thread was started with
  confirmed,   \* history: the last speed confirmed has reached the file
  renamed,     \* history: a number was confirmed since a thread was started
  foreign      \* history: another simulator beside this one wrote the file

settingsVars == <<iniSpeed, iniNumber, shownSpeed, usedSpeed, number, title, box, sendsAs,
                  confirmed, renamed, foreign>>
speedVars == <<iniSpeed, shownSpeed, usedSpeed, confirmed>>

Closed == [letter |-> Nothing, number |-> Nothing]
Boxes == [letter : Cameras \cup {Nobody}, number : Int]

SettingsTypeOK ==
  /\ iniSpeed \in {Rounded(x) : x \in Typed} \cup FileSpeeds
  /\ shownSpeed \in {Rounded(x) : x \in Typed} \cup FileSpeeds
  /\ usedSpeed \in Typed \cup {10000}
  /\ iniNumber \in Int /\ number \in Int
  /\ title \in Cameras \cup {Nobody}
  /\ box \in Boxes \cup {Closed}
  /\ sendsAs \in Int
  /\ confirmed \in BOOLEAN /\ renamed \in BOOLEAN /\ foreign \in BOOLEAN

(* Mutant: the switch has a default that takes the number as it is. *)
MutTitleFor(n) == n

(* The title is changed for the four cameras only. *)
TitleFor(n) == IF n \in Cameras THEN n ELSE title

(* The constructor and OnInitDialog, which ends with the handler of the    *)
(* batch load box.  The communicator keeps the constructor's speed.        *)
SettingsInit ==
  /\ iniSpeed \in FileSpeeds /\ iniNumber \in FileNumbers
  /\ shownSpeed = iniSpeed
  /\ usedSpeed = 10000
  /\ number = iniNumber
  /\ title = IF number \in Cameras THEN number ELSE Nobody
  /\ box = Closed
  /\ sendsAs = Nothing
  /\ confirmed = FALSE /\ renamed = FALSE /\ foreign = FALSE

-----------------------------------------------------------------------------
(* The speed dialog, confirmed with OK.  Whether WritePrivateProfileString *)
(* succeeded is not looked at.                                             *)
Ready == box = Closed

(* Mutant: the communicator is given the member that holds whole numbers. *)
MutOnBnClickedScanSpeedSetting ==
  /\ Ready
  /\ \E speed \in Typed, written \in BOOLEAN :
       /\ iniSpeed' = IF written THEN Rounded(speed) ELSE iniSpeed
       /\ shownSpeed' = iniSpeed'
       /\ usedSpeed' = (speed \div 10000) * 10000
       /\ confirmed' = written
  /\ number' = iniNumber
  /\ UNCHANGED <<iniNumber, title, box, sendsAs, renamed, foreign>>

OnBnClickedScanSpeedSetting ==
  /\ Ready
  /\ \E speed \in Typed, written \in BOOLEAN :
       /\ iniSpeed' = IF written THEN Rounded(speed) ELSE iniSpeed
       /\ shownSpeed' = iniSpeed'
       /\ usedSpeed' = speed
       /\ confirmed' = written
  /\ number' = iniNumber
  /\ UNCHANGED <<iniNumber, title, box, sendsAs, renamed, foreign>>

-----------------------------------------------------------------------------
(* The network dialog.  It opens with the letter A, and puts the letter of *)
(* the file's number in its place only if that is one of the cameras.      *)
OpenNetworkSetting ==
  /\ Ready
  /\ box' = [letter |-> IF iniNumber \in Cameras THEN iniNumber ELSE 1,
             number |-> iniNumber]
  /\ UNCHANGED <<speedVars, iniNumber, number, title, sendsAs, renamed, foreign>>

(* A letter changes the number, to 0 if it is not one of the cameras'. *)
OnEnChangeSimulateCamera ==
  /\ ~Ready
  /\ \E letter \in Cameras \cup {Nobody} : box' = [letter |-> letter, number |-> letter]
  /\ UNCHANGED <<speedVars, iniNumber, number, title, sendsAs, renamed, foreign>>

TypeNumber ==
  /\ ~Ready
  /\ \E n \in TypedNumbers : box' = [box EXCEPT !.number = n]
  /\ UNCHANGED <<speedVars, iniNumber, number, title, sendsAs, renamed, foreign>>

CancelNetworkSetting ==
  /\ ~Ready
  /\ box' = Closed
  /\ UNCHANGED <<speedVars, iniNumber, number, title, sendsAs, renamed, foreign>>

(* Mutant: the main window keeps the number the dialog returned. *)
MutOnBnClickedNetworkSetting ==
  /\ ~Ready
  /\ \E written \in BOOLEAN : iniNumber' = IF written THEN box.number ELSE iniNumber
  /\ number' = box.number
  /\ title' = TitleFor(number')
  /\ shownSpeed' = iniSpeed
  /\ box' = Closed
  /\ renamed' = (renamed \/ number' # sendsAs)
  /\ UNCHANGED <<iniSpeed, usedSpeed, sendsAs, confirmed, foreign>>

(* OK: the dialog writes the number, the main window reads what the file   *)
(* has by now, which is the old number if the write has failed.            *)
OnBnClickedNetworkSetting ==
  /\ ~Ready
  /\ \E written \in BOOLEAN : iniNumber' = IF written THEN box.number ELSE iniNumber
  /\ number' = iniNumber'
  /\ title' = TitleFor(number')
  /\ shownSpeed' = iniSpeed
  /\ box' = Closed
  /\ renamed' = (renamed \/ number' # sendsAs)
  /\ UNCHANGED <<iniSpeed, usedSpeed, sendsAs, confirmed, foreign>>

-----------------------------------------------------------------------------
(* The two load check boxes: only the first sets the title. *)
OnBnClickedCheckBatchLoad ==
  /\ Ready
  /\ number' = iniNumber
  /\ title' = TitleFor(number')
  /\ UNCHANGED <<speedVars, iniNumber, box, sendsAs, renamed, foreign>>

(* START reads the file again and hands the number to the thread. *)
OnBnClickedStartNetserver ==
  /\ Ready
  /\ number' = iniNumber
  /\ sendsAs' = number'
  /\ renamed' = FALSE
  /\ UNCHANGED <<speedVars, iniNumber, title, box, foreign>>

(* param.ini lies beside the program: another simulator started from there *)
(* writes the same file.                                                   *)
OtherSimulatorWrites ==
  /\ \E n \in TypedNumbers : n # iniNumber /\ iniNumber' = n
  /\ foreign' = TRUE
  /\ UNCHANGED <<speedVars, number, title, box, sendsAs, renamed>>

SettingsNext ==
  \/ OnBnClickedScanSpeedSetting
  \/ OpenNetworkSetting
  \/ OnEnChangeSimulateCamera
  \/ TypeNumber
  \/ CancelNetworkSetting
  \/ OnBnClickedNetworkSetting
  \/ OnBnClickedCheckBatchLoad
  \/ OnBnClickedStartNetserver
  \/ OtherSimulatorWrites

SettingsSpec == SettingsInit /\ [][SettingsNext]_settingsVars

-----------------------------------------------------------------------------
(* The pause after an image.                                               *)

(* C's division and conversion of 100 / speed to int, whose cut-off of an  *)
(* infinite quotient is the smallest int on the processors of the build.   *)
Milliseconds(x) ==
  IF x = 0 THEN MinInt
  ELSE IF x > 0 THEN (100 * 10000) \div x ELSE -((100 * 10000) \div (-x))

(* Sleep takes an unsigned number: a negative one is weeks.                *)
Weeks == 2147483647

(* A client calls sleep_for, for which a negative time is over already.    *)
ClientPause(x) == IF Milliseconds(x) < 0 THEN 0 ELSE Milliseconds(x)
ServerPause(x) == IF Milliseconds(x) < 0 THEN Weeks ELSE Milliseconds(x)

(* A speed that has been confirmed and has reached the file, and of which  *)
(* the window shows more than 0.00, is the one images are sent with, and   *)
(* the pause after an image is at most the 20 seconds of 0.005.            *)
PauseFitsSpeedShown ==
  confirmed /\ shownSpeed > 0 =>
    /\ shownSpeed = Rounded(usedSpeed)
    /\ ClientPause(usedSpeed) <= 20000
    /\ ServerPause(usedSpeed) = ClientPause(usedSpeed)

(* As long as no other simulator wrote the file, a thread started as one   *)
(* of the four cameras is the one in the title, until the user confirms    *)
(* another number while it runs.                                           *)
TitleTellsCamera ==
  ~foreign /\ ~renamed /\ sendsAs \in Cameras => title = sendsAs
=============================================================================

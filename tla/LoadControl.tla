----------------------------- MODULE LoadControl -----------------------------
(***************************************************************************)
(* The user-interface thread of CDataSimulatorDlg: the check boxes and     *)
(* buttons that choose how images are loaded, which side sends them, and   *)
(* which controls may be clicked.                                          *)
(*                                                                         *)
(* The three static flags of aq::Communicator that these handlers write    *)
(* are read and written by the sender threads at the same time without a   *)
(* lock, so a handler hands its assignments to "writes" and WriteFlag      *)
(* performs them one by one, in the order of the source.  Everything else  *)
(* a handler touches belongs to the user-interface thread alone and        *)
(* changes with the click.                                                 *)
(***************************************************************************)
EXTENDS Integers, Sequences

CONSTANT Clicks  \* the controls the user touches, a bound for the runs

VARIABLES
  load,         \* batch_image_load, single_image_load, last_image_load
  writes,       \* assignments the running handler has still to perform
  batchChecked, \* m_checkBatchLoad; m_checkSingleLoad is its negation
  clientMode,   \* m_bClientMode; m_bServerMode is its negation
  clientSend,   \* m_bClientSendMode; m_bServerSendMode is its negation
  enabled,      \* which controls EnableWindow has left enabled
  reenabled     \* history: a mode check box enabled a disabled START

dialogVars ==
  <<load, writes, batchChecked, clientMode, clientSend, enabled, reenabled>>

Flags == {"batch", "single", "last"}

(* LOAD stands for the five controls that are always switched together:   *)
(* scan speed, file list, the two load check boxes, image sending start.  *)
Buttons == {"START", "NEXT", "PREVIOUS", "LOAD"}

LoadTypeOK ==
  /\ load \in [Flags -> BOOLEAN]
  /\ writes \in Seq(Flags \X BOOLEAN)
  /\ batchChecked \in BOOLEAN
  /\ clientMode \in BOOLEAN
  /\ clientSend \in BOOLEAN
  /\ enabled \in [Buttons -> BOOLEAN]
  /\ reenabled \in BOOLEAN

(* After OnInitDialog: client mode, client send, batch load checked, whose *)
(* handler leaves NEXT and PREVIOUS disabled.                              *)
LoadInit ==
  /\ load = [f \in Flags |-> f = "batch"]
  /\ writes = <<>>
  /\ batchChecked = TRUE
  /\ clientMode = TRUE
  /\ clientSend = TRUE
  /\ enabled = [b \in Buttons |-> b \in {"START", "LOAD"}]
  /\ reenabled = FALSE

-----------------------------------------------------------------------------
(* The user-interface thread runs one handler at a time. *)
UIReady == writes = <<>>

(* Mutant: the dropped assignment of WriteFlag's "FALSE" values. *)
MutWriteFlag ==
  /\ ~UIReady
  /\ load' = [load EXCEPT ![Head(writes)[1]] = Head(writes)[2] \/ @]
  /\ writes' = Tail(writes)
  /\ UNCHANGED <<batchChecked, clientMode, clientSend, enabled, reenabled>>

WriteFlag ==
  /\ ~UIReady
  /\ load' = [load EXCEPT ![Head(writes)[1]] = Head(writes)[2]]
  /\ writes' = Tail(writes)
  /\ UNCHANGED <<batchChecked, clientMode, clientSend, enabled, reenabled>>

(* The two load check boxes: the click has flipped the box, the handler    *)
(* flips the other one.                                                    *)
OnBnClickedCheckBatchLoad ==
  /\ UIReady
  /\ "BATCH_LOAD" \in Clicks /\ enabled["LOAD"]
  /\ batchChecked' = ~batchChecked
  /\ writes' = << <<"batch", batchChecked'>>, <<"single", ~batchChecked'>>,
                  <<"last", FALSE>> >>
  /\ enabled' = [enabled EXCEPT !["NEXT"] = ~batchChecked',
                                !["PREVIOUS"] = ~batchChecked']
  /\ UNCHANGED <<load, clientMode, clientSend, reenabled>>

OnBnClickedCheckSingleLoad ==
  /\ UIReady
  /\ "SINGLE_LOAD" \in Clicks /\ enabled["LOAD"]
  /\ batchChecked' = ~batchChecked
  /\ writes' = << <<"batch", batchChecked'>>, <<"single", ~batchChecked'>>,
                  <<"last", FALSE>> >>
  /\ enabled' = [enabled EXCEPT !["NEXT"] = ~batchChecked',
                                !["PREVIOUS"] = FALSE]
  /\ UNCHANGED <<load, clientMode, clientSend, reenabled>>

OnBnClickedImageSendingStart ==
  /\ UIReady
  /\ "SENDING_START" \in Clicks /\ enabled["LOAD"]
  /\ batchChecked' = TRUE
  /\ writes' = << <<"batch", TRUE>>, <<"single", FALSE>> >>
  /\ UNCHANGED <<load, clientMode, clientSend, enabled, reenabled>>

OnBnClickedImageNext ==
  /\ UIReady
  /\ "NEXT" \in Clicks /\ enabled["NEXT"]
  /\ batchChecked' = FALSE
  /\ writes' = << <<"single", TRUE>>, <<"last", FALSE>>, <<"batch", FALSE>> >>
  /\ UNCHANGED <<load, clientMode, clientSend, enabled, reenabled>>

OnBnClickedImagePrevious ==
  /\ UIReady
  /\ "PREVIOUS" \in Clicks /\ enabled["PREVIOUS"]
  /\ batchChecked' = FALSE
  /\ writes' = << <<"single", FALSE>>, <<"last", TRUE>>, <<"batch", FALSE>> >>
  /\ UNCHANGED <<load, clientMode, clientSend, enabled, reenabled>>

-----------------------------------------------------------------------------
(* What every mode check box handler ends with: the load controls are      *)
(* enabled on the side that sends, START always.                           *)
ShowModeControls(client, cSend) ==
  enabled' = [b \in Buttons |-> b = "START" \/ client = cSend]

(* Client mode / server mode: either check box flips the pair. *)
OnBnClickedCheckModeSelect ==
  /\ UIReady
  /\ "MODE_SELECT" \in Clicks
  /\ clientMode' = ~clientMode
  /\ ShowModeControls(clientMode', clientSend)
  /\ reenabled' = (reenabled \/ ~enabled["START"])
  /\ UNCHANGED <<load, writes, batchChecked, clientSend>>

(* Client send / server send: either check box flips the pair. *)
OnBnClickedCheckClientSend ==
  /\ UIReady
  /\ "CLIENT_SEND" \in Clicks
  /\ clientSend' = ~clientSend
  /\ ShowModeControls(clientMode, clientSend')
  /\ reenabled' = (reenabled \/ ~enabled["START"])
  /\ UNCHANGED <<load, writes, batchChecked, clientMode>>

LoadNext ==
  \/ WriteFlag
  \/ OnBnClickedCheckBatchLoad
  \/ OnBnClickedCheckSingleLoad
  \/ OnBnClickedImageSendingStart
  \/ OnBnClickedImageNext
  \/ OnBnClickedImagePrevious
  \/ OnBnClickedCheckModeSelect
  \/ OnBnClickedCheckClientSend
=============================================================================

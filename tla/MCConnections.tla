---------------------------- MODULE MCConnections ----------------------------
(***************************************************************************)
(* Five parts of the program's connections that share nothing, in one run: *)
(* CameraSession, FrameReception, CameraMessage, ImageExchange and         *)
(* AcceptLoops.  In each behaviour one of them moves and the others rest,  *)
(* which is enough, for no action of one reads or writes a variable of     *)
(* another.  Of messages every sequence of up to MaxCalls calls is taken.  *)
(***************************************************************************)
EXTENDS CameraSession, FrameReception, CameraMessage, ImageExchange, AcceptLoops

CONSTANT MaxCalls  \* bound on the calls of messages

VARIABLES
  part,  \* the part that moves
  calls  \* calls of messages so far

mcVars == <<part, calls, vars, receptionVars, messageVars, exchangeVars, acceptLoopVars>>

(* The parts that rest begin in one state each. *)
MCInit ==
  /\ part \in {"camera", "reception", "message", "exchange", "accept"} /\ calls = 0
  /\ Init
  /\ ReceptionInit /\ (part # "reception" => atFrame)
  /\ MessageInit
  /\ ExchangeInit /\ (part # "exchange" => peer = "box")
  /\ AcceptInit

MCNext ==
  \/ /\ part = "camera" /\ Next
     /\ UNCHANGED <<part, calls, receptionVars, messageVars, exchangeVars, acceptLoopVars>>
  \/ /\ part = "reception" /\ ReceptionNext
     /\ UNCHANGED <<part, calls, vars, messageVars, exchangeVars, acceptLoopVars>>
  \/ /\ part = "message" /\ calls < MaxCalls /\ calls' = calls + 1 /\ MessageNext
     /\ UNCHANGED <<part, vars, receptionVars, exchangeVars, acceptLoopVars>>
  \/ /\ part = "exchange" /\ ExchangeNext
     /\ UNCHANGED <<part, calls, vars, receptionVars, messageVars, acceptLoopVars>>
  \/ /\ part = "accept" /\ AcceptNext
     /\ UNCHANGED <<part, calls, vars, receptionVars, messageVars, exchangeVars>>

(* The fairness of FairExchangeSpec, for the part that has a liveness      *)
(* property.                                                               *)
Exchange(A) ==
  /\ part = "exchange" /\ ~crashed /\ A
  /\ UNCHANGED <<part, calls, vars, receptionVars, messageVars, acceptLoopVars>>

MCSpec ==
  /\ MCInit /\ [][MCNext]_mcVars
  /\ WF_mcVars(Exchange(ClientStep))
  /\ WF_mcVars(Exchange(ReceiverStep))
=============================================================================

------------------------------- MODULE MCDialog -------------------------------
(***************************************************************************)
(* The three parts of the dialog that share nothing, in one run:           *)
(* DisplayMessages, TextWindow and Settings.  In each behaviour one of     *)
(* them moves and the others rest, which is enough, for no action of one   *)
(* reads or writes a variable of another.                                  *)
(***************************************************************************)
EXTENDS DisplayMessages, TextWindow, Settings, TLC

VARIABLE part

mcVars == <<part, vars, textVars, settingsVars>>

(* What the rows begin with. *)
Anything == {Empty, Garbage}

(* 0.0049 and 0.0051 lie on both sides of what two decimals can show. *)
SomeSpeeds == {0, 49, 51, 12345}

MCInit ==
  /\ part \in {"messages", "text", "settings"}
  /\ Init
  /\ TextInit /\ (part # "text" => clean)
  /\ SettingsInit

MCNext ==
  /\ UNCHANGED part
  /\ \/ part = "messages" /\ Next /\ UNCHANGED <<textVars, settingsVars>>
     \/ part = "text" /\ TextNext /\ UNCHANGED <<vars, settingsVars>>
     \/ part = "settings" /\ SettingsNext /\ UNCHANGED <<vars, textVars>>

MCSpec == MCInit /\ [][MCNext]_mcVars

Symmetry == Permutations(Threads) \cup Permutations(Texts)
=============================================================================

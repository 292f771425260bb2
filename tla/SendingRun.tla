------------------------------ MODULE SendingRun ------------------------------
(***************************************************************************)
(* What a run of a thread that sends images promises, whatever sockets,    *)
(* flags and buffers it uses: it takes the length of the list, walks       *)
(* through the list one place at a time, leaves no image before it has     *)
(* dealt with it, and reports the end only when no image is left.          *)
(*                                                                         *)
(* ImageSender and ImageServer are shown to implement it.                  *)
(***************************************************************************)
EXTENDS Integers

CONSTANT Senders

VARIABLES
  phase,   \* what the sender is at
  total,   \* length of the list it works on
  at,      \* its place in the list, -1 before the first image
  left,    \* the images it has not dealt with
  outcome  \* how its last run ended

vars == <<phase, total, at, left, outcome>>

TypeOK ==
  /\ phase \in [Senders -> {"idle", "connecting", "walking"}]
  /\ total \in [Senders -> Nat]
  /\ at \in [Senders -> Int]
  /\ left \in [Senders -> SUBSET Nat]
  /\ outcome \in [Senders -> {"none", "done", "failed"}]

Init ==
  /\ phase = [s \in Senders |-> "idle"]
  /\ total = [s \in Senders |-> 0]
  /\ at = [s \in Senders |-> -1]
  /\ left = [s \in Senders |-> {}]
  /\ outcome = [s \in Senders |-> "none"]

Begin(s) ==
  /\ phase[s] = "idle"
  /\ phase' = [phase EXCEPT ![s] = "connecting"]
  /\ outcome' = [outcome EXCEPT ![s] = "none"]
  /\ UNCHANGED <<total, at, left>>

TakeList(s) ==
  /\ phase[s] = "connecting"
  /\ phase' = [phase EXCEPT ![s] = "walking"]
  /\ total'[s] \in Nat
  /\ total' = [total EXCEPT ![s] = total'[s]]
  /\ left' = [left EXCEPT ![s] = 0 .. total'[s] - 1]
  /\ UNCHANGED <<at, outcome>>

(* One place forwards, or, at the user's wish, back. *)
Move(s) ==
  /\ phase[s] = "walking"
  /\ at[s] \notin left[s]
  /\ \/ at[s] + 1 < total[s] /\ at' = [at EXCEPT ![s] = @ + 1]
     \/ at[s] >= 1 /\ at' = [at EXCEPT ![s] = @ - 1]
  /\ UNCHANGED <<phase, total, left, outcome>>

Deal(s) ==
  /\ phase[s] = "walking"
  /\ left' = [left EXCEPT ![s] = @ \ {at[s]}]
  /\ UNCHANGED <<phase, total, at, outcome>>

Finish(s, how) ==
  /\ phase' = [phase EXCEPT ![s] = "idle"]
  /\ total' = [total EXCEPT ![s] = 0]
  /\ at' = [at EXCEPT ![s] = -1]
  /\ left' = [left EXCEPT ![s] = {}]
  /\ outcome' = [outcome EXCEPT ![s] = how]

Report(s) ==
  /\ phase[s] = "walking"
  /\ left[s] = {}
  /\ Finish(s, "done")

BreakOff(s) ==
  /\ phase[s] # "idle"
  /\ Finish(s, "failed")

Next ==
  \E s \in Senders :
    Begin(s) \/ TakeList(s) \/ Move(s) \/ Deal(s) \/ Report(s) \/ BreakOff(s)

Spec == Init /\ [][Next]_vars
=============================================================================

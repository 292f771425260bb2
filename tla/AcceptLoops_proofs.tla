-------------------------- MODULE AcceptLoops_proofs --------------------------
(***************************************************************************)
(* Theorems about AcceptLoops, for any loops and any bound on the sockets: *)
(* the type invariant, and that with one START every thread has the socket *)
(* of its own connection.                                                  *)
(***************************************************************************)
EXTENDS AcceptLoops, SequenceTheorems, TLAPS

(* The socket is in no thread's hands. *)
Unassigned(s) == \A i \in DOMAIN threads : threads[i][1] # s

(* Before the first START nothing exists; after one START a single loop    *)
(* moves, and the socket it works on is the member, not yet connected      *)
(* until accept has returned, and nobody else's.                           *)
BeforeStart == starts = 0 => /\ \A l \in Loops : at[l] = "idle"
                             /\ threads = <<>>
SingleLoop == \A k, l \in Loops : at[k] # "idle" /\ at[l] # "idle" => k = l
Awaited == \A l \in Loops : at[l] \in {"listen", "call", "wait"} => socket_ \notin open
Accepted == \A l \in Loops : at[l] = "spawn" => socket_ \in open
Same == \A l \in Loops : at[l] \in {"wait", "spawn"} => peer_[l] = socket_
Fresh == \A l \in Loops : at[l] \in {"listen", "call", "wait", "spawn"} => Unassigned(socket_)

(* What is true as long as START was clicked at most once. *)
OneStart ==
  /\ ~failed
  /\ SingleLoop
  /\ Awaited
  /\ Accepted
  /\ Same
  /\ Fresh
  /\ \A i \in DOMAIN threads : threads[i][1] = threads[i][2] /\ threads[i][1] \in open
  /\ \A i, j \in DOMAIN threads : i # j => threads[i][1] # threads[j][1]

(* AcceptTypeOK says of a waiting loop that it has a socket; before that,  *)
(* so has the member. *)
Begun == \A l \in Loops : at[l] \notin {"idle", "create"} => socket_ # 0

AcceptInv == AcceptTypeOK /\ Begun /\ BeforeStart /\ (starts <= 1 => OneStart)

LEMMA AcceptInitInv == AcceptInit => AcceptInv
<1> SUFFICES ASSUME AcceptInit PROVE AcceptInv
  OBVIOUS
<1>1. AcceptTypeOK
  <2>1. threads \in Seq(Sockets \X Sockets)
    BY DEF AcceptInit
  <2>2. peer_ \in [Loops -> 0 .. created] /\ socket_ \in 0 .. created
    BY DEF AcceptInit
  <2>3. created \in 0 .. MaxSockets /\ starts \in Nat
    BY AcceptAssumption DEF AcceptInit
  <2>4. at \in [Loops -> {"idle", "create", "listen", "call", "wait", "spawn"}]
    BY DEF AcceptInit
  <2>5. \A l \in Loops : at[l] \notin {"wait", "spawn"}
    BY DEF AcceptInit
  <2> QED
    BY <2>1, <2>2, <2>3, <2>4, <2>5 DEF AcceptInit, AcceptTypeOK
<1>2. Begun /\ BeforeStart
  BY DEF AcceptInit, Begun, BeforeStart
<1>3. OneStart
  BY DEF AcceptInit, OneStart, SingleLoop, Awaited, Accepted, Same, Fresh, Unassigned
<1> QED
  BY <1>1, <1>2, <1>3 DEF AcceptInv

LEMMA TypeStep == ASSUME AcceptInv, AcceptNext
                  PROVE  AcceptTypeOK' /\ Begun'
<1> USE DEF AcceptInv
<1> USE AcceptAssumption
<1>1. CASE StartClient
  BY <1>1 DEF StartClient, NewSocket, AcceptTypeOK, Begun, Sockets
<1>2. ASSUME NEW l \in Loops, StartServer(l) PROVE AcceptTypeOK' /\ Begun'
  BY <1>2 DEF StartServer, Step, AcceptTypeOK, Begun, Sockets
<1>3. ASSUME NEW l \in Loops, Create(l) PROVE AcceptTypeOK' /\ Begun'
  BY <1>3 DEF Create, Step, NewSocket, AcceptTypeOK, Begun, Sockets
<1>4. ASSUME NEW l \in Loops, Listen(l) PROVE AcceptTypeOK' /\ Begun'
  BY <1>4 DEF Listen, Step, AcceptTypeOK, Begun, Sockets
<1>5. ASSUME NEW l \in Loops, CallAccept(l) PROVE AcceptTypeOK' /\ Begun'
  BY <1>5 DEF CallAccept, Step, AcceptTypeOK, Begun, Sockets
<1>6. ASSUME NEW l \in Loops, AcceptReturns(l) PROVE AcceptTypeOK' /\ Begun'
  <2>1. peer_[l] \in 1 .. created
    BY <1>6 DEF AcceptReturns, Step, AcceptTypeOK
  <2>2. open' \subseteq 1 .. created'
    BY <1>6, <2>1 DEF AcceptReturns, AcceptTypeOK
  <2>3. failed' \in BOOLEAN
    BY <1>6 DEF AcceptReturns
  <2> QED
    BY <1>6, <2>2, <2>3 DEF AcceptReturns, Step, AcceptTypeOK, Begun
<1>7. ASSUME NEW l \in Loops, Spawn(l) PROVE AcceptTypeOK' /\ Begun'
  <2>1. <<socket_, peer_[l]>> \in Sockets \X Sockets
    <3>1. socket_ \in 0 .. created /\ created \in 0 .. MaxSockets /\ peer_[l] \in 0 .. created
      BY DEF AcceptTypeOK
    <3>2. socket_ # 0 /\ peer_[l] # 0
      BY <1>7 DEF Spawn, Step, AcceptTypeOK, Begun
    <3>3. socket_ \in Sockets /\ peer_[l] \in Sockets
      BY <3>1, <3>2 DEF Sockets
    <3> QED
      BY <3>3
  <2>2. threads' \in Seq(Sockets \X Sockets)
    BY <1>7, <2>1, AppendProperties DEF Spawn, AcceptTypeOK
  <2> QED
    BY <1>7, <2>2 DEF Spawn, Step, AcceptTypeOK, Begun, Sockets
<1> QED
  BY <1>1, <1>2, <1>3, <1>4, <1>5, <1>6, <1>7 DEF AcceptNext

LEMMA BeforeStep == ASSUME AcceptInv, AcceptNext
                    PROVE  BeforeStart'
<1>1. starts \in Nat /\ starts' \in {starts, starts + 1}
  BY DEF AcceptInv, AcceptTypeOK, AcceptNext, StartClient, StartServer, Create, Listen,
         CallAccept, AcceptReturns, Spawn
<1>2. starts' = 0 => starts = 0 /\ \A l \in Loops : at[l] = "idle"
  BY <1>1 DEF AcceptInv, BeforeStart
<1>3. starts' = 0 => FALSE
  BY <1>1, <1>2 DEF AcceptNext, StartClient, StartServer, Create, Listen,
         CallAccept, AcceptReturns, Spawn, Step
<1> QED
  BY <1>3 DEF BeforeStart

(* What a step of a loop needs to know of the loops: that the others rest. *)
LEMMA OthersRest == ASSUME AcceptInv, starts <= 1, NEW l \in Loops, at[l] # "idle"
                    PROVE  \A k \in Loops : k # l => at[k] = "idle"
BY DEF AcceptInv, OneStart, SingleLoop

LEMMA OneStartStep == ASSUME AcceptInv, AcceptNext, starts' <= 1
                      PROVE  OneStart'
<1> USE AcceptAssumption
<1>0. starts <= 1 /\ AcceptTypeOK /\ Begun /\ OneStart
  <2>1. starts \in Nat /\ starts' \in {starts, starts + 1}
    BY DEF AcceptInv, AcceptTypeOK, AcceptNext, StartClient, StartServer, Create, Listen,
           CallAccept, AcceptReturns, Spawn
  <2> QED
    BY <2>1 DEF AcceptInv
<1> USE <1>0
<1> DEFINE Others(l) == \A k \in Loops : k # l => at[k] = "idle" /\ at'[k] = "idle"
           Owned == /\ \A i \in DOMAIN threads : /\ threads[i][1] = threads[i][2]
                                                /\ threads[i][1] \in open
                    /\ \A i, j \in DOMAIN threads : i # j => threads[i][1] # threads[j][1]
<1>a. Owned
  BY DEF OneStart
<1>1. CASE StartClient \/ \E l \in Loops : StartServer(l)
  <2>1. starts = 0
    BY <1>1 DEF StartClient, StartServer, AcceptTypeOK
  <2>2. (\A l \in Loops : at[l] = "idle") /\ threads = <<>> /\ ~failed
    BY <2>1 DEF AcceptInv, BeforeStart, OneStart
  <2>3. threads' = <<>> /\ ~failed'
    BY <1>1, <2>2 DEF StartClient, StartServer
  <2>4. CASE StartClient
    <3>1. \A l \in Loops : at'[l] = "idle"
      BY <2>2, <2>4 DEF StartClient
    <3> QED
      BY <2>3, <3>1 DEF OneStart, SingleLoop, Awaited, Accepted, Same, Fresh, Unassigned
  <2>5. ASSUME NEW l \in Loops, StartServer(l) PROVE OneStart'
    <3>1. \A k \in Loops : at'[k] = IF k = l THEN "create" ELSE "idle"
      BY <2>2, <2>5 DEF StartServer, Step, AcceptTypeOK
    <3> QED
      BY <2>3, <3>1 DEF OneStart, SingleLoop, Awaited, Accepted, Same, Fresh, Unassigned
  <2> QED
    BY <1>1, <2>4, <2>5
<1>2. ASSUME NEW l \in Loops, Create(l) PROVE OneStart'
  <2>1. Others(l) /\ at'[l] = "listen"
    BY <1>2, OthersRest DEF Create, Step, AcceptTypeOK
  <2>2. socket_' \notin open /\ open' = open /\ threads' = threads /\ ~failed'
    BY <1>2 DEF Create, NewSocket, AcceptTypeOK, OneStart
  <2>3. \A i \in DOMAIN threads : threads[i][1] # socket_'
    BY <1>a, <2>2
  <2> QED
    BY <1>a, <2>1, <2>2, <2>3
    DEF OneStart, SingleLoop, Awaited, Accepted, Same, Fresh, Unassigned
<1>3. ASSUME NEW l \in Loops, Listen(l) PROVE OneStart'
  <2>1. Others(l) /\ at'[l] = "call"
    BY <1>3, OthersRest DEF Listen, Step, AcceptTypeOK
  <2>2. ~failed' /\ UNCHANGED <<socket_, open, peer_, threads>>
    BY <1>3, <2>1 DEF Listen
  <2> QED
    BY <1>3, <1>a, <2>1, <2>2
    DEF Listen, Step, OneStart, SingleLoop, Awaited, Accepted, Same, Fresh, Unassigned
<1>4. ASSUME NEW l \in Loops, CallAccept(l) PROVE OneStart'
  <2>1. Others(l) /\ at'[l] = "wait"
    BY <1>4, OthersRest DEF CallAccept, Step, AcceptTypeOK
  <2>2. socket_ \notin open /\ peer_'[l] = socket_
    BY <1>4 DEF CallAccept, Step, OneStart, Awaited, AcceptTypeOK
  <2>3. ~failed' /\ UNCHANGED <<socket_, open, threads>>
    BY <1>4, <2>2 DEF CallAccept
  <2> QED
    BY <1>4, <1>a, <2>1, <2>2, <2>3
    DEF CallAccept, Step, OneStart, SingleLoop, Awaited, Accepted, Same, Fresh, Unassigned
<1>5. ASSUME NEW l \in Loops, AcceptReturns(l) PROVE OneStart'
  <2>1. Others(l) /\ at'[l] = "spawn"
    BY <1>5, OthersRest DEF AcceptReturns, Step, AcceptTypeOK
  <2>2. socket_ \notin open /\ peer_[l] = socket_
    BY <1>5 DEF AcceptReturns, Step, OneStart, Awaited, Same
  <2>3. ~failed' /\ UNCHANGED <<socket_, peer_, threads>> /\ open' = open \cup {socket_}
    BY <1>5, <2>2 DEF AcceptReturns
  <2> QED
    BY <1>5, <1>a, <2>1, <2>2, <2>3
    DEF AcceptReturns, Step, OneStart, SingleLoop, Awaited, Accepted, Same, Fresh, Unassigned
<1>6. ASSUME NEW l \in Loops, Spawn(l) PROVE OneStart'
  <2>1. Others(l) /\ at'[l] = "create"
    BY <1>6, OthersRest DEF Spawn, Step, AcceptTypeOK
  <2>2. socket_ \in open /\ peer_[l] = socket_ /\ Unassigned(socket_)
    BY <1>6 DEF Spawn, Step, OneStart, Accepted, Same, Fresh
  <2>3. ~failed' /\ UNCHANGED <<socket_, open, peer_>>
    BY <1>6 DEF Spawn, OneStart
  <2>4. threads' = Append(threads, <<socket_, socket_>>) /\ threads \in Seq(Sockets \X Sockets)
    BY <1>6, <2>2 DEF Spawn, AcceptTypeOK
  <2>5. /\ DOMAIN threads = 1 .. Len(threads) /\ Len(threads) \in Nat
        /\ DOMAIN threads' = 1 .. Len(threads) + 1
        /\ threads'[Len(threads) + 1] = <<socket_, socket_>>
        /\ \A i \in DOMAIN threads : threads'[i] = threads[i]
    <3>1. \A i \in 1 .. Len(threads) : threads'[i] = threads[i]
      BY <2>4
    <3> QED
      BY <2>4, <3>1
  <2>6. Owned'
    BY <1>a, <2>2, <2>3, <2>5 DEF Unassigned
  <2> QED
    BY <2>1, <2>3, <2>6 DEF OneStart, SingleLoop, Awaited, Accepted, Same, Fresh
<1> QED
  BY <1>1, <1>2, <1>3, <1>4, <1>5, <1>6 DEF AcceptNext

LEMMA AcceptInvariance == AcceptSpec => []AcceptInv
<1>1. AcceptInv /\ [AcceptNext]_acceptLoopVars => AcceptInv'
  <2>1. ASSUME AcceptInv, AcceptNext PROVE AcceptInv'
    BY <2>1, TypeStep, BeforeStep, OneStartStep DEF AcceptInv
  <2>2. ASSUME AcceptInv, UNCHANGED acceptLoopVars PROVE AcceptInv'
    BY <2>2 DEF acceptLoopVars, AcceptInv, AcceptTypeOK, Begun, BeforeStart, OneStart,
                SingleLoop, Awaited, Accepted, Same, Fresh, Unassigned
  <2> QED
    BY <2>1, <2>2
<1> QED
  BY <1>1, AcceptInitInv, PTL DEF AcceptSpec

(* The loops, the sockets and what the threads were given are always well  *)
(* typed; no loop waits for a connection without a socket.                 *)
THEOREM AcceptTypeCorrect == AcceptSpec => []AcceptTypeOK
<1>1. AcceptInv => AcceptTypeOK
  BY DEF AcceptInv
<1> QED
  BY <1>1, AcceptInvariance, PTL

(* With a single START, every thread of server_run has the socket of the   *)
(* connection it was created for, connected and its own.                   *)
THEOREM OwnConnection == AcceptSpec => []ThreadHasItsConnection
<1>1. AcceptInv => ThreadHasItsConnection
  BY DEF AcceptInv, OneStart, ThreadHasItsConnection
<1> QED
  BY <1>1, AcceptInvariance, PTL
=============================================================================

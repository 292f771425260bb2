----------------------------- MODULE AcceptLoops -----------------------------
(***************************************************************************)
(* socket_ of Communicator, which the accept loop of server() writes and   *)
(* reads, and reads again.  In server mode START stays enabled, and every  *)
(* START begins one more such loop on the same members; a START in client  *)
(* mode replaces socket_ as well.  Sockets are numbered as they are        *)
(* created.  What a thread does with its connection is in ImageServer.     *)
(***************************************************************************)
EXTENDS Integers, Sequences

CONSTANTS
  Loops,       \* the server threads STARTs may begin
  MaxSockets   \* bound on the sockets created

ASSUME AcceptAssumption == MaxSockets \in Nat

VARIABLES
  at,        \* where each loop is
  socket_,   \* the member; 0 at first
  open,      \* the sockets that are open, by accept or by connect
  created,   \* how many there are
  peer_,     \* what each loop has called accept with last
  threads,   \* history: of every server_run, the socket it was given and the
             \* one that was connected for it
  starts,    \* history: how often START was clicked
  failed     \* an exception nobody catches has ended the process

acceptLoopVars == <<at, socket_, open, created, peer_, threads, starts, failed>>

Sockets == 1 .. MaxSockets

AcceptTypeOK ==
  /\ at \in [Loops -> {"idle", "create", "listen", "call", "wait", "spawn"}]
  /\ socket_ \in 0 .. created
  /\ created \in 0 .. MaxSockets
  /\ open \subseteq 1 .. created
  /\ peer_ \in [Loops -> 0 .. created]
  /\ \A l \in Loops : at[l] \in {"wait", "spawn"} => peer_[l] # 0
  /\ threads \in Seq(Sockets \X Sockets)
  /\ starts \in Nat
  /\ failed \in BOOLEAN

AcceptInit ==
  /\ at = [l \in Loops |-> "idle"]
  /\ socket_ = 0 /\ open = {} /\ created = 0
  /\ peer_ = [l \in Loops |-> 0]
  /\ threads = <<>>
  /\ starts = 0
  /\ failed = FALSE

Step(l, here, there) == at[l] = here /\ at' = [at EXCEPT ![l] = there]

(* socket_ = new socket *)
NewSocket ==
  /\ created < MaxSockets
  /\ created' = created + 1
  /\ socket_' = created'

-----------------------------------------------------------------------------
(* The dialog.                                                             *)

(* Mutant: the first round begins with the acceptor. *)
MutStartServer(l) ==
  /\ Step(l, "idle", "listen")
  /\ starts' = starts + 1
  /\ UNCHANGED <<socket_, open, created, peer_, threads, failed>>

StartServer(l) ==
  /\ Step(l, "idle", "create")
  /\ starts' = starts + 1
  /\ UNCHANGED <<socket_, open, created, peer_, threads, failed>>

(* START in client mode: tcp_connect, whose connect opens the socket and   *)
(* leaves it open when it fails.                                           *)
StartClient ==
  /\ NewSocket
  /\ open' = open \cup {created'}
  /\ starts' = starts + 1
  /\ UNCHANGED <<at, peer_, threads, failed>>

-----------------------------------------------------------------------------
(* One round of a loop of server().                                        *)

(* Mutant: the socket is created in the first round only. *)
MutCreate(l) ==
  /\ Step(l, "create", "listen")
  /\ IF socket_ = 0 THEN NewSocket ELSE UNCHANGED <<created, socket_>>
  /\ UNCHANGED <<open, peer_, threads, starts, failed>>

Create(l) ==
  /\ Step(l, "create", "listen")
  /\ NewSocket
  /\ UNCHANGED <<open, peer_, threads, starts, failed>>

(* The acceptor: where another loop listens, the system may let it listen  *)
(* too, or the constructor throws.                                         *)
Listen(l) ==
  /\ Step(l, "listen", "call")
  /\ IF \E k \in Loops \ {l} : at[k] \in {"call", "wait", "spawn"}
       THEN failed' \in BOOLEAN ELSE failed' = FALSE
  /\ UNCHANGED <<socket_, open, created, peer_, threads, starts>>

(* accept into socket_, which is an error if that is open already. *)
CallAccept(l) ==
  /\ Step(l, "call", "wait")
  /\ peer_' = [peer_ EXCEPT ![l] = socket_]
  /\ failed' = (socket_ \in open)
  /\ UNCHANGED <<socket_, open, created, threads, starts>>

(* A connection comes in, unless another loop's accept was called with the *)
(* same socket and has connected it.                                       *)
AcceptReturns(l) ==
  /\ Step(l, "wait", "spawn")
  /\ failed' = (peer_[l] \in open)
  /\ open' = open \cup {peer_[l]}
  /\ UNCHANGED <<socket_, created, peer_, threads, starts>>

(* The thread is given socket_ as it is now. *)
Spawn(l) ==
  /\ Step(l, "spawn", "create")
  /\ threads' = Append(threads, <<socket_, peer_[l]>>)
  /\ UNCHANGED <<socket_, open, created, peer_, starts, failed>>

AcceptNext ==
  /\ ~failed
  /\ \/ StartClient
     \/ \E l \in Loops : \/ StartServer(l) \/ Create(l) \/ Listen(l) \/ CallAccept(l)
                         \/ AcceptReturns(l) \/ Spawn(l)

AcceptSpec == AcceptInit /\ [][AcceptNext]_acceptLoopVars

-----------------------------------------------------------------------------
(* As long as START was clicked once, every thread of server_run has the   *)
(* socket of the connection it was created for, connected and its own.     *)
ThreadHasItsConnection ==
  starts <= 1 =>
    /\ ~failed
    /\ \A i \in DOMAIN threads :
         /\ threads[i][1] = threads[i][2]
         /\ threads[i][1] \in open
         /\ \A j \in DOMAIN threads : i # j => threads[i][1] # threads[j][1]
=============================================================================

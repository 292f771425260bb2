----------------------------- MODULE ImageSender -----------------------------
(***************************************************************************)
(* The threads that START creates in client mode                           *)
(* (Communicator::tcp_connect_thread2), the members of Communicator they   *)
(* share, the box they talk to, and the messages they post to the dialog.  *)
(*                                                                         *)
(* A thread connects, takes a snapshot of the length of the file list and  *)
(* walks through the list: in batch mode image after image, otherwise one  *)
(* image forwards or backwards per click.  Each image waits for a request  *)
(* of the box.  When the list is done the thread posts send_ok, and the    *)
(* dialog enables START again.                                             *)
(*                                                                         *)
(* START in server mode (Communicator::server) is not part of this module. *)
(* Messages that only display something are left out.                      *)
(***************************************************************************)
EXTENDS LoadControl

CONSTANTS
  Threads,    \* the sender threads that may run at the same time
  Conns,      \* the sockets that may exist at the same time
  NoConn,     \* the uninitialised socket_
  MaxFiles,   \* bound on the length of file_list
  MaxPosted   \* bound on the length of the window's message queue

ASSUME NoConnAssumption == NoConn \notin Conns
ASSUME BoundsAssumption == MaxFiles \in Nat /\ MaxPosted \in Nat

VARIABLES
  files,        \* Len(file_list)
  pc,           \* where each thread is
  mode,         \* the branch each thread took
  file_countr,  \* local: the current image
  file_total,   \* local: length of the list when the thread began
  sent,         \* history: images written by the thread's current run
  refused,      \* history: images dropped by it as the request was not 20
  asked,        \* history: signalling of the last request it read
  ended,        \* history: how its last run ended
  readOn,       \* the socket whose read it entered last
  socket,       \* Communicator::socket_
  link,         \* state of each socket
  request,      \* the request that waits in each connection
  buffer,       \* signalling field of the header in data_buffer_
  send_ok,      \* Communicator::send_ok
  posted,       \* messages posted to the dialog
  down          \* the process has crashed

localVars == <<file_countr, file_total, sent, refused, asked, ended, readOn>>
threadVars == <<pc, mode, localVars>>
netVars == <<socket, link, request, buffer>>
vars == <<dialogVars, files, threadVars, netVars, send_ok, posted, down>>

(* signalling: 20 asks for an image; 0, that of a cleared buffer, stands   *)
(* for everything else.                                                    *)
Signals == {0, 20}
NoRequest == -1
Labels == {"idle", "enter", "mode", "socket", "connect", "setup", "loop",
           "single", "takeSingle", "last", "takeLast", "load", "read",
           "check", "header", "image", "post", "askImage", "getImage"}
Links == {"none", "new", "failed", "up", "lost"}
Messages == ({"stop"} \X Int) \cup ({"sent"} \X BOOLEAN)

TypeOK ==
  /\ LoadTypeOK
  /\ files \in Nat
  /\ pc \in [Threads -> Labels]
  /\ mode \in [Threads -> {"none", "receive", "batch", "single", "last"}]
  /\ file_countr \in [Threads -> Int]
  /\ file_total \in [Threads -> Nat]
  /\ sent \in [Threads -> SUBSET Int]
  /\ refused \in [Threads -> SUBSET Int]
  /\ asked \in [Threads -> Signals \cup {NoRequest}]
  /\ ended \in [Threads -> {"none", "done", "failed"}]
  /\ readOn \in [Threads -> Conns \cup {NoConn}]
  /\ socket \in Conns \cup {NoConn}
  /\ link \in [Conns -> Links]
  /\ request \in [Conns -> Signals \cup {NoRequest}]
  /\ buffer \in Signals
  /\ send_ok \in BOOLEAN
  /\ posted \in Seq(Messages)
  /\ down \in BOOLEAN

Init ==
  /\ LoadInit
  /\ files = 0
  /\ pc = [t \in Threads |-> "idle"]
  /\ mode = [t \in Threads |-> "none"]
  /\ file_countr = [t \in Threads |-> -1]
  /\ file_total = [t \in Threads |-> 0]
  /\ sent = [t \in Threads |-> {}]
  /\ refused = [t \in Threads |-> {}]
  /\ asked = [t \in Threads |-> NoRequest]
  /\ ended = [t \in Threads |-> "none"]
  /\ readOn = [t \in Threads |-> NoConn]
  /\ socket = NoConn
  /\ link = [c \in Conns |-> "none"]
  /\ request = [c \in Conns |-> NoRequest]
  /\ buffer = 0
  /\ send_ok = FALSE
  /\ posted = <<>>
  /\ down = FALSE

-----------------------------------------------------------------------------
(* Helpers.                                                                *)
Running(t) == pc[t] # "idle"
Goto(t, label) == pc' = [pc EXCEPT ![t] = label]

(* The thread returns; its locals are gone. *)
Leave(t, how) ==
  /\ pc' = [pc EXCEPT ![t] = "idle"]
  /\ ended' = [ended EXCEPT ![t] = how]
  /\ mode' = [mode EXCEPT ![t] = "none"]
  /\ file_countr' = [file_countr EXCEPT ![t] = -1]
  /\ file_total' = [file_total EXCEPT ![t] = 0]
  /\ sent' = [sent EXCEPT ![t] = {}]
  /\ refused' = [refused EXCEPT ![t] = {}]
  /\ asked' = [asked EXCEPT ![t] = NoRequest]
  /\ readOn' = [readOn EXCEPT ![t] = NoConn]

(* On to the next round of the loop: the request has been dealt with. *)
NextRound(t) ==
  /\ Goto(t, "loop")
  /\ mode' = [mode EXCEPT ![t] = "none"]
  /\ asked' = [asked EXCEPT ![t] = NoRequest]
  /\ readOn' = [readOn EXCEPT ![t] = NoConn]

(* A socket object nothing refers to any more can stand for a new one. *)
Reading == {readOn[t] : t \in Threads}
Unused(c) == c # socket /\ c \notin Reading

Connected(c) == c \in Conns /\ link[c] = "up"

(* A write into a connection the peer has dropped may still be accepted.   *)
Writable(c) == c \in Conns /\ link[c] \in {"up", "lost"}

(* is_open: connect, even one that fails, opens the socket. *)
Open(c) == c \in Conns /\ link[c] \notin {"none", "new"}

(* Mutants: the bound of the older tcp_connect_thread, which leaves out    *)
(* the last image; one image too many.                                     *)
MutMoreImagesShort(t) == file_countr[t] < file_total[t] - 2
MutMoreImagesLong(t) == file_countr[t] < file_total[t]

MoreImages(t) == file_countr[t] < file_total[t] - 1

Advance(t, m) ==
  /\ file_countr' = [file_countr EXCEPT ![t] = @ + 1]
  /\ mode' = [mode EXCEPT ![t] = m]
  /\ Goto(t, "load")

-----------------------------------------------------------------------------
(* The dialog's part.                                                      *)

(* Mutant: START stays enabled, as in server mode. *)
MutStartNetserver(t) ==
  /\ UIReady
  /\ "START" \in Clicks /\ enabled["START"]
  /\ clientMode
  /\ ~Running(t)
  /\ Goto(t, "enter")
  /\ ended' = [ended EXCEPT ![t] = "none"]
  /\ UNCHANGED dialogVars
  /\ UNCHANGED <<files, mode, file_countr, file_total, sent, refused, asked,
                 readOn, netVars, send_ok, posted, down>>

(* OnBnClickedStartNetserver in client mode: disable START, start a thread *)
StartNetserver(t) ==
  /\ UIReady
  /\ "START" \in Clicks /\ enabled["START"]
  /\ clientMode
  /\ ~Running(t)
  /\ enabled' = [enabled EXCEPT !["START"] = FALSE]
  /\ Goto(t, "enter")
  /\ ended' = [ended EXCEPT ![t] = "none"]
  /\ UNCHANGED <<load, writes, batchChecked, clientMode, clientSend, reenabled>>
  /\ UNCHANGED <<files, mode, file_countr, file_total, sent, refused, asked,
                 readOn, netVars, send_ok, posted, down>>

(* OnBnClickedFilelistPath appends the chosen directory to file_list.  The *)
(* vector may move its elements while a thread copies one of them.         *)
FilelistPath ==
  /\ UIReady
  /\ "FILELIST" \in Clicks /\ enabled["LOAD"]
  /\ \E n \in 1 .. MaxFiles - files : files' = files + n
  /\ IF \E t \in Threads : pc[t] = "load" THEN down' \in BOOLEAN
                                          ELSE down' = FALSE
  /\ UNCHANGED <<dialogVars, threadVars, netVars, send_ok, posted>>

(* sendmessage and StopSend, the handlers of the two posted messages *)
HandlePosted ==
  /\ UIReady
  /\ posted # <<>>
  /\ posted' = Tail(posted)
  /\ LET msg == Head(posted) IN
       enabled' = IF msg[1] = "sent"
                  THEN [enabled EXCEPT !["PREVIOUS"] = FALSE, !["START"] = msg[2]]
                  ELSE [enabled EXCEPT !["PREVIOUS"] = msg[2] >= 1]
  /\ UNCHANGED <<load, writes, batchChecked, clientMode, clientSend, reenabled>>
  /\ UNCHANGED <<files, threadVars, netVars, send_ok, down>>

DialogStep ==
  /\ LoadNext
  /\ UNCHANGED <<files, threadVars, netVars, send_ok, posted, down>>

-----------------------------------------------------------------------------
(* The beginning of a thread: mode test, connection, set-up.               *)

(* The mode is read twice; a click between the reads ends the thread. *)
EnterThread(t) ==
  /\ pc[t] = "enter"
  /\ send_ok' = FALSE
  /\ mode' = [mode EXCEPT ![t] = IF clientSend THEN "none" ELSE "receive"]
  /\ Goto(t, IF clientSend THEN "mode" ELSE "socket")
  /\ UNCHANGED <<dialogVars, files, file_countr, file_total, sent, refused, asked,
                 ended, readOn, netVars, posted, down>>

TestModeAgain(t) ==
  /\ pc[t] = "mode"
  /\ \/ /\ clientSend
        /\ Goto(t, "socket")
        /\ UNCHANGED <<mode, localVars>>
     \/ ~clientSend /\ Leave(t, "failed")
  /\ UNCHANGED <<dialogVars, files, netVars, send_ok, posted, down>>

(* tcp_connect replaces the shared socket ... *)
NewSocket(t) ==
  /\ pc[t] = "socket"
  /\ \E c \in Conns :
       /\ Unused(c)
       /\ socket' = c
       /\ link' = [[d \in Conns |-> IF d \in Reading THEN link[d] ELSE "none"]
                     EXCEPT ![c] = "new"]
       /\ request' = [d \in Conns |-> IF d \in Reading THEN request[d] ELSE NoRequest]
  /\ Goto(t, "connect")
  /\ UNCHANGED <<dialogVars, files, mode, localVars, buffer, send_ok, posted, down>>

(* ... and connects whatever the member refers to by then. *)
Connect(t) ==
  /\ pc[t] = "connect"
  /\ socket \in Conns
  /\ \/ /\ link[socket] \in {"new", "failed"}
        /\ link' = [link EXCEPT ![socket] = "up"]
        /\ buffer' = 0
        /\ Goto(t, IF mode[t] = "receive" THEN "askImage" ELSE "setup")
     \/ /\ link' = [link EXCEPT ![socket] = IF @ = "new" THEN "failed" ELSE @]
        /\ Goto(t, "socket")
        /\ UNCHANGED buffer
  /\ UNCHANGED <<dialogVars, files, mode, localVars, socket, request, send_ok, posted, down>>

(* Mutant: the length of the list is taken one too small. *)
MutSetup(t) ==
  /\ pc[t] = "setup"
  /\ buffer' = 0
  /\ file_total' = [file_total EXCEPT ![t] = files - 1]
  /\ file_countr' = [file_countr EXCEPT ![t] = -1]
  /\ sent' = [sent EXCEPT ![t] = {}]
  /\ refused' = [refused EXCEPT ![t] = {}]
  /\ Goto(t, "loop")
  /\ down' = FALSE
  /\ UNCHANGED <<dialogVars, files, mode, asked, ended, readOn, socket, link, request,
                 send_ok, posted>>

(* The buffer grows, under the feet of a thread that is reading an image   *)
(* into it.                                                                *)
Setup(t) ==
  /\ pc[t] = "setup"
  /\ buffer' = 0
  /\ file_total' = [file_total EXCEPT ![t] = files]
  /\ file_countr' = [file_countr EXCEPT ![t] = -1]
  /\ sent' = [sent EXCEPT ![t] = {}]
  /\ refused' = [refused EXCEPT ![t] = {}]
  /\ Goto(t, "loop")
  /\ IF \E r \in Threads : pc[r] = "getImage" THEN down' \in BOOLEAN
                                              ELSE down' = FALSE
  /\ UNCHANGED <<dialogVars, files, mode, asked, ended, readOn, socket, link, request,
                 send_ok, posted>>

-----------------------------------------------------------------------------
(* The loop: the three flags are tested one after the other.               *)

BatchLoad(t) ==
  /\ pc[t] = "loop"
  /\ MoreImages(t)
  /\ load["batch"]
  /\ Advance(t, "batch")
  /\ UNCHANGED <<dialogVars, files, file_total, sent, refused, asked, ended, readOn,
                 netVars, send_ok, posted, down>>

NoBatchLoad(t) ==
  /\ pc[t] = "loop"
  /\ MoreImages(t)
  /\ ~load["batch"]
  /\ Goto(t, "single")
  /\ UNCHANGED <<dialogVars, files, mode, localVars, netVars, send_ok, posted, down>>

TestSingleLoad(t) ==
  /\ pc[t] = "single"
  /\ Goto(t, IF load["single"] THEN "takeSingle" ELSE "last")
  /\ UNCHANGED <<dialogVars, files, mode, localVars, netVars, send_ok, posted, down>>

SingleLoad(t) ==
  /\ pc[t] = "takeSingle"
  /\ load' = [load EXCEPT !["single"] = FALSE]
  /\ Advance(t, "single")
  /\ UNCHANGED <<writes, batchChecked, clientMode, clientSend, enabled, reenabled>>
  /\ UNCHANGED <<files, file_total, sent, refused, asked, ended, readOn, netVars,
                 send_ok, posted, down>>

TestLastLoad(t) ==
  /\ pc[t] = "last"
  /\ Goto(t, IF load["last"] THEN "takeLast" ELSE "loop")
  /\ UNCHANGED <<dialogVars, files, mode, localVars, netVars, send_ok, posted, down>>

LastLoad(t) ==
  /\ pc[t] = "takeLast"
  /\ load' = [load EXCEPT !["last"] = FALSE]
  /\ file_countr' = [file_countr EXCEPT ![t] = IF @ >= 1 THEN @ - 1 ELSE @]
  /\ mode' = [mode EXCEPT ![t] = "last"]
  /\ Goto(t, "load")
  /\ UNCHANGED <<writes, batchChecked, clientMode, clientSend, enabled, reenabled>>
  /\ UNCHANGED <<files, file_total, sent, refused, asked, ended, readOn, netVars,
                 send_ok, posted, down>>

(* Copy the name and read the image, report a step made by hand to the     *)
(* dialog, and wait for the box.  An index outside the vector is undefined *)
(* behaviour: a crash, or a file that is not an image of the list.         *)
LoadImage(t) ==
  /\ pc[t] = "load"
  /\ Len(posted) < MaxPosted
  /\ IF file_countr[t] \in 0 .. files - 1 THEN down' = FALSE ELSE down' \in BOOLEAN
  /\ posted' = IF mode[t] = "batch" THEN posted
               ELSE Append(posted, <<"stop", file_countr[t]>>)
  /\ readOn' = [readOn EXCEPT ![t] = socket]
  /\ Goto(t, "read")
  /\ UNCHANGED <<dialogVars, files, mode, file_countr, file_total, sent, refused, asked,
                 ended, netVars, send_ok>>

(* Mutant: the commented-out data_buffer_.clear() put after the read. *)
MutReadRequest(t) ==
  /\ pc[t] = "read"
  /\ Writable(readOn[t])
  /\ request[readOn[t]] # NoRequest
  /\ buffer' = 0
  /\ asked' = [asked EXCEPT ![t] = request[readOn[t]]]
  /\ request' = [request EXCEPT ![readOn[t]] = NoRequest]
  /\ Goto(t, "check")
  /\ UNCHANGED <<dialogVars, files, mode, file_countr, file_total, sent, refused, ended,
                 readOn, socket, link, send_ok, posted, down>>

ReadRequest(t) ==
  /\ pc[t] = "read"
  /\ Writable(readOn[t])
  /\ request[readOn[t]] # NoRequest
  /\ buffer' = request[readOn[t]]
  /\ asked' = [asked EXCEPT ![t] = request[readOn[t]]]
  /\ request' = [request EXCEPT ![readOn[t]] = NoRequest]
  /\ Goto(t, "check")
  /\ UNCHANGED <<dialogVars, files, mode, file_countr, file_total, sent, refused, ended,
                 readOn, socket, link, send_ok, posted, down>>

(* Mutant: a refused image is tried again. *)
MutCheckRequest(t) ==
  /\ pc[t] = "check"
  /\ \/ /\ mode[t] = "batch" /\ buffer # 20
        /\ file_countr' = [file_countr EXCEPT ![t] = @ - 1]
        /\ NextRound(t)
        /\ UNCHANGED <<refused, file_total, sent, ended>>
     \/ /\ mode[t] # "batch" \/ buffer = 20
        /\ \/ Open(socket) /\ Goto(t, "header") /\ UNCHANGED <<mode, localVars>>
           \/ ~Open(socket) /\ Leave(t, "failed")
  /\ UNCHANGED <<dialogVars, files, netVars, send_ok, posted, down>>

(* Only a batch looks at the request; the reply is abandoned when the      *)
(* member now refers to a socket that is not open.                         *)
CheckRequest(t) ==
  /\ pc[t] = "check"
  /\ \/ /\ mode[t] = "batch" /\ buffer # 20
        /\ refused' = [refused EXCEPT ![t] = @ \cup {file_countr[t]}]
        /\ NextRound(t)
        /\ UNCHANGED <<file_countr, file_total, sent, ended>>
     \/ /\ mode[t] # "batch" \/ buffer = 20
        /\ \/ Open(socket) /\ Goto(t, "header") /\ UNCHANGED <<mode, localVars>>
           \/ ~Open(socket) /\ Leave(t, "failed")
  /\ UNCHANGED <<dialogVars, files, netVars, send_ok, posted, down>>

WriteHeader(t) ==
  /\ pc[t] = "header"
  /\ Writable(socket)
  /\ Goto(t, "image")
  /\ UNCHANGED <<dialogVars, files, mode, localVars, netVars, send_ok, posted, down>>

(* After the write the thread asks for the peer's address, which fails on  *)
(* a connection that is gone.                                              *)
WriteImage(t) ==
  /\ pc[t] = "image"
  /\ Writable(socket)
  /\ \/ /\ sent' = [sent EXCEPT ![t] = @ \cup {file_countr[t]}]
        /\ NextRound(t)
        /\ UNCHANGED <<file_countr, file_total, refused, ended>>
     \/ ~Connected(socket) /\ Leave(t, "failed")
  /\ UNCHANGED <<dialogVars, files, netVars, send_ok, posted, down>>

(* Mutant: the report of success placed behind the catch block. *)
MutConnectionFails(t) ==
  /\ \/ pc[t] = "read" /\ ~Connected(readOn[t])
     \/ pc[t] \in {"header", "image"} /\ ~Connected(socket)
  /\ Leave(t, "failed")
  /\ posted' = Append(posted, <<"sent", TRUE>>)
  /\ UNCHANGED <<dialogVars, files, netVars, send_ok, down>>

(* asio throws: catch (...) leaves the function. *)
ConnectionFails(t) ==
  /\ \/ pc[t] = "read" /\ ~Connected(readOn[t])
     \/ pc[t] \in {"header", "image"} /\ ~Connected(socket)
  /\ Leave(t, "failed")
  /\ UNCHANGED <<dialogVars, files, netVars, send_ok, posted, down>>

FinishList(t) ==
  /\ pc[t] = "loop"
  /\ ~MoreImages(t)
  /\ send_ok' = TRUE
  /\ Goto(t, "post")
  /\ UNCHANGED <<dialogVars, files, mode, localVars, netVars, posted, down>>

(* Mutant: the thread ends without telling the dialog. *)
MutPostSendOk(t) ==
  /\ pc[t] = "post"
  /\ Leave(t, "done")
  /\ UNCHANGED <<dialogVars, files, netVars, send_ok, posted, down>>

(* The message carries the member, not the value just assigned. *)
PostSendOk(t) ==
  /\ pc[t] = "post"
  /\ Len(posted) < MaxPosted
  /\ posted' = Append(posted, <<"sent", send_ok>>)
  /\ Leave(t, "done")
  /\ UNCHANGED <<dialogVars, files, netVars, send_ok, down>>

-----------------------------------------------------------------------------
(* The receiving branch: ask for an image, read it, for ever; an exception *)
(* leads back to the connection.                                           *)
AskImage(t) ==
  /\ pc[t] = "askImage"
  /\ IF Writable(socket)
       THEN Goto(t, "getImage") /\ readOn' = [readOn EXCEPT ![t] = socket]
       ELSE Goto(t, "socket") /\ UNCHANGED readOn
  /\ UNCHANGED <<dialogVars, files, mode, file_countr, file_total, sent, refused, asked,
                 ended, netVars, send_ok, posted, down>>

GetImage(t) ==
  /\ pc[t] = "getImage"
  /\ \/ /\ Connected(readOn[t])
        /\ buffer' \in Signals
        /\ Goto(t, "askImage")
     \/ /\ ~Connected(readOn[t])
        /\ Goto(t, "socket")
        /\ UNCHANGED buffer
  /\ readOn' = [readOn EXCEPT ![t] = NoConn]
  /\ UNCHANGED <<dialogVars, files, mode, file_countr, file_total, sent, refused, asked,
                 ended, socket, link, request, send_ok, posted, down>>

-----------------------------------------------------------------------------
(* The box: one request at a time on a connection, which may break.        *)
BoxRequest(c) ==
  /\ link[c] = "up"
  /\ request[c] = NoRequest
  /\ \E sig \in Signals : request' = [request EXCEPT ![c] = sig]
  /\ UNCHANGED <<dialogVars, files, threadVars, socket, link, buffer, send_ok, posted, down>>

LoseConnection(c) ==
  /\ link[c] = "up"
  /\ link' = [link EXCEPT ![c] = "lost"]
  /\ UNCHANGED <<dialogVars, files, threadVars, socket, request, buffer, send_ok, posted, down>>

ThreadStep(t) ==
  \/ EnterThread(t) \/ TestModeAgain(t) \/ NewSocket(t) \/ Connect(t) \/ Setup(t)
  \/ BatchLoad(t) \/ NoBatchLoad(t) \/ TestSingleLoad(t) \/ SingleLoad(t)
  \/ TestLastLoad(t) \/ LastLoad(t) \/ LoadImage(t) \/ ReadRequest(t)
  \/ CheckRequest(t) \/ WriteHeader(t) \/ WriteImage(t) \/ ConnectionFails(t)
  \/ FinishList(t) \/ PostSendOk(t) \/ AskImage(t) \/ GetImage(t)

Next ==
  /\ ~down
  /\ \/ DialogStep
     \/ FilelistPath
     \/ HandlePosted
     \/ \E t \in Threads : StartNetserver(t) \/ ThreadStep(t)
     \/ \E c \in Conns : BoxRequest(c) \/ LoseConnection(c)

Spec == Init /\ [][Next]_vars

(* Every thread and the dialog keep running; the box asks for the next     *)
(* image as long as a connection lasts.  A window's message loop takes     *)
(* posted messages before clicks, so clicks cannot keep one waiting for    *)
(* ever.  Nothing is assumed of the user, nor of a connection's coming     *)
(* about or its life.                                                      *)
Fairness ==
  /\ \A t \in Threads : WF_vars(~down /\ ThreadStep(t))
  /\ WF_vars(~down /\ DialogStep /\ ~UIReady)
  /\ SF_vars(~down /\ HandlePosted)
  /\ \A c \in Conns : WF_vars(~down /\ BoxRequest(c))

FairSpec == Spec /\ Fairness

-----------------------------------------------------------------------------
(* Properties.                                                             *)

(* tcp_connect_thread2 reports the end of the list only when every image   *)
(* of its snapshot has been written or was the answer to a request that    *)
(* did not ask for one, whichever way the user stepped through the list.   *)
CompletionCoversList ==
  \A t \in Threads :
    pc[t] = "post" => 0 .. file_total[t] - 1 \subseteq sent[t] \cup refused[t]

(* As long as no mode check box enabled START behind a running thread's    *)
(* back, the disabled button keeps a second thread from using socket_ and  *)
(* data_buffer_.                                                           *)
OneThread ==
  ~reenabled => \A t, u \in Threads : Running(t) /\ Running(u) => t = u

(* Under the same condition an enabled START tells that no thread runs and *)
(* that none of the past runs broke off: a lost connection leaves START    *)
(* disabled.                                                               *)
StartMeansCompleted ==
  ~reenabled /\ enabled["START"] =>
    \A t \in Threads : ~Running(t) /\ ended[t] # "failed"

(* Under the same condition the signalling a thread tests is that of the   *)
(* request it read, and its reply goes to the connection it read it from,  *)
(* although both lie in members of Communicator.                           *)
RequestIntact ==
  ~reenabled =>
    \A t \in Threads :
      /\ pc[t] = "check" => buffer = asked[t]
      /\ pc[t] \in {"check", "header", "image"} => socket = readOn[t]

(* The only index outside file_list a thread ever uses is that of a        *)
(* PREVIOUS taken before the first image.                                  *)
IndexInList ==
  \A t \in Threads :
    pc[t] = "load" => \/ file_countr[t] \in 0 .. files - 1
                      \/ mode[t] = "last" /\ file_countr[t] = -1

(* Between two clicks the flags the threads read agree with the check      *)
(* boxes, and a pending NEXT excludes a batch and a pending PREVIOUS.      *)
FlagsMatchCheckBoxes ==
  UIReady => /\ load["batch"] = batchChecked
             /\ load["single"] => ~load["batch"] /\ ~load["last"]

(* A batch ends: the thread gets through its list or breaks off, unless    *)
(* the user leaves batch mode.                                             *)
BatchEnds ==
  \A t \in Threads : pc[t] = "loop" ~> (~Running(t) \/ ~load["batch"] \/ down)

(* The end of a list reaches the user: START becomes enabled.              *)
CompletionReported ==
  \A t \in Threads :
    pc[t] = "post" ~> (enabled["START"] \/ reenabled \/ down)

-----------------------------------------------------------------------------
(* The abstract specification this one implements.                         *)
Phase(t) ==
  CASE pc[t] = "idle" -> "idle"
    [] pc[t] \in {"enter", "mode", "socket", "connect", "setup", "askImage", "getImage"}
         -> "connecting"
    [] OTHER -> "walking"

Left(t) == (0 .. file_total[t] - 1) \ (sent[t] \cup refused[t])
phases == [t \in Threads |-> Phase(t)]
lefts == [t \in Threads |-> Left(t)]

Run == INSTANCE SendingRun WITH
  Senders <- Threads,
  phase   <- phases,
  total   <- file_total,
  at      <- file_countr,
  left    <- lefts,
  outcome <- ended

(* Whatever the user clicks, the box asks for and other threads do to the  *)
(* members, a thread of tcp_connect_thread2 walks its list one place at a  *)
(* time, goes on only from an image it has written or refused, and reports *)
(* the end with none left.                                                 *)
WalksItsList == Run!Spec
=============================================================================

----------------------------- MODULE ImageServer -----------------------------
(***************************************************************************)
(* START in server mode: the accept loop of Communicator::server and the   *)
(* threads of Communicator::server_run it creates, one per connection.     *)
(* Each thread owns its socket, but all of them read into the one          *)
(* data_buffer_ and count saved images in the one counter.                 *)
(*                                                                         *)
(* What a client writes is a stream of units: a request, the header of an  *)
(* image, the pixels of an image.  A header announces one unit of pixels;  *)
(* bytes that are no header announce any number up to MaxSize.             *)
(*                                                                         *)
(* The address is valid and its port is free.  A second START creates a    *)
(* second accept loop on the same members: AcceptLoops models that.        *)
(***************************************************************************)
EXTENDS LoadControl, FiniteSets

CONSTANTS
  Conns,      \* the clients that may connect
  NoConn,
  MaxFiles,   \* bound on the length of file_list
  MaxImages,  \* bound on the images one client sends
  MaxSize     \* bound on a body size read from bytes that are no header

ASSUME ConnsAssumption == NoConn \notin Conns
ASSUME SizesAssumption ==
  MaxFiles \in Nat /\ MaxImages \in Nat /\ MaxSize \in Nat \ {0}

VARIABLES
  files,        \* Len(file_list)
  spc,          \* where the server thread is
  accepted,     \* socket_, once accept has filled it in
  link,         \* each client's connection
  kind,         \* what each client does: it sends or receives images
  toWrite,      \* whether it is the client's turn to write
  images,       \* images the client has sent
  stream,       \* units written by the client and not yet read
  pc,           \* where the thread of each connection is
  file_countr,  \* local: the next image
  file_total,   \* local: length of the list when the thread began
  written,      \* history: images written to the connection
  size,         \* local: data_size of the header
  buffer,       \* the unit at the beginning of data_buffer_
  counter,      \* Communicator::counter
  saved,        \* history: the files f:/save_image/<counter>.bmp
  down          \* the process has ended

acceptVars == <<spc, accepted>>
clientVars == <<kind, toWrite, images>>
threadVars == <<pc, file_countr, file_total, written, size>>
memberVars == <<buffer, counter, saved>>
vars == <<dialogVars, files, acceptVars, link, clientVars, stream, threadVars,
          memberVars, down>>

(* A unit: what it is, who sent it, which image. *)
Unit(what, c, n) == <<what, c, n>>
Zeros == Unit("zeros", NoConn, 0)
NoBuffer == Unit("none", NoConn, 0)
Units == {"request", "header", "pixels", "zeros", "none"} \X (Conns \cup {NoConn}) \X Nat

Labels == {"none", "start", "total", "loop", "single", "takeSingle", "load", "read",
           "reply", "done", "ask", "header", "size", "body", "save", "count"}

TypeOK ==
  /\ LoadTypeOK
  /\ files \in Nat
  /\ spc \in {"idle", "listen", "wait", "spawn"}
  /\ accepted \in Conns \cup {NoConn}
  /\ link \in [Conns -> {"none", "queued", "reset", "up", "lost"}]
  /\ kind \in [Conns -> {"sends", "receives"}]
  /\ toWrite \in [Conns -> BOOLEAN]
  /\ images \in [Conns -> Nat]
  /\ stream \in [Conns -> Seq(Units)]
  /\ pc \in [Conns -> Labels]
  /\ file_countr \in [Conns -> Nat]
  /\ file_total \in [Conns -> Nat]
  /\ written \in [Conns -> Seq(Nat)]
  /\ size \in [Conns -> Nat]
  /\ buffer \in Units
  /\ counter \in Nat
  /\ DOMAIN saved \subseteq Nat /\ \A n \in DOMAIN saved : saved[n] \in Units
  /\ down \in BOOLEAN

(* counter is not initialised. *)
Init ==
  /\ LoadInit
  /\ files = 0
  /\ spc = "idle"
  /\ accepted = NoConn
  /\ link = [c \in Conns |-> "none"]
  /\ kind \in [Conns -> {"sends", "receives"}]
  /\ toWrite = [c \in Conns |-> kind[c] = "receives"]
  /\ images = [c \in Conns |-> 0]
  /\ stream = [c \in Conns |-> <<>>]
  /\ pc = [c \in Conns |-> "none"]
  /\ file_countr = [c \in Conns |-> 0]
  /\ file_total = [c \in Conns |-> 0]
  /\ written = [c \in Conns |-> <<>>]
  /\ size = [c \in Conns |-> 0]
  /\ buffer = NoBuffer
  /\ counter \in {0, 1}
  /\ saved = [n \in {} |-> Zeros]
  /\ down = FALSE

-----------------------------------------------------------------------------
(* The dialog.                                                             *)

(* OnBnClickedStartNetserver in server mode; START stays enabled. *)
StartNetserver ==
  /\ UIReady
  /\ "START" \in Clicks /\ enabled["START"]
  /\ ~clientMode
  /\ spc = "idle"
  /\ spc' = "listen"
  /\ UNCHANGED <<dialogVars, files, accepted, link, clientVars, stream, threadVars,
                 memberVars, down>>

(* The list may move while a thread copies one of its names. *)
FilelistPath ==
  /\ UIReady
  /\ "FILELIST" \in Clicks /\ enabled["LOAD"]
  /\ \E n \in 1 .. MaxFiles - files : files' = files + n
  /\ IF \E c \in Conns : pc[c] = "load" THEN down' \in BOOLEAN ELSE down' = FALSE
  /\ UNCHANGED <<dialogVars, acceptVars, link, clientVars, stream, threadVars, memberVars>>

DialogStep ==
  /\ LoadNext
  /\ UNCHANGED <<files, acceptVars, link, clientVars, stream, threadVars, memberVars, down>>

-----------------------------------------------------------------------------
(* Communicator::server.                                                   *)

(* A new socket_ and a new acceptor, which listens at once. *)
Listen ==
  /\ spc = "listen"
  /\ spc' = "wait"
  /\ accepted' = NoConn
  /\ UNCHANGED <<dialogVars, files, link, clientVars, stream, threadVars, memberVars, down>>

Accept ==
  /\ spc = "wait"
  /\ \E c \in Conns :
       /\ link[c] = "queued"
       /\ link' = [link EXCEPT ![c] = "up"]
       /\ accepted' = c
  /\ spc' = "spawn"
  /\ UNCHANGED <<dialogVars, files, clientVars, stream, threadVars, memberVars, down>>

(* Mutant: the thread is given the socket of the next round. *)
MutSpawn ==
  /\ spc = "spawn"
  /\ link' = [c \in Conns |-> IF link[c] = "queued" THEN "reset" ELSE link[c]]
  /\ \E c \in Conns : pc[c] = "none" /\ pc' = [pc EXCEPT ![c] = "start"]
  /\ spc' = "listen"
  /\ UNCHANGED <<dialogVars, files, accepted, clientVars, stream, file_countr, file_total,
                 written, size, memberVars, down>>

(* The thread is created; at the end of the loop's body the acceptor goes, *)
(* and the system resets the connections it still held.                    *)
Spawn ==
  /\ spc = "spawn"
  /\ link' = [c \in Conns |-> IF link[c] = "queued" THEN "reset" ELSE link[c]]
  /\ pc' = [pc EXCEPT ![accepted] = "start"]
  /\ spc' = "listen"
  /\ UNCHANGED <<dialogVars, files, accepted, clientVars, stream, file_countr, file_total,
                 written, size, memberVars, down>>

-----------------------------------------------------------------------------
(* Communicator::server_run: the beginning.                                *)
Goto(c, label) == pc' = [pc EXCEPT ![c] = label]

(* Mutant: counter is not reset. *)
MutWorkerStart(c) ==
  /\ pc[c] = "start"
  /\ buffer' = Zeros
  /\ Goto(c, IF clientSend THEN "ask" ELSE "total")
  /\ down' = FALSE
  /\ UNCHANGED <<dialogVars, files, acceptVars, link, clientVars, stream, file_countr,
                 file_total, written, size, counter, saved>>

(* Mutant: counter is reset for a ++counter. *)
MutResetCounter(c) ==
  /\ pc[c] = "start"
  /\ buffer' = Zeros
  /\ counter' = IF clientSend THEN -1 ELSE counter
  /\ Goto(c, IF clientSend THEN "ask" ELSE "total")
  /\ down' = FALSE
  /\ UNCHANGED <<dialogVars, files, acceptVars, link, clientVars, stream, file_countr,
                 file_total, written, size, saved>>

(* The shared buffer is cleared, whoever else is using it; the first       *)
(* allocation may be made by two threads at once.                          *)
WorkerStart(c) ==
  /\ pc[c] = "start"
  /\ buffer' = Zeros
  /\ counter' = IF clientSend THEN 0 ELSE counter
  /\ Goto(c, IF clientSend THEN "ask" ELSE "total")
  /\ IF buffer = NoBuffer /\ \E d \in Conns \ {c} : pc[d] = "start"
       THEN down' \in BOOLEAN ELSE down' = FALSE
  /\ UNCHANGED <<dialogVars, files, acceptVars, link, clientVars, stream, file_countr,
                 file_total, written, size, saved>>

(* A write may be accepted on a connection that is lost already. *)
Writable(c) == link[c] \in {"up", "lost"}

(* asio throws, and nothing in the thread catches: the process ends. *)
WorkerFails(c) ==
  /\ pc[c] \in {"read", "reply", "ask", "header", "body"}
  /\ link[c] = "lost"
  /\ down' = TRUE
  /\ UNCHANGED <<dialogVars, files, acceptVars, link, clientVars, stream, threadVars,
                 memberVars>>

-----------------------------------------------------------------------------
(* server_run, server sends.                                               *)
TakeTotal(c) ==
  /\ pc[c] = "total"
  /\ file_total' = [file_total EXCEPT ![c] = files]
  /\ Goto(c, "loop")
  /\ UNCHANGED <<dialogVars, files, acceptVars, link, clientVars, stream, file_countr,
                 written, size, memberVars, down>>

(* Mutant: one image more. *)
MutMoreImages(c) == file_countr[c] <= file_total[c]

MoreImages(c) == file_countr[c] < file_total[c] - 1

NextImage(c) ==
  /\ file_countr' = [file_countr EXCEPT ![c] = @ + 1]
  /\ Goto(c, "load")

BatchLoad(c) ==
  /\ pc[c] = "loop"
  /\ MoreImages(c)
  /\ \/ load["batch"] /\ NextImage(c)
     \/ ~load["batch"] /\ Goto(c, "single") /\ UNCHANGED file_countr
  /\ UNCHANGED <<dialogVars, files, acceptVars, link, clientVars, stream, file_total,
                 written, size, memberVars, down>>

TestSingleLoad(c) ==
  /\ pc[c] = "single"
  /\ Goto(c, IF load["single"] THEN "takeSingle" ELSE "loop")
  /\ UNCHANGED <<dialogVars, files, acceptVars, link, clientVars, stream, file_countr,
                 file_total, written, size, memberVars, down>>

SingleLoad(c) ==
  /\ pc[c] = "takeSingle"
  /\ load' = [load EXCEPT !["single"] = FALSE]
  /\ NextImage(c)
  /\ UNCHANGED <<writes, batchChecked, clientMode, clientSend, enabled, reenabled>>
  /\ UNCHANGED <<files, acceptVars, link, clientVars, stream, file_total, written, size,
                 memberVars, down>>

(* The name is copied, the image read. *)
LoadImage(c) ==
  /\ pc[c] = "load"
  /\ IF file_countr[c] - 1 \in 0 .. files - 1 THEN down' = FALSE ELSE down' \in BOOLEAN
  /\ Goto(c, "read")
  /\ UNCHANGED <<dialogVars, files, acceptVars, link, clientVars, stream, file_countr,
                 file_total, written, size, memberVars>>

(* Whatever the client wrote is taken for a request. *)
ReadRequest(c) ==
  /\ pc[c] = "read"
  /\ stream[c] # <<>>
  /\ buffer' = Head(stream[c])
  /\ stream' = [stream EXCEPT ![c] = Tail(@)]
  /\ Goto(c, "reply")
  /\ UNCHANGED <<dialogVars, files, acceptVars, link, clientVars, file_countr, file_total,
                 written, size, counter, saved, down>>

(* Mutant: only the header is written. *)
MutWriteImage(c) ==
  /\ pc[c] = "reply"
  /\ Writable(c)
  /\ written' = [written EXCEPT ![c] = Append(@, file_countr[c] - 1)]
  /\ Goto(c, "loop")
  /\ UNCHANGED <<dialogVars, files, acceptVars, link, kind, toWrite, images, stream, file_countr,
                 file_total, size, memberVars, down>>

WriteImage(c) ==
  /\ pc[c] = "reply"
  /\ Writable(c)
  /\ written' = [written EXCEPT ![c] = Append(@, file_countr[c] - 1)]
  /\ toWrite' = [toWrite EXCEPT ![c] = @ \/ kind[c] = "receives"]
  /\ Goto(c, "loop")
  /\ UNCHANGED <<dialogVars, files, acceptVars, link, kind, images, stream, file_countr,
                 file_total, size, memberVars, down>>

(* The thread returns; nobody closes its socket. *)
EndOfList(c) ==
  /\ pc[c] = "loop"
  /\ ~MoreImages(c)
  /\ Goto(c, "done")
  /\ UNCHANGED <<dialogVars, files, acceptVars, link, clientVars, stream, file_countr,
                 file_total, written, size, memberVars, down>>

-----------------------------------------------------------------------------
(* server_run, server receives: receive_img, for ever.                     *)
AskImage(c) ==
  /\ pc[c] = "ask"
  /\ Writable(c)
  /\ toWrite' = [toWrite EXCEPT ![c] = @ \/ kind[c] = "sends"]
  /\ Goto(c, "header")
  /\ UNCHANGED <<dialogVars, files, acceptVars, link, kind, images, stream, file_countr,
                 file_total, written, size, memberVars, down>>

ReadHeader(c) ==
  /\ pc[c] = "header"
  /\ stream[c] # <<>>
  /\ buffer' = Head(stream[c])
  /\ stream' = [stream EXCEPT ![c] = Tail(@)]
  /\ Goto(c, "size")
  /\ UNCHANGED <<dialogVars, files, acceptVars, link, clientVars, file_countr, file_total,
                 written, size, counter, saved, down>>

(* width * height * channels, out of the shared buffer *)
Announced(unit) ==
  CASE unit[1] = "header" -> {1}
    [] unit[1] = "zeros"  -> {0}
    [] OTHER              -> 0 .. MaxSize

TakeSize(c) ==
  /\ pc[c] = "size"
  /\ \E n \in Announced(buffer) :
       /\ size' = [size EXCEPT ![c] = n]
       /\ Goto(c, IF n > 0 THEN "body" ELSE "ask")
  /\ UNCHANGED <<dialogVars, files, acceptVars, link, clientVars, stream, file_countr,
                 file_total, written, memberVars, down>>

(* The pixels go where the header was. *)
ReadBody(c) ==
  /\ pc[c] = "body"
  /\ Len(stream[c]) >= size[c]
  /\ buffer' = Head(stream[c])
  /\ stream' = [stream EXCEPT ![c] = SubSeq(@, size[c] + 1, Len(@))]
  /\ Goto(c, "save")
  /\ UNCHANGED <<dialogVars, files, acceptVars, link, clientVars, file_countr, file_total,
                 written, size, counter, saved, down>>

SaveImage(c) ==
  /\ pc[c] = "save"
  /\ saved' = [n \in DOMAIN saved \cup {counter} |-> IF n = counter THEN buffer ELSE saved[n]]
  /\ Goto(c, "count")
  /\ UNCHANGED <<dialogVars, files, acceptVars, link, clientVars, stream, file_countr,
                 file_total, written, size, buffer, counter, down>>

CountImage(c) ==
  /\ pc[c] = "count"
  /\ counter' = counter + 1
  /\ Goto(c, "ask")
  /\ UNCHANGED <<dialogVars, files, acceptVars, link, clientVars, stream, file_countr,
                 file_total, written, size, buffer, saved, down>>

-----------------------------------------------------------------------------
(* The clients.                                                            *)
Connects(c) ==
  /\ link[c] = "none"
  /\ spc \in {"wait", "spawn"}
  /\ link' = [link EXCEPT ![c] = "queued"]
  /\ UNCHANGED <<dialogVars, files, acceptVars, clientVars, stream, threadVars, memberVars,
                 down>>

ClientWrites(c, units) ==
  /\ link[c] = "up"
  /\ toWrite[c]
  /\ toWrite' = [toWrite EXCEPT ![c] = FALSE]
  /\ stream' = [stream EXCEPT ![c] = @ \o units]
  /\ UNCHANGED <<dialogVars, files, acceptVars, link, kind, threadVars, memberVars, down>>

ClientAsks(c) ==
  /\ kind[c] = "receives"
  /\ ClientWrites(c, <<Unit("request", c, 0)>>)
  /\ UNCHANGED images

ClientSends(c) ==
  /\ kind[c] = "sends"
  /\ images[c] < MaxImages
  /\ ClientWrites(c, <<Unit("header", c, images[c]), Unit("pixels", c, images[c])>>)
  /\ images' = [images EXCEPT ![c] = @ + 1]

LoseConnection(c) ==
  /\ link[c] = "up"
  /\ link' = [link EXCEPT ![c] = "lost"]
  /\ UNCHANGED <<dialogVars, files, acceptVars, clientVars, stream, threadVars, memberVars,
                 down>>

ServerStep == Listen \/ Accept \/ Spawn

WorkerStep(c) ==
  \/ WorkerStart(c) \/ WorkerFails(c) \/ TakeTotal(c) \/ BatchLoad(c) \/ TestSingleLoad(c)
  \/ SingleLoad(c) \/ LoadImage(c) \/ ReadRequest(c) \/ WriteImage(c) \/ EndOfList(c)
  \/ AskImage(c) \/ ReadHeader(c) \/ TakeSize(c) \/ ReadBody(c) \/ SaveImage(c)
  \/ CountImage(c)

Next ==
  /\ ~down
  /\ \/ DialogStep \/ StartNetserver \/ FilelistPath
     \/ ServerStep
     \/ \E c \in Conns : \/ WorkerStep(c)
                         \/ Connects(c) \/ ClientAsks(c) \/ ClientSends(c)
                         \/ LoseConnection(c)

Spec == Init /\ [][Next]_vars

(* The threads run, and a client writes when it is its turn. *)
Fairness ==
  /\ WF_vars(~down /\ ServerStep)
  /\ WF_vars(~down /\ DialogStep /\ ~UIReady)
  /\ \A c \in Conns : /\ WF_vars(~down /\ WorkerStep(c))
                      /\ WF_vars(~down /\ ClientAsks(c))

FairSpec == Spec /\ Fairness

-----------------------------------------------------------------------------
(* Properties.                                                             *)

(* A thread of server_run only ever works on a connection that has been    *)
(* accepted for it, and no accepted connection is left without a thread.   *)
OneThreadPerConnection ==
  \A c \in Conns :
    (link[c] \in {"up", "lost"}) <=> (pc[c] # "none" \/ (spc = "spawn" /\ accepted = c))

(* A thread that sends ends with every image of its snapshot but the last  *)
(* written once and in order, whatever the other threads took from the     *)
(* flags or did to the buffer.                                             *)
ServedAllButLast ==
  \A c \in Conns :
    pc[c] = "done" => written[c] = [i \in 1 .. file_total[c] - 1 |-> i - 1]

(* As long as one connection is all there has been and its client sends,   *)
(* file number n is the client's image number n, and what the thread takes *)
(* for a header is one.                                                    *)
AloneSavedInOrder ==
  \A c \in Conns :
    (kind[c] = "sends" /\ \A d \in Conns \ {c} : pc[d] = "none") =>
      /\ \A n \in DOMAIN saved : saved[n] = Unit("pixels", c, n)
      /\ pc[c] = "size" => buffer[1] = "header"

(* In batch mode a client that keeps asking is served to the end of the    *)
(* list, unless the process ends.                                          *)
ServedToTheEnd ==
  \A c \in Conns :
    (pc[c] = "loop" /\ kind[c] = "receives")
      ~> (pc[c] = "done" \/ ~load["batch"] \/ down)

(* "to wait for all the net request from client, and when require income,  *)
(* then start a server thread for the net connect": no request that        *)
(* reached the listening socket is turned down.                            *)
EveryRequestServed == \A c \in Conns : link[c] # "reset"

(* "to server for all the net request from client ... actuall is an        *)
(* endless loop": the loss of one connection does not end the server.      *)
ServerStaysUp == ~down

-----------------------------------------------------------------------------
(* The abstract specification a thread that sends implements, for a list   *)
(* that ends one image before the end.                                     *)
Phase(c) ==
  CASE pc[c] \in {"none", "done"} -> "idle"
    [] pc[c] \in {"loop", "single", "takeSingle", "load", "read", "reply"} -> "walking"
    [] OTHER -> "connecting"

Served(c) == {written[c][i] : i \in DOMAIN written[c]}
Share(c) == IF Phase(c) = "walking" /\ file_total[c] > 0 THEN file_total[c] - 1 ELSE 0
Place(c) == IF Phase(c) = "walking" THEN file_countr[c] - 1 ELSE -1
Left(c) == (0 .. Share(c) - 1) \ Served(c)
Outcome(c) == IF pc[c] = "done" THEN "done" ELSE "none"

phases == [c \in Conns |-> Phase(c)]
shares == [c \in Conns |-> Share(c)]
places == [c \in Conns |-> Place(c)]
lefts == [c \in Conns |-> Left(c)]
outcomes == [c \in Conns |-> Outcome(c)]

Run == INSTANCE SendingRun WITH
  Senders <- Conns, phase <- phases, total <- shares, at <- places, left <- lefts,
  outcome <- outcomes

(* A thread of server_run that sends walks its list, the last image left   *)
(* out, one place at a time, goes on only from an image it has written,    *)
(* and returns with none left.                                             *)
WalksItsList == Run!Spec
=============================================================================

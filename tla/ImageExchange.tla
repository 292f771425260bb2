----------------------------- MODULE ImageExchange -----------------------------
(***************************************************************************)
(* One connection between a thread of tcp_connect_thread2 that sends and   *)
(* what is at its other end: the image processing box, or a second         *)
(* simulator, whose server_run receives.                                   *)
(*                                                                         *)
(* What travels to the client are requests, of which only the signalling   *)
(* counts; they arrive whole.  What travels back are units: the two halves *)
(* of the header of image n, and its pixels, the k-th of which is          *)
(* <<"pixel", n, k>>, where n counts the images the client has loaded.     *)
(* write_some may write only the first units it is given, and nobody looks *)
(* at its result.                                                          *)
(***************************************************************************)
EXTENDS Integers, Sequences, Functions

CONSTANTS
  Peers,     \* "box", "simulator": what may be at the other end
  Sizes,     \* how many units of pixels an image may have; 0 if unreadable
  Room,      \* units a simulator's data_buffer_ has room for
  MaxImages  \* bound on the images loaded

ASSUME PeersAssumption == Peers \subseteq {"box", "simulator"}
ASSUME SizesAssumption == Sizes \subseteq Nat /\ Sizes # {} /\ Room \in Nat
ASSUME BoundAssumption == MaxImages \in Nat

VARIABLES
  peer,     \* what is at the other end
  pc,       \* where the client is
  size,     \* the images loaded so far: how many units each has
  how,      \* the branch that loaded each of them
  requests, \* signallings on their way to the client
  stream,   \* units on their way back
  rpc,      \* where the receiver is
  expected, \* local of the receiver: the size it takes the image to have
  saved,    \* what each image saved was made of
  refused,  \* history: the images the client did not send
  sent,     \* history: the images with pixels it has begun to send, in this order
  short,    \* history: a write has written a part only
  crashed      \* the receiver's process has ended

exchangeVars ==
  <<peer, pc, size, how, requests, stream, rpc, expected, saved, refused, sent, short,
    crashed>>
clientVars == <<pc, size, how, refused, sent>>
receiverVars == <<rpc, expected, saved, crashed>>

Ask == 20            \* what the box asks for an image with
SimulatorAsk == 2    \* what a second simulator asks with
Signals == {Ask, SimulatorAsk}

Loaded == Len(size)
Head1(n) == <<"head", n, 1>>
Header(n) == <<Head1(n), <<"head", n, 2>> >>
Pixels(n) == [k \in 1 .. size[n] |-> <<"pixel", n, k>>]
Units == {"head", "pixel"} \X (1 .. MaxImages) \X Nat

ExchangeTypeOK ==
  /\ peer \in Peers
  /\ pc \in {"loop", "read", "check", "image", "done"}
  /\ size \in Seq(Sizes) /\ Loaded <= MaxImages
  /\ how \in Seq({"batch", "hand"}) /\ Len(how) = Loaded
  /\ requests \in Seq(Signals)
  /\ stream \in Seq(Units)
  /\ rpc \in {"ask", "header", "body"}
  /\ expected \in Sizes \cup {0}
  /\ saved \in Seq(Seq(Units))
  /\ refused \subseteq 1 .. Loaded
  /\ sent \in Seq(1 .. Loaded)
  /\ short \in BOOLEAN /\ crashed \in BOOLEAN

ExchangeInit ==
  /\ peer \in Peers
  /\ pc = "loop"
  /\ size = <<>> /\ how = <<>>
  /\ requests = <<>> /\ stream = <<>>
  /\ rpc = "ask"
  /\ expected = 0
  /\ saved = <<>>
  /\ refused = {} /\ sent = <<>>
  /\ short = FALSE /\ crashed = FALSE

-----------------------------------------------------------------------------
(* The client.                                                             *)

(* Load the next image in a batch, or another one by hand. *)
LoadImage ==
  /\ pc = "loop"
  /\ Loaded < MaxImages
  /\ \E s \in Sizes : size' = Append(size, s)
  /\ \E h \in {"batch", "hand"} : how' = Append(how, h)
  /\ pc' = "read"
  /\ UNCHANGED <<peer, requests, stream, receiverVars, refused, sent, short>>

EndOfList ==
  /\ pc = "loop"
  /\ pc' = "done"
  /\ UNCHANGED <<peer, size, how, requests, stream, receiverVars, refused, sent, short>>

(* A batch looks at the signalling, the other branches at the number of    *)
(* bytes read, which is never 0.                                           *)
Answers(signal) == how[Loaded] = "hand" \/ signal = Ask

(* Mutant: the branches that load by hand look at it as well. *)
MutReadRequest ==
  /\ pc = "read"
  /\ requests # <<>>
  /\ requests' = Tail(requests)
  /\ IF Head(requests) = Ask
       THEN pc' = "check" /\ UNCHANGED refused
       ELSE pc' = "loop" /\ refused' = refused \cup {Loaded}
  /\ UNCHANGED <<peer, size, how, stream, receiverVars, sent, short>>

(* asio::read waits for a whole request. *)
ReadRequest ==
  /\ pc = "read"
  /\ requests # <<>>
  /\ requests' = Tail(requests)
  /\ IF Answers(Head(requests))
       THEN pc' = "check" /\ UNCHANGED refused
       ELSE pc' = "loop" /\ refused' = refused \cup {Loaded}
  /\ UNCHANGED <<peer, size, how, stream, receiverVars, sent, short>>

(* write_some: some of the units, at least one if there are any. *)
WriteSome(units) ==
  \E k \in (IF units = <<>> THEN {0} ELSE 1 .. Len(units)) :
    /\ stream' = stream \o SubSeq(units, 1, k)
    /\ short' = (short \/ k < Len(units))

WriteHeader ==
  /\ pc = "check"
  /\ WriteSome(Header(Loaded))
  /\ sent' = IF size[Loaded] > 0 THEN Append(sent, Loaded) ELSE sent
  /\ pc' = "image"
  /\ UNCHANGED <<peer, size, how, requests, receiverVars, refused>>

(* Mutant: the length of the image before. *)
MutWriteImage ==
  /\ pc = "image"
  /\ WriteSome([k \in 1 .. size[IF Loaded = 1 THEN 1 ELSE Loaded - 1] |->
                  <<"pixel", Loaded, k>>])
  /\ pc' = "loop"
  /\ UNCHANGED <<peer, size, how, requests, receiverVars, refused, sent>>

WriteImage ==
  /\ pc = "image"
  /\ WriteSome(Pixels(Loaded))
  /\ pc' = "loop"
  /\ UNCHANGED <<peer, size, how, requests, receiverVars, refused, sent>>

ClientStep == LoadImage \/ EndOfList \/ ReadRequest \/ WriteHeader \/ WriteImage

-----------------------------------------------------------------------------
(* The other end.                                                          *)

(* Mutant: a server that has waited in vain asks again. *)
MutAskImage ==
  /\ rpc \in {"ask", "header"}
  /\ requests = <<>> /\ stream = <<>>
  /\ \E signal \in (IF peer = "simulator" THEN {SimulatorAsk} ELSE Signals) :
       requests' = Append(requests, signal)
  /\ rpc' = "header"
  /\ UNCHANGED <<peer, clientVars, stream, expected, saved, short, crashed>>

(* A simulator asks once and then waits for an image, whatever receive_img *)
(* returned for the one before.                                            *)
AskImage ==
  /\ rpc = "ask"
  /\ \E signal \in (IF peer = "simulator" THEN {SimulatorAsk} ELSE Signals) :
       requests' = Append(requests, signal)
  /\ rpc' = "header"
  /\ UNCHANGED <<peer, clientVars, stream, expected, saved, short, crashed>>

(* A box that has asked for something else goes on to ask for an image.    *)
BoxAsksAgain ==
  /\ peer = "box"
  /\ rpc = "header"
  /\ requests = <<>> /\ stream = <<>> /\ pc \in {"loop", "read"}
  /\ requests' = <<Ask>>
  /\ UNCHANGED <<peer, clientVars, stream, receiverVars, short>>

AtHeader == \E n \in 1 .. Loaded : SubSeq(stream, 1, 2) = Header(n)

(* Mutant: the size the header has room for is one too many. *)
MutReadHeader ==
  /\ rpc = "header"
  /\ Len(stream) >= 2
  /\ \/ AtHeader /\ expected' = size[stream[1][2]] + 1
     \/ ~AtHeader /\ expected' \in Sizes
  /\ stream' = SubSeq(stream, 3, Len(stream))
  /\ IF expected' = 0 THEN rpc' = "ask" ELSE rpc' = "body"
  /\ UNCHANGED <<peer, clientVars, requests, saved, short, crashed>>

(* receive_img: read as many bytes as a header has and multiply three of   *)
(* its fields.  Anything else in that place gives any product.             *)
ReadHeader ==
  /\ rpc = "header"
  /\ Len(stream) >= 2
  /\ \/ AtHeader /\ expected' = size[stream[1][2]]
     \/ ~AtHeader /\ expected' \in Sizes
  /\ stream' = SubSeq(stream, 3, Len(stream))
  /\ IF expected' = 0 THEN rpc' = "ask" ELSE rpc' = "body"
  /\ UNCHANGED <<peer, clientVars, requests, saved, short, crashed>>

(* Read the pixels and save them.  A simulator does not compare their      *)
(* number with the length of data_buffer_.                                 *)
ReadBody ==
  /\ rpc = "body"
  /\ Len(stream) >= expected
  /\ stream' = SubSeq(stream, expected + 1, Len(stream))
  /\ saved' = Append(saved, SubSeq(stream, 1, expected))
  /\ rpc' = "ask"
  /\ IF expected <= Room \/ peer = "box" THEN UNCHANGED crashed ELSE crashed' \in BOOLEAN
  /\ UNCHANGED <<peer, clientVars, requests, expected, short>>

ReceiverStep == AskImage \/ ReadHeader \/ ReadBody

ExchangeNext == ~crashed /\ (ClientStep \/ ReceiverStep \/ BoxAsksAgain)

ExchangeSpec == ExchangeInit /\ [][ExchangeNext]_exchangeVars

FairExchangeSpec ==
  /\ ExchangeSpec
  /\ WF_exchangeVars(~crashed /\ ClientStep)
  /\ WF_exchangeVars(~crashed /\ ReceiverStep)

-----------------------------------------------------------------------------
(* As long as every write has been a whole one, the receiver's place in    *)
(* the stream is where the client is: what it takes for a header is one,   *)
(* and image number i that it saves is the i-th the client sent that could *)
(* be read, whole and alone, whichever branches loaded them.               *)
InStep ==
  ~short =>
    /\ rpc = "header" /\ Len(stream) >= 2 => AtHeader
    /\ Len(saved) <= Len(sent)
    /\ \A i \in DOMAIN saved : saved[i] = Pixels(sent[i])

(* Two simulators, once an image of a batch has not been answered with,    *)
(* wait for each other for good, even if the user goes on by hand: the     *)
(* server asks once per image it is sent, the client sends once per        *)
(* request.                                                                *)
StalledForGood ==
  ~short /\ peer = "simulator" /\ refused # {} =>
    /\ requests = <<>> /\ stream = <<>>
    /\ rpc = "header"
    /\ pc \in {"loop", "read", "done"}

(* An image loaded by hand reaches the other end, whatever that asked      *)
(* with: once there is a request for it, it is saved, if every write was   *)
(* whole and the image could be read.                                      *)
HandLoadedArrives ==
  \A n \in 1 .. MaxImages :
    (Loaded = n /\ pc = "read" /\ how[Loaded] = "hand" /\ requests # <<>>)
      ~> (\/ n <= Loaded /\ (size[n] = 0 \/ Pixels(n) \in Range(saved))
          \/ short \/ crashed)
=============================================================================

------------------------- MODULE ImageExchange_proofs -------------------------
(***************************************************************************)
(* Theorems about ImageExchange, for any peers, sizes, room and bound: the *)
(* type invariant, and what client and receiver know of each other as long *)
(* as every write is a whole one.                                          *)
(***************************************************************************)
EXTENDS ImageExchange, SequenceTheorems, TLAPS

-----------------------------------------------------------------------------
(* What the two ends have in common, as long as every write was whole: one *)
(* of eight places in the exchange of one image.                           *)
Waits == pc \in {"loop", "read", "done"}
Empty == requests = <<>> /\ stream = <<>>
AllSaved == Len(saved) = Len(sent)

(* Image n is on its way; it is the last one sent, if it has pixels. *)
Due(n) ==
  /\ n \in 1 .. Loaded
  /\ IF size[n] > 0 THEN Len(sent) = Len(saved) + 1 /\ sent[Len(sent)] = n
                    ELSE AllSaved

(* The client waits, or is about to write an image without pixels. *)
Drained == AllSaved /\ (Waits \/ (pc = "image" /\ size[Loaded] = 0))

Asking == rpc = "ask" /\ Empty /\ Drained
Asked == rpc = "header" /\ Len(requests) = 1 /\ stream = <<>> /\ Drained
TurnedDown == rpc = "header" /\ Empty /\ AllSaved /\ Waits
Answering == rpc = "header" /\ Empty /\ AllSaved /\ pc = "check"
HeaderSent ==
  rpc = "header" /\ requests = <<>> /\ pc = "image" /\ stream = Header(Loaded) /\ Due(Loaded)
ImageSent ==
  /\ rpc = "header" /\ requests = <<>> /\ Waits
  /\ \E n \in 1 .. Loaded : Due(n) /\ stream = Header(n) \o Pixels(n)
HeaderRead ==
  /\ rpc = "body" /\ Empty /\ pc = "image" /\ Due(Loaded)
  /\ expected = size[Loaded] /\ expected > 0
ImageComing ==
  /\ rpc = "body" /\ requests = <<>> /\ Waits
  /\ \E n \in 1 .. Loaded : Due(n) /\ expected = size[n] /\ expected > 0 /\ stream = Pixels(n)

InPlace ==
  \/ Asking \/ Asked \/ TurnedDown \/ Answering
  \/ HeaderSent \/ ImageSent \/ HeaderRead \/ ImageComing

SavedAsSent ==
  Len(saved) <= Len(sent) /\ \A i \in 1 .. Len(saved) : saved[i] = Pixels(sent[i])

AskedOnce == peer = "simulator" /\ refused # {} => TurnedDown

(* A client that writes or is about to has loaded an image. *)
HasImage == pc \in {"read", "check", "image"} => Loaded >= 1

StepInv == ~short => InPlace /\ SavedAsSent /\ AskedOnce

-----------------------------------------------------------------------------
(* What is written for an image.                                           *)
LEMMA ImageSizes ==
  ASSUME ExchangeTypeOK
  PROVE  /\ Sizes \subseteq Nat /\ MaxImages \in Nat
         /\ Loaded \in Nat /\ Loaded <= MaxImages
         /\ \A n \in 1 .. Loaded : size[n] \in Sizes
BY SizesAssumption, BoundAssumption, LenProperties, ElementOfSeq DEF ExchangeTypeOK, Loaded

LEMMA HeaderSeq ==
  ASSUME ExchangeTypeOK, NEW n \in 1 .. Loaded
  PROVE  /\ Header(n) \in Seq(Units) /\ Len(Header(n)) = 2
         /\ Header(n)[1] = Head1(n) /\ Head1(n)[2] = n
<1>1. <<"head", n, 1>> \in Units /\ <<"head", n, 2>> \in Units
  BY ImageSizes DEF Units
<1> QED BY <1>1 DEF Header, Head1

LEMMA PixelsSeq ==
  ASSUME ExchangeTypeOK, NEW n \in 1 .. Loaded
  PROVE  Pixels(n) \in Seq(Units) /\ Len(Pixels(n)) = size[n]
<1>1. size[n] \in Nat /\ n \in 1 .. MaxImages
  BY ImageSizes
<1>2. \A k \in 1 .. size[n] : <<"pixel", n, k>> \in Units
  BY <1>1 DEF Units
<1>3. Pixels(n) \in [1 .. size[n] -> Units]
  BY <1>2 DEF Pixels
<1> QED BY <1>1, <1>3 DEF Pixels

LEMMA PartOf ==
  ASSUME NEW S, NEW s \in Seq(S), NEW a \in Nat, NEW b \in Nat, 1 <= a, b <= Len(s)
  PROVE  SubSeq(s, a, b) \in Seq(S)
<1>1. \A i \in a .. b : s[i] \in S
  BY ElementOfSeq
<1> QED BY <1>1, SubSeqProperties

LEMMA WrittenType ==
  ASSUME ExchangeTypeOK, NEW units \in Seq(Units), WriteSome(units)
  PROVE  stream' \in Seq(Units) /\ short' \in BOOLEAN
<1>1. PICK k \in (IF units = <<>> THEN {0} ELSE 1 .. Len(units)) :
        stream' = stream \o SubSeq(units, 1, k) /\ short' = (short \/ k < Len(units))
  BY DEF WriteSome
<1>2. k \in Nat /\ k <= Len(units)
  BY <1>1, LenProperties, EmptySeq
<1>3. SubSeq(units, 1, k) \in Seq(Units)
  BY <1>2, PartOf
<1> QED BY <1>1, <1>3, ConcatProperties DEF ExchangeTypeOK

LEMMA TypeStep ==
  ASSUME ExchangeTypeOK, HasImage, ExchangeNext
  PROVE  ExchangeTypeOK' /\ HasImage'
<1> USE ImageSizes DEF clientVars, receiverVars
<1>1. CASE LoadImage
  <2> USE <1>1 DEF LoadImage
  <2>1. PICK s \in Sizes, h \in {"batch", "hand"} : size' = Append(size, s) /\ how' = Append(how, h)
    OBVIOUS
  <2>2. /\ size' \in Seq(Sizes) /\ Len(size') = Loaded + 1
        /\ how' \in Seq({"batch", "hand"}) /\ Len(how') = Len(how) + 1
    BY <2>1, AppendProperties DEF ExchangeTypeOK, Loaded
  <2>3. refused' \subseteq 1 .. Loaded' /\ sent' \in Seq(1 .. Loaded')
    <3>1. 1 .. Loaded \subseteq 1 .. Loaded'
      BY <2>2 DEF Loaded
    <3> QED BY <3>1, SeqMonotonic DEF ExchangeTypeOK
  <2> QED BY <2>2, <2>3 DEF ExchangeTypeOK, HasImage, Loaded
<1>2. CASE EndOfList
  BY <1>2 DEF EndOfList, ExchangeTypeOK, HasImage, Loaded
<1>3. CASE ReadRequest
  <2> USE <1>3 DEF ReadRequest
  <2>1. requests' \in Seq(Signals)
    BY HeadTailProperties DEF ExchangeTypeOK
  <2>2. Loaded \in 1 .. Loaded /\ Loaded' = Loaded
    BY DEF HasImage, Loaded
  <2>3. refused' \subseteq 1 .. Loaded'
    BY <2>2 DEF ExchangeTypeOK
  <2> QED BY <2>1, <2>3 DEF ExchangeTypeOK, HasImage, Loaded
<1>4. CASE WriteHeader
  <2> USE <1>4 DEF WriteHeader
  <2>1. Loaded \in 1 .. Loaded /\ Loaded' = Loaded
    BY DEF HasImage, Loaded
  <2>2. stream' \in Seq(Units) /\ short' \in BOOLEAN
    BY <2>1, HeaderSeq, WrittenType
  <2>3. sent' \in Seq(1 .. Loaded)
    BY <2>1, AppendProperties DEF ExchangeTypeOK
  <2> QED BY <2>1, <2>2, <2>3 DEF ExchangeTypeOK, HasImage
<1>5. CASE WriteImage
  <2> USE <1>5 DEF WriteImage
  <2>1. Loaded \in 1 .. Loaded /\ Loaded' = Loaded
    BY DEF HasImage, Loaded
  <2>2. stream' \in Seq(Units) /\ short' \in BOOLEAN
    BY <2>1, PixelsSeq, WrittenType
  <2> QED BY <2>1, <2>2 DEF ExchangeTypeOK, HasImage
<1>6. CASE AskImage
  <2> USE <1>6 DEF AskImage
  <2>1. PICK signal \in Signals : requests' = Append(requests, signal)
    BY DEF Signals
  <2>2. requests' \in Seq(Signals)
    BY <2>1, AppendProperties DEF ExchangeTypeOK
  <2> QED BY <2>2 DEF ExchangeTypeOK, HasImage, Loaded
<1>7. CASE BoxAsksAgain
  BY <1>7 DEF BoxAsksAgain, ExchangeTypeOK, HasImage, Loaded, Signals
<1>8. CASE ReadHeader
  <2> USE <1>8 DEF ReadHeader
  <2>1. expected' \in Sizes
    <3>1. CASE AtHeader /\ expected' = size[stream[1][2]]
      <4>1. PICK n \in 1 .. Loaded : SubSeq(stream, 1, 2) = Header(n)
        BY <3>1 DEF AtHeader
      <4>2. SubSeq(stream, 1, 2)[1] = stream[1]
        <5>1. \A i \in 1 .. 2 : stream[i] \in Units
          BY LenProperties, ElementOfSeq DEF ExchangeTypeOK
        <5> QED BY <5>1, SubSeqProperties
      <4>3. stream[1][2] = n
        BY <4>1, <4>2, HeaderSeq
      <4> QED BY <3>1, <4>3
    <3> QED BY <3>1
  <2>2. stream' \in Seq(Units)
    BY PartOf, LenProperties DEF ExchangeTypeOK
  <2> QED BY <2>1, <2>2 DEF ExchangeTypeOK, HasImage, Loaded
<1>9. CASE ReadBody
  <2> USE <1>9 DEF ReadBody
  <2>1. expected \in Nat /\ Len(stream) \in Nat /\ expected <= Len(stream)
    BY LenProperties DEF ExchangeTypeOK
  <2>2. stream' \in Seq(Units) /\ SubSeq(stream, 1, expected) \in Seq(Units)
    BY <2>1, PartOf DEF ExchangeTypeOK
  <2>3. saved' \in Seq(Seq(Units))
    BY <2>2, AppendProperties DEF ExchangeTypeOK
  <2>4. crashed' \in BOOLEAN
    BY DEF ExchangeTypeOK
  <2> QED BY <2>2, <2>3, <2>4 DEF ExchangeTypeOK, HasImage, Loaded
<1> QED
  BY <1>1, <1>2, <1>3, <1>4, <1>5, <1>6, <1>7, <1>8, <1>9
  DEF ExchangeNext, ClientStep, ReceiverStep

-----------------------------------------------------------------------------
(* What the receiver finds in the stream.                                  *)
LEMMA Parted ==
  ASSUME NEW S, NEW s \in Seq(S), NEW t \in Seq(S)
  PROVE  /\ s \o t \in Seq(S) /\ Len(s \o t) = Len(s) + Len(t)
         /\ SubSeq(s \o t, 1, Len(s)) = s
         /\ SubSeq(s \o t, Len(s) + 1, Len(s) + Len(t)) = t
<1>1. Len(s) \in Nat /\ Len(t) \in Nat
  BY LenProperties
<1>2. /\ s \o t \in Seq(S) /\ Len(s \o t) = Len(s) + Len(t)
      /\ \A i \in 1 .. Len(s) + Len(t) : (s \o t)[i] \in S
  BY <1>1, ConcatProperties, ElementOfSeq
<1>3. /\ \A i \in 1 .. Len(s) : (s \o t)[i] = s[i]
      /\ \A i \in 1 .. Len(t) : (s \o t)[Len(s) + i] = t[i]
  BY <1>1, ConcatProperties
<1>4. SubSeq(s \o t, 1, Len(s)) = s
  <2> DEFINE u == SubSeq(s \o t, 1, Len(s))
  <2>1. u \in Seq(S) /\ Len(u) = Len(s) /\ \A i \in 1 .. Len(s) : u[i] = (s \o t)[i]
    BY <1>1, <1>2, SubSeqProperties
  <2> HIDE DEF u
  <2>2. u = s
    BY <1>3, <2>1, SeqEqual
  <2> QED BY <2>2 DEF u
<1>5. SubSeq(s \o t, Len(s) + 1, Len(s) + Len(t)) = t
  <2> DEFINE u == SubSeq(s \o t, Len(s) + 1, Len(s) + Len(t))
  <2>1. /\ u \in Seq(S) /\ Len(u) = Len(t)
        /\ \A i \in 1 .. Len(t) : u[i] = (s \o t)[Len(s) + i]
    <3>1. \A i \in Len(s) + 1 .. Len(s) + Len(t) : (s \o t)[i] \in S
      BY <1>1, <1>2
    <3>2. /\ u \in Seq(S) /\ Len(u) = Len(t)
          /\ \A i \in 1 .. Len(s) + Len(t) - (Len(s) + 1) + 1 : u[i] = (s \o t)[Len(s) + 1 + i - 1]
      BY <1>1, <3>1, SubSeqProperties
    <3> QED BY <1>1, <3>2
  <2> HIDE DEF u
  <2>2. u = t
    BY <1>3, <2>1, SeqEqual
  <2> QED BY <2>2 DEF u
<1> QED BY <1>2, <1>4, <1>5

(* A stream that begins with a header is read up to what follows it. *)
LEMMA HeaderFound ==
  ASSUME ExchangeTypeOK, NEW n \in 1 .. Loaded, NEW rest \in Seq(Units),
         stream = Header(n) \o rest
  PROVE  AtHeader /\ stream[1][2] = n /\ SubSeq(stream, 3, Len(stream)) = rest
<1>1. /\ Header(n) \in Seq(Units) /\ Len(Header(n)) = 2 /\ Len(rest) \in Nat
      /\ Header(n)[1][2] = n
  BY HeaderSeq, LenProperties
<1> DEFINE head == Header(n)
<1>h. head \in Seq(Units) /\ stream = head \o rest
  BY <1>1
<1>2. /\ Len(stream) = Len(head) + Len(rest)
      /\ SubSeq(stream, 1, Len(head)) = head
      /\ SubSeq(stream, Len(head) + 1, Len(head) + Len(rest)) = rest
  <2> HIDE DEF head
  <2> QED BY <1>h, Parted
<1>3. stream[1] = Header(n)[1]
  <2>1. 1 \in 1 .. Len(head) + Len(rest) /\ 1 <= Len(head)
    BY <1>1
  <2> HIDE DEF head
  <2>2. stream[1] = head[1]
    BY <1>h, <2>1, ConcatProperties
  <2> QED BY <2>2 DEF head
<1>4. SubSeq(stream, 1, 2) = Header(n) /\ SubSeq(stream, 3, Len(stream)) = rest
  <2>1. Len(head) + 1 = 3
    BY <1>1
  <2> QED BY <1>1, <1>2, <2>1
<1> QED BY <1>1, <1>3, <1>4 DEF AtHeader

LEMMA PixelsFound ==
  ASSUME ExchangeTypeOK, NEW n \in 1 .. Loaded, stream = Pixels(n)
  PROVE  /\ Len(stream) = size[n] /\ SubSeq(stream, 1, size[n]) = stream
         /\ SubSeq(stream, size[n] + 1, Len(stream)) = <<>>
<1>1. stream \in Seq(Units) /\ Len(stream) = size[n] /\ size[n] \in Nat
  BY PixelsSeq, ImageSizes
<1> QED BY <1>1, SubSeqFull, SubSeqEmpty

LEMMA NoPixels ==
  ASSUME ExchangeTypeOK, NEW n \in 1 .. Loaded, size[n] = 0
  PROVE  Pixels(n) = <<>>
BY PixelsSeq, EmptySeq

LEMMA WholeWrite ==
  ASSUME ExchangeTypeOK, NEW units \in Seq(Units), WriteSome(units), ~short'
  PROVE  ~short /\ stream' = stream \o units
<1>1. PICK k \in (IF units = <<>> THEN {0} ELSE 1 .. Len(units)) :
        stream' = stream \o SubSeq(units, 1, k) /\ short' = (short \/ k < Len(units))
  BY DEF WriteSome
<1>2. Len(units) \in Nat /\ k \in 0 .. Len(units) /\ ~(k < Len(units)) /\ ~short
  <2>1. Len(units) \in Nat /\ (units = <<>> => Len(units) = 0)
    BY LenProperties, EmptySeq
  <2>2. ~short /\ ~(k < Len(units))
    BY <1>1, Zenon
  <2> QED BY <1>1, <2>1, <2>2
<1>3. k = Len(units)
  BY <1>2
<1> QED BY <1>1, <1>2, <1>3, SubSeqFull

-----------------------------------------------------------------------------
(* The two ends stay in step.                                              *)

(* A client that waits for a request, and goes on to wait for another. *)
LEMMA Waiting ==
  ASSUME ExchangeTypeOK, InPlace, SavedAsSent, AskedOnce, Waits, Waits',
         UNCHANGED <<peer, requests, stream, rpc, expected, saved, refused, sent>>,
         Loaded \in Nat, Loaded' \in Nat, Loaded <= Loaded',
         \A n \in 1 .. Loaded : size'[n] = size[n]
  PROVE  InPlace' /\ SavedAsSent' /\ AskedOnce'
<1>1. \A n \in 1 .. Loaded : n \in 1 .. Loaded' /\ Pixels(n)' = Pixels(n)
  BY DEF Pixels
<1>2. \A n \in 1 .. Loaded : Due(n) => Due(n)'
  BY <1>1 DEF Due, AllSaved
<1>3. pc # "image" /\ pc # "check"
  BY DEF Waits
<1>4. TurnedDown => TurnedDown'
  BY DEF TurnedDown, Empty, AllSaved
<1>5. InPlace'
  <2>1. Asking => Asking'
    BY <1>3 DEF Asking, Empty, Drained, AllSaved
  <2>2. Asked => Asked'
    BY <1>3 DEF Asked, Drained, AllSaved
  <2>3. ImageSent => ImageSent'
    BY <1>1, <1>2 DEF ImageSent, Header, Head1
  <2>4. ImageComing => ImageComing'
    BY <1>1, <1>2 DEF ImageComing
  <2>5. ~Answering /\ ~HeaderSent /\ ~HeaderRead
    BY <1>3 DEF Answering, HeaderSent, HeaderRead
  <2> QED BY <1>4, <2>1, <2>2, <2>3, <2>4, <2>5 DEF InPlace
<1>6. SavedAsSent'
  <2>1. \A i \in 1 .. Len(saved) : i \in 1 .. Len(sent) /\ sent[i] \in 1 .. Loaded
    BY ElementOfSeq, LenProperties DEF ExchangeTypeOK, SavedAsSent
  <2> QED BY <1>1, <2>1 DEF SavedAsSent
<1>7. AskedOnce'
  BY <1>4 DEF AskedOnce
<1> QED BY <1>5, <1>6, <1>7

LEMMA StepInvStep ==
  ASSUME ExchangeTypeOK, HasImage, StepInv, ExchangeNext
  PROVE  StepInv'
<1> SUFFICES ASSUME ~short' PROVE (InPlace /\ SavedAsSent /\ AskedOnce)'
  BY DEF StepInv
<1> USE DEF clientVars, receiverVars
<1>a. /\ Sizes \subseteq Nat /\ Loaded \in Nat
      /\ \A n \in 1 .. Loaded : size[n] \in Sizes /\ size[n] \in Nat
  BY ImageSizes
<1>b. /\ Len(sent) \in Nat /\ Len(saved) \in Nat /\ Len(requests) \in Nat
      /\ \A i \in 1 .. Len(sent) : sent[i] \in 1 .. Loaded
  BY LenProperties, ElementOfSeq DEF ExchangeTypeOK
<1>c. ~short
  <2>1. CASE WriteHeader
    BY <2>1, WholeWrite, HeaderSeq, <1>a DEF WriteHeader, HasImage
  <2>2. CASE WriteImage
    BY <2>2, WholeWrite, PixelsSeq, <1>a DEF WriteImage, HasImage
  <2>3. CASE ~WriteHeader /\ ~WriteImage
    BY <2>3 DEF ExchangeNext, ClientStep, ReceiverStep, LoadImage, EndOfList, ReadRequest,
      AskImage, BoxAsksAgain, ReadHeader, ReadBody
  <2> QED BY <2>1, <2>2, <2>3
<1>d. InPlace /\ SavedAsSent /\ AskedOnce
  BY <1>c DEF StepInv
<1>1. CASE LoadImage
  <2> USE <1>1 DEF LoadImage
  <2>1. PICK s \in Sizes : size' = Append(size, s)
    OBVIOUS
  <2>2. Loaded' = Loaded + 1 /\ \A n \in 1 .. Loaded : size'[n] = size[n]
    BY <2>1, AppendProperties DEF ExchangeTypeOK, Loaded
  <2>3. Waits /\ Waits'
    BY DEF Waits
  <2>4. Loaded' \in Nat /\ Loaded <= Loaded'
    BY <1>a, <2>2
  <2> QED BY <1>a, <1>d, <2>2, <2>3, <2>4, Waiting
<1>2. CASE EndOfList
  <2>1. Waits /\ Waits' /\ Loaded' = Loaded
    BY <1>2 DEF EndOfList, Waits, Loaded
  <2> QED BY <1>2, <1>a, <1>d, <2>1, Waiting DEF EndOfList
<1> DEFINE Same == UNCHANGED <<size, sent, saved>>
<1>e. Same => Loaded' = Loaded /\ (SavedAsSent' <=> SavedAsSent) /\ (AllSaved' <=> AllSaved)
  BY DEF SavedAsSent, AllSaved, Pixels, Loaded
<1>3. CASE ReadRequest
  <2> USE <1>3 DEF ReadRequest
  <2>1. Asked /\ Waits
    BY <1>d DEF InPlace, Asking, Asked, TurnedDown, Answering, HeaderSent, ImageSent,
      HeaderRead, ImageComing, Empty, Waits
  <2>2. requests' = <<>>
    <3>1. requests \in Seq(Signals) /\ requests # <<>> /\ Len(requests) = 1
      BY <2>1 DEF ExchangeTypeOK, Asked
    <3>2. requests' \in Seq(Signals) /\ Len(requests') = 0
      BY <3>1, HeadTailProperties
    <3> QED BY <3>2, EmptySeq
  <2>3. Same /\ stream' = <<>> /\ rpc' = "header" /\ AllSaved'
    BY <2>1, <1>e DEF Asked, Drained
  <2>4. Answering' \/ TurnedDown'
    BY <2>2, <2>3 DEF Answering, TurnedDown, Empty, Waits
  <2>5. AskedOnce'
    <3>1. CASE TurnedDown'
      BY <3>1 DEF AskedOnce
    <3>2. CASE refused' = refused
      BY <1>d, <2>1, <3>2 DEF AskedOnce, TurnedDown, Asked, Empty
    <3>3. pc' = "loop" => TurnedDown'
      BY <2>2, <2>3 DEF TurnedDown, Empty, Waits
    <3> QED BY <3>1, <3>2, <3>3
  <2> QED BY <1>d, <1>e, <2>3, <2>4, <2>5 DEF InPlace
<1>4. CASE WriteHeader
  <2> USE <1>4 DEF WriteHeader
  <2>1. Answering /\ ~TurnedDown
    BY <1>d DEF InPlace, Asking, Asked, TurnedDown, Answering, HeaderSent, ImageSent,
      HeaderRead, ImageComing, Empty, Waits, Drained
  <2>2. Loaded \in 1 .. Loaded /\ Loaded' = Loaded
    BY <1>a DEF HasImage, Loaded
  <2>3. stream' = Header(Loaded)
    BY <2>1, <2>2, HeaderSeq, WholeWrite, ConcatEmptySeq DEF Answering, Empty
  <2>4. /\ IF size[Loaded] > 0 THEN /\ Len(sent') = Len(sent) + 1 /\ sent'[Len(sent) + 1] = Loaded
                                    /\ \A i \in 1 .. Len(sent) : sent'[i] = sent[i]
                                ELSE sent' = sent
    BY <2>2, AppendProperties DEF ExchangeTypeOK
  <2>5. Due(Loaded)'
    BY <1>b, <2>1, <2>2, <2>4 DEF Due, AllSaved, Answering
  <2>6. HeaderSent'
    BY <2>1, <2>2, <2>3, <2>5 DEF HeaderSent, Answering, Empty, Header, Head1
  <2>7. SavedAsSent'
    <3>1. Len(saved) <= Len(sent') /\ \A i \in 1 .. Len(saved) : sent'[i] = sent[i]
      BY <1>b, <2>1, <2>4 DEF Answering, AllSaved
    <3>2. \A n : Pixels(n)' = Pixels(n)
      BY DEF Pixels
    <3> QED BY <1>d, <3>1, <3>2 DEF SavedAsSent
  <2>8. AskedOnce'
    BY <1>d, <2>1 DEF AskedOnce
  <2> QED BY <2>6, <2>7, <2>8 DEF InPlace
<1>5. CASE WriteImage
  <2> USE <1>5 DEF WriteImage
  <2>1. Loaded \in 1 .. Loaded /\ Same
    BY <1>a DEF HasImage, Loaded
  <2>2. stream' = stream \o Pixels(Loaded) /\ Pixels(Loaded) \in Seq(Units)
    BY <2>1, PixelsSeq, WholeWrite
  <2>3. Waits' /\ pc # "check" /\ ~Waits
    BY DEF Waits
  <2>4. \A n : Due(n)' <=> Due(n)
    BY <1>e, <2>1 DEF Due
  <2>5. size[Loaded] = 0 /\ stream = <<>> => stream' = <<>>
    BY <2>1, <2>2, NoPixels, ConcatEmptySeq
  <2>6. stream = <<>> => stream' = Pixels(Loaded)
    BY <2>2, ConcatEmptySeq
  <2>7. Pixels(Loaded)' = Pixels(Loaded) /\ Header(Loaded)' = Header(Loaded)
    BY <1>e, <2>1 DEF Pixels, Header, Head1
  <2>8. InPlace'
    <3>1. Asking => Asking'
      BY <1>e, <2>1, <2>3, <2>5 DEF Asking, Empty, Drained
    <3>2. Asked => Asked'
      BY <1>e, <2>1, <2>3, <2>5 DEF Asked, Drained
    <3>3. HeaderSent => ImageSent'
      BY <1>e, <2>1, <2>2, <2>3, <2>4, <2>7 DEF HeaderSent, ImageSent, Header, Head1, Pixels
    <3>4. HeaderRead => ImageComing'
      BY <1>e, <2>1, <2>3, <2>4, <2>6, <2>7 DEF HeaderRead, ImageComing, Empty, Pixels
    <3>5. ~TurnedDown /\ ~Answering /\ ~ImageSent /\ ~ImageComing
      BY <2>3 DEF TurnedDown, Answering, ImageSent, ImageComing
    <3> QED BY <1>d, <3>1, <3>2, <3>3, <3>4, <3>5 DEF InPlace
  <2>9. AskedOnce'
    BY <1>d, <2>3 DEF AskedOnce, TurnedDown
  <2> QED BY <1>d, <1>e, <2>1, <2>8, <2>9
<1>6. CASE AskImage
  <2> USE <1>6 DEF AskImage
  <2>1. Asking /\ ~TurnedDown /\ Same
    BY <1>d DEF InPlace, Asking, Asked, TurnedDown, Answering, HeaderSent, ImageSent,
      HeaderRead, ImageComing
  <2>2. PICK signal \in Signals : requests' = Append(requests, signal)
    BY DEF Signals
  <2>3. Len(requests') = 1
    BY <2>1, <2>2, AppendProperties, EmptySeq DEF ExchangeTypeOK, Asking, Empty
  <2>4. Asked'
    BY <1>e, <2>1, <2>3 DEF Asking, Asked, Drained, Waits, Empty
  <2>5. AskedOnce'
    BY <1>d, <2>1 DEF AskedOnce
  <2> QED BY <1>d, <1>e, <2>1, <2>4, <2>5 DEF InPlace
<1>7. CASE BoxAsksAgain
  <2> USE <1>7 DEF BoxAsksAgain
  <2>1. Waits /\ Waits' /\ AllSaved /\ Same
    <3>1. Waits /\ Waits' /\ Same
      BY DEF Waits
    <3>2. \A n \in 1 .. Loaded : Header(n) \o Pixels(n) # <<>>
      BY HeaderSeq, PixelsSeq, ConcatEqualIffEmpty, EmptySeq
    <3>3. ~ImageSent
      BY <3>2 DEF ImageSent
    <3>4. Len(requests) = 0
      BY EmptySeq
    <3> QED
      BY <1>d, <3>1, <3>3, <3>4 DEF InPlace, Asking, Asked, TurnedDown, Answering, HeaderSent,
        HeaderRead, ImageComing
  <2>2. Asked'
    BY <1>e, <2>1 DEF Asked, Drained
  <2>3. AskedOnce'
    BY DEF AskedOnce
  <2> QED BY <1>d, <1>e, <2>1, <2>2, <2>3 DEF InPlace
<1>8. CASE ReadHeader
  <2> USE <1>8 DEF ReadHeader
  <2>1. ~(stream = <<>>) /\ ~TurnedDown /\ Same
    BY EmptySeq DEF TurnedDown, Empty
  <2>2. PICK n \in 1 .. Loaded, rest \in Seq(Units) :
          /\ Due(n) /\ stream = Header(n) \o rest
          /\ \/ Waits /\ rest = Pixels(n)
             \/ pc = "image" /\ rest = <<>> /\ n = Loaded
    <3>1. CASE HeaderSent
      BY <3>1, HeaderSeq, ConcatEmptySeq, EmptySeq DEF HeaderSent, Due
    <3>2. CASE ImageSent
      BY <3>2, PixelsSeq DEF ImageSent
    <3> QED
      BY <1>d, <2>1, <3>1, <3>2 DEF InPlace, Asking, Asked, TurnedDown, Answering, Empty,
        HeaderRead, ImageComing
  <2>3. expected' = size[n] /\ stream' = rest
    BY <2>2, HeaderFound
  <2>4. requests' = <<>>
    BY <1>d, <2>1 DEF InPlace, Asking, Asked, TurnedDown, Answering, Empty, HeaderSent,
      ImageSent, HeaderRead, ImageComing
  <2>5. Due(n)' /\ Pixels(n)' = Pixels(n) /\ (Waits' <=> Waits)
    BY <1>e, <2>1, <2>2 DEF Due, Pixels, Waits
  <2>6. InPlace'
    <3>1. CASE size[n] = 0
      <4>1. stream' = <<>> /\ rpc' = "ask"
        BY <2>2, <2>3, <3>1, NoPixels
      <4>2. AllSaved'
        BY <2>5, <2>1, <3>1 DEF Due
      <4>3. Drained'
        BY <1>e, <2>1, <2>2, <2>5, <3>1, <4>2 DEF Drained
      <4> QED BY <2>4, <4>1, <4>3 DEF InPlace, Asking, Empty
    <3>2. CASE size[n] > 0
      <4>1. rpc' = "body" /\ expected' > 0
        BY <2>3, <3>2
      <4>2. Loaded' = Loaded /\ size' = size /\ pc' = pc
        BY <1>e, <2>1
      <4>3. Waits /\ rest = Pixels(n) => ImageComing'
        BY <2>3, <2>4, <2>5, <4>1, <4>2 DEF ImageComing
      <4>4. pc = "image" /\ rest = <<>> /\ n = Loaded => HeaderRead'
        BY <2>3, <2>4, <2>5, <4>1, <4>2 DEF HeaderRead, Empty
      <4> QED BY <2>2, <4>3, <4>4 DEF InPlace
    <3> QED BY <1>a, <3>1, <3>2
  <2>7. AskedOnce'
    BY <1>d, <2>1 DEF AskedOnce
  <2> QED BY <1>d, <1>e, <2>1, <2>6, <2>7
<1>9. CASE ReadBody
  <2> USE <1>9 DEF ReadBody
  <2>1. ImageComing /\ ~TurnedDown
    <3>1. Len(stream) = 0 => ~HeaderRead
      BY <1>a DEF HeaderRead, Due
    <3>2. ~HeaderRead
      BY <3>1, EmptySeq DEF HeaderRead, Empty
    <3> QED
      BY <1>d, <3>2 DEF InPlace, Asking, Asked, TurnedDown, Answering, HeaderSent, ImageSent
  <2>2. PICK n \in 1 .. Loaded :
          Due(n) /\ expected = size[n] /\ expected > 0 /\ stream = Pixels(n)
    BY <2>1 DEF ImageComing
  <2>3. stream' = <<>> /\ saved' = Append(saved, Pixels(n)) /\ Pixels(n) \in Seq(Units)
    BY <2>2, PixelsFound, PixelsSeq
  <2>4. Len(sent) = Len(saved) + 1 /\ sent[Len(sent)] = n
    BY <2>2 DEF Due
  <2>5. /\ Len(saved') = Len(sent) /\ saved'[Len(sent)] = Pixels(n)
        /\ \A i \in 1 .. Len(saved) : saved'[i] = saved[i]
    BY <2>3, <2>4, AppendProperties DEF ExchangeTypeOK
  <2>6. Asking'
    BY <2>1, <2>3, <2>5 DEF Asking, Empty, Drained, AllSaved, ImageComing, Waits
  <2>7. SavedAsSent'
    <3>1. \A m : Pixels(m)' = Pixels(m)
      BY DEF Pixels
    <3>2. \A i \in 1 .. Len(saved') : i \in 1 .. Len(saved) \/ i = Len(sent)
      BY <1>b, <2>4, <2>5
    <3> QED BY <1>b, <1>d, <2>4, <2>5, <3>1, <3>2 DEF SavedAsSent
  <2>8. AskedOnce'
    BY <1>d, <2>1 DEF AskedOnce
  <2> QED BY <2>6, <2>7, <2>8 DEF InPlace
<1> QED
  BY <1>1, <1>2, <1>3, <1>4, <1>5, <1>6, <1>7, <1>8, <1>9
  DEF ExchangeNext, ClientStep, ReceiverStep

-----------------------------------------------------------------------------
(* Theorems.                                                               *)
LEMMA ExchangeInitInv == ExchangeInit => ExchangeTypeOK /\ HasImage /\ StepInv
<1> SUFFICES ASSUME ExchangeInit PROVE ExchangeTypeOK /\ HasImage /\ StepInv
  OBVIOUS
<1>1. Loaded = 0 /\ Len(how) = 0 /\ Len(saved) = 0 /\ Len(sent) = 0
  BY EmptySeq DEF ExchangeInit, Loaded
<1>2. ExchangeTypeOK
  <2>1. /\ size \in Seq(Sizes) /\ how \in Seq({"batch", "hand"}) /\ requests \in Seq(Signals)
        /\ stream \in Seq(Units) /\ saved \in Seq(Seq(Units)) /\ sent \in Seq(1 .. Loaded)
    BY EmptySeq DEF ExchangeInit
  <2>2. /\ peer \in Peers /\ pc = "loop" /\ rpc = "ask" /\ expected = 0 /\ refused = {}
        /\ short \in BOOLEAN /\ crashed \in BOOLEAN
    BY DEF ExchangeInit
  <2>3. Loaded <= MaxImages
    BY <1>1, BoundAssumption
  <2> QED BY <1>1, <2>1, <2>2, <2>3 DEF ExchangeTypeOK
<1>3. InPlace
  BY <1>1 DEF ExchangeInit, InPlace, Asking, Empty, Drained, AllSaved, Waits
<1> QED
  BY <1>1, <1>2, <1>3 DEF ExchangeInit, HasImage, StepInv, SavedAsSent, AskedOnce

LEMMA ExchangeInvariance == ExchangeSpec => [](ExchangeTypeOK /\ HasImage /\ StepInv)
<1>1. ExchangeTypeOK /\ HasImage /\ StepInv /\ UNCHANGED exchangeVars
        => (ExchangeTypeOK /\ HasImage /\ StepInv)'
  <2> SUFFICES ASSUME ExchangeTypeOK, HasImage, StepInv, UNCHANGED exchangeVars
               PROVE  (ExchangeTypeOK /\ HasImage /\ StepInv)'
    OBVIOUS
  <2> USE DEF exchangeVars
  <2>1. ExchangeTypeOK' /\ HasImage'
    BY DEF ExchangeTypeOK, HasImage, Loaded
  <2>2. \A n : (Due(n)' <=> Due(n)) /\ Pixels(n)' = Pixels(n) /\ Header(n)' = Header(n)
    BY DEF Due, AllSaved, Loaded, Pixels, Header, Head1
  <2>3. /\ Loaded' = Loaded /\ (Waits' <=> Waits) /\ (AllSaved' <=> AllSaved)
        /\ (Drained' <=> Drained) /\ (Empty' <=> Empty)
    BY DEF Loaded, Waits, AllSaved, Drained, Empty
  <2>4. InPlace' <=> InPlace
    <3>1. /\ (Asking' <=> Asking) /\ (Asked' <=> Asked) /\ (TurnedDown' <=> TurnedDown)
          /\ (Answering' <=> Answering) /\ (HeaderRead' <=> HeaderRead)
      BY <2>2, <2>3 DEF Asking, Asked, TurnedDown, Answering, HeaderRead
    <3>2. /\ (HeaderSent' <=> HeaderSent) /\ (ImageSent' <=> ImageSent)
          /\ (ImageComing' <=> ImageComing)
      BY <2>2, <2>3 DEF HeaderSent, ImageSent, ImageComing, Header, Head1, Pixels
    <3> QED BY <3>1, <3>2 DEF InPlace
  <2>5. (SavedAsSent' <=> SavedAsSent) /\ (AskedOnce' <=> AskedOnce)
    BY <2>2, <2>3 DEF SavedAsSent, AskedOnce, TurnedDown
  <2> QED BY <2>1, <2>4, <2>5 DEF StepInv
<1> QED BY <1>1, ExchangeInitInv, TypeStep, StepInvStep, PTL DEF ExchangeSpec

(* Every reachable state is well typed: what is taken for the size of an   *)
(* image is that of one, also after a write that was cut short.            *)
THEOREM ExchangeTypeCorrect == ExchangeSpec => []ExchangeTypeOK
BY ExchangeInvariance, PTL

(* As long as every write was a whole one, what receive_img takes for a    *)
(* header is one, and the images it saves are those the client sent, whole *)
(* and in their order.                                                     *)
THEOREM EndsStayInStep == ExchangeSpec => []InStep
<1>1. ExchangeTypeOK /\ StepInv => InStep
  <2> SUFFICES ASSUME ExchangeTypeOK, StepInv, ~short PROVE InStep
    BY DEF InStep
  <2>1. InPlace /\ SavedAsSent
    BY DEF StepInv
  <2>2. ASSUME rpc = "header", Len(stream) >= 2 PROVE AtHeader
    <3>1. stream # <<>>
      BY <2>2, EmptySeq
    <3>2. CASE HeaderSent
      BY <3>2, HeaderSeq, HeaderFound, ConcatEmptySeq, EmptySeq DEF HeaderSent, Due
    <3>3. CASE ImageSent
      BY <3>3, PixelsSeq, HeaderFound DEF ImageSent
    <3> QED
      BY <2>1, <2>2, <3>1, <3>2, <3>3 DEF InPlace, Asking, Asked, TurnedDown, Answering, Empty,
        HeaderRead, ImageComing
  <2>3. DOMAIN saved = 1 .. Len(saved)
    BY LenProperties DEF ExchangeTypeOK
  <2> QED BY <2>1, <2>2, <2>3 DEF InStep, SavedAsSent
<1> QED BY <1>1, ExchangeInvariance, PTL

(* Two simulators are stuck for good once an image was not answered with.  *)
THEOREM SimulatorsStall == ExchangeSpec => []StalledForGood
<1>1. StepInv => StalledForGood
  BY DEF StepInv, AskedOnce, TurnedDown, Empty, Waits, StalledForGood
<1> QED BY <1>1, ExchangeInvariance, PTL
=============================================================================

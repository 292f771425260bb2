------------------------ MODULE DisplayMessages_proofs ------------------------
(***************************************************************************)
(* Theorems about DisplayMessages, for any threads, any places texts can   *)
(* be allocated at and any bounds: the type invariant, who owns a text and *)
(* which are lost, and which pixels a thread that draws is given.          *)
(***************************************************************************)
EXTENDS DisplayMessages, SequenceTheorems, FiniteSetTheorems, TLAPS

-----------------------------------------------------------------------------
(* What the type invariant and the ownership of the texts rest on: a       *)
(* thread has a text exactly while it has an image it has not posted, no   *)
(* two threads have the same, and a struct that a message refers to has    *)
(* been filled.                                                            *)
Showing == {"loaded", "filled"}

HasText == \A t \in Threads : pc[t] \in Showing <=> MsgPost[t] # NoText
HasImage ==
  \A t \in Threads : pc[t] \in Showing \cup {"waiting"} => loaded[t] >= 1 /\ way[t] # "none"
OwnText == \A t, u \in Held : MsgPost[t] = MsgPost[u] => t = u
Refers ==
  /\ \A t \in Threads : pc[t] = "filled" => info[Cell(t)] # NoPicture
  /\ \A i \in 1 .. Len(queue) : ~IsText(queue[i]) => info[queue[i].cell] # NoPicture

OwnInv == TypeOK /\ HasText /\ HasImage /\ OwnText /\ Refers /\ TextsHaveOneOwner

(* How old the pixels are that a message or a thread that draws refers to: *)
(* those of the picture announced, or of a later one of the same thread.   *)
AtLeast(given, announced) == given[1] = announced[1] => given[2] >= announced[2]

AgeInv ==
  /\ NeverOlder
  /\ \A t \in Threads : pc[t] = "filled" => AtLeast(info[Cell(t)], Picture(t))
  /\ \A i \in 1 .. Len(queue) : ~IsText(queue[i]) =>
       /\ queue[i].announced[2] <= loaded[queue[i].announced[1]]
       /\ AtLeast(info[queue[i].cell], queue[i].announced)

(* As long as nothing has put pixels at risk, there is no image loaded but *)
(* for the last click, and a picture that is still to be drawn is the last *)
(* one of a thread that is not about to load another.                      *)
Quiet == painters = {} /\ \A i \in 1 .. Len(queue) : IsText(queue[i])

Taking == {"single", "last"}
Underway ==
  \/ \E t \in Threads : pc[t] = "filled"
  \/ \E i \in 1 .. Len(queue) : ~IsText(queue[i])

Safe(p) == Alive(p) /\ pc[p[1]] \notin Taking

Clicked ==
  /\ byHand # {} => Quiet /\ \A t \in Threads : pc[t] \notin Showing
  /\ \A t \in Threads : pc[t] \in Taking => byHand \subseteq {pc[t]}
  /\ \E flag \in Taking : byHand \subseteq {flag}

Calm ==
  /\ ~stale
  /\ \A t \in Threads : way[t] # "batch"
  /\ Clicked
  /\ \A i \in 1 .. Len(queue) : ~IsText(queue[i]) => queue[i].cell = Info1
  /\ Underway => Safe(info[Info1])
  /\ \A p \in painters : Safe(p.given)

CalmInv == ~risky => Calm

LostInv == IsFiniteSet(texts) /\ IsFiniteSet(Held) /\ OneTextLostPerPicture

-----------------------------------------------------------------------------
(* The type invariant.                                                     *)
LEMMA MessageTypes ==
  /\ \A x \in Texts : Text(x) \in Messages /\ IsText(Text(x)) /\ Text(x).text = x
  /\ \A c \in Cells, p \in Pictures :
       LET msg == [code |-> 5, cell |-> c, announced |-> p]
       IN  msg \in Messages /\ ~IsText(msg) /\ msg.cell = c /\ msg.announced = p
  /\ \A msg \in Messages : IF IsText(msg) THEN msg.text \in Texts
                                          ELSE msg.cell \in Cells /\ msg.announced \in Pictures
BY DEF Text, Messages, IsText

LEMMA PictureType ==
  ASSUME TypeOK, NEW t \in Threads, loaded[t] >= 1
  PROVE  Picture(t) \in Pictures /\ Picture(t)[1] = t /\ Picture(t)[2] = loaded[t]
<1>1. loaded[t] \in 1 .. MaxImages
  BY BoundsAssumption DEF TypeOK
<1> QED BY <1>1 DEF Picture, Pictures

(* A message that is posted goes behind the others.                        *)
LEMMA PostedLast ==
  ASSUME TypeOK, NEW msg \in Messages, Post(msg)
  PROVE  /\ queue' \in Seq(Messages) /\ Len(queue') <= MaxPosted
         /\ Len(queue') = Len(queue) + 1
         /\ \A i \in 1 .. Len(queue) : i \in 1 .. Len(queue') /\ queue'[i] = queue[i]
         /\ queue'[Len(queue')] = msg
         /\ \A i \in 1 .. Len(queue') : i \in 1 .. Len(queue) \/ i = Len(queue')
<1>1. queue \in Seq(Messages) /\ Len(queue) \in Nat /\ MaxPosted \in Nat
  BY BoundsAssumption, LenProperties DEF TypeOK
<1> QED BY <1>1, AppendProperties DEF Post

(* The dialog takes the first message; the others move up.                 *)
LEMMA TakenFirst ==
  ASSUME TypeOK, queue # <<>>, queue' = Tail(queue)
  PROVE  /\ queue' \in Seq(Messages) /\ Len(queue') <= MaxPosted
         /\ Len(queue') = Len(queue) - 1
         /\ Head(queue) = queue[1] /\ queue[1] \in Messages /\ 1 \in 1 .. Len(queue)
         /\ \A i \in 1 .. Len(queue') : i + 1 \in 1 .. Len(queue) /\ queue'[i] = queue[i + 1]
<1>1. queue \in Seq(Messages) /\ Len(queue) \in Nat /\ Len(queue) <= MaxPosted /\ MaxPosted \in Nat
  BY BoundsAssumption, LenProperties DEF TypeOK
<1>2. Len(queue) >= 1
  BY <1>1, EmptySeq
<1> QED BY <1>1, <1>2, HeadTailProperties

LEMMA InitOwn == Init => OwnInv
<1> SUFFICES ASSUME Init PROVE OwnInv
  OBVIOUS
<1>1. TypeOK
  <2>1. queue \in Seq(Messages) /\ Len(queue) = 0
    BY EmptySeq DEF Init
  <2>2. loaded \in [Threads -> 0 .. MaxImages] /\ Len(queue) <= MaxPosted
    BY <2>1, BoundsAssumption DEF Init
  <2> QED BY <2>1, <2>2 DEF Init, TypeOK
<1>2. Held = {} /\ Posted = {}
  BY DEF Init, Held, Posted
<1> QED
  BY <1>1, <1>2, EmptySeq DEF Init, OwnInv, HasText, HasImage, OwnText, Refers,
    TextsHaveOneOwner, Showing

(* A text nobody has is posted, by a thread that forgets it. *)
LEMMA OwnersPost ==
  ASSUME TypeOK, TextsHaveOneOwner, NEW x \in Texts, Post(Text(x)),
         x \in texts', texts \subseteq texts',
         \A i \in Posted : queue[i].text # x,
         \A t \in Held' : t \in Held /\ MsgPost'[t] = MsgPost[t] /\ MsgPost[t] # x
  PROVE  TextsHaveOneOwner'
<1>1. /\ Len(queue) \in Nat /\ Len(queue') = Len(queue) + 1
      /\ \A i \in 1 .. Len(queue) : queue'[i] = queue[i]
      /\ queue'[Len(queue')] = Text(x)
  BY PostedLast, MessageTypes, LenProperties DEF TypeOK
<1>2. Posted' = Posted \cup {Len(queue')} /\ Posted \subseteq 1 .. Len(queue)
  BY <1>1, MessageTypes DEF Posted
<1>3. /\ \A i \in Posted : queue'[i] = queue[i] /\ queue[i].text \in texts /\ queue[i].text # x
      /\ queue'[Len(queue')].text = x
  BY <1>1, <1>2, MessageTypes DEF TextsHaveOneOwner
<1> QED BY <1>2, <1>3 DEF TextsHaveOneOwner

LEMMA RefersPost ==
  ASSUME TypeOK, Refers, NEW msg \in Messages, Post(msg), info' = info,
         ~IsText(msg) => info[msg.cell] # NoPicture
  PROVE  \A i \in 1 .. Len(queue') : ~IsText(queue'[i]) => info'[queue'[i].cell] # NoPicture
BY PostedLast DEF Refers

LEMMA OwnStep ==
  ASSUME OwnInv, Next
  PROVE  OwnInv'
<1> USE DEF OwnInv, Goto, threadVars
<1>a. /\ NoText \notin Texts /\ MaxImages \in Nat
      /\ texts \subseteq Texts /\ \A t \in Threads : MsgPost[t] \in texts \cup {NoText}
  BY TextsAssumption, BoundsAssumption DEF TypeOK
<1>1. CASE PostNewText /\ UNCHANGED <<image_show, byHand, threadVars, painters,
                                      pictures, stale, risky, down>>
  <2>1. PICK x \in Texts \ texts : texts' = texts \cup {x} /\ Post(Text(x))
    BY <1>1 DEF PostNewText
  <2>2. TypeOK'
    BY <1>1, <2>1, PostedLast, MessageTypes DEF TypeOK
  <2>3. HasText' /\ HasImage' /\ OwnText'
    BY <1>1 DEF HasText, HasImage, OwnText, Held
  <2>4. Refers'
    BY <1>1, <2>1, RefersPost, MessageTypes DEF Refers, Cell
  <2>5. TextsHaveOneOwner'
    BY <1>1, <1>a, <2>1, OwnersPost DEF TextsHaveOneOwner, Held
  <2> QED BY <2>2, <2>3, <2>4, <2>5
<1>2. ASSUME NEW t \in Threads, LoadInBatch(t) \/ LoadByHand(t) PROVE OwnInv'
  <2>1. PICK branch \in {"batch", "hand"} : LoadImage(t, branch)
    BY <1>2 DEF LoadInBatch, LoadByHand
  <2>2. /\ pc[t] \in {"loop", "single", "last"}
        /\ byHand' \subseteq {"single", "last"} /\ risky' \in BOOLEAN
    BY <1>2 DEF LoadInBatch, LoadByHand, TypeOK
  <2> USE <2>1 DEF LoadImage
  <2>3. PICK x \in Texts \ texts : texts' = texts \cup {x} /\ MsgPost' = [MsgPost EXCEPT ![t] = x]
    OBVIOUS
  <2>4. TypeOK'
    <3>1. MsgPost' \in [Threads -> texts' \cup {NoText}] /\ texts' \subseteq Texts
      BY <2>3, <1>a DEF TypeOK
    <3>2. loaded' \in [Threads -> 0 .. MaxImages]
      BY <1>a DEF TypeOK
    <3> QED BY <2>2, <3>1, <3>2 DEF TypeOK
  <2>5. HasText' /\ HasImage' /\ OwnText' /\ Refers'
    BY <2>2, <2>3, <1>a DEF TypeOK, HasText, HasImage, OwnText, Refers, Showing, Held, Cell
  <2>6. TextsHaveOneOwner'
    <3>1. Posted' = Posted /\ queue' = queue /\ texts \subseteq texts'
      BY <2>3 DEF Posted
    <3>2. \A i \in Posted : queue[i].text \in texts
      BY DEF TextsHaveOneOwner
    <3>3. \A u \in Held' : IF u = t THEN MsgPost'[u] = x ELSE u \in Held /\ MsgPost'[u] = MsgPost[u]
      BY <2>3 DEF TypeOK, Held
    <3> QED BY <2>3, <3>1, <3>2, <3>3 DEF TextsHaveOneOwner
  <2> QED BY <2>4, <2>5, <2>6
<1>3. ASSUME NEW t \in Threads, PostText(t) PROVE OwnInv'
  <2> USE <1>3 DEF PostText
  <2>1. MsgPost[t] \in texts /\ MsgPost[t] \in Texts /\ t \in Held
    BY <1>a DEF HasText, Showing, Held
  <2>2. TypeOK'
    BY <2>1, <1>a, PostedLast, MessageTypes DEF TypeOK
  <2>3. HasText' /\ HasImage' /\ OwnText'
    BY <2>1, <1>a DEF TypeOK, HasText, HasImage, OwnText, Showing, Held
  <2>4. Refers'
    BY <2>1, RefersPost, MessageTypes DEF TypeOK, Refers, Cell
  <2>5. TextsHaveOneOwner'
    BY <2>1, <1>a, OwnersPost DEF TypeOK, OwnText, TextsHaveOneOwner, Held
  <2> QED BY <2>2, <2>3, <2>4, <2>5
<1>4. ASSUME NEW t \in Threads, FillInfo(t) PROVE OwnInv'
  <2> USE <1>4 DEF FillInfo
  <2>1. Picture(t) \in Pictures /\ Cell(t) \in Cells
    BY PictureType DEF HasImage, Showing, Cell, Cells
  <2>2. TypeOK'
    BY <2>1 DEF TypeOK
  <2>3. Picture(t) # NoPicture
    BY <2>1 DEF Pictures, NoPicture
  <2>4. HasText' /\ HasImage' /\ OwnText' /\ Refers'
    BY <2>1, <2>3, MessageTypes
    DEF TypeOK, HasText, HasImage, OwnText, Refers, Showing, Held, Cell, Cells
  <2>5. TextsHaveOneOwner'
    BY DEF TextsHaveOneOwner, Held, Posted
  <2> QED BY <2>2, <2>4, <2>5
<1>5. ASSUME NEW t \in Threads, PostPicture(t) PROVE OwnInv'
  <2> USE <1>5 DEF PostPicture
  <2>1. Picture(t) \in Pictures /\ Cell(t) \in Cells
    BY PictureType DEF HasImage, Showing, Cell, Cells
  <2>2. TypeOK'
    BY <2>1, PostedLast, MessageTypes DEF TypeOK
  <2>3. HasText' /\ HasImage' /\ OwnText'
    BY <1>a DEF TypeOK, HasText, HasImage, OwnText, Showing, Held
  <2>a. /\ Len(queue) \in Nat /\ Len(queue') = Len(queue) + 1
        /\ \A i \in 1 .. Len(queue) : queue'[i] = queue[i]
        /\ ~IsText(queue'[Len(queue')]) /\ queue'[Len(queue')].cell = Cell(t)
    BY <2>1, PostedLast, MessageTypes, LenProperties DEF TypeOK
  <2>4. Refers'
    <3>1. info[Cell(t)] # NoPicture
      BY DEF Refers
    <3>2. \A i \in 1 .. Len(queue') : ~IsText(queue'[i]) => info'[queue'[i].cell] # NoPicture
      BY <2>a, <3>1 DEF Refers
    <3>3. \A u \in Threads : pc'[u] = "filled" => pc[u] = "filled" /\ Cell(u)' = Cell(u)
      BY DEF TypeOK, Cell
    <3> QED BY <3>2, <3>3 DEF Refers
  <2>5. TextsHaveOneOwner'
    <3>1. Posted' = Posted /\ Held' \subseteq Held /\ \A i \in Posted : queue'[i] = queue[i]
      BY <2>a DEF TypeOK, Posted, Held
    <3>2. \A u \in Held' : MsgPost'[u] = MsgPost[u]
      BY DEF TypeOK, Held
    <3> QED BY <3>1, <3>2 DEF TextsHaveOneOwner
  <2> QED BY <2>2, <2>3, <2>4, <2>5
<1>6. ASSUME NEW t \in Threads, Answer(t) \/ EndThread(t) PROVE OwnInv'
  <2> USE <1>6 DEF Answer, EndThread
  <2>1. TypeOK'
    BY DEF TypeOK
  <2>2. HasText' /\ HasImage'
    BY DEF TypeOK, HasText, HasImage, Showing
  <2>3. Refers'
    BY DEF TypeOK, Refers, Cell
  <2>4. OwnText' /\ TextsHaveOneOwner'
    BY DEF OwnText, TextsHaveOneOwner, Held, Posted
  <2> QED BY <2>1, <2>2, <2>3, <2>4
<1>7. CASE \/ OnBnClickedCheckPicturesend \/ OnBnClickedImageNext \/ OnBnClickedImagePrevious
           \/ \E p \in painters : DrawMatp(p)
  BY <1>7 DEF OnBnClickedCheckPicturesend, OnBnClickedImageNext, OnBnClickedImagePrevious,
    StepByHand, DrawMatp, TypeOK, HasText, HasImage, OwnText, Refers, TextsHaveOneOwner,
    Showing, Held, Posted, Cell
<1>11. ASSUME NEW t \in Threads, TakeByHand(t) PROVE OwnInv'
  <2> USE <1>11 DEF TakeByHand
  <2>1. PICK flag \in {"single", "last"} : pc' = [pc EXCEPT ![t] = flag]
    BY DEF TypeOK
  <2>2. TypeOK'
    BY <2>1 DEF TypeOK
  <2>3. HasText' /\ HasImage' /\ OwnText' /\ Refers'
    BY <2>1 DEF TypeOK, HasText, HasImage, OwnText, Refers, Showing, Held, Cell
  <2>4. TextsHaveOneOwner'
    BY DEF TextsHaveOneOwner, Held, Posted
  <2> QED BY <2>2, <2>3, <2>4
<1>8. CASE ShowText
  <2> USE <1>8 DEF ShowText
  <2>1. /\ 1 \in Posted /\ Head(queue) = queue[1]
        /\ \A t \in Held : MsgPost[t] # Head(queue).text
    BY TakenFirst DEF Posted, TextsHaveOneOwner
  <2>2. TypeOK'
    BY <1>a, <2>1, TakenFirst DEF TypeOK, Held
  <2>3. HasText' /\ HasImage' /\ OwnText' /\ Refers'
    BY TakenFirst DEF HasText, HasImage, OwnText, Refers, Held, Cell
  <2>4. TextsHaveOneOwner'
    BY <1>a, <2>1, TakenFirst DEF TypeOK, TextsHaveOneOwner, Held, Posted
  <2> QED BY <2>2, <2>3, <2>4
<1>9. CASE ShowPicture
  <2> USE <1>9 DEF ShowPicture
  <2>1. /\ 1 \in 1 .. Len(queue) /\ Head(queue) = queue[1]
        /\ Head(queue).announced \in Pictures /\ info[Head(queue).cell] \in Pictures
    <3>1. 1 \in 1 .. Len(queue) /\ Head(queue) = queue[1] /\ Head(queue) \in Messages
      BY TakenFirst
    <3>2. info[Head(queue).cell] # NoPicture /\ Head(queue).cell \in Cells
      BY <3>1, MessageTypes DEF Refers
    <3> QED BY <3>1, <3>2, MessageTypes DEF TypeOK
  <2>2. TypeOK'
    <3>1. queue' \in Seq(Messages) /\ Len(queue') <= MaxPosted
      BY TakenFirst
    <3>2. painters' \subseteq [announced : Pictures, given : Pictures]
      BY <2>1 DEF TypeOK
    <3> QED BY <3>1, <3>2 DEF TypeOK
  <2>3. HasText' /\ HasImage' /\ OwnText' /\ Refers'
    BY TakenFirst DEF HasText, HasImage, OwnText, Refers, Held, Cell
  <2>4. TextsHaveOneOwner'
    BY TakenFirst DEF TextsHaveOneOwner, Held, Posted
  <2> QED BY <2>2, <2>3, <2>4
<1>10. ASSUME NEW t \in Threads, ConnectServer(t) PROVE OwnInv'
  <2>1. PICK x \in Texts \ texts : texts' = texts \cup {x} /\ Post(Text(x))
    BY <1>10 DEF ConnectServer, PostNewText
  <2>2. TypeOK'
    BY <1>10, <2>1, PostedLast, MessageTypes DEF ConnectServer, TypeOK
  <2>3. HasText' /\ HasImage' /\ OwnText'
    BY <1>10 DEF ConnectServer, TypeOK, HasText, HasImage, OwnText, Showing, Held
  <2>4. Refers'
    BY <1>10, <2>1, RefersPost, MessageTypes DEF ConnectServer, TypeOK, Refers, Cell
  <2>5. TextsHaveOneOwner'
    BY <1>10, <1>a, <2>1, OwnersPost DEF ConnectServer, TextsHaveOneOwner, Held
  <2> QED BY <2>2, <2>3, <2>4, <2>5
<1> QED
  BY <1>1, <1>2, <1>3, <1>4, <1>5, <1>6, <1>7, <1>8, <1>9, <1>10, <1>11
  DEF Next, ThreadStep, ClientConnects

(* Every reachable state is well typed: no message refers to an array that *)
(* was deleted, and no thread draws from a struct nobody has filled.       *)
THEOREM DisplayTypeCorrect == Spec => []TypeOK
<1>1. OwnInv /\ UNCHANGED vars => OwnInv'
  BY DEF OwnInv, TypeOK, HasText, HasImage, OwnText, Refers, TextsHaveOneOwner, Held, Posted,
    Cell, vars
<1> QED BY <1>1, InitOwn, OwnStep, PTL DEF Spec, OwnInv

(* A text that was posted is allocated, posted once, and no thread has it: *)
(* ShowCtrlMessage deletes each array once, after its last use.            *)
THEOREM TextsAreOwned == Spec => []TextsHaveOneOwner
<1>1. OwnInv /\ UNCHANGED vars => OwnInv'
  BY DEF OwnInv, TypeOK, HasText, HasImage, OwnText, Refers, TextsHaveOneOwner, Held, Posted,
    Cell, vars
<1> QED BY <1>1, InitOwn, OwnStep, PTL DEF Spec, OwnInv

-----------------------------------------------------------------------------
(* How old the pixels are.                                                 *)
LEMMA AgeStep ==
  ASSUME OwnInv, AgeInv, Next
  PROVE  AgeInv'
<1> USE DEF OwnInv, Goto, threadVars
<1>n. MaxImages \in Nat
  BY BoundsAssumption
<1>1. ASSUME UNCHANGED <<loaded, info, painters>>,
             \A t \in Threads : pc'[t] = "filled" => pc[t] = "filled" /\ way'[t] = way[t],
             \A i \in 1 .. Len(queue') : ~IsText(queue'[i]) =>
               \E j \in 1 .. Len(queue) : queue'[i] = queue[j]
      PROVE  AgeInv'
  <2>1. NeverOlder'
    BY <1>1 DEF AgeInv, NeverOlder
  <2>2. \A t \in Threads : pc'[t] = "filled" => AtLeast(info'[Cell(t)'], Picture(t)')
    BY <1>1 DEF AgeInv, Cell, Picture
  <2>3. \A i \in 1 .. Len(queue') : ~IsText(queue'[i]) =>
          /\ queue'[i].announced[2] <= loaded'[queue'[i].announced[1]]
          /\ AtLeast(info'[queue'[i].cell], queue'[i].announced)
    BY <1>1 DEF AgeInv
  <2> QED BY <2>1, <2>2, <2>3 DEF AgeInv
<1>2. ASSUME NEW x \in Texts, Post(Text(x)), UNCHANGED <<loaded, info, painters, way>>,
             \A t \in Threads : pc'[t] = "filled" => pc[t] = "filled"
      PROVE  AgeInv'
  <2>1. /\ \A i \in 1 .. Len(queue) : queue'[i] = queue[i]
        /\ \A i \in 1 .. Len(queue') : i \in 1 .. Len(queue) \/ i = Len(queue')
        /\ IsText(queue'[Len(queue')])
    BY <1>2, PostedLast, MessageTypes
  <2> QED BY <1>1, <1>2, <2>1
<1>3. CASE ClientConnects
  BY <1>2, <1>3 DEF ClientConnects, PostNewText
<1>4. ASSUME NEW t \in Threads, ConnectServer(t) PROVE AgeInv'
  BY <1>2, <1>4 DEF ConnectServer, PostNewText, TypeOK
<1>5. ASSUME NEW t \in Threads, LoadInBatch(t) \/ LoadByHand(t) PROVE AgeInv'
  <2>a. PICK branch \in {"batch", "hand"} : LoadImage(t, branch)
    BY <1>5 DEF LoadInBatch, LoadByHand
  <2> USE <2>a DEF LoadImage
  <2>1. \A u \in Threads : loaded[u] \in Nat /\ loaded[u] <= loaded'[u]
    BY <1>n DEF TypeOK
  <2>2. NeverOlder'
    BY DEF AgeInv, NeverOlder
  <2>3. \A u \in Threads : pc'[u] = "filled" => AtLeast(info'[Cell(u)'], Picture(u)')
    BY DEF TypeOK, AgeInv, Cell, Picture
  <2>4. \A i \in 1 .. Len(queue') : ~IsText(queue'[i]) =>
          /\ queue'[i].announced[2] <= loaded'[queue'[i].announced[1]]
          /\ AtLeast(info'[queue'[i].cell], queue'[i].announced)
    <3> SUFFICES ASSUME NEW i \in 1 .. Len(queue), ~IsText(queue[i])
                 PROVE  /\ queue[i].announced[2] <= loaded'[queue[i].announced[1]]
                        /\ AtLeast(info[queue[i].cell], queue[i].announced)
      OBVIOUS
    <3>1. queue[i].announced[1] \in Threads /\ queue[i].announced[2] \in Nat
      BY <1>n, MessageTypes, ElementOfSeq DEF TypeOK, Pictures
    <3> QED BY <2>1, <3>1 DEF AgeInv
  <2> QED BY <2>2, <2>3, <2>4 DEF AgeInv
<1>6. ASSUME NEW t \in Threads, PostText(t) PROVE AgeInv'
  <2>1. MsgPost[t] \in Texts
    BY <1>6, TextsAssumption DEF PostText, TypeOK, HasText, Showing
  <2> QED BY <1>2, <1>6, <2>1 DEF PostText, TypeOK
<1>7. ASSUME NEW t \in Threads, FillInfo(t) PROVE AgeInv'
  <2> USE <1>7 DEF FillInfo
  <2>1. /\ Picture(t) \in Pictures /\ Cell(t) \in Cells /\ loaded[t] \in Nat
        /\ Picture(t)[1] = t /\ Picture(t)[2] = loaded[t]
    BY PictureType, <1>n DEF HasImage, Showing, Cell, Cells, TypeOK
  <2>2. /\ info' = [info EXCEPT ![Cell(t)] = Picture(t)]
        /\ \A c \in Cells : info'[c] = IF c = Cell(t) THEN Picture(t) ELSE info[c]
    BY <2>1 DEF TypeOK
  <2>3. NeverOlder'
    BY DEF AgeInv, NeverOlder
  <2>4. \A u \in Threads : pc'[u] = "filled" => AtLeast(info'[Cell(u)'], Picture(u)')
    <3> SUFFICES ASSUME NEW u \in Threads, pc'[u] = "filled"
                 PROVE  AtLeast(info'[Cell(u)], Picture(u))
      BY DEF Cell, Picture
    <3>1. Cell(u) \in Cells /\ Picture(u)[1] = u
      BY DEF Cell, Cells, Picture
    <3>2. CASE Cell(u) = Cell(t)
      <4>1. u = t \/ AtLeast(Picture(t), Picture(u))
        BY <2>1, <3>1 DEF AtLeast
      <4> QED BY <2>1, <2>2, <3>1, <3>2, <4>1 DEF AtLeast
    <3>3. CASE Cell(u) # Cell(t)
      BY <2>2, <3>1, <3>3 DEF AgeInv, TypeOK
    <3> QED BY <3>2, <3>3
  <2>5. \A i \in 1 .. Len(queue') : ~IsText(queue'[i]) =>
          /\ queue'[i].announced[2] <= loaded'[queue'[i].announced[1]]
          /\ AtLeast(info'[queue'[i].cell], queue'[i].announced)
    <3> SUFFICES ASSUME NEW i \in 1 .. Len(queue), ~IsText(queue[i])
                 PROVE  /\ queue[i].announced[2] <= loaded[queue[i].announced[1]]
                        /\ AtLeast(info'[queue[i].cell], queue[i].announced)
      OBVIOUS
    <3>1. queue[i].cell \in Cells
      BY MessageTypes, ElementOfSeq DEF TypeOK
    <3>2. queue[i].announced[2] <= loaded[queue[i].announced[1]]
      BY DEF AgeInv
    <3>3. CASE queue[i].cell = Cell(t)
      BY <2>1, <2>2, <3>1, <3>2, <3>3 DEF AtLeast
    <3>4. CASE queue[i].cell # Cell(t)
      BY <2>2, <3>1, <3>4 DEF AgeInv
    <3> QED BY <3>2, <3>3, <3>4
  <2> QED BY <2>3, <2>4, <2>5 DEF AgeInv
<1>8. ASSUME NEW t \in Threads, PostPicture(t) PROVE AgeInv'
  <2> USE <1>8 DEF PostPicture
  <2>1. /\ Picture(t) \in Pictures /\ Cell(t) \in Cells /\ loaded[t] \in Nat
        /\ Picture(t)[1] = t /\ Picture(t)[2] = loaded[t]
    BY PictureType, <1>n DEF HasImage, Showing, Cell, Cells, TypeOK
  <2>2. /\ Len(queue') = Len(queue) + 1
        /\ \A i \in 1 .. Len(queue) : queue'[i] = queue[i]
        /\ \A i \in 1 .. Len(queue') : i \in 1 .. Len(queue) \/ i = Len(queue')
        /\ queue'[Len(queue')].cell = Cell(t) /\ queue'[Len(queue')].announced = Picture(t)
    BY <2>1, PostedLast, MessageTypes
  <2>3. AtLeast(info[Cell(t)], Picture(t))
    BY DEF AgeInv
  <2>4. NeverOlder'
    BY DEF AgeInv, NeverOlder
  <2>5. \A u \in Threads : pc'[u] = "filled" => AtLeast(info'[Cell(u)'], Picture(u)')
    BY DEF TypeOK, AgeInv, Cell, Picture
  <2>6. \A i \in 1 .. Len(queue') : ~IsText(queue'[i]) =>
          /\ queue'[i].announced[2] <= loaded'[queue'[i].announced[1]]
          /\ AtLeast(info'[queue'[i].cell], queue'[i].announced)
    BY <2>1, <2>2, <2>3 DEF AgeInv
  <2> QED BY <2>4, <2>5, <2>6 DEF AgeInv
<1>9. ASSUME NEW t \in Threads, Answer(t) PROVE AgeInv'
  BY <1>1, <1>9 DEF Answer, TypeOK
<1>10. ASSUME NEW t \in Threads, EndThread(t) PROVE AgeInv'
  BY <1>1, <1>10 DEF EndThread, TypeOK
<1>11. CASE OnBnClickedCheckPicturesend \/ OnBnClickedImageNext \/ OnBnClickedImagePrevious
  BY <1>1, <1>11
  DEF OnBnClickedCheckPicturesend, OnBnClickedImageNext, OnBnClickedImagePrevious, StepByHand
<1>12. CASE ShowText
  BY <1>1, <1>12, TakenFirst DEF ShowText
<1>13. CASE ShowPicture
  <2> USE <1>13 DEF ShowPicture
  <2>1. /\ 1 \in 1 .. Len(queue) /\ Head(queue) = queue[1]
        /\ Len(queue') = Len(queue) - 1
        /\ \A i \in 1 .. Len(queue') : i + 1 \in 1 .. Len(queue) /\ queue'[i] = queue[i + 1]
    BY TakenFirst
  <2>2. AtLeast(info[Head(queue).cell], Head(queue).announced)
    BY <2>1 DEF AgeInv
  <2>3. NeverOlder'
    BY <2>2 DEF AgeInv, NeverOlder, AtLeast
  <2>4. \A u \in Threads : pc'[u] = "filled" => AtLeast(info'[Cell(u)'], Picture(u)')
    BY DEF AgeInv, Cell, Picture
  <2>5. \A i \in 1 .. Len(queue') : ~IsText(queue'[i]) =>
          /\ queue'[i].announced[2] <= loaded'[queue'[i].announced[1]]
          /\ AtLeast(info'[queue'[i].cell], queue'[i].announced)
    BY <2>1 DEF AgeInv
  <2> QED BY <2>3, <2>4, <2>5 DEF AgeInv
<1>14. ASSUME NEW p \in painters, DrawMatp(p) PROVE AgeInv'
  BY <1>14 DEF DrawMatp, AgeInv, NeverOlder, Cell, Picture
<1>15. ASSUME NEW t \in Threads, TakeByHand(t) PROVE AgeInv'
  BY <1>1, <1>15 DEF TakeByHand, TypeOK
<1> QED
  BY <1>3, <1>4, <1>5, <1>6, <1>7, <1>8, <1>9, <1>10, <1>11, <1>12, <1>13, <1>14, <1>15
  DEF Next, ThreadStep

(* A thread that draws is never given pixels of its sender that are older  *)
(* than the picture announced to it.                                       *)
THEOREM PicturesAreNotOlder == Spec => []NeverOlder
<1>1. Init => AgeInv
  BY EmptySeq DEF Init, AgeInv, NeverOlder
<1>2. OwnInv /\ AgeInv /\ UNCHANGED vars => OwnInv' /\ AgeInv'
  BY DEF OwnInv, TypeOK, HasText, HasImage, OwnText, Refers, TextsHaveOneOwner, Held, Posted,
    Cell, Picture, AgeInv, NeverOlder, vars
<1>3. AgeInv => NeverOlder
  BY DEF AgeInv
<1> QED BY <1>1, <1>2, <1>3, InitOwn, OwnStep, AgeStep, PTL DEF Spec

-----------------------------------------------------------------------------
(* The patient user.                                                       *)
LEMMA CalmStep ==
  ASSUME OwnInv, CalmInv, Next
  PROVE  CalmInv'
<1> SUFFICES ASSUME ~risky' PROVE Calm'
  BY DEF CalmInv
<1> USE DEF OwnInv, Goto, threadVars
<1>r. ~risky => Calm
  BY DEF CalmInv
<1>c. Calm => \A t \in Threads : Cell(t) = Info1
  BY DEF Calm, Cell
<1>i. ASSUME Calm, Underway PROVE info[Info1] \in Pictures /\ Safe(info[Info1])
  <2>1. info[Info1] # NoPicture
    BY <1>i, <1>c DEF Calm, Underway, Refers
  <2> QED BY <1>i, <2>1 DEF Calm, TypeOK, Cells
<1>p. \A p \in painters : p.given \in Pictures
  BY DEF TypeOK
<1>s. ASSUME UNCHANGED <<way, loaded>>,
             \A t \in Threads : pc'[t] \in Taking => pc[t] \in Taking
      PROVE  \A p \in Pictures : Safe(p) => Safe(p)'
  BY <1>s DEF Safe, Alive, Picture, Pictures
<1>1. ASSUME Calm, UNCHANGED <<byHand, way, loaded, info, painters, stale>>,
             \A t \in Threads : pc'[t] \in Showing \cup Taking => pc'[t] = pc[t],
             \A i \in 1 .. Len(queue') : ~IsText(queue'[i]) =>
               \E j \in 1 .. Len(queue) : queue'[i] = queue[j]
      PROVE  Calm'
  <2>1. Quiet => Quiet'
    BY <1>1 DEF Quiet
  <2>2. Clicked'
    BY <1>1, <2>1 DEF Calm, Clicked
  <2>3. Underway' => Underway
    BY <1>1 DEF Underway, Showing
  <2>4. \A p \in Pictures : Safe(p) => Safe(p)'
    BY <1>1, <1>s
  <2>5. Underway' => Safe(info[Info1])'
    BY <1>1, <1>i, <2>3, <2>4
  <2>6. \A p \in painters' : Safe(p.given)'
    BY <1>1, <1>p, <2>4 DEF Calm
  <2> QED BY <1>1, <2>2, <2>5, <2>6 DEF Calm
<1>2. ASSUME NEW x \in Texts, Post(Text(x)), UNCHANGED risky,
             UNCHANGED <<byHand, way, loaded, info, painters, stale>>,
             \A t \in Threads : pc'[t] \in Showing \cup Taking => pc'[t] = pc[t]
      PROVE  Calm'
  <2>1. /\ \A i \in 1 .. Len(queue) : queue'[i] = queue[i]
        /\ \A i \in 1 .. Len(queue') : i \in 1 .. Len(queue) \/ i = Len(queue')
        /\ IsText(queue'[Len(queue')])
    BY <1>2, PostedLast, MessageTypes
  <2> QED BY <1>r, <1>1, <1>2, <2>1
<1>3. CASE ClientConnects
  BY <1>2, <1>3 DEF ClientConnects, PostNewText
<1>4. ASSUME NEW t \in Threads, ConnectServer(t) PROVE Calm'
  <2>1. \A u \in Threads : pc'[u] \in Showing \cup Taking => pc'[u] = pc[u]
    BY <1>4 DEF ConnectServer, TypeOK, Showing, Taking
  <2> QED BY <1>2, <1>4, <2>1 DEF ConnectServer, PostNewText
<1>5. ASSUME NEW t \in Threads, TakeByHand(t) PROVE Calm'
  <2> USE <1>5 DEF TakeByHand
  <2>1. PICK flag \in byHand : pc' = [pc EXCEPT ![t] = flag]
    OBVIOUS
  <2>2. Calm /\ Quiet /\ \A u \in Threads : pc[u] \notin Showing
    BY <1>r, <2>1 DEF Calm, Clicked
  <2>3. flag \in Taking /\ byHand = {flag}
    BY <2>1, <2>2 DEF Calm, Clicked
  <2>4. \A u \in Threads : pc'[u] = IF u = t THEN flag ELSE pc[u]
    BY <2>1 DEF TypeOK
  <2>5. \A u \in Threads : pc'[u] \notin Showing
    BY <2>2, <2>3, <2>4 DEF Showing, Taking
  <2>6. Quiet' /\ painters' = {} /\ \A i \in 1 .. Len(queue') : IsText(queue'[i])
    BY <2>2 DEF Quiet
  <2>7. Clicked'
    BY <2>2, <2>3, <2>4, <2>5, <2>6 DEF Calm, Clicked
  <2>8. ~Underway'
    BY <2>5, <2>6 DEF Underway, Showing
  <2>9. ~stale' /\ \A u \in Threads : way'[u] # "batch"
    BY <2>2 DEF Calm
  <2> QED BY <2>6, <2>7, <2>8, <2>9 DEF Calm
<1>6. ASSUME NEW t \in Threads, LoadByHand(t) PROVE Calm'
  <2> USE <1>6 DEF LoadByHand, LoadImage
  <2>1. Calm /\ pc[t] \in Taking
    BY <1>r DEF Taking
  <2>2. byHand' = {}
    BY <2>1 DEF Calm, Clicked
  <2>3. Clicked'
    BY <2>2 DEF Clicked, Taking
  <2>4. \A p \in Pictures : Safe(p) => Safe(p)'
    <3> SUFFICES ASSUME NEW p \in Pictures, Safe(p) PROVE Safe(p)'
      OBVIOUS
    <3>1. p[1] \in Threads /\ p[1] # t
      BY <2>1 DEF Safe, Pictures
    <3>2. way'[p[1]] = way[p[1]] /\ loaded'[p[1]] = loaded[p[1]] /\ pc'[p[1]] = pc[p[1]]
      BY <3>1 DEF TypeOK
    <3> QED BY <3>2 DEF Safe, Alive, Picture
  <2>5. Underway' => Underway
    BY DEF TypeOK, Underway
  <2>6. Underway' => Safe(info[Info1])'
    BY <1>i, <2>1, <2>4, <2>5
  <2>7. \A p \in painters' : Safe(p.given)'
    BY <1>p, <2>1, <2>4 DEF Calm
  <2>8. ~stale' /\ \A u \in Threads : way'[u] # "batch"
    BY <2>1 DEF Calm, TypeOK
  <2> QED BY <2>1, <2>3, <2>6, <2>7, <2>8 DEF Calm
<1>7. ASSUME NEW t \in Threads, PostText(t) PROVE Calm'
  <2>1. MsgPost[t] \in Texts
    BY <1>7, TextsAssumption DEF PostText, TypeOK, HasText, Showing
  <2>2. \A u \in Threads : pc'[u] \in Showing \cup Taking => pc'[u] = pc[u]
    BY <1>7 DEF PostText, TypeOK, Showing, Taking
  <2> QED BY <1>2, <1>7, <2>1, <2>2 DEF PostText
<1>8. ASSUME NEW t \in Threads, FillInfo(t) PROVE Calm'
  <2> USE <1>8 DEF FillInfo
  <2>1. Calm /\ Cell(t) = Info1
    BY <1>r, <1>c
  <2>2. Clicked'
    <3>1. byHand' = {}
      BY <2>1 DEF Calm, Clicked, Showing
    <3> QED BY <3>1 DEF Clicked, Taking
  <2>3. \A p \in Pictures : Safe(p) => Safe(p)'
    BY <1>s DEF TypeOK, Taking
  <2>4. Safe(info[Info1])'
    <3>1. info'[Info1] = Picture(t) /\ Picture(t)' = Picture(t) /\ Picture(t)[1] = t
      BY <2>1 DEF Cells, TypeOK, Picture
    <3>2. way'[t] # "none" /\ pc'[t] = "filled"
      BY DEF TypeOK, HasImage, Showing
    <3> QED BY <3>1, <3>2 DEF Safe, Alive, Taking
  <2>5. \A p \in painters' : Safe(p.given)'
    BY <1>p, <2>1, <2>3 DEF Calm
  <2> QED BY <2>1, <2>2, <2>4, <2>5 DEF Calm
<1>9. ASSUME NEW t \in Threads, PostPicture(t) PROVE Calm'
  <2> USE <1>9 DEF PostPicture
  <2>1. Calm /\ Cell(t) = Info1 /\ Picture(t) \in Pictures /\ Cell(t) \in Cells
    BY <1>r, <1>c, PictureType DEF HasImage, Showing, Cells
  <2>2. Clicked'
    <3>1. byHand' = {}
      BY <2>1 DEF Calm, Clicked, Showing
    <3> QED BY <3>1 DEF Clicked, Taking
  <2>3. \A p \in Pictures : Safe(p) => Safe(p)'
    BY <1>s DEF TypeOK, Taking
  <2>4. Safe(info[Info1])'
    BY <1>i, <2>1, <2>3 DEF Underway
  <2>5. \A p \in painters' : Safe(p.given)'
    BY <1>p, <2>1, <2>3 DEF Calm
  <2>6. /\ \A i \in 1 .. Len(queue') : i \in 1 .. Len(queue) \/ i = Len(queue')
        /\ \A i \in 1 .. Len(queue) : queue'[i] = queue[i]
        /\ queue'[Len(queue')].cell = Cell(t)
    BY <2>1, PostedLast, MessageTypes
  <2>7. \A i \in 1 .. Len(queue') : ~IsText(queue'[i]) => queue'[i].cell = Info1
    BY <2>1, <2>6 DEF Calm
  <2> QED BY <2>1, <2>2, <2>4, <2>5, <2>7 DEF Calm
<1>10. ASSUME NEW t \in Threads, Answer(t) PROVE Calm'
  <2>1. \A u \in Threads : pc'[u] \in Showing \cup Taking => pc'[u] = pc[u]
    BY <1>10 DEF Answer, TypeOK, Showing, Taking
  <2> QED BY <1>r, <1>1, <1>10, <2>1 DEF Answer
<1>11. CASE OnBnClickedCheckPicturesend
  BY <1>r, <1>1, <1>11 DEF OnBnClickedCheckPicturesend
<1>12. ASSUME NEW flag \in Taking, StepByHand(flag) PROVE Calm'
  <2> USE <1>12 DEF StepByHand
  <2>1. Calm /\ Settled
    BY <1>r
  <2>2. /\ Quiet' /\ painters' = {} /\ \A i \in 1 .. Len(queue') : IsText(queue'[i])
        /\ \A t \in Threads : pc'[t] \notin Showing \cup Taking
    BY <2>1 DEF Settled, Quiet, Showing, Taking
  <2>3. Clicked'
    BY <2>2 DEF Clicked
  <2>4. ~Underway'
    BY <2>2 DEF Underway, Showing
  <2> QED BY <2>1, <2>2, <2>3, <2>4 DEF Calm
<1>13. CASE OnBnClickedImageNext \/ OnBnClickedImagePrevious
  BY <1>12, <1>13 DEF OnBnClickedImageNext, OnBnClickedImagePrevious, Taking
<1>14. CASE ShowText
  BY <1>r, <1>1, <1>14, TakenFirst DEF ShowText
<1>15. CASE ShowPicture
  <2> USE <1>15 DEF ShowPicture
  <2>1. /\ 1 \in 1 .. Len(queue) /\ Head(queue) = queue[1]
        /\ \A i \in 1 .. Len(queue') : i + 1 \in 1 .. Len(queue) /\ queue'[i] = queue[i + 1]
    BY TakenFirst
  <2>2. Calm /\ ~Quiet /\ Underway
    BY <1>r, <2>1 DEF Quiet, Underway
  <2>3. Clicked'
    <3>1. byHand' = {}
      BY <2>2 DEF Calm, Clicked
    <3> QED BY <3>1 DEF Clicked, Taking
  <2>4. \A p \in Pictures : Safe(p) => Safe(p)'
    BY <1>s
  <2>5. Head(queue).cell = Info1 /\ Safe(info[Info1])'
    BY <1>i, <2>1, <2>2, <2>4 DEF Calm
  <2>6. \A p \in painters' : Safe(p.given)'
    BY <1>p, <2>2, <2>4, <2>5 DEF Calm
  <2>7. \A i \in 1 .. Len(queue') : ~IsText(queue'[i]) => queue'[i].cell = Info1
    BY <2>1, <2>2 DEF Calm
  <2>8. ~stale' /\ \A u \in Threads : way'[u] # "batch"
    BY <2>2 DEF Calm
  <2> QED BY <2>3, <2>5, <2>6, <2>7, <2>8 DEF Calm
<1>16. ASSUME NEW p \in painters, DrawMatp(p) PROVE Calm'
  <2> USE <1>16 DEF DrawMatp
  <2>1. Calm /\ ~Quiet
    BY <1>r DEF Quiet
  <2>2. Clicked'
    <3>1. byHand' = {}
      BY <2>1 DEF Calm, Clicked
    <3> QED BY <3>1 DEF Clicked, Taking
  <2>3. \A q \in Pictures : Safe(q) => Safe(q)'
    BY <1>s
  <2>4. Underway' => Safe(info[Info1])'
    BY <1>i, <2>1, <2>3 DEF Underway
  <2>5. \A q \in painters' : Safe(q.given)'
    BY <1>p, <2>1, <2>3 DEF Calm
  <2>6. ~stale'
    BY <2>1 DEF Calm, Safe
  <2> QED BY <2>1, <2>2, <2>4, <2>5, <2>6 DEF Calm
<1>17. ASSUME NEW t \in Threads, LoadInBatch(t) \/ EndThread(t) PROVE FALSE
  BY <1>17 DEF LoadInBatch, EndThread
<1> QED
  BY <1>3, <1>4, <1>5, <1>6, <1>7, <1>8, <1>9, <1>10, <1>11, <1>13, <1>14, <1>15, <1>16, <1>17
  DEF Next, ThreadStep

(* A user who steps by hand, and on only when the last picture is on the   *)
(* screen, never has pixels drawn that were freed while the threads live.  *)
THEOREM PatientUserIsSafe == Spec => []AliveForPatientUser
<1>1. Init => CalmInv
  BY EmptySeq DEF Init, CalmInv, Calm, Clicked, Underway, Quiet, Showing, Taking
<1>2. OwnInv /\ CalmInv /\ UNCHANGED vars => OwnInv' /\ CalmInv'
  BY DEF OwnInv, TypeOK, HasText, HasImage, OwnText, Refers, TextsHaveOneOwner, Held, Posted,
    Cell, Picture, Alive, Safe, Underway, Clicked, Quiet, Calm, CalmInv, vars
<1>3. CalmInv => AliveForPatientUser
  BY DEF CalmInv, Calm, AliveForPatientUser
<1> QED BY <1>1, <1>2, <1>3, InitOwn, OwnStep, CalmStep, PTL DEF Spec

-----------------------------------------------------------------------------
(* How many texts there are.                                               *)
LEMMA PostedFinite ==
  ASSUME TypeOK
  PROVE  IsFiniteSet(Posted) /\ Cardinality(Posted) \in Nat
<1>1. Len(queue) \in Nat
  BY LenProperties DEF TypeOK
<1>2. IsFiniteSet(1 .. Len(queue)) /\ Posted \in SUBSET (1 .. Len(queue))
  BY <1>1, FS_Interval DEF Posted
<1> QED BY <1>2, FS_Subset, FS_CardinalityType

LEMMA OneMorePosted ==
  ASSUME TypeOK, NEW msg \in Messages, Post(msg)
  PROVE  Cardinality(Posted') = Cardinality(Posted) + (IF IsText(msg) THEN 1 ELSE 0)
<1>1. /\ Len(queue) \in Nat /\ Len(queue') = Len(queue) + 1
      /\ \A i \in 1 .. Len(queue) : queue'[i] = queue[i]
      /\ queue'[Len(queue')] = msg
  BY PostedLast, LenProperties DEF TypeOK
<1>2. /\ Posted' = IF IsText(msg) THEN Posted \cup {Len(queue')} ELSE Posted
      /\ Len(queue') \notin Posted
  BY <1>1 DEF Posted
<1>3. IsFiniteSet(Posted) /\ Cardinality(Posted) \in Nat
  BY PostedFinite
<1>4. Cardinality(Posted \cup {Len(queue')}) = Cardinality(Posted) + 1
  BY <1>2, <1>3, FS_AddElement
<1> QED BY <1>2, <1>3, <1>4

LEMMA OneLessPosted ==
  ASSUME TypeOK, queue # <<>>, queue' = Tail(queue)
  PROVE  Cardinality(Posted') = Cardinality(Posted) - (IF IsText(Head(queue)) THEN 1 ELSE 0)
<1> DEFINE rest == Posted \ {1}
           up == [i \in rest |-> i - 1]
<1>1. /\ Len(queue) \in Nat /\ Len(queue') = Len(queue) - 1 /\ 1 \in 1 .. Len(queue)
      /\ Head(queue) = queue[1]
      /\ \A i \in 1 .. Len(queue') : i + 1 \in 1 .. Len(queue) /\ queue'[i] = queue[i + 1]
  BY TakenFirst, LenProperties DEF TypeOK
<1>2. up \in Bijection(rest, Posted')
  <2>1. \A i \in rest : i \in 2 .. Len(queue) /\ IsText(queue[i])
    BY <1>1 DEF Posted
  <2>2. \A i \in rest : i - 1 \in Posted'
    BY <1>1, <2>1 DEF Posted
  <2>3. \A j \in Posted' : j + 1 \in rest /\ up[j + 1] = j
    BY <1>1 DEF Posted
  <2>4. \A i, j \in rest : i - 1 = j - 1 => i = j
    BY <2>1
  <2>5. up \in [rest -> Posted']
    BY <2>2
  <2> QED BY <2>3, <2>4, <2>5 DEF Bijection, Injection, Surjection, IsInjective
<1>3. /\ IsFiniteSet(rest)
      /\ Cardinality(rest) = Cardinality(Posted) - (IF IsText(Head(queue)) THEN 1 ELSE 0)
  <2>1. 1 \in Posted <=> IsText(Head(queue))
    BY <1>1 DEF Posted
  <2>2. Cardinality(Posted) \in Nat
    BY PostedFinite
  <2> QED BY <2>1, <2>2, PostedFinite, FS_RemoveElement
<1>4. ExistsBijection(rest, Posted')
  BY <1>2 DEF ExistsBijection
<1> HIDE DEF rest, up
<1> QED BY <1>3, <1>4, FS_Bijection

LEMMA LostStep ==
  ASSUME OwnInv, LostInv, Next
  PROVE  LostInv'
<1> USE DEF OwnInv, Goto, threadVars
<1>a. /\ NoText \notin Texts /\ texts \subseteq Texts
      /\ \A t \in Threads : MsgPost[t] \in texts \cup {NoText}
  BY TextsAssumption DEF TypeOK
<1>b. /\ IsFiniteSet(texts) /\ Cardinality(texts) \in Nat
      /\ IsFiniteSet(Held) /\ Cardinality(Held) \in Nat
      /\ Cardinality(Posted) \in Nat /\ pictures \in Nat
      /\ Cardinality(texts) = Cardinality(Posted) + Cardinality(Held) + pictures
  BY PostedFinite, FS_CardinalityType DEF LostInv, OneTextLostPerPicture, TypeOK
<1>1. ASSUME PostNewText, UNCHANGED <<MsgPost, pictures>>
      PROVE  LostInv'
  <2>1. PICK x \in Texts \ texts : texts' = texts \cup {x} /\ Post(Text(x))
    BY <1>1 DEF PostNewText
  <2>2. IsFiniteSet(texts') /\ Cardinality(texts') = Cardinality(texts) + 1
    BY <1>b, <2>1, FS_AddElement
  <2>3. Cardinality(Posted') = Cardinality(Posted) + 1
    BY <2>1, OneMorePosted, MessageTypes
  <2> QED BY <1>1, <1>b, <2>2, <2>3 DEF LostInv, OneTextLostPerPicture, Held
<1>2. ASSUME UNCHANGED <<texts, queue, MsgPost, pictures>>
      PROVE  LostInv'
  BY <1>2 DEF LostInv, OneTextLostPerPicture, Held, Posted
<1>3. ASSUME NEW t \in Threads, LoadInBatch(t) \/ LoadByHand(t) PROVE LostInv'
  <2>a. PICK branch \in {"batch", "hand"} : LoadImage(t, branch) /\ pc[t] \notin Showing
    BY <1>3 DEF LoadInBatch, LoadByHand, Showing
  <2> USE <2>a DEF LoadImage
  <2>1. PICK x \in Texts \ texts : texts' = texts \cup {x} /\ MsgPost' = [MsgPost EXCEPT ![t] = x]
    OBVIOUS
  <2>2. IsFiniteSet(texts') /\ Cardinality(texts') = Cardinality(texts) + 1
    BY <1>b, <2>1, FS_AddElement
  <2>3. t \notin Held /\ Held' = Held \cup {t}
    BY <1>a, <2>1 DEF TypeOK, HasText, Showing, Held
  <2>4. IsFiniteSet(Held') /\ Cardinality(Held') = Cardinality(Held) + 1
    BY <1>b, <2>3, FS_AddElement
  <2>5. Posted' = Posted
    BY DEF Posted
  <2> QED BY <1>b, <2>2, <2>4, <2>5 DEF LostInv, OneTextLostPerPicture
<1>4. ASSUME NEW t \in Threads, pc[t] \in Showing, MsgPost' = [MsgPost EXCEPT ![t] = NoText]
      PROVE  IsFiniteSet(Held') /\ Cardinality(Held') = Cardinality(Held) - 1
  <2>1. t \in Held /\ Held' = Held \ {t}
    BY <1>4 DEF TypeOK, HasText, Held
  <2> QED BY <1>b, <2>1, FS_RemoveElement
<1>5. ASSUME NEW t \in Threads, PostText(t) PROVE LostInv'
  <2> USE <1>5 DEF PostText
  <2>1. MsgPost[t] \in Texts
    BY <1>a DEF HasText, Showing
  <2>2. Cardinality(Posted') = Cardinality(Posted) + 1
    BY <2>1, OneMorePosted, MessageTypes
  <2>3. IsFiniteSet(Held') /\ Cardinality(Held') = Cardinality(Held) - 1
    BY <1>4 DEF Showing
  <2> QED BY <1>b, <2>2, <2>3 DEF LostInv, OneTextLostPerPicture
<1>6. ASSUME NEW t \in Threads, PostPicture(t) PROVE LostInv'
  <2> USE <1>6 DEF PostPicture
  <2>1. Picture(t) \in Pictures /\ Cell(t) \in Cells
    BY PictureType DEF HasImage, Showing, Cell, Cells
  <2>2. Cardinality(Posted') = Cardinality(Posted)
    BY <1>b, <2>1, OneMorePosted, MessageTypes
  <2>3. IsFiniteSet(Held') /\ Cardinality(Held') = Cardinality(Held) - 1
    BY <1>4 DEF Showing
  <2> QED BY <1>b, <2>2, <2>3 DEF LostInv, OneTextLostPerPicture
<1>7. CASE ShowText
  <2> USE <1>7 DEF ShowText
  <2>1. /\ 1 \in 1 .. Len(queue) /\ Head(queue) = queue[1]
    BY TakenFirst
  <2>2. Head(queue).text \in texts
    BY <2>1 DEF TextsHaveOneOwner, Posted
  <2>3. IsFiniteSet(texts') /\ Cardinality(texts') = Cardinality(texts) - 1
    BY <1>b, <2>2, FS_RemoveElement
  <2>4. Cardinality(Posted') = Cardinality(Posted) - 1
    BY OneLessPosted
  <2>5. Held' = Held
    BY DEF Held
  <2> QED BY <1>b, <2>3, <2>4, <2>5 DEF LostInv, OneTextLostPerPicture
<1>8. CASE ShowPicture
  <2> USE <1>8 DEF ShowPicture
  <2>1. Cardinality(Posted') = Cardinality(Posted)
    BY <1>b, OneLessPosted
  <2>2. Held' = Held
    BY DEF Held
  <2> QED BY <1>b, <2>1, <2>2 DEF LostInv, OneTextLostPerPicture
<1>9. ASSUME NEW t \in Threads, ConnectServer(t) PROVE LostInv'
  BY <1>1, <1>9 DEF ConnectServer
<1>10. ASSUME NEW t \in Threads, TakeByHand(t) \/ FillInfo(t) \/ Answer(t) \/ EndThread(t)
       PROVE  LostInv'
  BY <1>2, <1>10 DEF TakeByHand, FillInfo, Answer, EndThread
<1>11. CASE ClientConnects
  BY <1>1, <1>11 DEF ClientConnects
<1>12. CASE \/ OnBnClickedCheckPicturesend \/ OnBnClickedImageNext \/ OnBnClickedImagePrevious
            \/ \E p \in painters : DrawMatp(p)
  BY <1>2, <1>12 DEF OnBnClickedCheckPicturesend, OnBnClickedImageNext,
    OnBnClickedImagePrevious, StepByHand, DrawMatp
<1> QED
  BY <1>3, <1>5, <1>6, <1>7, <1>8, <1>9, <1>10, <1>11, <1>12 DEF Next, ThreadStep

(* The arrays that are allocated and that nobody refers to are as many as  *)
(* the pictures posted: the block that posts a picture loses its text.     *)
THEOREM EachPictureLosesAText == Spec => []OneTextLostPerPicture
<1>1. Init => LostInv
  <2> SUFFICES ASSUME Init PROVE LostInv
    OBVIOUS
  <2>1. Held = {} /\ Posted = {} /\ texts = {} /\ pictures = 0
    BY DEF Init, Held, Posted
  <2> QED BY <2>1, FS_EmptySet DEF LostInv, OneTextLostPerPicture
<1>2. OwnInv /\ LostInv /\ UNCHANGED vars => OwnInv' /\ LostInv'
  BY DEF OwnInv, TypeOK, HasText, HasImage, OwnText, Refers, TextsHaveOneOwner, Held, Posted,
    Cell, LostInv, OneTextLostPerPicture, vars
<1>3. LostInv => OneTextLostPerPicture
  BY DEF LostInv
<1> QED BY <1>1, <1>2, <1>3, InitOwn, OwnStep, LostStep, PTL DEF Spec
=============================================================================

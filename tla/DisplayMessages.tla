--------------------------- MODULE DisplayMessages ---------------------------
(***************************************************************************)
(* The messages ID_SHOWCTRLMESSAGE that threads post to the dialog, and    *)
(* the memory they point to.                                               *)
(*                                                                         *)
(* Code 10 carries a text, a char array the thread allocates and           *)
(* ShowCtrlMessage deletes.  Code 5 carries the address of a struct with   *)
(* the size of a picture and a pointer to its pixels: in a batch a local   *)
(* of the block that posts it, otherwise the global Info1 of all threads.  *)
(* The pixels belong to the thread's cv::Mat, which the next image         *)
(* replaces.  The dialog hands them to a detached thread that draws.       *)
(***************************************************************************)
EXTENDS Integers, Sequences, FiniteSets

CONSTANTS
  Threads,   \* the threads that send images
  Texts,     \* where a char array can be allocated
  NoText,    \* no such place
  MaxImages, \* bound on the images one thread loads
  MaxPosted  \* bound on the length of the window's message queue

ASSUME TextsAssumption == NoText \notin Texts
ASSUME BoundsAssumption == MaxImages \in Nat /\ MaxPosted \in Nat

NoPicture == <<>>
Info1 == "Info1"
Cells == Threads \cup {Info1}

VARIABLES
  image_show, \* Communicator::image_show
  byHand,     \* of Communicator::single_image_load and last_image_load those set
  queue,      \* messages the dialog has not handled
  texts,      \* the char arrays that are allocated
  pc,         \* where each thread is
  way,        \* the branch that loaded its image, if it has one
  loaded,     \* images it has loaded; the last one is in its cv::Mat
  MsgPost,    \* local: the text of that image
  info,       \* what each struct refers to, a thread and an image's number
  painters,   \* the threads that draw: picture announced, pixels given
  pictures,   \* history: pictures posted
  stale,      \* history: pixels have been drawn that were freed
  risky,      \* history: a batch, a hasty step or a thread's end put pixels at risk
  down        \* the process has crashed

vars == <<image_show, byHand, queue, texts, pc, way, loaded, MsgPost, info,
          painters, pictures, stale, risky, down>>
threadVars == <<pc, way, loaded, MsgPost, info>>

Pictures == Threads \X (1 .. MaxImages)
Messages ==
  [code : {10}, text : Texts] \cup [code : {5}, cell : Cells, announced : Pictures]

TypeOK ==
  /\ image_show \in BOOLEAN /\ byHand \subseteq {"single", "last"}
  /\ queue \in Seq(Messages) /\ Len(queue) <= MaxPosted
  /\ texts \subseteq Texts
  /\ pc \in [Threads -> {"idle", "loop", "single", "last", "loaded", "filled", "waiting"}]
  /\ way \in [Threads -> {"none", "batch", "hand"}]
  /\ loaded \in [Threads -> 0 .. MaxImages]
  /\ MsgPost \in [Threads -> texts \cup {NoText}]
  /\ info \in [Cells -> Pictures \cup {NoPicture}]
  /\ painters \subseteq [announced : Pictures, given : Pictures]
  /\ pictures \in Nat
  /\ stale \in BOOLEAN /\ risky \in BOOLEAN /\ down \in BOOLEAN

Init ==
  /\ image_show = FALSE /\ byHand = {}
  /\ queue = <<>>
  /\ texts = {}
  /\ pc = [t \in Threads |-> "idle"]
  /\ way = [t \in Threads |-> "none"]
  /\ loaded = [t \in Threads |-> 0]
  /\ MsgPost = [t \in Threads |-> NoText]
  /\ info = [c \in Cells |-> NoPicture]
  /\ painters = {}
  /\ pictures = 0
  /\ stale = FALSE /\ risky = FALSE /\ down = FALSE

-----------------------------------------------------------------------------
Goto(t, label) == pc' = [pc EXCEPT ![t] = label]
Picture(t) == <<t, loaded[t]>>

(* The pixels of an image live as long as it is its thread's last one. *)
Alive(p) == way[p[1]] # "none" /\ Picture(p[1]) = p

Text(x) == [code |-> 10, text |-> x]
IsText(msg) == msg.code = 10
Post(msg) == Len(queue) < MaxPosted /\ queue' = Append(queue, msg)

(* new char[64], filled and posted at once. *)
PostNewText ==
  \E x \in Texts \ texts :
    /\ texts' = texts \cup {x}
    /\ Post(Text(x))

-----------------------------------------------------------------------------
(* "Connect AIDI Box Server!" and "AIDI Box Client Connetc in!" *)
ConnectServer(t) ==
  /\ pc[t] = "idle"
  /\ PostNewText
  /\ Goto(t, "loop")
  /\ UNCHANGED <<image_show, byHand, way, loaded, MsgPost, info, painters,
                 pictures, stale, risky, down>>

ClientConnects ==
  /\ PostNewText
  /\ UNCHANGED <<image_show, byHand, threadVars, painters, pictures, stale,
                 risky, down>>

(* Read an image into the cv::Mat and its name into a new array. *)
LoadImage(t, branch) ==
  /\ loaded[t] < MaxImages
  /\ way' = [way EXCEPT ![t] = branch]
  /\ loaded' = [loaded EXCEPT ![t] = @ + 1]
  /\ \E x \in Texts \ texts : /\ texts' = texts \cup {x}
                              /\ MsgPost' = [MsgPost EXCEPT ![t] = x]
  /\ Goto(t, "loaded")
  /\ UNCHANGED <<image_show, queue, info, painters, pictures, stale, down>>

LoadInBatch(t) ==
  /\ pc[t] = "loop"
  /\ LoadImage(t, "batch")
  /\ risky' = TRUE
  /\ UNCHANGED byHand

(* The test of a flag.  single_image_load is tested first; last_image_load *)
(* may be found set as well, for NEXT may set the first after its test.    *)
TakeByHand(t) ==
  /\ pc[t] = "loop"
  /\ \E flag \in byHand : Goto(t, flag)
  /\ UNCHANGED <<image_show, byHand, queue, texts, way, loaded, MsgPost, info, painters,
                 pictures, stale, risky, down>>

(* The branch clears its flag and loads an image, the next or the previous. *)
LoadByHand(t) ==
  /\ pc[t] \in {"single", "last"}
  /\ LoadImage(t, "hand")
  /\ byHand' = byHand \ {pc[t]}
  /\ UNCHANGED risky

(* Mutant: the text is posted in either case. *)
MutPostText(t) ==
  /\ pc[t] = "loaded"
  /\ Post(Text(MsgPost[t]))
  /\ IF image_show THEN Goto(t, "filled") /\ UNCHANGED MsgPost
                   ELSE Goto(t, "waiting") /\ MsgPost' = [MsgPost EXCEPT ![t] = NoText]
  /\ UNCHANGED <<image_show, byHand, texts, way, loaded, info, painters,
                 pictures, stale, risky, down>>

PostText(t) ==
  /\ pc[t] = "loaded"
  /\ ~image_show
  /\ Post(Text(MsgPost[t]))
  /\ MsgPost' = [MsgPost EXCEPT ![t] = NoText]
  /\ Goto(t, "waiting")
  /\ UNCHANGED <<image_show, byHand, texts, way, loaded, info, painters,
                 pictures, stale, risky, down>>

Cell(t) == IF way[t] = "batch" THEN t ELSE Info1

(* Mutant: the struct is filled before cv::imread replaces the image. *)
MutFillInfo(t) ==
  /\ pc[t] = "loaded"
  /\ image_show
  /\ loaded[t] > 1
  /\ info' = [info EXCEPT ![Cell(t)] = <<t, loaded[t] - 1>>]
  /\ Goto(t, "filled")
  /\ UNCHANGED <<image_show, byHand, queue, texts, way, loaded, MsgPost,
                 painters, pictures, stale, risky, down>>

FillInfo(t) ==
  /\ pc[t] = "loaded"
  /\ image_show
  /\ info' = [info EXCEPT ![Cell(t)] = Picture(t)]
  /\ Goto(t, "filled")
  /\ UNCHANGED <<image_show, byHand, queue, texts, way, loaded, MsgPost,
                 painters, pictures, stale, risky, down>>

(* The pointer to the text is lost with the block. *)
PostPicture(t) ==
  /\ pc[t] = "filled"
  /\ Post([code |-> 5, cell |-> Cell(t), announced |-> Picture(t)])
  /\ pictures' = pictures + 1
  /\ MsgPost' = [MsgPost EXCEPT ![t] = NoText]
  /\ Goto(t, "waiting")
  /\ UNCHANGED <<image_show, byHand, texts, way, loaded, info, painters, stale,
                 risky, down>>

(* Mutant: the image is released once it has been written. *)
MutAnswer(t) ==
  /\ pc[t] = "waiting"
  /\ Goto(t, "idle")
  /\ way' = [way EXCEPT ![t] = "none"]
  /\ UNCHANGED <<image_show, byHand, queue, texts, loaded, MsgPost, info,
                 painters, pictures, stale, risky, down>>

(* The box has asked for the image and it has been written. *)
Answer(t) ==
  /\ pc[t] = "waiting"
  /\ Goto(t, "loop")
  /\ UNCHANGED <<image_show, byHand, queue, texts, way, loaded, MsgPost, info,
                 painters, pictures, stale, risky, down>>

(* The end of the list, or a lost connection: the image is released. *)
EndThread(t) ==
  /\ pc[t] \in {"loop", "waiting"}
  /\ Goto(t, "idle")
  /\ way' = [way EXCEPT ![t] = "none"]
  /\ risky' = TRUE
  /\ UNCHANGED <<image_show, byHand, queue, texts, loaded, MsgPost, info,
                 painters, pictures, stale, down>>

-----------------------------------------------------------------------------
(* The dialog.                                                             *)

(* START, NEXT and PREVIOUS copy the check box to image_show again. *)
OnBnClickedCheckPicturesend ==
  /\ image_show' = ~image_show
  /\ UNCHANGED <<byHand, queue, texts, threadVars, painters, pictures, stale,
                 risky, down>>

(* A user who is not hasty waits for the picture of his last step. *)
Settled ==
  /\ byHand = {}
  /\ painters = {}
  /\ \A i \in 1 .. Len(queue) : IsText(queue[i])
  /\ \A t \in Threads : pc[t] \in {"idle", "loop", "waiting"}

StepByHand(flag) ==
  /\ byHand' = {flag}
  /\ risky' = (risky \/ ~Settled)
  /\ UNCHANGED <<image_show, queue, texts, threadVars, painters, pictures, stale, down>>

OnBnClickedImageNext == StepByHand("single")
OnBnClickedImagePrevious == StepByHand("last")

(* Mutant: nothing is deleted, as in the code 5 branch. *)
MutShowText ==
  /\ queue # <<>>
  /\ IsText(Head(queue))
  /\ queue' = Tail(queue)
  /\ UNCHANGED <<image_show, byHand, texts, threadVars, painters, pictures,
                 stale, risky, down>>

(* ShowCtrlMessage, code 10: show the text and delete it. *)
ShowText ==
  /\ queue # <<>>
  /\ IsText(Head(queue))
  /\ queue' = Tail(queue)
  /\ texts' = texts \ {Head(queue).text}
  /\ UNCHANGED <<image_show, byHand, threadVars, painters, pictures, stale,
                 risky, down>>

(* Mutant: the deletion of the code 10 branch made unconditional: with the *)
(* picture goes the array allocated last.                                  *)
MutShowPicture ==
  /\ queue # <<>>
  /\ ~IsText(Head(queue))
  /\ queue' = Tail(queue)
  /\ texts' = {}
  /\ LET msg == Head(queue) IN
       painters' = painters \cup {[announced |-> msg.announced, given |-> info[msg.cell]]}
  /\ UNCHANGED <<image_show, byHand, threadVars, pictures, stale, risky, down>>

(* Code 5: hand what the struct refers to by now to a thread that draws.   *)
(* The block of a local struct has been left: its place still holds what   *)
(* the thread last put there, or anything else.                            *)
ShowPicture ==
  /\ queue # <<>>
  /\ ~IsText(Head(queue))
  /\ queue' = Tail(queue)
  /\ LET msg == Head(queue) IN
       \/ /\ painters' = painters \cup {[announced |-> msg.announced,
                                         given |-> info[msg.cell]]}
          /\ UNCHANGED down
       \/ msg.cell # Info1 /\ down' = TRUE /\ UNCHANGED painters
  /\ UNCHANGED <<image_show, byHand, texts, threadVars, pictures, stale, risky>>

(* DrawMatp: clone the pixels and draw them. *)
DrawMatp(p) ==
  /\ p \in painters
  /\ painters' = painters \ {p}
  /\ stale' = (stale \/ ~Alive(p.given))
  /\ IF Alive(p.given) THEN down' = FALSE ELSE down' \in BOOLEAN
  /\ UNCHANGED <<image_show, byHand, queue, texts, threadVars, pictures, risky>>

ThreadStep(t) ==
  \/ ConnectServer(t) \/ LoadInBatch(t) \/ TakeByHand(t) \/ LoadByHand(t)
  \/ PostText(t) \/ FillInfo(t) \/ PostPicture(t) \/ Answer(t) \/ EndThread(t)

Next ==
  /\ ~down
  /\ \/ \E t \in Threads : ThreadStep(t)
     \/ ClientConnects
     \/ OnBnClickedCheckPicturesend
     \/ OnBnClickedImageNext
     \/ OnBnClickedImagePrevious
     \/ ShowText
     \/ ShowPicture
     \/ \E p \in painters : DrawMatp(p)

Spec == Init /\ [][Next]_vars

-----------------------------------------------------------------------------
(* Properties.                                                             *)
Posted == {i \in 1 .. Len(queue) : IsText(queue[i])}
Held == {t \in Threads : MsgPost[t] # NoText}

(* Every text in the queue is allocated and in it once, and no thread      *)
(* still has it: ShowCtrlMessage deletes each array once and nobody uses   *)
(* it afterwards.                                                          *)
TextsHaveOneOwner ==
  /\ \A i \in Posted : queue[i].text \in texts
  /\ \A i, j \in Posted : queue[i].text = queue[j].text => i = j
  /\ \A t \in Held : \A i \in Posted : queue[i].text # MsgPost[t]

(* The arrays nobody has a pointer to any more are those of the pictures   *)
(* that were shown: one is lost with each, and none without the check box. *)
OneTextLostPerPicture ==
  Cardinality(texts) = Cardinality(Posted) + Cardinality(Held) + pictures

(* A thread that draws is given the announced image of its sender or a     *)
(* later one, never one from before the announcement.                      *)
NeverOlder ==
  \A p \in painters :
    p.given[1] = p.announced[1] => p.given[2] >= p.announced[2]

(* The pixels drawn have been freed only if images were loaded in a batch, *)
(* the user stepped on before the last picture was on the screen, or a     *)
(* thread has ended: its last picture is never safe.                       *)
AliveForPatientUser ==
  stale => risky
=============================================================================

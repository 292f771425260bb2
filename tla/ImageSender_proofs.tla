------------------------- MODULE ImageSender_proofs -------------------------
(***************************************************************************)
(* Proofs about ImageSender, for any set of threads and sockets, any       *)
(* bounds and any choice of clicks.                                        *)
(***************************************************************************)
EXTENDS ImageSender, LoadControl_proofs, TLAPS

-----------------------------------------------------------------------------
(* Type correctness. *)

LEMMA MessageType ==
  /\ \A n \in Int : <<"stop", n>> \in Messages
  /\ \A b \in BOOLEAN : <<"sent", b>> \in Messages
BY DEF Messages

LEMMA MessageParts ==
  ASSUME NEW msg \in Messages
  PROVE  /\ msg[1] = "sent" => msg[2] \in BOOLEAN
         /\ msg[1] # "sent" => msg[1] = "stop" /\ msg[2] \in Int
BY DEF Messages

LEMMA LeaveType ==
  ASSUME TypeOK, NEW t \in Threads, NEW how \in {"done", "failed"}, Leave(t, how)
  PROVE  /\ pc' \in [Threads -> Labels]
         /\ ended' \in [Threads -> {"none", "done", "failed"}]
         /\ mode' \in [Threads -> {"none", "receive", "batch", "single", "last"}]
         /\ file_countr' \in [Threads -> Int]
         /\ file_total' \in [Threads -> Nat]
         /\ sent' \in [Threads -> SUBSET Int]
         /\ refused' \in [Threads -> SUBSET Int]
         /\ asked' \in [Threads -> Signals \cup {NoRequest}]
         /\ readOn' \in [Threads -> Conns \cup {NoConn}]
BY DEF TypeOK, Leave, Labels, NoRequest

LEMMA NextRoundType ==
  ASSUME TypeOK, NEW t \in Threads, NextRound(t)
  PROVE  /\ pc' \in [Threads -> Labels]
         /\ mode' \in [Threads -> {"none", "receive", "batch", "single", "last"}]
         /\ asked' \in [Threads -> Signals \cup {NoRequest}]
         /\ readOn' \in [Threads -> Conns \cup {NoConn}]
BY DEF TypeOK, NextRound, Goto, Labels

LEMMA ThreadStepType ==
  ASSUME TypeOK, NEW t \in Threads, ThreadStep(t)
  PROVE  TypeOK'
<1> USE DEF dialogVars, threadVars, localVars, netVars, Goto, LoadTypeOK
<1>1. CASE EnterThread(t)
  BY <1>1 DEF EnterThread, TypeOK, Labels
<1>2. CASE TestModeAgain(t)
  <2>1. CASE clientSend
    BY <1>2, <2>1 DEF TestModeAgain, TypeOK, Labels
  <2>2. CASE ~clientSend
    BY <1>2, <2>2, LeaveType DEF TestModeAgain, TypeOK, Labels
  <2> QED BY <2>1, <2>2
<1>3. CASE NewSocket(t)
  BY <1>3 DEF NewSocket, TypeOK, Labels, Links, NoRequest
<1>4. CASE Connect(t)
  <2>1. link' \in [Conns -> Links]
    BY <1>4 DEF Connect, TypeOK, Links
  <2>2. pc' \in [Threads -> Labels]
    <3>1. \E l \in Labels : pc' = [pc EXCEPT ![t] = l]
      BY <1>4 DEF Connect, Labels
    <3> QED BY <3>1 DEF TypeOK
  <2>3. buffer' \in Signals
    BY <1>4 DEF Connect, TypeOK, Signals
  <2> QED BY <1>4, <2>1, <2>2, <2>3 DEF Connect, TypeOK
<1>5. CASE Setup(t)
  <2>1. down' \in BOOLEAN
    BY <1>5, Zenon DEF Setup
  <2>2. file_total' \in [Threads -> Nat] /\ file_countr' \in [Threads -> Int]
    BY <1>5 DEF Setup, TypeOK
  <2>3. sent' \in [Threads -> SUBSET Int] /\ refused' \in [Threads -> SUBSET Int]
    BY <1>5 DEF Setup, TypeOK
  <2>4. pc' \in [Threads -> Labels] /\ buffer' \in Signals
    BY <1>5 DEF Setup, TypeOK, Labels, Signals
  <2> QED BY <1>5, <2>1, <2>2, <2>3, <2>4 DEF Setup, TypeOK
<1>6. CASE BatchLoad(t)
  BY <1>6 DEF BatchLoad, TypeOK, Labels, Advance
<1>7. CASE NoBatchLoad(t)
  BY <1>7 DEF NoBatchLoad, TypeOK, Labels
<1>8. CASE TestSingleLoad(t)
  BY <1>8 DEF TestSingleLoad, TypeOK, Labels
<1>9. CASE SingleLoad(t)
  BY <1>9 DEF SingleLoad, TypeOK, Labels, Advance, Flags
<1>10. CASE TestLastLoad(t)
  BY <1>10 DEF TestLastLoad, TypeOK, Labels
<1>11. CASE LastLoad(t)
  BY <1>11 DEF LastLoad, TypeOK, Labels, Flags
<1>12. CASE LoadImage(t)
  <2>1. posted' \in Seq(Messages)
    BY <1>12, MessageType DEF LoadImage, TypeOK
  <2> QED BY <1>12, <2>1 DEF LoadImage, TypeOK, Labels
<1>13. CASE ReadRequest(t)
  BY <1>13 DEF ReadRequest, TypeOK, Labels, Writable, NoRequest
<1>14. CASE CheckRequest(t)
  <2>1. CASE Leave(t, "failed") /\ UNCHANGED <<dialogVars, files, netVars, send_ok, posted, down>>
    <3>1. LoadTypeOK'
      BY <2>1 DEF TypeOK
    <3> QED BY <2>1, <3>1, LeaveType DEF TypeOK
  <2>2. CASE ~Leave(t, "failed")
    <3>1. file_countr[t] \in Int /\ refused[t] \in SUBSET Int
      BY DEF TypeOK
    <3>2. CASE mode[t] = "batch" /\ buffer # 20
      <4>1. refused' \in [Threads -> SUBSET Int]
        <5>1. refused' = [refused EXCEPT ![t] = refused[t] \cup {file_countr[t]}]
          BY <1>14, <3>2 DEF CheckRequest
        <5>2. refused[t] \cup {file_countr[t]} \in SUBSET Int
          BY <3>1
        <5> QED BY <5>1, <5>2 DEF TypeOK
      <4>2. NextRound(t)
        BY <1>14, <2>2, <3>2 DEF CheckRequest
      <4> QED BY <1>14, <2>2, <3>2, <4>1, <4>2, NextRoundType DEF CheckRequest, TypeOK
    <3>3. CASE ~(mode[t] = "batch" /\ buffer # 20)
      BY <1>14, <2>2, <3>3 DEF CheckRequest, TypeOK, Labels
    <3> QED BY <3>2, <3>3
  <2> QED BY <1>14, <2>1, <2>2 DEF CheckRequest
<1>15. CASE WriteHeader(t)
  BY <1>15 DEF WriteHeader, TypeOK, Labels
<1>16. CASE WriteImage(t)
  <2>1. CASE Leave(t, "failed")
    BY <1>16, <2>1, LeaveType DEF WriteImage, TypeOK, Labels
  <2>2. CASE ~Leave(t, "failed")
    <3>1. NextRound(t)
      BY <1>16, <2>2 DEF WriteImage
    <3>2. file_countr[t] \in Int /\ sent[t] \in SUBSET Int
      BY DEF TypeOK
    <3>3. sent' \in [Threads -> SUBSET Int]
      <4>1. sent' = [sent EXCEPT ![t] = sent[t] \cup {file_countr[t]}]
        BY <1>16, <2>2 DEF WriteImage
      <4>2. sent[t] \cup {file_countr[t]} \in SUBSET Int
        BY <3>2
      <4> QED BY <4>1, <4>2 DEF TypeOK
    <3> QED BY <1>16, <2>2, <3>1, <3>3, NextRoundType DEF WriteImage, TypeOK
  <2> QED BY <2>1, <2>2
<1>17. CASE ConnectionFails(t)
  BY <1>17, LeaveType DEF ConnectionFails, TypeOK, Labels
<1>18. CASE FinishList(t)
  BY <1>18 DEF FinishList, TypeOK, Labels
<1>19. CASE PostSendOk(t)
  <2>1. posted' \in Seq(Messages)
    BY <1>19, MessageType DEF PostSendOk, TypeOK
  <2> QED BY <1>19, <2>1, LeaveType DEF PostSendOk, TypeOK, Labels
<1>20. CASE AskImage(t)
  BY <1>20 DEF AskImage, TypeOK, Labels
<1>21. CASE GetImage(t)
  BY <1>21 DEF GetImage, TypeOK, Labels
<1> QED BY <1>1, <1>2, <1>3, <1>4, <1>5, <1>6, <1>7, <1>8, <1>9, <1>10, <1>11, <1>12, <1>13, <1>14, <1>15, <1>16, <1>17, <1>18, <1>19, <1>20, <1>21 DEF ThreadStep

LEMMA TypeStep == TypeOK /\ [Next]_vars => TypeOK'
<1> SUFFICES ASSUME TypeOK, [Next]_vars PROVE TypeOK'
  OBVIOUS
<1> USE DEF dialogVars, threadVars, localVars, netVars
<1>1. CASE DialogStep
  BY <1>1, LoadNextType DEF DialogStep, TypeOK
<1>2. CASE FilelistPath
  <2>1. down' \in BOOLEAN
    BY <1>2, Zenon DEF FilelistPath
  <2>2. files' \in Nat
    BY <1>2, BoundsAssumption DEF FilelistPath, TypeOK
  <2> QED BY <1>2, <2>1, <2>2 DEF FilelistPath, TypeOK, LoadTypeOK
<1>3. CASE HandlePosted
  <2>1. posted # <<>> /\ Head(posted) \in Messages /\ Tail(posted) \in Seq(Messages)
    BY <1>3 DEF HandlePosted, TypeOK
  <2>2. enabled' \in [Buttons -> BOOLEAN]
    <3>1. CASE Head(posted)[1] = "sent"
      <4>1. Head(posted)[2] \in BOOLEAN
        BY <2>1, <3>1, MessageParts
      <4> QED BY <1>3, <3>1, <4>1 DEF HandlePosted, TypeOK, LoadTypeOK, Buttons
    <3>2. CASE Head(posted)[1] # "sent"
      BY <1>3, <3>2 DEF HandlePosted, TypeOK, LoadTypeOK, Buttons
    <3> QED BY <3>1, <3>2
  <2> QED BY <1>3, <2>1, <2>2 DEF HandlePosted, TypeOK, LoadTypeOK
<1>4. ASSUME NEW t \in Threads, StartNetserver(t)
      PROVE  TypeOK'
  BY <1>4 DEF StartNetserver, TypeOK, LoadTypeOK, Goto, Labels, Buttons
<1>5. ASSUME NEW t \in Threads, ThreadStep(t)
      PROVE  TypeOK'
  BY <1>5, ThreadStepType
<1>6. ASSUME NEW c \in Conns, BoxRequest(c) \/ LoseConnection(c)
      PROVE  TypeOK'
  BY <1>6 DEF BoxRequest, LoseConnection, TypeOK, LoadTypeOK, Links
<1>7. CASE UNCHANGED vars
  BY <1>7 DEF vars, TypeOK, LoadTypeOK
<1> QED BY <1>1, <1>2, <1>3, <1>4, <1>5, <1>6, <1>7 DEF Next

(* Every variable stays in its domain, whatever the threads, the user and  *)
(* the box do; in particular no count of images becomes negative.          *)
THEOREM TypeCorrect == Spec => []TypeOK
<1>1. Init => TypeOK
  <2> SUFFICES ASSUME Init PROVE TypeOK
    OBVIOUS
  <2>1. LoadTypeOK
    <3>1. load \in [Flags -> BOOLEAN]
      BY DEF Init, LoadInit
    <3>3. enabled \in [Buttons -> BOOLEAN]
      BY DEF Init, LoadInit
    <3>2. writes \in Seq(Flags \X BOOLEAN)
      BY DEF Init, LoadInit
    <3> QED BY <3>1, <3>2, <3>3 DEF Init, LoadInit, LoadTypeOK
  <2>2. posted \in Seq(Messages)
    BY DEF Init
  <2>3. /\ sent \in [Threads -> SUBSET Int] /\ refused \in [Threads -> SUBSET Int]
        /\ file_countr \in [Threads -> Int]
    BY DEF Init
  <2> QED BY <2>1, <2>2, <2>3 DEF Init, TypeOK, Labels, Links, Signals
<1> QED BY <1>1, TypeStep, PTL DEF Spec

-----------------------------------------------------------------------------
(* The walk through the list.  CompletionCoversList speaks of the end of   *)
(* the loop only; WalkInv says for every point of the loop which images    *)
(* the thread has dealt with, and relates its index to its bound.          *)

Dealt(t) == sent[t] \cup refused[t]
BetweenImages == {"loop", "single", "takeSingle", "last", "takeLast", "post"}
WithinImage == {"load", "read", "check", "header", "image"}

WalkOf(t) ==
  /\ file_total[t] <= files
  /\ pc[t] \in BetweenImages \cup WithinImage => file_countr[t] \in -1 .. file_total[t] - 1
  /\ pc[t] \in {"single", "takeSingle", "last", "takeLast"} => MoreImages(t)
  /\ pc[t] = "post" => ~MoreImages(t)
  /\ pc[t] \in BetweenImages => 0 .. file_countr[t] \subseteq Dealt(t)
  /\ pc[t] \in WithinImage => 0 .. file_countr[t] - 1 \subseteq Dealt(t)
  /\ pc[t] = "load" => mode[t] = "last" \/ file_countr[t] >= 0

WalkInv == \A t \in Threads : WalkOf(t)

(* Only the thread itself moves its index, its snapshot and its history.   *)
LEMMA OtherThreads ==
  ASSUME TypeOK, NEW t \in Threads, ThreadStep(t) \/ StartNetserver(t),
         NEW u \in Threads, u # t
  PROVE  /\ pc'[u] = pc[u] /\ mode'[u] = mode[u] /\ ended'[u] = ended[u]
         /\ file_countr'[u] = file_countr[u] /\ file_total'[u] = file_total[u]
         /\ sent'[u] = sent[u] /\ refused'[u] = refused[u]
         /\ asked'[u] = asked[u] /\ readOn'[u] = readOn[u]
<1> USE DEF TypeOK, Goto, localVars, threadVars
<1> QED
  BY DEF ThreadStep, StartNetserver, Leave, NextRound, Advance,
    EnterThread, TestModeAgain, NewSocket, Connect, Setup, BatchLoad, NoBatchLoad,
    TestSingleLoad, SingleLoad, TestLastLoad, LastLoad, LoadImage, ReadRequest,
    CheckRequest, WriteHeader, WriteImage, ConnectionFails, FinishList, PostSendOk,
    AskImage, GetImage

LEMMA WalkOthers ==
  ASSUME TypeOK, WalkInv, NEW t \in Threads, ThreadStep(t) \/ StartNetserver(t),
         files' = files, NEW u \in Threads, u # t
  PROVE  WalkOf(u)'
<1>1. WalkOf(u)
  BY DEF WalkInv
<1> QED BY <1>1, OtherThreads DEF WalkOf, MoreImages, Dealt

LEMMA ThreadKeepsFiles ==
  ASSUME NEW t \in Threads, ThreadStep(t) \/ StartNetserver(t)
  PROVE  files' = files
BY DEF ThreadStep, StartNetserver, EnterThread, TestModeAgain, NewSocket, Connect, Setup,
  BatchLoad, NoBatchLoad, TestSingleLoad, SingleLoad, TestLastLoad, LastLoad, LoadImage,
  ReadRequest, CheckRequest, WriteHeader, WriteImage, ConnectionFails, FinishList,
  PostSendOk, AskImage, GetImage

LEMMA WalkLeave ==
  ASSUME TypeOK, NEW t \in Threads, NEW how, Leave(t, how), files' = files
  PROVE  WalkOf(t)'
BY DEF TypeOK, Leave, WalkOf, BetweenImages, WithinImage

(* The acting thread: an index grows by one only below the bound, and only *)
(* an image that has been written or refused leads back to the loop.       *)
LEMMA WalkSelf ==
  ASSUME TypeOK, WalkInv, NEW t \in Threads, ThreadStep(t)
  PROVE  WalkOf(t)'
<1>0. WalkOf(t) /\ files' = files
  BY ThreadKeepsFiles DEF WalkInv
<1>t. /\ pc \in [Threads -> Labels] /\ files \in Nat
      /\ file_countr \in [Threads -> Int] /\ file_total \in [Threads -> Nat]
      /\ sent \in [Threads -> SUBSET Int] /\ refused \in [Threads -> SUBSET Int]
      /\ mode \in [Threads -> {"none", "receive", "batch", "single", "last"}]
  BY DEF TypeOK
<1> USE DEF localVars, threadVars, Goto, BetweenImages, WithinImage
<1>1. CASE EnterThread(t)
  BY <1>1, <1>0, <1>t DEF EnterThread, WalkOf, MoreImages, Dealt
<1>2. CASE TestModeAgain(t)
  <2>1. CASE clientSend
    BY <1>2, <1>0, <1>t, <2>1 DEF TestModeAgain, WalkOf, MoreImages, Dealt
  <2>2. CASE ~clientSend
    BY <1>2, <1>0, <2>2, WalkLeave DEF TestModeAgain
  <2> QED BY <2>1, <2>2
<1>3. CASE NewSocket(t)
  BY <1>3, <1>0, <1>t DEF NewSocket, WalkOf, MoreImages, Dealt
<1>4. CASE Connect(t)
  BY <1>4, <1>0, <1>t DEF Connect, WalkOf, MoreImages, Dealt
<1>5. CASE Setup(t)
  BY <1>5, <1>0, <1>t DEF Setup, WalkOf, MoreImages, Dealt
<1>6. CASE BatchLoad(t)
  BY <1>6, <1>0, <1>t DEF BatchLoad, Advance, WalkOf, MoreImages, Dealt
<1>7. CASE NoBatchLoad(t)
  BY <1>7, <1>0, <1>t DEF NoBatchLoad, WalkOf, MoreImages, Dealt
<1>8. CASE TestSingleLoad(t)
  BY <1>8, <1>0, <1>t DEF TestSingleLoad, WalkOf, MoreImages, Dealt
<1>9. CASE SingleLoad(t)
  BY <1>9, <1>0, <1>t DEF SingleLoad, Advance, WalkOf, MoreImages, Dealt
<1>10. CASE TestLastLoad(t)
  BY <1>10, <1>0, <1>t DEF TestLastLoad, WalkOf, MoreImages, Dealt
<1>11. CASE LastLoad(t)
  BY <1>11, <1>0, <1>t DEF LastLoad, WalkOf, MoreImages, Dealt
<1>12. CASE LoadImage(t)
  BY <1>12, <1>0, <1>t DEF LoadImage, WalkOf, MoreImages, Dealt
<1>13. CASE ReadRequest(t)
  BY <1>13, <1>0, <1>t DEF ReadRequest, WalkOf, MoreImages, Dealt
<1>14. CASE CheckRequest(t)
  <2>1. CASE Leave(t, "failed")
    BY <1>0, <2>1, WalkLeave
  <2>2. CASE ~Leave(t, "failed")
    BY <1>14, <1>0, <1>t, <2>2 DEF CheckRequest, NextRound, WalkOf, MoreImages, Dealt
  <2> QED BY <2>1, <2>2
<1>15. CASE WriteHeader(t)
  BY <1>15, <1>0, <1>t DEF WriteHeader, WalkOf, MoreImages, Dealt
<1>16. CASE WriteImage(t)
  <2>1. CASE Leave(t, "failed")
    BY <1>0, <2>1, WalkLeave
  <2>2. CASE ~Leave(t, "failed")
    BY <1>16, <1>0, <1>t, <2>2 DEF WriteImage, NextRound, WalkOf, MoreImages, Dealt
  <2> QED BY <2>1, <2>2
<1>17. CASE ConnectionFails(t)
  BY <1>17, <1>0, WalkLeave DEF ConnectionFails
<1>18. CASE FinishList(t)
  BY <1>18, <1>0, <1>t DEF FinishList, WalkOf, MoreImages, Dealt
<1>19. CASE PostSendOk(t)
  BY <1>19, <1>0, WalkLeave DEF PostSendOk
<1>20. CASE AskImage(t)
  BY <1>20, <1>0, <1>t DEF AskImage, WalkOf, MoreImages, Dealt
<1>21. CASE GetImage(t)
  BY <1>21, <1>0, <1>t DEF GetImage, WalkOf, MoreImages, Dealt
<1> QED BY <1>1, <1>2, <1>3, <1>4, <1>5, <1>6, <1>7, <1>8, <1>9, <1>10, <1>11, <1>12, <1>13, <1>14, <1>15, <1>16, <1>17, <1>18, <1>19, <1>20, <1>21 DEF ThreadStep

LEMMA WalkStep == TypeOK /\ WalkInv /\ [Next]_vars => WalkInv'
<1> SUFFICES ASSUME TypeOK, WalkInv, [Next]_vars, NEW u \in Threads
             PROVE  WalkOf(u)'
  BY DEF WalkInv
<1>0. WalkOf(u)
  BY DEF WalkInv
<1> USE DEF threadVars, localVars
<1>1. CASE DialogStep \/ HandlePosted \/ UNCHANGED vars
  BY <1>0, <1>1 DEF DialogStep, HandlePosted, vars, WalkOf, MoreImages, Dealt
<1>2. CASE FilelistPath
  <2>1. files' >= files
    BY <1>2, BoundsAssumption DEF FilelistPath, TypeOK
  <2>2. files \in Nat /\ files' \in Nat /\ file_total \in [Threads -> Nat]
    BY <1>2, BoundsAssumption DEF FilelistPath, TypeOK
  <2>3. UNCHANGED threadVars
    BY <1>2 DEF FilelistPath
  <2> QED BY <1>0, <2>1, <2>2, <2>3 DEF WalkOf, MoreImages, Dealt
<1>3. ASSUME NEW t \in Threads, StartNetserver(t)
      PROVE  WalkOf(u)'
  <2>1. CASE u = t
    BY <1>0, <1>3, <2>1 DEF StartNetserver, Goto, TypeOK, WalkOf, BetweenImages, WithinImage
  <2>2. CASE u # t
    BY <1>3, <2>2, WalkOthers, ThreadKeepsFiles
  <2> QED BY <2>1, <2>2
<1>4. ASSUME NEW t \in Threads, ThreadStep(t)
      PROVE  WalkOf(u)'
  BY <1>4, WalkSelf, WalkOthers, ThreadKeepsFiles
<1>5. ASSUME NEW c \in Conns, BoxRequest(c) \/ LoseConnection(c)
      PROVE  WalkOf(u)'
  BY <1>0, <1>5 DEF BoxRequest, LoseConnection, WalkOf, MoreImages, Dealt
<1> QED BY <1>1, <1>2, <1>3, <1>4, <1>5 DEF Next

LEMMA WalkCorrect == Spec => [](TypeOK /\ WalkInv)
<1>1. Init => WalkInv
  BY DEF Init, WalkInv, WalkOf, BetweenImages, WithinImage
<1> QED BY <1>1, WalkStep, TypeCorrect, PTL DEF Spec

(* send_ok is posted only when every image of the snapshot was written or  *)
(* refused, with any number of threads, images and clicks.                 *)
THEOREM CompletionIsComplete == Spec => []CompletionCoversList
<1>1. TypeOK /\ WalkInv => CompletionCoversList
  BY DEF TypeOK, WalkInv, WalkOf, CompletionCoversList, MoreImages, Dealt, BetweenImages
<1> QED BY <1>1, WalkCorrect, PTL

(* A thread indexes file_list within its bounds, a PREVIOUS before the     *)
(* first image apart.                                                      *)
THEOREM IndexIsSafe == Spec => []IndexInList
<1>1. TypeOK /\ WalkInv => IndexInList
  BY DEF TypeOK, WalkInv, WalkOf, IndexInList, WithinImage
<1> QED BY <1>1, WalkCorrect, PTL

-----------------------------------------------------------------------------
(* START.  The button is disabled by the click that starts a thread and    *)
(* enabled by the message the thread posts at its end, so the invariant    *)
(* has to speak of the messages still on their way: there is at most one   *)
(* report, and while there is one neither a thread runs nor START is       *)
(* enabled.                                                                *)

Idle == \A t \in Threads : ~Running(t) /\ ended[t] # "failed"
Report(i) == posted[i][1] = "sent"

StartGuard ==
  /\ enabled["START"] => Idle
  /\ \A i \in 1 .. Len(posted) : Report(i) => Idle /\ ~enabled["START"]
  /\ \A i, j \in 1 .. Len(posted) : Report(i) /\ Report(j) => i = j
  /\ \A t, u \in Threads : Running(t) => ended[u] # "failed" /\ (Running(u) => t = u)

RequestGuard ==
  \A t \in Threads :
    /\ pc[t] = "check" => buffer = asked[t]
    /\ pc[t] \in {"read", "check", "header", "image"} => socket = readOn[t]

StartInv == ~reenabled => StartGuard /\ RequestGuard

LEMMA ClicksKeepStart ==
  ASSUME TypeOK, LoadNext, ~reenabled'
  PROVE  enabled'["START"] = enabled["START"] /\ ~reenabled
<1> USE DEF TypeOK, LoadTypeOK, Buttons
<1> QED
  BY DEF LoadNext, WriteFlag, OnBnClickedCheckBatchLoad, OnBnClickedCheckSingleLoad,
    OnBnClickedImageSendingStart, OnBnClickedImageNext, OnBnClickedImagePrevious,
    OnBnClickedCheckModeSelect, OnBnClickedCheckClientSend, ShowModeControls

LEMMA ThreadKeepsStart ==
  ASSUME NEW t \in Threads, ThreadStep(t)
  PROVE  UNCHANGED <<enabled, reenabled>>
BY DEF ThreadStep, dialogVars, EnterThread, TestModeAgain, NewSocket, Connect, Setup,
  BatchLoad, NoBatchLoad, TestSingleLoad, SingleLoad, TestLastLoad, LastLoad, LoadImage,
  ReadRequest, CheckRequest, WriteHeader, WriteImage, ConnectionFails, FinishList,
  PostSendOk, AskImage, GetImage

LEMMA StepOfRunning ==
  ASSUME NEW t \in Threads, ThreadStep(t)
  PROVE  Running(t)
BY DEF Running, ThreadStep, EnterThread, TestModeAgain, NewSocket, Connect, Setup,
  BatchLoad, NoBatchLoad, TestSingleLoad, SingleLoad, TestLastLoad, LastLoad, LoadImage,
  ReadRequest, CheckRequest, WriteHeader, WriteImage, ConnectionFails, FinishList,
  PostSendOk, AskImage, GetImage

(* What a thread's step does to the window's queue and to its own end. *)
LEMMA StepPosts ==
  ASSUME TypeOK, NEW t \in Threads, ThreadStep(t)
  PROVE  \/ posted' = posted /\ (pc'[t] # "idle" => ended'[t] = ended[t])
         \/ /\ \E n \in Int : posted' = Append(posted, <<"stop", n>>)
            /\ pc'[t] # "idle" /\ ended'[t] = ended[t]
         \/ /\ \E b \in BOOLEAN : posted' = Append(posted, <<"sent", b>>)
            /\ pc'[t] = "idle" /\ ended'[t] = "done"
<1> USE DEF Goto, localVars
<1>1. CASE EnterThread(t)
  BY <1>1 DEF EnterThread, TypeOK
<1>2. CASE TestModeAgain(t)
  BY <1>2 DEF TestModeAgain, TypeOK, Leave
<1>3. CASE NewSocket(t)
  BY <1>3 DEF NewSocket, TypeOK
<1>4. CASE Connect(t)
  BY <1>4 DEF Connect, TypeOK
<1>5. CASE Setup(t)
  BY <1>5 DEF Setup, TypeOK
<1>6. CASE BatchLoad(t)
  BY <1>6 DEF BatchLoad, TypeOK, Advance
<1>7. CASE NoBatchLoad(t)
  BY <1>7 DEF NoBatchLoad, TypeOK
<1>8. CASE TestSingleLoad(t)
  BY <1>8 DEF TestSingleLoad, TypeOK
<1>9. CASE SingleLoad(t)
  BY <1>9 DEF SingleLoad, TypeOK, Advance
<1>10. CASE TestLastLoad(t)
  BY <1>10 DEF TestLastLoad, TypeOK
<1>11. CASE LastLoad(t)
  BY <1>11 DEF LastLoad, TypeOK
<1>12. CASE LoadImage(t)
  BY <1>12 DEF LoadImage, TypeOK
<1>13. CASE ReadRequest(t)
  BY <1>13 DEF ReadRequest, TypeOK
<1>14. CASE CheckRequest(t)
  BY <1>14 DEF CheckRequest, TypeOK, Leave, NextRound
<1>15. CASE WriteHeader(t)
  BY <1>15 DEF WriteHeader, TypeOK
<1>16. CASE WriteImage(t)
  BY <1>16 DEF WriteImage, TypeOK, Leave, NextRound
<1>17. CASE ConnectionFails(t)
  BY <1>17 DEF ConnectionFails, TypeOK, Leave
<1>18. CASE FinishList(t)
  BY <1>18 DEF FinishList, TypeOK
<1>19. CASE PostSendOk(t)
  BY <1>19 DEF PostSendOk, TypeOK, Leave
<1>20. CASE AskImage(t)
  BY <1>20 DEF AskImage, TypeOK
<1>21. CASE GetImage(t)
  BY <1>21 DEF GetImage, TypeOK
<1> QED BY <1>1, <1>2, <1>3, <1>4, <1>5, <1>6, <1>7, <1>8, <1>9, <1>10, <1>11, <1>12, <1>13, <1>14, <1>15, <1>16, <1>17, <1>18, <1>19, <1>20, <1>21 DEF ThreadStep

LEMMA StartThreadStep ==
  ASSUME TypeOK, StartGuard, NEW t \in Threads, ThreadStep(t)
  PROVE  StartGuard'
<1>1. Running(t) /\ ~enabled["START"] /\ ~enabled'["START"]
  BY StepOfRunning, ThreadKeepsStart DEF StartGuard, Idle
<1>2. /\ \A i \in 1 .. Len(posted) : ~Report(i)
      /\ \A u \in Threads : ended[u] # "failed" /\ (u # t => ~Running(u))
  BY <1>1 DEF StartGuard, Idle
<1>3. \A u \in Threads : u # t => ~Running(u)' /\ ended'[u] # "failed"
  BY <1>2, OtherThreads DEF Running
<1>p. posted \in Seq(Messages)
  BY DEF TypeOK
<1>4. CASE posted' = posted /\ (pc'[t] # "idle" => ended'[t] = ended[t])
  BY <1>1, <1>2, <1>3, <1>4 DEF StartGuard, Report, Running
<1>5. ASSUME NEW n \in Int, posted' = Append(posted, <<"stop", n>>),
             pc'[t] # "idle", ended'[t] = ended[t]
      PROVE  StartGuard'
  <2>1. \A i \in 1 .. Len(posted') : ~(posted'[i][1] = "sent")
    BY <1>2, <1>5, <1>p DEF Report
  <2> QED BY <1>1, <1>2, <1>3, <1>5, <2>1 DEF StartGuard, Report, Running
<1>6. ASSUME NEW b \in BOOLEAN, posted' = Append(posted, <<"sent", b>>),
             pc'[t] = "idle", ended'[t] = "done"
      PROVE  StartGuard'
  <2>1. \A i \in 1 .. Len(posted') : posted'[i][1] = "sent" => i = Len(posted')
    BY <1>2, <1>6, <1>p DEF Report
  <2>2. Idle'
    BY <1>3, <1>6 DEF Idle, Running
  <2> QED BY <1>1, <2>1, <2>2 DEF StartGuard, Report, Idle
<1> QED BY <1>4, <1>5, <1>6, StepPosts

LEMMA StartHandlePosted ==
  ASSUME TypeOK, StartGuard, HandlePosted
  PROVE  StartGuard'
<1>1. /\ posted # <<>> /\ posted' = Tail(posted) /\ UNCHANGED threadVars
      /\ posted \in Seq(Messages) /\ enabled \in [Buttons -> BOOLEAN]
  BY DEF HandlePosted, TypeOK, LoadTypeOK
<1>2. /\ Len(posted') = Len(posted) - 1 /\ Len(posted) \in Nat /\ Len(posted) >= 1
      /\ \A i \in 1 .. Len(posted') : posted'[i] = posted[i + 1]
      /\ Head(posted) = posted[1]
  BY <1>1
<1>3. Idle' <=> Idle
  BY <1>1 DEF Idle, Running, threadVars, localVars
<1>4. \A t, u \in Threads : Running(t)' => ended'[u] # "failed" /\ (Running(u)' => t = u)
  BY <1>1 DEF StartGuard, Running, threadVars, localVars
<1>5. CASE Head(posted)[1] = "sent"
  <2>1. Idle /\ \A i \in 2 .. Len(posted) : ~Report(i)
    BY <1>2, <1>5 DEF StartGuard, Report
  <2>2. \A i \in 1 .. Len(posted') : ~(posted'[i][1] = "sent")
    BY <1>2, <2>1 DEF Report
  <2> QED BY <1>3, <1>4, <2>1, <2>2 DEF StartGuard, Report
<1>6. CASE Head(posted)[1] # "sent"
  <2>1. enabled'["START"] = enabled["START"]
    BY <1>1, <1>6 DEF HandlePosted, Buttons
  <2>2. \A i \in 1 .. Len(posted') : posted'[i][1] = "sent" => Report(i + 1) /\ i + 1 \in 1 .. Len(posted)
    BY <1>2 DEF Report
  <2>3. \A i \in 1 .. Len(posted') : Report(i)' => Idle' /\ ~enabled'["START"]
    BY <1>3, <2>1, <2>2 DEF StartGuard, Report
  <2>4. \A i, j \in 1 .. Len(posted') : Report(i)' /\ Report(j)' => i = j
    <3> SUFFICES ASSUME NEW i \in 1 .. Len(posted'), NEW j \in 1 .. Len(posted'),
                        Report(i)', Report(j)'
                 PROVE  i = j
      OBVIOUS
    <3>1. i + 1 = j + 1
      BY <2>2 DEF StartGuard, Report
    <3> QED BY <1>2, <3>1
  <2> QED BY <1>3, <1>4, <2>1, <2>3, <2>4 DEF StartGuard
<1> QED BY <1>5, <1>6

(* With one thread running, nobody else replaces the socket or overwrites  *)
(* the buffer between its read and its reply.                              *)
LEMMA RequestThreadStep ==
  ASSUME TypeOK, StartGuard, RequestGuard, NEW t \in Threads, ThreadStep(t)
  PROVE  RequestGuard'
<1>1. \A u \in Threads : u # t => pc'[u] = "idle"
  BY StepOfRunning, OtherThreads DEF StartGuard, Running
<1>t. /\ pc \in [Threads -> Labels] /\ asked \in [Threads -> Signals \cup {NoRequest}]
      /\ readOn \in [Threads -> Conns \cup {NoConn}]
  BY DEF TypeOK
<1>2. /\ pc'[t] = "check" => buffer' = asked'[t]
      /\ pc'[t] \in {"read", "check", "header", "image"} => socket' = readOn'[t]
  <2>0. /\ pc[t] = "check" => buffer = asked[t]
        /\ pc[t] \in {"read", "check", "header", "image"} => socket = readOn[t]
    BY DEF RequestGuard
  <2> USE DEF Goto, localVars, threadVars, netVars
  <2>1. CASE EnterThread(t)
    BY <2>1, <2>0, <1>t DEF EnterThread
  <2>2. CASE TestModeAgain(t)
    BY <2>2, <2>0, <1>t DEF TestModeAgain, Leave
  <2>3. CASE NewSocket(t)
    BY <2>3, <2>0, <1>t DEF NewSocket
  <2>4. CASE Connect(t)
    BY <2>4, <2>0, <1>t DEF Connect
  <2>5. CASE Setup(t)
    BY <2>5, <2>0, <1>t DEF Setup
  <2>6. CASE BatchLoad(t)
    BY <2>6, <2>0, <1>t DEF BatchLoad, Advance
  <2>7. CASE NoBatchLoad(t)
    BY <2>7, <2>0, <1>t DEF NoBatchLoad
  <2>8. CASE TestSingleLoad(t)
    BY <2>8, <2>0, <1>t DEF TestSingleLoad
  <2>9. CASE SingleLoad(t)
    BY <2>9, <2>0, <1>t DEF SingleLoad, Advance
  <2>10. CASE TestLastLoad(t)
    BY <2>10, <2>0, <1>t DEF TestLastLoad
  <2>11. CASE LastLoad(t)
    BY <2>11, <2>0, <1>t DEF LastLoad
  <2>12. CASE LoadImage(t)
    BY <2>12, <2>0, <1>t DEF LoadImage
  <2>13. CASE ReadRequest(t)
    BY <2>13, <2>0, <1>t DEF ReadRequest
  <2>14. CASE CheckRequest(t)
    BY <2>14, <2>0, <1>t DEF CheckRequest, Leave, NextRound
  <2>15. CASE WriteHeader(t)
    BY <2>15, <2>0, <1>t DEF WriteHeader
  <2>16. CASE WriteImage(t)
    BY <2>16, <2>0, <1>t DEF WriteImage, Leave, NextRound
  <2>17. CASE ConnectionFails(t)
    BY <2>17, <2>0, <1>t DEF ConnectionFails, Leave
  <2>18. CASE FinishList(t)
    BY <2>18, <2>0, <1>t DEF FinishList
  <2>19. CASE PostSendOk(t)
    BY <2>19, <2>0, <1>t DEF PostSendOk, Leave
  <2>20. CASE AskImage(t)
    BY <2>20, <2>0, <1>t DEF AskImage
  <2>21. CASE GetImage(t)
    BY <2>21, <2>0, <1>t DEF GetImage
  <2> QED BY <2>1, <2>2, <2>3, <2>4, <2>5, <2>6, <2>7, <2>8, <2>9, <2>10, <2>11, <2>12, <2>13, <2>14, <2>15, <2>16, <2>17, <2>18, <2>19, <2>20, <2>21 DEF ThreadStep
<1> QED BY <1>1, <1>2 DEF RequestGuard

LEMMA StartStep == TypeOK /\ StartInv /\ [Next]_vars => StartInv'
<1> SUFFICES ASSUME TypeOK, StartInv, [Next]_vars, ~reenabled'
             PROVE  StartGuard' /\ RequestGuard'
  BY DEF StartInv
<1>1. CASE DialogStep
  <2>1. StartGuard /\ RequestGuard /\ enabled'["START"] = enabled["START"]
    BY <1>1, ClicksKeepStart DEF StartInv, DialogStep
  <2> QED BY <1>1, <2>1 DEF DialogStep, StartGuard, RequestGuard, Idle, Running, Report,
       threadVars, localVars, netVars
<1>2. CASE FilelistPath \/ UNCHANGED vars
  BY <1>2 DEF FilelistPath, vars, StartInv, StartGuard, RequestGuard, Idle, Running, Report,
    dialogVars, threadVars, localVars, netVars
<1>3. CASE HandlePosted
  <2>1. StartGuard /\ RequestGuard
    BY <1>3 DEF StartInv, HandlePosted
  <2>2. RequestGuard'
    BY <1>3, <2>1 DEF HandlePosted, RequestGuard, threadVars, localVars, netVars
  <2> QED BY <1>3, <2>1, <2>2, StartHandlePosted
<1>4. ASSUME NEW t \in Threads, StartNetserver(t)
      PROVE  StartGuard' /\ RequestGuard'
  <2>1. /\ StartGuard /\ RequestGuard /\ Idle /\ ~enabled'["START"]
        /\ \A i \in 1 .. Len(posted) : ~Report(i)
    BY <1>4 DEF StartInv, StartNetserver, StartGuard, TypeOK, LoadTypeOK, Buttons
  <2>2. \A u \in Threads : ended'[u] # "failed" /\ pc'[u] \in {"idle", "enter"}
    BY <1>4, <2>1 DEF StartNetserver, Goto, Idle, Running, TypeOK
  <2>3. \A u \in Threads : pc'[u] # "idle" => u = t
    BY <1>4, <2>1, OtherThreads DEF Idle, Running
  <2> QED BY <1>4, <2>1, <2>2, <2>3
      DEF StartNetserver, StartGuard, RequestGuard, Running, Report, netVars
<1>5. ASSUME NEW t \in Threads, ThreadStep(t)
      PROVE  StartGuard' /\ RequestGuard'
  BY <1>5, ThreadKeepsStart, StartThreadStep, RequestThreadStep DEF StartInv
<1>6. ASSUME NEW c \in Conns, BoxRequest(c) \/ LoseConnection(c)
      PROVE  StartGuard' /\ RequestGuard'
  BY <1>6 DEF BoxRequest, LoseConnection, StartInv, StartGuard, RequestGuard, Idle, Running,
    Report, dialogVars, threadVars, localVars, netVars
<1> QED BY <1>1, <1>2, <1>3, <1>4, <1>5, <1>6 DEF Next

LEMMA StartCorrect == Spec => []StartInv
<1>1. Init => StartInv
  BY DEF Init, LoadInit, StartInv, StartGuard, RequestGuard, Idle, Running, Report
<1> QED BY <1>1, StartStep, TypeCorrect, PTL DEF Spec

(* Without a mode click on a disabled START, no two threads ever run.      *)
THEOREM AtMostOneThread == Spec => []OneThread
<1>1. StartInv => OneThread
  BY DEF StartInv, StartGuard, OneThread
<1> QED BY <1>1, StartCorrect, PTL

(* ... an enabled START means that nothing runs and nothing broke off ...  *)
THEOREM StartIsEarned == Spec => []StartMeansCompleted
<1>1. StartInv => StartMeansCompleted
  BY DEF StartInv, StartGuard, StartMeansCompleted, Idle
<1> QED BY <1>1, StartCorrect, PTL

(* ... and the shared buffer and socket serve a request undisturbed.       *)
THEOREM RequestsAreIntact == Spec => []RequestIntact
<1>1. StartInv => RequestIntact
  BY DEF StartInv, RequestGuard, RequestIntact
<1> QED BY <1>1, StartCorrect, PTL

-----------------------------------------------------------------------------
(* The flags and the check boxes: a thread clears a flag, a handler        *)
(* assigns several, and neither waits for the other.                       *)
LEMMA FlagsThreadStep ==
  ASSUME TypeOK, FlagsInv, NEW t \in Threads, ThreadStep(t)
  PROVE  FlagsInv'
<1>1. CASE SingleLoad(t) \/ LastLoad(t)
  <2>1. /\ writes' = writes /\ batchChecked' = batchChecked
        /\ \E f \in {"single", "last"} : load' = [load EXCEPT ![f] = FALSE]
    BY <1>1 DEF SingleLoad, LastLoad
  <2> QED BY <2>1, TakenFlag DEF TypeOK
<1>2. CASE ~SingleLoad(t) /\ ~LastLoad(t)
  <2>1. load' = load /\ writes' = writes /\ batchChecked' = batchChecked
    BY <1>2 DEF ThreadStep, EnterThread, TestModeAgain, NewSocket, Connect, Setup, BatchLoad,
      NoBatchLoad, TestSingleLoad, TestLastLoad, LoadImage, ReadRequest, CheckRequest,
      WriteHeader, WriteImage, ConnectionFails, FinishList, PostSendOk, AskImage, GetImage,
      dialogVars
  <2> QED BY <2>1 DEF FlagsInv, WillBe, Pends
<1> QED BY <1>1, <1>2

LEMMA FlagsStep == TypeOK /\ FlagsInv /\ [Next]_vars => FlagsInv'
<1> SUFFICES ASSUME TypeOK, FlagsInv, [Next]_vars PROVE FlagsInv'
  OBVIOUS
<1>1. CASE DialogStep
  BY <1>1, LoadNextFlags DEF DialogStep, TypeOK
<1>2. ASSUME NEW t \in Threads, ThreadStep(t)
      PROVE  FlagsInv'
  BY <1>2, FlagsThreadStep
<1>3. ASSUME \/ FilelistPath \/ HandlePosted \/ UNCHANGED vars
             \/ \E t \in Threads : StartNetserver(t)
             \/ \E c \in Conns : BoxRequest(c) \/ LoseConnection(c)
      PROVE  FlagsInv'
  <2>1. load' = load /\ writes' = writes /\ batchChecked' = batchChecked
    BY <1>3 DEF FilelistPath, HandlePosted, StartNetserver, BoxRequest, LoseConnection, vars,
      dialogVars
  <2> QED BY <2>1 DEF FlagsInv, WillBe, Pends
<1> QED BY <1>1, <1>2, <1>3 DEF Next

(* Between two clicks the flags agree with the check boxes, and a pending  *)
(* NEXT excludes a batch and a pending PREVIOUS, however the assignments   *)
(* of the handlers and of any number of threads were interleaved.          *)
THEOREM FlagsMatch == Spec => []FlagsMatchCheckBoxes
<1>1. Init => FlagsInv
  BY InitFlags DEF Init
<1>2. TypeOK /\ FlagsInv => FlagsMatchCheckBoxes
  BY FlagsNow DEF FlagsMatchCheckBoxes, TypeOK
<1> QED BY <1>1, <1>2, TypeCorrect, FlagsStep, PTL DEF Spec

-----------------------------------------------------------------------------
(* ImageSender implements SendingRun, for any threads, sockets and bounds. *)

Walking == BetweenImages \cup WithinImage

(* What a thread that does not walk has left of an earlier run: nothing.   *)
FreshOf(t) ==
  pc[t] \notin Walking =>
    file_countr[t] = -1 /\ file_total[t] = 0 /\ sent[t] = {} /\ refused[t] = {}

Fresh == \A t \in Threads : FreshOf(t)

LEMMA FreshLeave ==
  ASSUME TypeOK, NEW t \in Threads, NEW how, Leave(t, how)
  PROVE  FreshOf(t)'
BY DEF TypeOK, Leave, FreshOf

(* A step of the thread either leaves its walk for good or keeps it. *)
LEMMA FreshSelf ==
  ASSUME TypeOK, Fresh, NEW t \in Threads, ThreadStep(t) \/ StartNetserver(t)
  PROVE  FreshOf(t)'
<1>0. FreshOf(t) /\ pc \in [Threads -> Labels]
  BY DEF Fresh, TypeOK
<1> USE DEF localVars, threadVars, Goto, FreshOf, Walking, BetweenImages, WithinImage
<1>1. CASE Leave(t, "failed") \/ Leave(t, "done")
  BY <1>1, FreshLeave
<1>2. CASE ~Leave(t, "failed") /\ ~Leave(t, "done")
  <2>1. CASE \/ EnterThread(t) \/ TestModeAgain(t) \/ NewSocket(t) \/ Connect(t)
             \/ StartNetserver(t) \/ AskImage(t) \/ GetImage(t)
    <3>1. CASE EnterThread(t)
      BY <1>0, <1>2, <3>1 DEF EnterThread, TypeOK
    <3>2. CASE TestModeAgain(t)
      BY <1>0, <1>2, <3>2 DEF TestModeAgain, TypeOK
    <3>3. CASE NewSocket(t)
      BY <1>0, <1>2, <3>3 DEF NewSocket, TypeOK
    <3>4. CASE Connect(t)
      BY <1>0, <1>2, <3>4 DEF Connect, TypeOK
    <3>5. CASE StartNetserver(t)
      BY <1>0, <1>2, <3>5 DEF StartNetserver, Running, TypeOK
    <3>6. CASE AskImage(t)
      BY <1>0, <1>2, <3>6 DEF AskImage, TypeOK
    <3>7. CASE GetImage(t)
      BY <1>0, <1>2, <3>7 DEF GetImage, TypeOK
    <3> QED BY <2>1, <3>1, <3>2, <3>3, <3>4, <3>5, <3>6, <3>7
  <2>2. CASE \/ Setup(t) \/ BatchLoad(t) \/ NoBatchLoad(t) \/ TestSingleLoad(t)
             \/ SingleLoad(t) \/ TestLastLoad(t) \/ LastLoad(t) \/ LoadImage(t)
    BY <1>0, <1>2, <2>2 DEF Setup, BatchLoad, NoBatchLoad, TestSingleLoad, SingleLoad,
      TestLastLoad, LastLoad, LoadImage, Advance
  <2>3. CASE ReadRequest(t) \/ CheckRequest(t) \/ WriteHeader(t) \/ WriteImage(t) \/ FinishList(t)
    BY <1>0, <1>2, <2>3 DEF ReadRequest, CheckRequest, WriteHeader, WriteImage, FinishList,
      NextRound
  <2>4. CASE ConnectionFails(t) \/ PostSendOk(t)
    BY <1>2, <2>4 DEF ConnectionFails, PostSendOk
  <2> QED BY <2>1, <2>2, <2>3, <2>4 DEF ThreadStep
<1> QED BY <1>1, <1>2

LEMMA FreshStep == TypeOK /\ Fresh /\ [Next]_vars => Fresh'
<1> SUFFICES ASSUME TypeOK, Fresh, [Next]_vars, NEW u \in Threads
             PROVE  FreshOf(u)'
  BY DEF Fresh
<1>0. FreshOf(u)
  BY DEF Fresh
<1>1. CASE DialogStep \/ HandlePosted \/ FilelistPath \/ UNCHANGED vars
  BY <1>0, <1>1 DEF DialogStep, HandlePosted, FilelistPath, vars, threadVars, localVars, FreshOf
<1>2. ASSUME NEW c \in Conns, BoxRequest(c) \/ LoseConnection(c)
      PROVE  FreshOf(u)'
  BY <1>0, <1>2 DEF BoxRequest, LoseConnection, threadVars, localVars, FreshOf
<1>3. ASSUME NEW t \in Threads, StartNetserver(t) \/ ThreadStep(t)
      PROVE  FreshOf(u)'
  BY <1>0, <1>3, FreshSelf, OtherThreads DEF FreshOf
<1> QED BY <1>1, <1>2, <1>3 DEF Next

-----------------------------------------------------------------------------
(* What a step of one thread may look like on the abstract side.           *)
Stays(t) ==
  /\ Phase(t)' = Phase(t) /\ file_total'[t] = file_total[t]
  /\ file_countr'[t] = file_countr[t] /\ Left(t)' = Left(t) /\ ended'[t] = ended[t]

Moves(t) ==
  /\ Phase(t) = "walking" /\ Phase(t)' = "walking"
  /\ file_countr[t] \notin Left(t)
  /\ \/ file_countr[t] + 1 < file_total[t] /\ file_countr'[t] = file_countr[t] + 1
     \/ file_countr[t] >= 1 /\ file_countr'[t] = file_countr[t] - 1
  /\ file_total'[t] = file_total[t] /\ Left(t)' = Left(t) /\ ended'[t] = ended[t]

Deals(t) ==
  /\ Phase(t) = "walking" /\ Phase(t)' = "walking"
  /\ Left(t)' = Left(t) \ {file_countr[t]}
  /\ file_total'[t] = file_total[t] /\ file_countr'[t] = file_countr[t]
  /\ ended'[t] = ended[t]

Begins(t) ==
  /\ Phase(t) = "idle" /\ Phase(t)' = "connecting" /\ ended'[t] = "none"
  /\ file_total'[t] = file_total[t] /\ file_countr'[t] = file_countr[t]
  /\ Left(t)' = Left(t)

TakesList(t) ==
  /\ Phase(t) = "connecting" /\ Phase(t)' = "walking"
  /\ file_total'[t] \in Nat /\ Left(t)' = 0 .. file_total'[t] - 1
  /\ file_countr'[t] = file_countr[t] /\ ended'[t] = ended[t]

Finishes(t, how) ==
  /\ Phase(t)' = "idle" /\ file_total'[t] = 0 /\ file_countr'[t] = -1
  /\ Left(t)' = {} /\ ended'[t] = how

Shape(t) ==
  \/ Stays(t) \/ Moves(t) \/ Deals(t) \/ Begins(t) \/ TakesList(t)
  \/ Phase(t) = "walking" /\ Left(t) = {} /\ Finishes(t, "done")
  \/ Phase(t) # "idle" /\ Finishes(t, "failed")

LEMMA LeaveFinishes ==
  ASSUME TypeOK, NEW t \in Threads, NEW how, Leave(t, how)
  PROVE  Finishes(t, how)
BY DEF TypeOK, Leave, Finishes, Phase, Left

(* Every step of tcp_connect_thread2 has one of these shapes: it goes on   *)
(* from an image that is dealt with, and ends with none left.              *)
LEMMA ThreadShape ==
  ASSUME TypeOK, WalkInv, Fresh, NEW t \in Threads, ThreadStep(t)
  PROVE  Shape(t)
<1>0. /\ WalkOf(t) /\ FreshOf(t) /\ pc \in [Threads -> Labels]
      /\ file_countr \in [Threads -> Int] /\ file_total \in [Threads -> Nat]
      /\ sent \in [Threads -> SUBSET Int] /\ refused \in [Threads -> SUBSET Int]
      /\ files \in Nat
  BY DEF WalkInv, Fresh, TypeOK
<1> USE DEF localVars, threadVars, Goto
<1>1. CASE Leave(t, "failed") /\ Running(t)
  BY <1>1, LeaveFinishes DEF Shape, Phase, Running
<1>2. CASE \/ EnterThread(t) \/ TestModeAgain(t) \/ NewSocket(t) \/ Connect(t)
           \/ AskImage(t) \/ GetImage(t)
  <2>1. CASE TestModeAgain(t) /\ ~clientSend
    BY <1>1, <2>1 DEF TestModeAgain, Running
  <2>2. CASE ~(TestModeAgain(t) /\ ~clientSend)
    <3>1. Stays(t)
      BY <1>0, <1>2, <2>2 DEF EnterThread, TestModeAgain, NewSocket, Connect, AskImage,
        GetImage, Stays, Phase, Left
    <3> QED BY <3>1 DEF Shape
  <2> QED BY <2>1, <2>2
<1>3. CASE Setup(t)
  <2>1. Phase(t) = "connecting" /\ Phase(t)' = "walking" /\ ended'[t] = ended[t]
    BY <1>0, <1>3 DEF Setup, Phase
  <2>2. /\ file_total'[t] \in Nat /\ file_countr'[t] = -1 /\ file_countr[t] = -1
        /\ sent'[t] = {} /\ refused'[t] = {}
    BY <1>0, <1>3 DEF Setup, FreshOf, Walking, BetweenImages, WithinImage
  <2> QED BY <2>1, <2>2 DEF Shape, TakesList, Left
<1>4. CASE \/ NoBatchLoad(t) \/ TestSingleLoad(t) \/ TestLastLoad(t) \/ LoadImage(t)
           \/ ReadRequest(t) \/ WriteHeader(t) \/ FinishList(t)
  <2>1. Stays(t)
    BY <1>0, <1>4 DEF NoBatchLoad, TestSingleLoad, TestLastLoad, LoadImage, ReadRequest,
      WriteHeader, FinishList, Stays, Phase, Left
  <2> QED BY <2>1 DEF Shape
<1>5. CASE BatchLoad(t) \/ SingleLoad(t)
  <2>1. Phase(t) = "walking" /\ Phase(t)' = "walking" /\ ended'[t] = ended[t]
    BY <1>0, <1>5 DEF BatchLoad, SingleLoad, Advance, Phase
  <2>2. /\ MoreImages(t) /\ file_countr'[t] = file_countr[t] + 1
        /\ file_total'[t] = file_total[t] /\ Left(t)' = Left(t)
    BY <1>0, <1>5 DEF BatchLoad, SingleLoad, Advance, Left, WalkOf
  <2>3. file_countr[t] \notin Left(t)
    BY <1>0, <1>5 DEF BatchLoad, SingleLoad, Left, WalkOf, BetweenImages, Dealt
  <2>4. Moves(t)
    BY <1>0, <2>1, <2>2, <2>3 DEF Moves, MoreImages
  <2> QED BY <2>4 DEF Shape
<1>6. CASE LastLoad(t)
  <2>1. Phase(t) = "walking" /\ Phase(t)' = "walking" /\ ended'[t] = ended[t]
    BY <1>0, <1>6 DEF LastLoad, Phase
  <2>2. /\ file_total'[t] = file_total[t] /\ Left(t)' = Left(t)
        /\ file_countr'[t] = IF file_countr[t] >= 1 THEN file_countr[t] - 1 ELSE file_countr[t]
    BY <1>0, <1>6 DEF LastLoad, Left
  <2>3. file_countr[t] \notin Left(t)
    BY <1>0, <1>6 DEF LastLoad, Left, WalkOf, BetweenImages, Dealt
  <2>4. Moves(t) \/ Stays(t)
    BY <1>0, <2>1, <2>2, <2>3 DEF Moves, Stays
  <2> QED BY <2>4 DEF Shape
<1>7. CASE (CheckRequest(t) \/ WriteImage(t)) /\ ~Leave(t, "failed")
  <2>1. Phase(t) = "walking" /\ Phase(t)' = "walking"
    BY <1>0, <1>7 DEF CheckRequest, WriteImage, NextRound, Phase
  <2>2. /\ file_total'[t] = file_total[t] /\ file_countr'[t] = file_countr[t]
        /\ ended'[t] = ended[t]
    BY <1>0, <1>7 DEF CheckRequest, WriteImage, NextRound
  <2>3. \/ sent'[t] = sent[t] /\ refused'[t] = refused[t]
        \/ sent'[t] = sent[t] \cup {file_countr[t]} /\ refused'[t] = refused[t]
        \/ sent'[t] = sent[t] /\ refused'[t] = refused[t] \cup {file_countr[t]}
    BY <1>0, <1>7 DEF CheckRequest, WriteImage, NextRound
  <2>4. Left(t)' = Left(t) \/ Left(t)' = Left(t) \ {file_countr[t]}
    BY <2>2, <2>3 DEF Left
  <2> QED BY <2>1, <2>2, <2>4 DEF Shape, Stays, Deals
<1>8. CASE \/ (CheckRequest(t) \/ WriteImage(t)) /\ Leave(t, "failed")
           \/ ConnectionFails(t)
  BY <1>1, <1>8 DEF CheckRequest, WriteImage, ConnectionFails, Running
<1>9. CASE PostSendOk(t)
  <2>1. Phase(t) = "walking" /\ Leave(t, "done")
    BY <1>9 DEF PostSendOk, Phase
  <2>2. Left(t) = {}
    BY <1>0, <1>9 DEF PostSendOk, WalkOf, BetweenImages, MoreImages, Dealt, Left
  <2> QED BY <2>1, <2>2, LeaveFinishes DEF Shape
<1> QED BY <1>2, <1>3, <1>4, <1>5, <1>6, <1>7, <1>8, <1>9 DEF ThreadStep

LEMMA StartShape ==
  ASSUME TypeOK, NEW t \in Threads, StartNetserver(t)
  PROVE  Begins(t)
BY DEF TypeOK, StartNetserver, Goto, Running, Begins, Phase, Left

-----------------------------------------------------------------------------
(* A shape is a step of the abstract specification. *)
LEMMA ShapeIsStep ==
  ASSUME TypeOK, TypeOK', NEW t \in Threads, ThreadStep(t) \/ StartNetserver(t), Shape(t)
  PROVE  Run!Next \/ UNCHANGED Run!vars
<1>0. \A u \in Threads : u # t => Phase(u)' = Phase(u) /\ Left(u)' = Left(u)
  BY OtherThreads DEF Phase, Left
<1>1. /\ phases' = [phases EXCEPT ![t] = Phase(t)']
      /\ lefts' = [lefts EXCEPT ![t] = Left(t)']
  <2>1. /\ phases' = [u \in Threads |-> Phase(u)']
        /\ lefts' = [u \in Threads |-> Left(u)']
    BY DEF phases, lefts
  <2> QED BY <1>0, <2>1, Zenon DEF phases, lefts
<1>2. /\ file_total' = [file_total EXCEPT ![t] = file_total'[t]]
      /\ file_countr' = [file_countr EXCEPT ![t] = file_countr'[t]]
      /\ ended' = [ended EXCEPT ![t] = ended'[t]]
  BY OtherThreads DEF TypeOK
<1>3. /\ phases[t] = Phase(t) /\ lefts[t] = Left(t)
      /\ file_total \in [Threads -> Nat] /\ file_countr \in [Threads -> Int]
      /\ ended \in [Threads -> {"none", "done", "failed"}]
      /\ phases = [phases EXCEPT ![t] = phases[t]] /\ lefts = [lefts EXCEPT ![t] = lefts[t]]
  BY DEF TypeOK, phases, lefts
<1>k. /\ Phase(t)' = Phase(t) => phases' = phases
      /\ Left(t)' = Left(t) => lefts' = lefts
      /\ file_total'[t] = file_total[t] => file_total' = file_total
      /\ file_countr'[t] = file_countr[t] => file_countr' = file_countr
      /\ ended'[t] = ended[t] => ended' = ended
  <2>1. Phase(t)' = Phase(t) => phases' = phases
    <3> SUFFICES ASSUME Phase(t)' = Phase(t) PROVE phases' = phases
      OBVIOUS
    <3>1. phases' = [phases EXCEPT ![t] = phases[t]]
      BY <1>1, <1>3
    <3> QED BY <3>1, <1>3
  <2>2. Left(t)' = Left(t) => lefts' = lefts
    <3> SUFFICES ASSUME Left(t)' = Left(t) PROVE lefts' = lefts
      OBVIOUS
    <3>1. lefts' = [lefts EXCEPT ![t] = lefts[t]]
      BY <1>1, <1>3
    <3> QED BY <3>1, <1>3
  <2>3. file_total'[t] = file_total[t] => file_total' = file_total
    BY <1>2, <1>3
  <2>4. file_countr'[t] = file_countr[t] => file_countr' = file_countr
    BY <1>2, <1>3
  <2>5. ended'[t] = ended[t] => ended' = ended
    BY <1>2, <1>3
  <2> QED BY <2>1, <2>2, <2>3, <2>4, <2>5
<1>4. CASE Stays(t)
  BY <1>k, <1>4 DEF Stays, Run!vars
<1>5. CASE Moves(t)
  <2>1. UNCHANGED <<phases, file_total, lefts, ended>>
    BY <1>k, <1>5 DEF Moves
  <2>2. phases[t] = "walking" /\ file_countr[t] \notin lefts[t]
    BY <1>3, <1>5 DEF Moves
  <2>3. \/ file_countr[t] + 1 < file_total[t] /\ file_countr' = [file_countr EXCEPT ![t] = @ + 1]
        \/ file_countr[t] >= 1 /\ file_countr' = [file_countr EXCEPT ![t] = @ - 1]
    BY <1>2, <1>5 DEF Moves
  <2>4. Run!Move(t)
    BY <2>1, <2>2, <2>3 DEF Run!Move
  <2> QED BY <2>4 DEF Run!Next
<1>6. CASE Deals(t)
  <2>1. UNCHANGED <<phases, file_total, file_countr, ended>>
    BY <1>k, <1>6 DEF Deals
  <2>2. phases[t] = "walking" /\ lefts' = [lefts EXCEPT ![t] = @ \ {file_countr[t]}]
    BY <1>1, <1>3, <1>6 DEF Deals
  <2>3. Run!Deal(t)
    BY <2>1, <2>2 DEF Run!Deal
  <2> QED BY <2>3 DEF Run!Next
<1>7. CASE Begins(t)
  <2>1. UNCHANGED <<file_total, file_countr, lefts>>
    BY <1>k, <1>7 DEF Begins
  <2>2. /\ phases[t] = "idle" /\ phases' = [phases EXCEPT ![t] = "connecting"]
        /\ ended' = [ended EXCEPT ![t] = "none"]
    BY <1>1, <1>2, <1>3, <1>7 DEF Begins
  <2>3. Run!Begin(t)
    BY <2>1, <2>2 DEF Run!Begin
  <2> QED BY <2>3 DEF Run!Next
<1>8. CASE TakesList(t)
  <2>1. UNCHANGED <<file_countr, ended>>
    BY <1>k, <1>8 DEF TakesList
  <2>2. /\ phases[t] = "connecting" /\ phases' = [phases EXCEPT ![t] = "walking"]
        /\ file_total'[t] \in Nat
        /\ lefts' = [lefts EXCEPT ![t] = 0 .. file_total'[t] - 1]
    BY <1>1, <1>3, <1>8 DEF TakesList
  <2>3. Run!TakeList(t)
    BY <1>2, <2>1, <2>2 DEF Run!TakeList
  <2> QED BY <2>3 DEF Run!Next
<1>9. CASE Phase(t) = "walking" /\ Left(t) = {} /\ Finishes(t, "done")
  <2>1. Run!Report(t)
    BY <1>1, <1>2, <1>3, <1>9 DEF Finishes, Run!Report, Run!Finish
  <2> QED BY <2>1 DEF Run!Next
<1>10. CASE Phase(t) # "idle" /\ Finishes(t, "failed")
  <2>1. Run!BreakOff(t)
    BY <1>1, <1>2, <1>3, <1>10 DEF Finishes, Run!BreakOff, Run!Finish
  <2> QED BY <2>1 DEF Run!Next
<1> QED BY <1>4, <1>5, <1>6, <1>7, <1>8, <1>9, <1>10 DEF Shape

LEMMA StepSimulates ==
  ASSUME TypeOK, TypeOK', WalkInv, Fresh, [Next]_vars
  PROVE  Run!Next \/ UNCHANGED Run!vars
<1>1. CASE DialogStep \/ HandlePosted \/ FilelistPath \/ UNCHANGED vars
  BY <1>1 DEF DialogStep, HandlePosted, FilelistPath, vars, threadVars, localVars,
    Run!vars, phases, lefts, Phase, Left
<1>2. ASSUME NEW c \in Conns, BoxRequest(c) \/ LoseConnection(c)
      PROVE  UNCHANGED Run!vars
  BY <1>2 DEF BoxRequest, LoseConnection, threadVars, localVars, Run!vars, phases, lefts,
    Phase, Left
<1>3. ASSUME NEW t \in Threads, StartNetserver(t)
      PROVE  Run!Next \/ UNCHANGED Run!vars
  BY <1>3, StartShape, ShapeIsStep DEF Shape
<1>4. ASSUME NEW t \in Threads, ThreadStep(t)
      PROVE  Run!Next \/ UNCHANGED Run!vars
  BY <1>4, ThreadShape, ShapeIsStep
<1> QED BY <1>1, <1>2, <1>3, <1>4 DEF Next

(* Whatever the user clicks, the box asks for and other threads do to the  *)
(* members, each thread of tcp_connect_thread2 walks its list one place at *)
(* a time and reports the end with no image left.                          *)
THEOREM SenderWalksItsList == Spec => WalksItsList
<1>1. Init => Run!Init
  BY DEF Init, Run!Init, phases, lefts, Phase, Left
<1>2. Init => Fresh
  BY DEF Init, Fresh, FreshOf
<1>3. TypeOK /\ TypeOK' /\ WalkInv /\ Fresh /\ [Next]_vars => [Run!Next]_(Run!vars)
  BY StepSimulates
<1> QED BY <1>1, <1>2, <1>3, FreshStep, WalkCorrect, PTL DEF Spec, WalksItsList, Run!Spec
=============================================================================

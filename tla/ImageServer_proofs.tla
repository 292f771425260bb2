-------------------------- MODULE ImageServer_proofs --------------------------
(***************************************************************************)
(* Theorems about ImageServer, for any set of clients, any bounds, any     *)
(* clicks and any order of the threads: its type invariant, that each      *)
(* connection has one thread, what a thread that sends has written, and    *)
(* what the files hold while one client is alone.                          *)
(***************************************************************************)
EXTENDS ImageServer, LoadControl_proofs, TLAPS

(* What the type invariant rests on: a thread numbers the image it writes  *)
(* from 1, reads a body only if one was announced, and the accepted socket *)
(* is a client's when its thread is created.                               *)
Writing == {"load", "read", "reply"}

CountsOK ==
  /\ \A c \in Conns : pc[c] \in Writing => file_countr[c] >= 1
  /\ \A c \in Conns : pc[c] = "body" => size[c] >= 1
  /\ spc = "spawn" => accepted \in Conns

TypeInv == TypeOK /\ CountsOK

LEMMA UnitTypes ==
  /\ \A what \in {"request", "header", "pixels"}, c \in Conns, n \in Nat :
       Unit(what, c, n) \in Units
  /\ Zeros \in Units /\ NoBuffer \in Units
BY DEF Unit, Units, Zeros, NoBuffer

LEMMA InitType == Init => TypeInv
<1> SUFFICES ASSUME Init PROVE TypeInv
  OBVIOUS
<1>1. LoadTypeOK
  <2>1. load \in [Flags -> BOOLEAN] /\ enabled \in [Buttons -> BOOLEAN]
    BY DEF Init, LoadInit
  <2>2. writes \in Seq(Flags \X BOOLEAN)
    BY DEF Init, LoadInit
  <2> QED BY <2>1, <2>2 DEF Init, LoadInit, LoadTypeOK
<1>2. stream \in [Conns -> Seq(Units)] /\ written \in [Conns -> Seq(Nat)]
  BY DEF Init
<1>3. buffer \in Units
  BY UnitTypes DEF Init
<1>4. toWrite \in [Conns -> BOOLEAN]
  BY DEF Init
<1>5. DOMAIN saved \subseteq Nat /\ \A n \in DOMAIN saved : saved[n] \in Units
  BY DEF Init
<1>6. TypeOK
  <2>1. pc \in [Conns -> Labels] /\ link \in [Conns -> {"none", "queued", "reset", "up", "lost"}]
    BY DEF Init, Labels
  <2>2. /\ images \in [Conns -> Nat] /\ size \in [Conns -> Nat]
        /\ file_countr \in [Conns -> Nat] /\ file_total \in [Conns -> Nat]
    BY DEF Init
  <2>3. files \in Nat /\ counter \in Nat
    BY DEF Init
  <2>4. down \in BOOLEAN
    BY DEF Init
  <2>5. /\ spc \in {"idle", "listen", "wait", "spawn"} /\ accepted \in Conns \cup {NoConn}
        /\ kind \in [Conns -> {"sends", "receives"}]
    BY DEF Init
  <2> QED BY <1>1, <1>2, <1>3, <1>4, <1>5, <2>1, <2>2, <2>3, <2>4, <2>5 DEF TypeOK
<1>7. CountsOK
  BY DEF Init, CountsOK, Writing
<1> QED BY <1>6, <1>7 DEF TypeInv

(* The first unit of a stream, and what is left of it. *)
LEMMA StreamParts ==
  ASSUME TypeOK, NEW c \in Conns, stream[c] # <<>>
  PROVE  /\ Head(stream[c]) \in Units
         /\ Tail(stream[c]) \in Seq(Units)
<1>1. stream[c] \in Seq(Units)
  BY DEF TypeOK
<1> QED BY <1>1

LEMMA ServerType ==
  ASSUME TypeInv, ServerStep
  PROVE  TypeInv'
<1> USE DEF dialogVars, clientVars, threadVars, memberVars, acceptVars, LoadTypeOK, TypeInv
<1>1. CASE Listen
  BY <1>1 DEF Listen, TypeOK, CountsOK
<1>2. CASE Accept
  BY <1>2 DEF Accept, TypeOK, CountsOK
<1>3. CASE Spawn
  BY <1>3 DEF Spawn, TypeOK, CountsOK, Labels, Writing
<1> QED BY <1>1, <1>2, <1>3 DEF ServerStep

LEMMA ClientType ==
  ASSUME TypeInv, NEW c \in Conns,
         Connects(c) \/ ClientAsks(c) \/ ClientSends(c) \/ LoseConnection(c)
  PROVE  TypeInv'
<1> USE DEF dialogVars, clientVars, threadVars, memberVars, acceptVars, LoadTypeOK, TypeInv
<1>1. CASE Connects(c) \/ LoseConnection(c)
  BY <1>1 DEF Connects, LoseConnection, TypeOK, CountsOK
<1>2. ASSUME NEW units \in Seq(Units), ClientWrites(c, units), images' \in [Conns -> Nat]
      PROVE  TypeInv'
  <2>1. stream' \in [Conns -> Seq(Units)]
    <3>1. stream[c] \in Seq(Units)
      BY DEF TypeOK
    <3>2. stream[c] \o units \in Seq(Units)
      BY <3>1
    <3> QED BY <1>2, <3>2 DEF ClientWrites, TypeOK
  <2>2. toWrite' \in [Conns -> BOOLEAN]
    BY <1>2 DEF ClientWrites, TypeOK
  <2> QED BY <1>2, <2>1, <2>2 DEF ClientWrites, TypeOK, CountsOK
<1>3. CASE ClientAsks(c)
  <2>1. <<Unit("request", c, 0)>> \in Seq(Units)
    BY UnitTypes
  <2> QED BY <1>2, <1>3, <2>1 DEF ClientAsks, TypeOK
<1>4. CASE ClientSends(c)
  <2>1. images[c] \in Nat
    BY DEF TypeOK
  <2>2. Unit("header", c, images[c]) \in Units /\ Unit("pixels", c, images[c]) \in Units
    BY <2>1, UnitTypes
  <2>3. <<Unit("header", c, images[c]), Unit("pixels", c, images[c])>> \in Seq(Units)
    BY <2>2, TwoWrites
  <2>4. images' \in [Conns -> Nat]
    BY <1>4, <2>1 DEF ClientSends, TypeOK
  <2> QED BY <1>2, <1>4, <2>3, <2>4 DEF ClientSends
<1> QED BY <1>1, <1>3, <1>4

(* The next image's number is at least 1. *)
LEMMA NextImageType ==
  ASSUME TypeOK, NEW c \in Conns, NextImage(c)
  PROVE  /\ pc' \in [Conns -> Labels] /\ file_countr' \in [Conns -> Nat]
         /\ pc'[c] = "load" /\ file_countr'[c] >= 1
         /\ \A d \in Conns \ {c} : pc'[d] = pc[d] /\ file_countr'[d] = file_countr[d]
BY DEF TypeOK, NextImage, Goto, Labels

LEMMA WorkerType ==
  ASSUME TypeInv, NEW c \in Conns, WorkerStep(c)
  PROVE  TypeInv'
<1> USE DEF dialogVars, clientVars, threadVars, memberVars, acceptVars, LoadTypeOK, TypeInv, Goto
<1>1. CASE WorkerStart(c)
  <2>1. down' \in BOOLEAN
    BY <1>1, Zenon DEF WorkerStart
  <2>2. counter' \in Nat
    BY <1>1 DEF WorkerStart, TypeOK
  <2>3. buffer' \in Units
    BY <1>1, UnitTypes DEF WorkerStart
  <2>4. pc' \in [Conns -> Labels]
    BY <1>1 DEF WorkerStart, TypeOK, Labels
  <2>5. CountsOK'
    BY <1>1 DEF WorkerStart, TypeOK, CountsOK, Writing
  <2> QED BY <1>1, <2>1, <2>2, <2>3, <2>4, <2>5 DEF WorkerStart, TypeOK
<1>2. CASE WorkerFails(c)
  BY <1>2 DEF WorkerFails, TypeOK, CountsOK
<1>3. CASE TakeTotal(c)
  BY <1>3 DEF TakeTotal, TypeOK, CountsOK, Labels, Writing
<1>4. CASE BatchLoad(c)
  <2>1. CASE NextImage(c)
    BY <1>4, <2>1, NextImageType DEF BatchLoad, NextImage, TypeOK, CountsOK, Writing
  <2>2. CASE Goto(c, "single") /\ UNCHANGED file_countr
    BY <1>4, <2>2 DEF BatchLoad, TypeOK, CountsOK, Labels, Writing
  <2> QED BY <1>4, <2>1, <2>2 DEF BatchLoad
<1>5. CASE TestSingleLoad(c)
  BY <1>5 DEF TestSingleLoad, TypeOK, CountsOK, Labels, Writing
<1>6. CASE SingleLoad(c)
  <2>1. load' \in [Flags -> BOOLEAN]
    BY <1>6 DEF SingleLoad, TypeOK, Flags
  <2>2. NextImage(c)
    BY <1>6 DEF SingleLoad
  <2> QED BY <1>6, <2>1, <2>2, NextImageType DEF SingleLoad, TypeOK, CountsOK, Writing
<1>7. CASE LoadImage(c)
  <2>1. down' \in BOOLEAN
    BY <1>7, Zenon DEF LoadImage
  <2> QED BY <1>7, <2>1 DEF LoadImage, TypeOK, CountsOK, Labels, Writing
<1>8. CASE ReadRequest(c)
  <2>1. buffer' \in Units /\ stream' \in [Conns -> Seq(Units)]
    BY <1>8, StreamParts DEF ReadRequest, TypeOK
  <2> QED BY <1>8, <2>1 DEF ReadRequest, TypeOK, CountsOK, Labels, Writing
<1>9. CASE WriteImage(c)
  <2>1. written' \in [Conns -> Seq(Nat)]
    <3>1. file_countr[c] - 1 \in Nat /\ written[c] \in Seq(Nat)
      BY <1>9 DEF WriteImage, TypeOK, CountsOK, Writing
    <3>2. Append(written[c], file_countr[c] - 1) \in Seq(Nat)
      BY <3>1
    <3> QED BY <1>9, <3>2 DEF WriteImage, TypeOK
  <2>2. toWrite' \in [Conns -> BOOLEAN]
    BY <1>9 DEF WriteImage, TypeOK
  <2> QED BY <1>9, <2>1, <2>2 DEF WriteImage, TypeOK, CountsOK, Labels, Writing
<1>10. CASE EndOfList(c)
  BY <1>10 DEF EndOfList, TypeOK, CountsOK, Labels, Writing
<1>11. CASE AskImage(c)
  <2>1. toWrite' \in [Conns -> BOOLEAN]
    BY <1>11 DEF AskImage, TypeOK
  <2> QED BY <1>11, <2>1 DEF AskImage, TypeOK, CountsOK, Labels, Writing
<1>12. CASE ReadHeader(c)
  <2>1. buffer' \in Units /\ stream' \in [Conns -> Seq(Units)]
    BY <1>12, StreamParts DEF ReadHeader, TypeOK
  <2> QED BY <1>12, <2>1 DEF ReadHeader, TypeOK, CountsOK, Labels, Writing
<1>13. CASE TakeSize(c)
  <2>1. PICK n \in Announced(buffer) :
          /\ size' = [size EXCEPT ![c] = n]
          /\ Goto(c, IF n > 0 THEN "body" ELSE "ask")
    BY <1>13 DEF TakeSize
  <2>2. n \in Nat
    BY SizesAssumption DEF Announced
  <2> QED BY <1>13, <2>1, <2>2 DEF TakeSize, TypeOK, CountsOK, Labels, Writing
<1>14. CASE ReadBody(c)
  <2>1. stream[c] \in Seq(Units) /\ size[c] \in Nat /\ size[c] >= 1
    BY <1>14 DEF ReadBody, TypeOK, CountsOK
  <2>2. Len(stream[c]) >= 1 /\ stream[c] # <<>>
    BY <1>14, <2>1 DEF ReadBody
  <2>3. SubSeq(stream[c], size[c] + 1, Len(stream[c])) \in Seq(Units)
    BY <2>1
  <2>4. buffer' \in Units /\ stream' \in [Conns -> Seq(Units)]
    BY <1>14, <2>2, <2>3, StreamParts DEF ReadBody, TypeOK
  <2> QED BY <1>14, <2>4 DEF ReadBody, TypeOK, CountsOK, Labels, Writing
<1>15. CASE SaveImage(c)
  <2>1. DOMAIN saved' \subseteq Nat /\ \A n \in DOMAIN saved' : saved'[n] \in Units
    BY <1>15 DEF SaveImage, TypeOK
  <2> QED BY <1>15, <2>1 DEF SaveImage, TypeOK, CountsOK, Labels, Writing
<1>16. CASE CountImage(c)
  BY <1>16 DEF CountImage, TypeOK, CountsOK, Labels, Writing
<1> QED BY <1>1, <1>2, <1>3, <1>4, <1>5, <1>6, <1>7, <1>8, <1>9, <1>10, <1>11, <1>12,
           <1>13, <1>14, <1>15, <1>16 DEF WorkerStep

LEMMA TypeStep == TypeInv /\ [Next]_vars => TypeInv'
<1> SUFFICES ASSUME TypeInv, [Next]_vars PROVE TypeInv'
  OBVIOUS
<1> USE DEF dialogVars, clientVars, threadVars, memberVars, acceptVars, TypeInv
<1>1. CASE DialogStep
  BY <1>1, LoadNextType DEF DialogStep, TypeOK, CountsOK
<1>2. CASE StartNetserver
  BY <1>2 DEF StartNetserver, TypeOK, CountsOK, LoadTypeOK
<1>3. CASE FilelistPath
  <2>1. down' \in BOOLEAN
    BY <1>3, Zenon DEF FilelistPath
  <2>2. files' \in Nat
    BY <1>3, SizesAssumption DEF FilelistPath, TypeOK
  <2> QED BY <1>3, <2>1, <2>2 DEF FilelistPath, TypeOK, CountsOK, LoadTypeOK
<1>4. CASE ServerStep
  BY <1>4, ServerType
<1>5. ASSUME NEW c \in Conns,
             WorkerStep(c) \/ Connects(c) \/ ClientAsks(c) \/ ClientSends(c) \/ LoseConnection(c)
      PROVE  TypeInv'
  BY <1>5, WorkerType, ClientType
<1>6. CASE UNCHANGED vars
  BY <1>6 DEF vars, TypeOK, CountsOK, LoadTypeOK
<1> QED BY <1>1, <1>2, <1>3, <1>4, <1>5, <1>6 DEF Next

LEMMA TypeCorrect == Spec => []TypeInv
BY InitType, TypeStep, PTL DEF Spec

(* Whatever the clients write, and whichever thread reads into the one     *)
(* buffer, every variable of the server stays in its domain.               *)
THEOREM ServerTypeCorrect == Spec => []TypeOK
<1>1. TypeInv => TypeOK
  BY DEF TypeInv
<1> QED BY <1>1, TypeCorrect, PTL

-----------------------------------------------------------------------------
(* One thread per connection.  The connection just accepted has none yet.  *)
AcceptedIsNew == spc = "spawn" => pc[accepted] = "none"
OwnInv == TypeInv /\ OneThreadPerConnection /\ AcceptedIsNew

LEMMA OwnStep == OwnInv /\ [Next]_vars => OwnInv'
<1> SUFFICES ASSUME OwnInv, [Next]_vars PROVE OneThreadPerConnection' /\ AcceptedIsNew'
  BY TypeStep DEF OwnInv
<1>0. TypeInv /\ OneThreadPerConnection /\ AcceptedIsNew /\ pc \in [Conns -> Labels]
  BY DEF OwnInv, TypeInv, TypeOK
<1> USE DEF acceptVars, threadVars
<1>1. CASE DialogStep \/ StartNetserver \/ FilelistPath
  BY <1>0, <1>1 DEF DialogStep, StartNetserver, FilelistPath, OneThreadPerConnection, AcceptedIsNew
<1>2. CASE Listen
  BY <1>0, <1>2 DEF Listen, OneThreadPerConnection, AcceptedIsNew
<1>3. CASE Accept
  BY <1>0, <1>3 DEF Accept, OneThreadPerConnection, AcceptedIsNew, TypeInv, TypeOK
<1>4. CASE Spawn
  BY <1>0, <1>4 DEF Spawn, OneThreadPerConnection, AcceptedIsNew, TypeInv, TypeOK, CountsOK
<1>5. ASSUME NEW c \in Conns, Connects(c) \/ LoseConnection(c)
      PROVE  OneThreadPerConnection' /\ AcceptedIsNew'
  BY <1>0, <1>5 DEF Connects, LoseConnection, OneThreadPerConnection, AcceptedIsNew, TypeInv, TypeOK
<1>6. ASSUME NEW c \in Conns, ClientAsks(c) \/ ClientSends(c)
      PROVE  OneThreadPerConnection' /\ AcceptedIsNew'
  BY <1>0, <1>6 DEF ClientAsks, ClientSends, ClientWrites, OneThreadPerConnection, AcceptedIsNew
<1>7. ASSUME NEW c \in Conns, WorkerStep(c)
      PROVE  OneThreadPerConnection' /\ AcceptedIsNew'
  <2>1. link' = link /\ spc' = spc /\ accepted' = accepted
    BY <1>7 DEF WorkerStep, WorkerStart, WorkerFails, TakeTotal, BatchLoad, TestSingleLoad,
      SingleLoad, LoadImage, ReadRequest, WriteImage, EndOfList, AskImage, ReadHeader,
      TakeSize, ReadBody, SaveImage, CountImage
  <2>2. \A d \in Conns : pc'[d] # "none" <=> pc[d] # "none"
    BY <1>0, <1>7 DEF WorkerStep, WorkerStart, WorkerFails, TakeTotal, BatchLoad,
      TestSingleLoad, SingleLoad, LoadImage, ReadRequest, WriteImage, EndOfList, AskImage,
      ReadHeader, TakeSize, ReadBody, SaveImage, CountImage, Goto, NextImage
  <2> QED BY <1>0, <2>1, <2>2 DEF OneThreadPerConnection, AcceptedIsNew, TypeInv, CountsOK
<1>8. CASE UNCHANGED vars
  BY <1>0, <1>8 DEF vars, OneThreadPerConnection, AcceptedIsNew
<1> QED BY <1>1, <1>2, <1>3, <1>4, <1>5, <1>6, <1>7, <1>8 DEF Next, ServerStep

(* Whatever clients connect and drop, and however the accept loop and the  *)
(* threads are scheduled, a connection that was accepted has one thread of *)
(* server_run, or is just about to get it, and no thread works without.    *)
THEOREM ConnectionsHaveThreads == Spec => []OneThreadPerConnection
<1>1. Init => OwnInv
  BY InitType DEF Init, OwnInv, OneThreadPerConnection, AcceptedIsNew
<1>2. OwnInv => OneThreadPerConnection
  BY DEF OwnInv
<1> QED BY <1>1, <1>2, OwnStep, PTL DEF Spec

-----------------------------------------------------------------------------
(* What a thread that sends has written: the images before the one it is   *)
(* at, each once and in order.                                             *)
Sending == {"loop", "single", "takeSingle"} \cup Writing

Behind(c) == IF pc[c] \in Writing THEN file_countr[c] - 1 ELSE file_countr[c]

ServesOf(c) ==
  /\ written[c] = [i \in 1 .. Behind(c) |-> i - 1]
  /\ pc[c] \notin Sending \cup {"done"} => file_countr[c] = 0
  /\ pc[c] \in {"single", "takeSingle"} => MoreImages(c)
  /\ pc[c] \in Sending \cup {"done"} => file_countr[c] = 0 \/ file_countr[c] < file_total[c]
  /\ pc[c] = "done" => ~MoreImages(c)

ServeInv == \A c \in Conns : ServesOf(c)

(* One more image written in order is the list of one more image.          *)
LEMMA OneMore ==
  ASSUME NEW k \in Nat
  PROVE  Append([i \in 1 .. k |-> i - 1], k) = [i \in 1 .. k + 1 |-> i - 1]
OBVIOUS

(* A worker leaves what the other threads are at and have written alone.   *)
LEMMA OtherWorkers ==
  ASSUME TypeInv, NEW c \in Conns, WorkerStep(c), NEW d \in Conns, d # c
  PROVE  /\ pc'[d] = pc[d] /\ written'[d] = written[d]
         /\ file_countr'[d] = file_countr[d] /\ file_total'[d] = file_total[d]
<1> USE DEF TypeInv, TypeOK, Goto, threadVars
<1> QED
  BY DEF WorkerStep, WorkerStart, WorkerFails, TakeTotal, BatchLoad, TestSingleLoad,
    SingleLoad, LoadImage, ReadRequest, WriteImage, EndOfList, AskImage, ReadHeader,
    TakeSize, ReadBody, SaveImage, CountImage, NextImage

LEMMA ServeSelf ==
  ASSUME TypeInv, ServeInv, NEW c \in Conns, WorkerStep(c)
  PROVE  ServesOf(c)'
<1>0. /\ ServesOf(c) /\ pc \in [Conns -> Labels] /\ written \in [Conns -> Seq(Nat)]
      /\ file_countr \in [Conns -> Nat] /\ file_total \in [Conns -> Nat] /\ files \in Nat
  BY DEF ServeInv, TypeInv, TypeOK
<1> USE DEF threadVars, Goto, Sending, Writing
<1>1. CASE \/ WorkerStart(c) \/ AskImage(c) \/ ReadHeader(c) \/ TakeSize(c) \/ ReadBody(c)
           \/ SaveImage(c) \/ CountImage(c)
  <2>1. /\ written' = written /\ file_countr' = file_countr /\ file_total' = file_total
        /\ pc[c] \notin Sending \cup {"done"} /\ pc'[c] \notin Sending \cup {"done"}
    BY <1>0, <1>1 DEF WorkerStart, AskImage, ReadHeader, TakeSize, ReadBody, SaveImage, CountImage
  <2> QED BY <1>0, <2>1 DEF ServesOf, Behind
<1>2. CASE WorkerFails(c)
  BY <1>0, <1>2 DEF WorkerFails, ServesOf, Behind, MoreImages
<1>3. CASE TakeTotal(c)
  BY <1>0, <1>3 DEF TakeTotal, ServesOf, Behind
<1>4. CASE BatchLoad(c) \/ SingleLoad(c)
  <2>1. CASE NextImage(c)
    <3>1. /\ pc[c] \in {"loop", "takeSingle"} /\ pc'[c] = "load" /\ MoreImages(c)
          /\ written' = written /\ file_total' = file_total
          /\ file_countr'[c] = file_countr[c] + 1
      BY <1>0, <1>4, <2>1 DEF BatchLoad, SingleLoad, NextImage, ServesOf
    <3>2. Behind(c)' = Behind(c)
      BY <1>0, <3>1 DEF Behind
    <3> QED BY <1>0, <3>1, <3>2 DEF ServesOf, MoreImages
  <2>2. CASE ~NextImage(c)
    <3>1. /\ pc[c] = "loop" /\ pc'[c] = "single" /\ MoreImages(c)
          /\ written' = written /\ file_total' = file_total /\ file_countr' = file_countr
      BY <1>0, <1>4, <2>2 DEF BatchLoad, SingleLoad
    <3> QED BY <1>0, <3>1 DEF ServesOf, Behind, MoreImages
  <2> QED BY <2>1, <2>2
<1>5. CASE TestSingleLoad(c) \/ LoadImage(c) \/ ReadRequest(c) \/ EndOfList(c)
  <2>1. written' = written /\ file_total' = file_total /\ file_countr' = file_countr
    BY <1>5 DEF TestSingleLoad, LoadImage, ReadRequest, EndOfList
  <2>2. \/ pc[c] = "single" /\ pc'[c] \in {"takeSingle", "loop"}
        \/ pc[c] = "load" /\ pc'[c] = "read"
        \/ pc[c] = "read" /\ pc'[c] = "reply"
        \/ pc[c] = "loop" /\ ~MoreImages(c) /\ pc'[c] = "done"
    BY <1>0, <1>5 DEF TestSingleLoad, LoadImage, ReadRequest, EndOfList
  <2>3. Behind(c)' = Behind(c)
    BY <2>1, <2>2 DEF Behind
  <2> QED BY <1>0, <2>1, <2>2, <2>3 DEF ServesOf, MoreImages
<1>6. CASE WriteImage(c)
  <2>1. /\ pc[c] = "reply" /\ pc'[c] = "loop"
        /\ written'[c] = Append(written[c], file_countr[c] - 1)
        /\ file_total' = file_total /\ file_countr' = file_countr
    BY <1>0, <1>6 DEF WriteImage
  <2>2. file_countr[c] >= 1
    BY <2>1 DEF TypeInv, CountsOK
  <2>3. written'[c] = [i \in 1 .. file_countr[c] |-> i - 1]
    <3>1. written[c] = [i \in 1 .. file_countr[c] - 1 |-> i - 1]
      BY <1>0, <2>1 DEF ServesOf, Behind
    <3>2. file_countr[c] - 1 \in Nat /\ (file_countr[c] - 1) + 1 = file_countr[c]
      BY <1>0, <2>2
    <3> QED BY <2>1, <3>1, <3>2, OneMore
  <2> QED BY <1>0, <2>1, <2>2, <2>3 DEF ServesOf, Behind
<1> QED BY <1>1, <1>2, <1>3, <1>4, <1>5, <1>6 DEF WorkerStep

LEMMA ServeStep == OwnInv /\ ServeInv /\ [Next]_vars => ServeInv'
<1> SUFFICES ASSUME OwnInv, ServeInv, [Next]_vars, NEW d \in Conns PROVE ServesOf(d)'
  BY DEF ServeInv
<1>0. ServesOf(d) /\ pc \in [Conns -> Labels] /\ TypeInv /\ AcceptedIsNew
  BY DEF ServeInv, OwnInv, TypeInv, TypeOK
<1> USE DEF threadVars
<1>1. CASE \/ DialogStep \/ StartNetserver \/ FilelistPath \/ Listen \/ Accept
           \/ UNCHANGED vars
  <2>1. UNCHANGED threadVars
    BY <1>1 DEF DialogStep, StartNetserver, FilelistPath, Listen, Accept, vars
  <2> QED BY <1>0, <2>1 DEF ServesOf, Behind, MoreImages
<1>2. CASE Spawn
  <2>1. UNCHANGED <<file_countr, file_total, written>>
    BY <1>2 DEF Spawn
  <2>2. \/ pc'[d] = pc[d]
        \/ pc[d] = "none" /\ pc'[d] = "start"
    BY <1>0, <1>2 DEF Spawn, TypeInv, CountsOK, AcceptedIsNew
  <2> QED BY <1>0, <2>1, <2>2 DEF ServesOf, Behind, MoreImages, Sending, Writing
<1>3. ASSUME NEW c \in Conns,
             Connects(c) \/ ClientAsks(c) \/ ClientSends(c) \/ LoseConnection(c)
      PROVE  ServesOf(d)'
  <2>1. UNCHANGED threadVars
    BY <1>3 DEF Connects, ClientAsks, ClientSends, ClientWrites, LoseConnection
  <2> QED BY <1>0, <2>1 DEF ServesOf, Behind, MoreImages
<1>4. ASSUME NEW c \in Conns, WorkerStep(c)
      PROVE  ServesOf(d)'
  <2>1. CASE d = c
    BY <1>0, <1>4, <2>1, ServeSelf
  <2>2. CASE d # c
    BY <1>0, <1>4, <2>2, OtherWorkers DEF ServesOf, Behind, MoreImages
  <2> QED BY <2>1, <2>2
<1> QED BY <1>1, <1>2, <1>3, <1>4 DEF Next, ServerStep

(* Whatever the flags, the other threads and the buffer do, a thread that  *)
(* returns from sending has written every image of its snapshot but the    *)
(* last, once and in order.                                                *)
THEOREM AllButLastServed == Spec => []ServedAllButLast
<1>1. Init => OwnInv /\ ServeInv
  BY InitType DEF Init, OwnInv, OneThreadPerConnection, AcceptedIsNew, ServeInv, ServesOf,
    Behind, Sending, Writing
<1>2. OwnInv /\ ServeInv => ServedAllButLast
  <2> SUFFICES ASSUME OwnInv, ServeInv, NEW c \in Conns, pc[c] = "done"
               PROVE  written[c] = [i \in 1 .. file_total[c] - 1 |-> i - 1]
    BY DEF ServedAllButLast
  <2>1. /\ written[c] = [i \in 1 .. file_countr[c] |-> i - 1]
        /\ file_countr[c] = 0 \/ file_countr[c] < file_total[c]
        /\ ~(file_countr[c] < file_total[c] - 1)
    BY DEF ServeInv, ServesOf, Behind, Writing, MoreImages
  <2>2. file_countr[c] \in Nat /\ file_total[c] \in Nat
    BY DEF OwnInv, TypeInv, TypeOK
  <2>3. 1 .. file_countr[c] = 1 .. file_total[c] - 1
    BY <2>1, <2>2
  <2> QED BY <2>1, <2>3
<1> QED BY <1>1, <1>2, OwnStep, ServeStep, PTL DEF Spec

-----------------------------------------------------------------------------
(* A thread that sends implements SendingRun.                              *)

(* What a step may look like on the abstract side. *)
Stays(c) ==
  /\ Phase(c)' = Phase(c) /\ Share(c)' = Share(c) /\ Place(c)' = Place(c)
  /\ Left(c)' = Left(c) /\ Outcome(c)' = Outcome(c)

Begins(c) ==
  /\ Phase(c) = "idle" /\ Phase(c)' = "connecting" /\ Outcome(c)' = "none"
  /\ Share(c)' = Share(c) /\ Place(c)' = Place(c) /\ Left(c)' = Left(c)

TakesList(c) ==
  /\ Phase(c) = "connecting" /\ Phase(c)' = "walking"
  /\ Share(c)' \in Nat /\ Left(c)' = 0 .. Share(c)' - 1
  /\ Place(c)' = Place(c) /\ Outcome(c)' = Outcome(c)

Moves(c) ==
  /\ Phase(c) = "walking" /\ Phase(c)' = "walking"
  /\ Place(c) \notin Left(c) /\ Place(c) + 1 < Share(c) /\ Place(c)' = Place(c) + 1
  /\ Share(c)' = Share(c) /\ Left(c)' = Left(c) /\ Outcome(c)' = Outcome(c)

Deals(c) ==
  /\ Phase(c) = "walking" /\ Phase(c)' = "walking"
  /\ Left(c)' = Left(c) \ {Place(c)}
  /\ Share(c)' = Share(c) /\ Place(c)' = Place(c) /\ Outcome(c)' = Outcome(c)

Reports(c) ==
  /\ Phase(c) = "walking" /\ Left(c) = {}
  /\ Phase(c)' = "idle" /\ Share(c)' = 0 /\ Place(c)' = -1 /\ Left(c)' = {}
  /\ Outcome(c)' = "done"

Shape(c) == Stays(c) \/ Begins(c) \/ TakesList(c) \/ Moves(c) \/ Deals(c) \/ Reports(c)

(* What a thread has served is every place before the next one. *)
LEMMA ServedIs ==
  ASSUME NEW w, NEW k \in Nat, w = [i \in 1 .. k |-> i - 1]
  PROVE  {w[i] : i \in DOMAIN w} = 0 .. k - 1
<1>1. DOMAIN w = 1 .. k /\ \A i \in 1 .. k : w[i] = i - 1
  OBVIOUS
<1>2. ASSUME NEW n \in 0 .. k - 1 PROVE n \in {w[i] : i \in DOMAIN w}
  <2>1. n + 1 \in 1 .. k /\ w[n + 1] = n
    BY <1>1
  <2> QED BY <1>1, <2>1
<1>3. ASSUME NEW n \in {w[i] : i \in DOMAIN w} PROVE n \in 0 .. k - 1
  BY <1>1, <1>3
<1> QED BY <1>2, <1>3

LEMMA WorkerShape ==
  ASSUME TypeInv, ServeInv, TypeInv', ServeInv', NEW c \in Conns, WorkerStep(c)
  PROVE  Shape(c)
<1>0. /\ ServesOf(c) /\ pc \in [Conns -> Labels] /\ written \in [Conns -> Seq(Nat)]
      /\ file_countr \in [Conns -> Nat] /\ file_total \in [Conns -> Nat] /\ files \in Nat
  BY DEF ServeInv, TypeInv, TypeOK
<1>s. /\ Behind(c) \in Nat /\ Served(c) = 0 .. Behind(c) - 1
      /\ Behind(c)' \in Nat /\ Served(c)' = 0 .. Behind(c)' - 1
  <2>1. Behind(c) \in Nat /\ Behind(c)' \in Nat
    <3>1. file_countr[c] \in Nat /\ file_countr'[c] \in Nat
      BY DEF TypeInv, TypeOK
    <3>2. /\ pc[c] \in Writing => file_countr[c] >= 1
          /\ pc'[c] \in Writing => file_countr'[c] >= 1
      BY DEF TypeInv, CountsOK
    <3> QED BY <3>1, <3>2 DEF Behind
  <2>2. /\ written[c] = [i \in 1 .. Behind(c) |-> i - 1]
        /\ written'[c] = [i \in 1 .. Behind(c)' |-> i - 1]
    BY DEF ServeInv, ServesOf
  <2> QED BY <2>1, <2>2, ServedIs DEF Served
<1> USE DEF threadVars, Goto
<1>1. CASE \/ WorkerStart(c) \/ AskImage(c) \/ ReadHeader(c) \/ TakeSize(c) \/ ReadBody(c)
           \/ SaveImage(c) \/ CountImage(c) \/ WorkerFails(c) \/ TestSingleLoad(c)
           \/ LoadImage(c) \/ ReadRequest(c)
  <2>1. written' = written /\ file_countr' = file_countr /\ file_total' = file_total
    BY <1>1 DEF WorkerStart, AskImage, ReadHeader, TakeSize, ReadBody, SaveImage, CountImage,
      WorkerFails, TestSingleLoad, LoadImage, ReadRequest
  <2>2. Phase(c)' = Phase(c) /\ Outcome(c)' = Outcome(c)
    BY <1>0, <1>1 DEF WorkerStart, AskImage, ReadHeader, TakeSize, ReadBody, SaveImage,
      CountImage, WorkerFails, TestSingleLoad, LoadImage, ReadRequest, Phase, Outcome
  <2>3. Stays(c)
    BY <2>1, <2>2 DEF Stays, Share, Place, Left, Served
  <2> QED BY <2>3 DEF Shape
<1>2. CASE TakeTotal(c)
  <2>1. /\ Phase(c) = "connecting" /\ Phase(c)' = "walking" /\ Outcome(c)' = Outcome(c)
        /\ file_countr' = file_countr /\ file_countr[c] = 0 /\ written' = written
        /\ pc[c] = "total" /\ pc'[c] = "loop" /\ file_total'[c] \in Nat
    BY <1>0, <1>2 DEF TakeTotal, Phase, Outcome, ServesOf, Sending, Writing
  <2>2. Served(c)' = {}
    BY <1>s, <2>1 DEF Behind, Writing
  <2>3. Share(c)' \in Nat
    BY <2>1 DEF Share
  <2>4. Left(c)' = 0 .. Share(c)' - 1
    BY <2>2 DEF Left
  <2>5. Place(c)' = Place(c)
    BY <2>1 DEF Place
  <2> QED BY <2>1, <2>3, <2>4, <2>5 DEF Shape, TakesList
<1>3. CASE BatchLoad(c) \/ SingleLoad(c)
  <2>1. /\ Phase(c) = "walking" /\ Phase(c)' = "walking" /\ Outcome(c)' = Outcome(c)
        /\ file_total' = file_total /\ written' = written
    BY <1>0, <1>3 DEF BatchLoad, SingleLoad, NextImage, Phase, Outcome
  <2>2. Share(c)' = Share(c) /\ Left(c)' = Left(c)
    BY <2>1 DEF Share, Left, Served
  <2>3. CASE NextImage(c)
    <3>1. /\ pc[c] \in {"loop", "takeSingle"} /\ MoreImages(c)
          /\ file_countr'[c] = file_countr[c] + 1
      BY <1>0, <1>3, <2>3 DEF BatchLoad, SingleLoad, NextImage, ServesOf
    <3>2. /\ Place(c) = file_countr[c] - 1 /\ Place(c)' = file_countr[c]
          /\ Share(c) = file_total[c] - 1
      <4>1. file_countr[c] < file_total[c] - 1 /\ file_total[c] > 0
        BY <1>0, <3>1 DEF MoreImages
      <4>2. Place(c) = file_countr[c] - 1 /\ Place(c)' = file_countr'[c] - 1
        BY <2>1 DEF Place
      <4>3. Share(c) = file_total[c] - 1
        BY <2>1, <4>1 DEF Share
      <4> QED BY <1>0, <3>1, <4>2, <4>3
    <3>3. Place(c) \notin Left(c)
      BY <1>0, <1>s, <3>1, <3>2 DEF Left, Behind, Writing
    <3>4. Place(c) + 1 < Share(c) /\ Place(c)' = Place(c) + 1
      BY <1>0, <3>1, <3>2 DEF MoreImages
    <3> QED BY <2>1, <2>2, <3>3, <3>4 DEF Shape, Moves
  <2>4. CASE ~NextImage(c)
    <3>1. file_countr' = file_countr
      BY <1>3, <2>4 DEF BatchLoad, SingleLoad
    <3>2. Stays(c)
      BY <2>1, <2>2, <3>1 DEF Stays, Place
    <3> QED BY <3>2 DEF Shape
  <2> QED BY <2>3, <2>4
<1>4. CASE WriteImage(c)
  <2>1. /\ Phase(c) = "walking" /\ Phase(c)' = "walking" /\ Outcome(c)' = Outcome(c)
        /\ file_total' = file_total /\ file_countr' = file_countr
        /\ pc[c] = "reply" /\ pc'[c] = "loop"
    BY <1>0, <1>4 DEF WriteImage, Phase, Outcome
  <2>2. Share(c)' = Share(c) /\ Place(c)' = Place(c) /\ Place(c) = file_countr[c] - 1
    BY <2>1 DEF Share, Place
  <2>3. Served(c)' = Served(c) \cup {Place(c)}
    BY <1>0, <1>s, <2>1, <2>2 DEF Behind, Writing
  <2>4. Left(c)' = Left(c) \ {Place(c)}
    BY <2>2, <2>3 DEF Left
  <2> QED BY <2>1, <2>2, <2>4 DEF Shape, Deals
<1>5. CASE EndOfList(c)
  <2>1. /\ Phase(c) = "walking" /\ Phase(c)' = "idle" /\ Outcome(c)' = "done"
        /\ pc[c] = "loop" /\ ~MoreImages(c)
    BY <1>0, <1>5 DEF EndOfList, Phase, Outcome
  <2>2. Share(c)' = 0 /\ Place(c)' = -1
    BY <2>1 DEF Share, Place
  <2>3. Left(c)' = {}
    BY <2>2 DEF Left
  <2>4. Left(c) = {}
    BY <1>0, <1>s, <2>1 DEF Left, Share, Behind, Writing, MoreImages
  <2> QED BY <2>1, <2>2, <2>3, <2>4 DEF Shape, Reports
<1> QED BY <1>1, <1>2, <1>3, <1>4, <1>5 DEF WorkerStep

LEMMA SpawnShape ==
  ASSUME OwnInv, ServeInv, Spawn, NEW c \in Conns, accepted = c
  PROVE  Begins(c)
<1>1. /\ pc \in [Conns -> Labels] /\ pc[c] = "none" /\ pc' = [pc EXCEPT ![c] = "start"]
      /\ UNCHANGED <<file_countr, file_total, written>>
  BY DEF Spawn, OwnInv, TypeInv, TypeOK, AcceptedIsNew
<1>2. pc'[c] = "start"
  BY <1>1
<1>3. Phase(c) = "idle" /\ Phase(c)' = "connecting" /\ Outcome(c)' = "none"
  BY <1>1, <1>2 DEF Phase, Outcome
<1>4. Share(c)' = Share(c) /\ Place(c)' = Place(c)
  BY <1>1, <1>3 DEF Share, Place
<1>5. Left(c)' = Left(c)
  BY <1>1, <1>4 DEF Left, Served
<1> QED BY <1>3, <1>4, <1>5 DEF Begins

(* If the others stay, a shape is a step of the abstract specification. *)
LEMMA ShapeIsStep ==
  ASSUME NEW c \in Conns, Shape(c), \A d \in Conns \ {c} : Stays(d)
  PROVE  Run!Next \/ UNCHANGED Run!vars
<1>1. /\ phases' = [phases EXCEPT ![c] = Phase(c)']
      /\ shares' = [shares EXCEPT ![c] = Share(c)']
      /\ places' = [places EXCEPT ![c] = Place(c)']
      /\ lefts' = [lefts EXCEPT ![c] = Left(c)']
      /\ outcomes' = [outcomes EXCEPT ![c] = Outcome(c)']
  <2>1. \A d \in Conns \ {c} :
          /\ Phase(d)' = Phase(d) /\ Share(d)' = Share(d) /\ Place(d)' = Place(d)
          /\ Left(d)' = Left(d) /\ Outcome(d)' = Outcome(d)
    BY DEF Stays
  <2>2. /\ phases' = [d \in Conns |-> Phase(d)'] /\ shares' = [d \in Conns |-> Share(d)']
        /\ places' = [d \in Conns |-> Place(d)'] /\ lefts' = [d \in Conns |-> Left(d)']
        /\ outcomes' = [d \in Conns |-> Outcome(d)']
    BY DEF phases, shares, places, lefts, outcomes
  <2>3. phases' = [phases EXCEPT ![c] = Phase(c)']
    BY <2>1, <2>2, Zenon DEF phases
  <2>4. shares' = [shares EXCEPT ![c] = Share(c)']
    BY <2>1, <2>2, Zenon DEF shares
  <2>5. places' = [places EXCEPT ![c] = Place(c)']
    BY <2>1, <2>2, Zenon DEF places
  <2>6. lefts' = [lefts EXCEPT ![c] = Left(c)']
    BY <2>1, <2>2, Zenon DEF lefts
  <2>7. outcomes' = [outcomes EXCEPT ![c] = Outcome(c)']
    BY <2>1, <2>2, Zenon DEF outcomes
  <2> QED BY <2>3, <2>4, <2>5, <2>6, <2>7
<1>2. /\ phases[c] = Phase(c) /\ shares[c] = Share(c) /\ places[c] = Place(c)
      /\ lefts[c] = Left(c) /\ outcomes[c] = Outcome(c)
  BY DEF phases, shares, places, lefts, outcomes
<1>3. /\ phases = [phases EXCEPT ![c] = phases[c]] /\ shares = [shares EXCEPT ![c] = shares[c]]
      /\ places = [places EXCEPT ![c] = places[c]] /\ lefts = [lefts EXCEPT ![c] = lefts[c]]
      /\ outcomes = [outcomes EXCEPT ![c] = outcomes[c]]
  BY DEF phases, shares, places, lefts, outcomes
<1>4. /\ Phase(c)' = Phase(c) => phases' = phases
      /\ Share(c)' = Share(c) => shares' = shares
      /\ Place(c)' = Place(c) => places' = places
      /\ Left(c)' = Left(c) => lefts' = lefts
      /\ Outcome(c)' = Outcome(c) => outcomes' = outcomes
  BY <1>1, <1>2, <1>3
<1>5. CASE Stays(c)
  BY <1>4, <1>5 DEF Stays, Run!vars
<1>6. CASE Begins(c)
  <2>1. Run!Begin(c)
    BY <1>1, <1>2, <1>4, <1>6 DEF Begins, Run!Begin
  <2> QED BY <2>1 DEF Run!Next
<1>7. CASE TakesList(c)
  <2>1. phases[c] = "connecting" /\ shares'[c] = Share(c)'
    BY <1>2, <1>7 DEF TakesList, shares
  <2>2. Run!TakeList(c)
    BY <1>1, <1>4, <1>7, <2>1 DEF TakesList, Run!TakeList
  <2> QED BY <2>2 DEF Run!Next
<1>8. CASE Moves(c)
  <2>1. UNCHANGED <<phases, shares, lefts, outcomes>>
    BY <1>4, <1>8 DEF Moves
  <2>2. phases[c] = "walking" /\ places[c] \notin lefts[c] /\ places[c] + 1 < shares[c]
    BY <1>2, <1>8 DEF Moves
  <2>3. places' = [places EXCEPT ![c] = @ + 1]
    BY <1>1, <1>2, <1>8 DEF Moves
  <2>4. Run!Move(c)
    BY <2>1, <2>2, <2>3 DEF Run!Move
  <2> QED BY <2>4 DEF Run!Next
<1>9. CASE Deals(c)
  <2>1. UNCHANGED <<phases, shares, places, outcomes>> /\ phases[c] = "walking"
    BY <1>2, <1>4, <1>9 DEF Deals
  <2>2. lefts' = [lefts EXCEPT ![c] = @ \ {places[c]}]
    BY <1>1, <1>2, <1>9 DEF Deals
  <2>3. Run!Deal(c)
    BY <2>1, <2>2 DEF Run!Deal
  <2> QED BY <2>3 DEF Run!Next
<1>10. CASE Reports(c)
  <2>1. Run!Report(c)
    BY <1>1, <1>2, <1>10 DEF Reports, Run!Report, Run!Finish
  <2> QED BY <2>1 DEF Run!Next
<1> QED BY <1>5, <1>6, <1>7, <1>8, <1>9, <1>10 DEF Shape

(* What leaves a thread's own variables alone leaves its shape alone.      *)
LEMMA NothingMoves ==
  ASSUME NEW d \in Conns, pc'[d] = pc[d], written'[d] = written[d],
         file_countr'[d] = file_countr[d], file_total'[d] = file_total[d]
  PROVE  Stays(d)
BY DEF Stays, Phase, Share, Place, Left, Served, Outcome

LEMMA StepSimulates ==
  ASSUME OwnInv, ServeInv, TypeInv', ServeInv', [Next]_vars
  PROVE  Run!Next \/ UNCHANGED Run!vars
<1>0. TypeInv /\ pc \in [Conns -> Labels]
  BY DEF OwnInv, TypeInv, TypeOK
<1>1. ASSUME UNCHANGED threadVars
      PROVE  UNCHANGED Run!vars
  <2>1. \A d \in Conns : Stays(d)
    BY <1>1, NothingMoves DEF threadVars
  <2> QED BY <2>1 DEF Stays, Run!vars, phases, shares, places, lefts, outcomes
<1>2. CASE \/ DialogStep \/ StartNetserver \/ FilelistPath \/ Listen \/ Accept
           \/ UNCHANGED vars
           \/ \E c \in Conns : \/ Connects(c) \/ ClientAsks(c) \/ ClientSends(c)
                               \/ LoseConnection(c)
  <2>1. UNCHANGED threadVars
    BY <1>2 DEF DialogStep, StartNetserver, FilelistPath, Listen, Accept, vars, Connects,
      ClientAsks, ClientSends, ClientWrites, LoseConnection, threadVars
  <2> QED BY <1>1, <2>1
<1>3. CASE Spawn
  <2>1. accepted \in Conns
    BY <1>0, <1>3 DEF Spawn, TypeInv, CountsOK
  <2>2. \A d \in Conns \ {accepted} : Stays(d)
    <3> SUFFICES ASSUME NEW d \in Conns, d # accepted PROVE Stays(d)
      OBVIOUS
    <3>1. /\ pc'[d] = pc[d] /\ written'[d] = written[d]
          /\ file_countr'[d] = file_countr[d] /\ file_total'[d] = file_total[d]
      BY <1>0, <1>3 DEF Spawn
    <3> QED BY <3>1, NothingMoves
  <2> QED BY <1>3, <2>1, <2>2, SpawnShape, ShapeIsStep DEF Shape
<1>4. ASSUME NEW c \in Conns, WorkerStep(c)
      PROVE  Run!Next \/ UNCHANGED Run!vars
  <2>1. \A d \in Conns \ {c} : Stays(d)
    BY <1>0, <1>4, OtherWorkers, NothingMoves
  <2> QED BY <1>0, <1>4, <2>1, WorkerShape, ShapeIsStep
<1> QED BY <1>2, <1>3, <1>4 DEF Next, ServerStep

(* However clients connect, drop and write, and whatever the other threads *)
(* do to the flags and the buffer, each thread of server_run that sends    *)
(* walks its list but for the last image one place at a time, goes on only *)
(* from an image it has written, and returns with none left.               *)
THEOREM ServerWalksItsList == Spec => WalksItsList
<1>1. Init => Run!Init
  <2> SUFFICES ASSUME Init PROVE Run!Init
    OBVIOUS
  <2>1. ASSUME NEW c \in Conns
        PROVE  /\ Phase(c) = "idle" /\ Share(c) = 0 /\ Place(c) = -1 /\ Left(c) = {}
               /\ Outcome(c) = "none"
    <3>1. pc[c] = "none"
      BY DEF Init
    <3>2. Phase(c) = "idle" /\ Outcome(c) = "none"
      BY <3>1 DEF Phase, Outcome
    <3>3. Share(c) = 0 /\ Place(c) = -1
      BY <3>2 DEF Share, Place
    <3> QED BY <3>2, <3>3 DEF Left
  <2> QED BY <2>1 DEF Run!Init, phases, shares, places, lefts, outcomes
<1>2. OwnInv /\ ServeInv /\ OwnInv' /\ ServeInv' /\ [Next]_vars => [Run!Next]_(Run!vars)
  BY StepSimulates DEF OwnInv
<1>3. Init => OwnInv /\ ServeInv
  BY InitType DEF Init, OwnInv, OneThreadPerConnection, AcceptedIsNew, ServeInv, ServesOf,
    Behind, Sending, Writing
<1> QED BY <1>1, <1>2, <1>3, OwnStep, ServeStep, PTL DEF Spec, WalksItsList, Run!Spec

-----------------------------------------------------------------------------
(* One client alone.  What it has written and the thread has not read, the *)
(* buffer, the counter and the files belong to the same image.             *)
Receiving == {"ask", "header", "size", "body", "save", "count"}

AloneWith(c) == kind[c] = "sends" /\ \A d \in Conns \ {c} : pc[d] = "none"

SavedUpTo(c, n) ==
  /\ DOMAIN saved = 0 .. n - 1
  /\ \A i \in DOMAIN saved : saved[i] = Unit("pixels", c, i)

Idles(c) ==
  /\ DOMAIN saved = {} /\ stream[c] = <<>> /\ ~toWrite[c] /\ images[c] = 0

(* The client's next image is asked for; it is written; its header has     *)
(* been read; its pixels have.                                             *)
Awaits(c) == stream[c] = <<>> /\ images[c] = counter
Written(c) ==
  /\ stream[c] = <<Unit("header", c, counter), Unit("pixels", c, counter)>>
  /\ images[c] = counter + 1 /\ ~toWrite[c]
HalfRead(c) ==
  stream[c] = <<Unit("pixels", c, counter)>> /\ images[c] = counter + 1 /\ ~toWrite[c]
AllRead(c) == stream[c] = <<>> /\ images[c] = counter + 1 /\ ~toWrite[c]

AloneOf(c) ==
  /\ pc[c] \notin Receiving => Idles(c)
  /\ pc[c] \in Receiving \ {"count"} => SavedUpTo(c, counter)
  /\ pc[c] = "ask" => Awaits(c) /\ ~toWrite[c]
  /\ pc[c] = "header" => Awaits(c) \/ Written(c)
  /\ pc[c] = "size" => HalfRead(c) /\ buffer = Unit("header", c, counter)
  /\ pc[c] = "body" => HalfRead(c) /\ size[c] = 1
  /\ pc[c] = "save" => AllRead(c) /\ buffer = Unit("pixels", c, counter)
  /\ pc[c] = "count" => AllRead(c) /\ SavedUpTo(c, counter + 1)

AloneInv == \A c \in Conns : AloneWith(c) => AloneOf(c)

(* A thread that has begun never gets back to where it has not.            *)
LEMMA BegunStays ==
  ASSUME TypeInv, NEW c \in Conns, WorkerStep(c)
  PROVE  pc[c] # "none" /\ pc'[c] # "none" /\ kind' = kind /\ images' = images
<1> USE DEF TypeInv, TypeOK, Goto, clientVars, threadVars
<1> QED
  BY DEF WorkerStep, WorkerStart, WorkerFails, TakeTotal, BatchLoad, TestSingleLoad,
    SingleLoad, LoadImage, ReadRequest, WriteImage, EndOfList, AskImage, ReadHeader,
    TakeSize, ReadBody, SaveImage, CountImage, NextImage

LEMMA AloneWorker ==
  ASSUME TypeInv, NEW c \in Conns, AloneWith(c), AloneOf(c), WorkerStep(c)
  PROVE  AloneOf(c)'
<1>0. /\ pc \in [Conns -> Labels] /\ stream \in [Conns -> Seq(Units)] /\ counter \in Nat
      /\ size \in [Conns -> Nat] /\ toWrite \in [Conns -> BOOLEAN] /\ images \in [Conns -> Nat]
      /\ kind[c] = "sends" /\ AloneOf(c)
  BY DEF TypeInv, TypeOK, AloneWith
<1> USE DEF Goto, clientVars, threadVars, memberVars, Receiving
<1>1. CASE WorkerStart(c)
  <2>1. /\ Idles(c) /\ pc'[c] \in {"ask", "total"}
        /\ pc'[c] = "ask" => counter' = 0
        /\ UNCHANGED <<saved, stream, toWrite, images>>
    BY <1>0, <1>1 DEF WorkerStart, AloneOf
  <2> QED BY <2>1 DEF AloneOf, Idles, SavedUpTo, Awaits
<1>2. CASE \/ TakeTotal(c) \/ BatchLoad(c) \/ TestSingleLoad(c) \/ SingleLoad(c)
           \/ LoadImage(c) \/ ReadRequest(c) \/ EndOfList(c) \/ WriteImage(c)
  <2>1. /\ Idles(c) /\ pc'[c] \notin Receiving
        /\ UNCHANGED <<saved, images>> /\ stream'[c] = stream[c] /\ toWrite'[c] = toWrite[c]
    BY <1>0, <1>2 DEF TakeTotal, BatchLoad, TestSingleLoad, SingleLoad, LoadImage, ReadRequest,
      EndOfList, WriteImage, NextImage, AloneOf, Idles
  <2> QED BY <2>1 DEF AloneOf, Idles
<1>3. CASE WorkerFails(c)
  BY <1>0, <1>3 DEF WorkerFails, AloneOf, Idles, SavedUpTo, Awaits, Written, HalfRead, AllRead
<1>4. CASE AskImage(c)
  <2>1. /\ pc[c] = "ask" /\ pc'[c] = "header"
        /\ UNCHANGED <<saved, images, stream, counter>>
    BY <1>0, <1>4 DEF AskImage
  <2> QED BY <1>0, <2>1 DEF AloneOf, SavedUpTo, Awaits
<1>5. CASE ReadHeader(c)
  <2>1. /\ pc[c] = "header" /\ pc'[c] = "size" /\ stream[c] # <<>>
        /\ buffer' = Head(stream[c]) /\ stream'[c] = Tail(stream[c])
        /\ UNCHANGED <<saved, images, counter, toWrite>>
    BY <1>0, <1>5 DEF ReadHeader
  <2>2. Written(c) /\ SavedUpTo(c, counter)
    BY <1>0, <2>1 DEF AloneOf, Awaits
  <2>3. /\ Head(stream[c]) = Unit("header", c, counter)
        /\ Tail(stream[c]) = <<Unit("pixels", c, counter)>>
    BY <2>2 DEF Written
  <2> QED BY <2>1, <2>2, <2>3 DEF AloneOf, SavedUpTo, Written, HalfRead
<1>6. CASE TakeSize(c)
  <2>1. /\ pc[c] = "size" /\ HalfRead(c) /\ SavedUpTo(c, counter)
        /\ buffer = Unit("header", c, counter)
        /\ UNCHANGED <<saved, images, counter, toWrite, stream>>
    BY <1>0, <1>6 DEF TakeSize, AloneOf
  <2>2. Announced(buffer) = {1}
    BY <2>1 DEF Announced, Unit
  <2>3. size'[c] = 1 /\ pc'[c] = "body"
    BY <1>0, <1>6, <2>2 DEF TakeSize
  <2> QED BY <2>1, <2>3 DEF AloneOf, SavedUpTo, HalfRead
<1>7. CASE ReadBody(c)
  <2>1. /\ pc[c] = "body" /\ pc'[c] = "save" /\ HalfRead(c) /\ SavedUpTo(c, counter)
        /\ size[c] = 1 /\ buffer' = Head(stream[c])
        /\ stream'[c] = SubSeq(stream[c], 2, Len(stream[c]))
        /\ UNCHANGED <<saved, images, counter, toWrite>>
    BY <1>0, <1>7 DEF ReadBody, AloneOf
  <2>2. Head(stream[c]) = Unit("pixels", c, counter) /\ Len(stream[c]) = 1
    BY <2>1 DEF HalfRead
  <2>3. SubSeq(stream[c], 2, Len(stream[c])) = <<>>
    BY <1>0, <2>2
  <2> QED BY <2>1, <2>2, <2>3 DEF AloneOf, SavedUpTo, HalfRead, AllRead
<1>8. CASE SaveImage(c)
  <2>1. /\ pc[c] = "save" /\ pc'[c] = "count" /\ AllRead(c) /\ SavedUpTo(c, counter)
        /\ buffer = Unit("pixels", c, counter)
        /\ saved' = [n \in DOMAIN saved \cup {counter} |-> IF n = counter THEN buffer ELSE saved[n]]
        /\ UNCHANGED <<images, counter, toWrite, stream>>
    BY <1>0, <1>8 DEF SaveImage, AloneOf
  <2>2. DOMAIN saved' = 0 .. (counter + 1) - 1
    BY <1>0, <2>1 DEF SavedUpTo
  <2>3. \A i \in DOMAIN saved' : saved'[i] = Unit("pixels", c, i)
    BY <1>0, <2>1 DEF SavedUpTo
  <2> QED BY <2>1, <2>2, <2>3 DEF AloneOf, SavedUpTo, AllRead
<1>9. CASE CountImage(c)
  <2>1. /\ pc[c] = "count" /\ pc'[c] = "ask" /\ AllRead(c) /\ SavedUpTo(c, counter + 1)
        /\ counter' = counter + 1
        /\ UNCHANGED <<images, toWrite, stream, saved>>
    BY <1>0, <1>9 DEF CountImage, AloneOf
  <2> QED BY <2>1 DEF AloneOf, SavedUpTo, AllRead, Awaits
<1> QED BY <1>1, <1>2, <1>3, <1>4, <1>5, <1>6, <1>7, <1>8, <1>9 DEF WorkerStep

LEMMA AloneClient ==
  ASSUME TypeInv, NEW c \in Conns, AloneWith(c), AloneOf(c), ClientSends(c)
  PROVE  AloneOf(c)'
<1>0. /\ stream \in [Conns -> Seq(Units)] /\ toWrite \in [Conns -> BOOLEAN]
      /\ images \in [Conns -> Nat] /\ counter \in Nat
  BY DEF TypeInv, TypeOK
<1>1. /\ toWrite[c] /\ ~toWrite'[c] /\ images'[c] = images[c] + 1
      /\ stream'[c] = stream[c] \o <<Unit("header", c, images[c]), Unit("pixels", c, images[c])>>
      /\ UNCHANGED <<pc, size, saved, buffer, counter>>
  BY <1>0 DEF ClientSends, ClientWrites, threadVars, memberVars
<1>2. pc[c] = "header" /\ Awaits(c) /\ SavedUpTo(c, counter)
  BY <1>1 DEF AloneOf, Idles, Written, HalfRead, AllRead, Receiving
<1>3. stream'[c] = <<Unit("header", c, counter), Unit("pixels", c, counter)>>
  BY <1>1, <1>2 DEF Awaits
<1> QED BY <1>1, <1>2, <1>3 DEF AloneOf, Awaits, Written, SavedUpTo, Receiving

LEMMA AloneStep == OwnInv /\ AloneInv /\ [Next]_vars => AloneInv'
<1> SUFFICES ASSUME OwnInv, AloneInv, [Next]_vars, NEW c \in Conns, AloneWith(c)'
             PROVE  AloneOf(c)'
  BY DEF AloneInv
<1>0. TypeInv /\ AcceptedIsNew /\ pc \in [Conns -> Labels] /\ (AloneWith(c) => AloneOf(c))
  BY DEF OwnInv, TypeInv, TypeOK, AloneInv
<1> USE DEF threadVars, memberVars, clientVars
<1>1. ASSUME UNCHANGED <<pc, size, saved, buffer, counter, kind>>,
             stream'[c] = stream[c], toWrite'[c] = toWrite[c], images'[c] = images[c]
      PROVE  AloneOf(c)'
  <2>1. AloneOf(c)
    BY <1>0, <1>1 DEF AloneWith
  <2> QED BY <1>1, <2>1 DEF AloneOf, Idles, SavedUpTo, Awaits, Written, HalfRead, AllRead
<1>2. CASE DialogStep \/ StartNetserver \/ FilelistPath \/ Listen \/ Accept \/ UNCHANGED vars
  BY <1>1, <1>2 DEF DialogStep, StartNetserver, FilelistPath, Listen, Accept, vars
<1>3. CASE Spawn
  <2>1. /\ accepted \in Conns /\ pc[accepted] = "none"
        /\ pc' = [pc EXCEPT ![accepted] = "start"]
        /\ UNCHANGED <<size, memberVars, clientVars, stream>>
    BY <1>0, <1>3 DEF Spawn, TypeInv, CountsOK, AcceptedIsNew
  <2>2. accepted = c /\ AloneWith(c)
    BY <1>0, <2>1 DEF AloneWith
  <2>3. Idles(c)
    BY <1>0, <2>1, <2>2 DEF AloneOf, Receiving
  <2>4. pc'[c] = "start"
    BY <1>0, <2>1, <2>2
  <2> QED BY <2>1, <2>3, <2>4 DEF AloneOf, Idles, Receiving
<1>4. ASSUME NEW d \in Conns, Connects(d) \/ LoseConnection(d)
      PROVE  AloneOf(c)'
  BY <1>1, <1>4 DEF Connects, LoseConnection
<1>5. ASSUME NEW d \in Conns, ClientAsks(d) \/ ClientSends(d)
      PROVE  AloneOf(c)'
  <2>1. UNCHANGED <<pc, size, saved, buffer, counter, kind>>
    BY <1>5 DEF ClientAsks, ClientSends, ClientWrites
  <2>2. CASE d = c
    <3>1. AloneWith(c) /\ ClientSends(c)
      BY <1>5, <2>1, <2>2 DEF AloneWith, ClientAsks
    <3> QED BY <1>0, <3>1, AloneClient
  <2>3. CASE d # c
    <3>1. stream'[c] = stream[c] /\ toWrite'[c] = toWrite[c] /\ images'[c] = images[c]
      BY <1>0, <1>5, <2>3 DEF ClientAsks, ClientSends, ClientWrites, TypeInv, TypeOK
    <3> QED BY <1>1, <2>1, <3>1
  <2> QED BY <2>2, <2>3
<1>6. ASSUME NEW d \in Conns, WorkerStep(d)
      PROVE  AloneOf(c)'
  <2>1. d = c
    BY <1>0, <1>6, BegunStays DEF AloneWith
  <2>2. AloneWith(c)
    <3>1. kind[c] = "sends"
      BY <1>0, <1>6, BegunStays DEF AloneWith
    <3>2. \A e \in Conns \ {c} : pc[e] = pc'[e]
      BY <1>0, <1>6, <2>1, OtherWorkers
    <3> QED BY <3>1, <3>2 DEF AloneWith
  <2> QED BY <1>0, <1>6, <2>1, <2>2, AloneWorker
<1> QED BY <1>2, <1>3, <1>4, <1>5, <1>6 DEF Next, ServerStep

(* While one client that sends is all there has been, file number n is its *)
(* image number n and a header is taken for a header, however the thread,  *)
(* the client and the user's clicks are interleaved.                       *)
THEOREM AloneInOrder == Spec => []AloneSavedInOrder
<1>1. Init => OwnInv /\ AloneInv
  <2> SUFFICES ASSUME Init PROVE OwnInv /\ AloneInv
    OBVIOUS
  <2>1. OwnInv
    BY InitType DEF Init, OwnInv, OneThreadPerConnection, AcceptedIsNew
  <2>2. ASSUME NEW c \in Conns, AloneWith(c) PROVE AloneOf(c)
    <3>1. /\ pc[c] = "none" /\ stream[c] = <<>> /\ images[c] = 0 /\ DOMAIN saved = {}
      BY DEF Init
    <3>2. ~toWrite[c]
      BY <2>2 DEF Init, AloneWith
    <3> QED BY <3>1, <3>2 DEF AloneOf, Idles, Receiving
  <2> QED BY <2>1, <2>2 DEF AloneInv
<1>2. OwnInv /\ AloneInv => AloneSavedInOrder
  <2> SUFFICES ASSUME OwnInv, AloneInv, NEW c \in Conns, AloneWith(c)
               PROVE  /\ \A n \in DOMAIN saved : saved[n] = Unit("pixels", c, n)
                      /\ pc[c] = "size" => buffer[1] = "header"
    BY DEF AloneSavedInOrder, AloneWith
  <2>1. AloneOf(c)
    BY DEF AloneInv
  <2>2. \A n \in DOMAIN saved : saved[n] = Unit("pixels", c, n)
    BY <2>1 DEF AloneOf, Idles, SavedUpTo, Receiving
  <2>3. pc[c] = "size" => buffer[1] = "header"
    BY <2>1 DEF AloneOf, Unit
  <2> QED BY <2>2, <2>3
<1> QED BY <1>1, <1>2, OwnStep, AloneStep, PTL DEF Spec
=============================================================================

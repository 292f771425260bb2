# A TLA+ model of DataSimulator

DataSimulator is a Windows (MFC) program that plays the part of a line-scan
camera.  It connects to an image processing box (TX2/NX), waits for the box to
ask for an image, and sends the next image of a list of files.  It can also
play the box, as a server.  The code lies in `src/DataSimulator`; `src/asio` is
a vendored copy of asio.

The user-interface thread, detached threads that START creates, and callbacks
of asio share plain variables.  There is hardly a lock and no test, so the
questions worth asking are about interleavings, failures and stale values.
This directory holds the models, the TLC configurations that check them on
small instances, and proofs for every value of the constants.

## 1. Inventory

| component | state | operations | what makes it correct |
|---|---|---|---|
| load control, `DataSimulatorDlg.cpp` | three static flags of `aq::Communicator`, the check boxes, two mode flags, which controls are enabled | the click handlers of the two load boxes, IMAGE SENDING START, NEXT, PREVIOUS, the four mode boxes | flags and boxes agree; a request of the user is not half written when a thread reads it |
| image sender, `communicator.cpp` `tcp_connect`, `tcp_connect_thread2` | `socket_`, `data_buffer_`, `file_list`, `send_ok`, shared by all threads; locals of a thread | START in client mode, connection, the loop over the files with its batch, single and last branches, the receiving branch | every image is dealt with before the end is reported; one thread at a time; a reply goes where the request came from; an index stays in the list |
| server, `communicator.cpp` `server`, `server_run`, `receive_img` | the same members, `counter` | START in server mode: accept loop, one thread per connection | every image is sent; connections do not disturb each other |
| image exchange, `communicator.cpp` | what is on its way between a sending client and a box or a second simulator | request, header, image, `receive_img` | both ends are at the same image; nobody waits for a request the other has sent already |
| reconnection, `DataSimulatorDlg.cpp` `connect_and_reconnect`, `tcp_client` | `sockets[]`, `sessions[]` | connect, connect callback, aborted session | a session without a connection is being reconnected |
| framed session, `VCameraSession.h`, `VTx2Session.h` | receive buffer, send queue, timer | start, stop, receive callback, send, send callback, error | a message is delivered once, whole and in order; a read never leaves the buffer |
| messages and frames, `VCameraMessage*.cpp`, `VCameraFrame.cpp` | a byte string and a pointer beside it | lead code search, `nextLoad`, `load`, construction, copies, setters | a frame is recognised wherever it begins; a message reads back as what it was given |
| display messages, `DataSimulatorDlg.cpp` `ShowCtrlMessage`, `DrawMatp` | posted pointers, what they point to | post, handle, detached painting thread | a pointer is valid when it is used and freed once |
| text window, `DataSimulatorDlg.cpp` `PushTailShowText`, `ShowText` | an array of lines | push, repaint, resize | the latest lines are seen, in order |
| parameters, `CameraSetting.cpp`, `DialogNetworkSetting.cpp`, `param.ini` | the file and several copies of its values | the two dialogs, reading it again, START | what is shown is what is used |
| classification, `execute.cpp`, `classify.cpp`, `main.cpp` | queues of frames, globals of the worker threads | push, classify, send | a result goes to the session its frame came from |
| result packing, `VCameraProcessorTypes.cpp` | 4-bit fields of an integer | set, get | fields do not overlap |
| ini files, `rw_ini.cpp` | section and key tables | open, get | a key is found with its value |

The last three are not part of the program as it is built, see 8.

Threads and callbacks interact in five ways.

* START creates a detached thread on a member function of the one
  `Communicator`; every such thread uses the members `socket_`, `data_buffer_`,
  `send_ok` and `file_list`.
* The dialog talks to a running thread through static flags; the thread clears
  them when it has taken them.
* A thread talks to the dialog with posted messages: `ID_STOPSEND` (the index
  of a step made by hand), `ID_SENDMESSAGE` (the end of the list) and
  `ID_SHOWCTRLMESSAGE` (something to display, with a pointer).
* A session of `VCameraSession` lives on the callbacks of one `io_service`
  and calls back its owner when it received a frame or broke off.
* The box asks by sending a header whose `signalling` is 20, and gets a header
  and the pixels.

What is hard here: two threads on one socket and one buffer, flags that are
tested and cleared without a lock, a file list that grows while a thread walks
it, connections that break at any point, START disabled and enabled from
several places, buffers that are resized in the middle of a framed read, and
retries that depend on the state a failed call leaves behind.

## 2. Modules

| module | what it models | extends |
|---|---|---|
| `LoadControl` | the dialog's handlers that choose how images are loaded and which side sends | |
| `ImageSender` | START in client mode: the sender threads, the box, the posted messages | `LoadControl` |
| `ImageServer` | START in server mode: the accept loop, the server threads, the clients | `LoadControl` |
| `SendingRun` | abstract: what a run that sends a list of images promises; `ImageSender` and `ImageServer` implement it | |
| `AcceptLoops` | the one member `socket_` under any number of STARTs in either mode | |
| `ImageExchange` | one connection between a sending client and a box or a second simulator, with partial writes | |
| `CameraSession` | connecting, reconnecting and receiving of camera sessions | |
| `FrameReception` | the bytes of one session's receive buffer; implements the receiving half of `CameraSession` | |
| `CameraMessage` | variables of class `VCameraMessage`: construction, loading, copying, moving, changing | |
| `DisplayMessages` | `ID_SHOWCTRLMESSAGE`: who owns the memory its pointers refer to | |
| `TextWindow` | the lines of text in the window | |
| `Settings` | `param.ini`, the two dialogs that write it, and the copies of its values | |
| `MCImageSender`, `MCImageServer` | symmetry sets for TLC | the module named |
| `MCDialog`, `MCConnections` | three and five modules that share nothing, in one run each | the modules named below |
| `ImageSender_proofs`, `ImageServer_proofs`, `LoadControl_proofs`, `AcceptLoops_proofs`, `ImageExchange_proofs`, `DisplayMessages_proofs` | theorems, see 6 | the module named |
| `Dialog_proofs` | theorems about `TextWindow` and `Settings` | both |
| `Camera_proofs` | theorems about `CameraSession`, `FrameReception` and `CameraMessage` | all three |

`ImageSender` and `ImageServer` are composed with `LoadControl` because the
dialog and the threads share the flags.  The two are not composed with each
other: a process is in one of the two modes at START, and what a START in one
mode does to the threads of the other goes through `socket_`, which
`AcceptLoops` takes alone.  `ImageExchange` is a client and a server joined,
each reduced to what travels between them.

## 3. How the models correspond to the code

**LoadControl.**  `load` is the three static flags, `batchChecked` the check
boxes (the two handlers keep them opposite), `clientMode` and `clientSend` the
mode members, `enabled` what `EnableWindow` was last called with.  A handler
runs in the one user-interface thread, so what only that thread sees changes
in one step with the click.  The flags are seen by other threads as well: the
handler leaves its assignments in `writes`, and `WriteFlag` performs them one
at a time in the order of the source.  No other click happens before they are
done.  The handlers of a click on a disabled control do not exist: every click
action has `enabled[...]` as a guard where the code disables the control.

**ImageSender.**  `pc[t]` is a line of `tcp_connect_thread2` at which another
thread can change what `t` sees next; between two such lines the code is one
action.  So the mode flag is read by `EnterThread` and again by
`TestModeAgain`; the test of `single_image_load` and its reset are two steps;
the read of a request and the test of its signalling are two steps, because
`data_buffer_` is shared; the header and the image are two writes, because
`socket_` is shared.  `socket_` is a pointer that `NewSocket` replaces; a socket
no thread can reach may be used again, which keeps the set of sockets finite.
`readOn` records on which socket a thread entered its blocking read.  `link`
and `request` are the connection and the box, which asks for an image or sends
something else.  `posted` is the window's message queue.  An access outside
`file_list`, and the first allocation of `data_buffer_` by two threads at once,
are undefined: the model goes on or ends the process (`down`).

**ImageServer.**  The same for `server` and `server_run`.  `socket_` is a
parameter there, so a thread's socket is its own and the connection names the
thread; `accepted` is the member between `accept` and the creation of the
thread.  What a client writes is a stream of units (request, header, pixels),
since the properties ask whose image lies in which file and not what the
pixels are.  `Announced` is the product of the three fields the thread
multiplies, taken from whatever unit is at the front of the shared buffer.  A
connection that waits in an acceptor is `queued`; when the acceptor is
destroyed it is `reset`.  A connection that is lost (`link`) takes a write for
as long as nothing has told the socket so (`Writable`): `write_some` may report
bytes as written that nobody will read.

**SendingRun.**  For each sender a phase, its place in the list, the images it
has not dealt with and how its last run ended.  Both mappings are written in
the module that implements it, as `Walk == INSTANCE SendingRun WITH ...`: an
image has been dealt with when it was written, or refused, or (for the server)
is the last, which the loop never reaches.

**AcceptLoops.**  `open` are the sockets that are open; a client's connect leaves
its socket open whether or not it succeeded.  Each START in server mode begins
one loop.  A round of it
creates a socket, stores it in `socket_`, constructs an acceptor, calls
`accept` with what `socket_` is then, and creates the thread with what
`socket_` is after that.  These are five points at which another loop, or
`tcp_connect`, may replace the member.  Sockets are numbered as they are
created; the bound is on their number alone.

**ImageExchange.**  The stream carries the two halves of a header and the
pixels as units, each with the number of its image, so that "the receiver
takes the bytes of another image for a header" can be said.  `write_some`
writes any non-empty beginning of what it is given (`WriteSome`).  A simulator
asks with signalling 2, a box with 20 or something else.  `expected` is the
product of the header's fields; bytes that are no header give any product.
`receive_img` does not compare it with the buffer (`Room`).  `sent` is a
history: the images whose pixels have begun to be written, in their order.

**CameraSession.**  All handlers run in the thread of one `io_service`, hence
one action each.  A pending operation is a Boolean (`connecting`, `reading`).
`sock` tells the four states the code's tests and asio's errors distinguish:
closed, open without a connection (a connect is pending or has failed), up, and
lost (the peer is gone, the next operation will say so).  `ConnectAndReconnect`
takes the sockets and pending connects as arguments because the code calls it
in three situations: from the loop, from a failed connect and from an aborted
session.  `_recv_offset` and `_recv_size` are `phase` and `next`; `_recv_buf` is
its size.  `aligned` says whether the next byte is where the code takes it to
be; bytes out of step may look like a header (`Garbage`) or not, and may fall
back into step.

**FrameReception.**  Where `CameraSession` has a size, this module has the
bytes of `_recv_buf`, and `findLeadCode`, `nextLoad` and `load` as operators on
them, with their oddities: `safe_strchr` counts the byte it stands on as gone,
so that a beginning of the lead code at the end of the buffer counts for the
whole of it, and `nextLoad` accepts bytes of which only one agrees with the
lead code.  Arithmetic on the length field is modulo `Modulus`.

**CameraMessage.**  `held` is whether `_private` is not null, which is all
that `empty()` comes to, for no call leaves the string in it empty; `string` is `_string`, as words of four bytes.  Every other
reader and setter looks at `string` alone, at places that its length word may
decide: `LengthsOf` is what `length()` finds there, and anything if there are
too few bytes.  Both public constructors, `load`, copying, moving, both
assignments, `setToken`, `setLength`, `setData`, `setCrc` and `updateCrc` are
actions, the setters with and without their update of the checksum, and
`setLength` with any number (`SetLength`).  `PutCrc` writes where that number says:
over the checksum, over a word of data, or behind the bytes (`outside`).
`outside = "bytes"` ends a behaviour, as undefined behaviour does.  `put` is a
history: the token, length and data last put into a variable's bytes and
whether the checksum was updated since (`fresh`), or `None` when the bytes were
written over in another way.

**DisplayMessages.**  `queue` is the window's message queue, `texts` the char
arrays that are allocated, `info` what each struct a pointer may refer to says
by now (a thread's local in a batch, the global `Info1` otherwise), `painters`
the detached threads that draw with what they were given.  `byHand` are those
of `single_image_load` and `last_image_load` that are set; a thread finds one
set (`TakeByHand`) and clears it in another step (`LoadByHand`), so that two
threads may follow the same click.  NEXT and PREVIOUS are modelled with what
they do to the two flags; `LoadControl` has the assignments one by one.  The
pixels of an image live as long as it is its thread's last (`Alive`).  An access
to freed memory may go unnoticed or end the process.

**TextWindow.**  `rows` is `m_strShowText`, `magnification` the window's width
divided by `m_nWindowWidth`.  A line is its number in the order of pushing.
Nothing clears the rows of a dialog on the stack, so they begin with anything
(`Leftovers`; what they hold is taken to be a string, empty or not).

**Settings.**  `iniSpeed`, `iniNumber` are the file; `shownSpeed`, `usedSpeed`,
`number`, `title`, `sendsAs` are five copies of it, each read at its own time.
`Rounded` is what `"%.2f"` keeps.  A write of the file may fail, which no
handler looks at, and another simulator beside this one writes the same file.

History variables (each is marked `history` where it is declared) are read by
no action of the code; they let an invariant speak of earlier steps.  The
variables `down`, `crashed`, `failed`, `outside` and `overrun` stop a model;
nothing is claimed of a process that has ended.

The mode boxes and IMAGE SENDING START are in `DataSimulator.rc` without
`WS_VISIBLE` (lines 108 to 120).  With the resource as it is shipped a user
reaches client mode alone.  The handlers are there all the same, and
`server_run` is reached through no other; the constant `Clicks` says which
controls a run lets the user touch, so a run speaks of the shipped resource or
of one that shows the boxes.  `tcp_client` and `io_thread_fun`, which
`CameraSession` models, are complete but no handler of the present dialog
starts them: the model is of what they do when started.

## 4. What the runs check

| run | instance | question | states |
|---|---|---|---|
| `one_thread` | 1 thread, 2 sockets, 2 files, 2 posted messages, all clicks but the mode boxes | does one thread, against every load click, a growing list, wrong requests and broken connections, deal with every image before it reports (`CompletionCoversList`), stay inside the list (`IndexInList`), find flags that agree with the boxes (`FlagsMatchCheckBoxes`), and do nothing `SendingRun` does not (`WalksItsList`)? | 647 thousand |
| `two_threads` | 2 threads, 3 sockets, 1 file, the mode boxes | until START is enabled behind a running thread: is there one thread (`OneThread`), does START come back only after a report (`StartMeansCompleted`), and does a reply go where its request came from (`RequestIntact`)? | 1.5 million |
| `sender_live` | 1 thread, 2 files | does a batch end (`BatchEnds`) and does its end reach START (`CompletionReported`)? | 62 thousand |
| `server_receives` | 2 clients, 2 images each | does each accepted connection get the thread that works on it (`OneThreadPerConnection`), and does a client that is alone have its images saved in order (`AloneSavedInOrder`)? | 575 thousand |
| `server_sends` | 2 clients, 3 files | in batch mode, does a thread serve its snapshot in order, each image once (`ServedAllButLast`), as `SendingRun` says (`WalksItsList`)? | 514 thousand |
| `server_live` | 1 client, 3 files | is a client that keeps asking served to the end (`ServedToTheEnd`)? | 60 thousand |
| `dialog` | `DisplayMessages` with 2 threads, 2 images, 3 texts, 3 messages; `TextWindow` with 6 rows, 3 widths, 8 lines; `Settings` with 4 speeds, 2 typed numbers | is each text owned once (`TextsHaveOneOwner`) and which are lost (`OneTextLostPerPicture`); is a painter never given an older picture (`NeverOlder`), nor one that was freed if the user waits (`AliveForPatientUser`); are the latest lines kept in order (`LatestInOrder`) and drawn (`DrawnSoon`); does the pause fit the speed shown (`PauseFitsSpeedShown`) and the title the camera that sends (`TitleTellsCamera`)? | 1.4 million |
| `connections` | `CameraSession` with 2 sessions, 3 lengths; `FrameReception` with 3 lengths; `CameraMessage` with 2 variables, 2 tokens, at most 1 word of data, lengths to 2, sequences of 5 calls; `ImageExchange` with 3 images of 0 to 2 units; `AcceptLoops` with 2 loops, 4 sockets | is a session only lost by an error (`LostOnlyByError`), does a frame fit the buffer (`RoomForFrame`), do the bytes do what `CameraSession` says (`ReceivesLikeSession`); do a message's bytes keep what was put into them (`ReadsBack`), and when are they left (`StaysInside`); does the receiver stay in step (`InStep`), when do two simulators wait for each other (`StalledForGood`), does an image loaded by hand arrive (`HandLoadedArrives`); has a thread its own connection (`ThreadHasItsConnection`)? | 397 thousand |
| `requests_turned_down`, `server_ends`, `passed_over`, `mixed_frames` | small | four statements of comments and messages that the code does not keep, see 7 | |

`dialog` and `connections` check modules that share no variable.  The variable
`part` says which of them moves in a behaviour; the others stay in their first
state.  Since no action of one reads what another writes, each behaviour of a
module alone is a behaviour of the run.

Why the bounds are enough.  A thread takes one snapshot of the list, so two
files give a first image, a last image and a list that grew after the
snapshot; three are needed where the last one is not served.  Two threads and
three sockets give each thread its own socket and one that was dropped.  Two
posted messages give a stop and a report that overtook it; three in
`DisplayMessages` give two pictures and a text between them.  Three texts allow
one to be lost with a picture while both threads have one, and two to be lost
before the next.  Six rows are what the widest of three windows needs, and
eight lines overflow them.  The numbers 2 and 5 that a user or another
simulator may write are a camera's and nobody's.  The speeds 0.0049 and 0.0051
lie on the two sides of what two decimals show.  Frame lengths 9, 18 and 27
differ by more than a header of 8 bytes and give each order of growing and not
growing; 5, 8 and 14 differ by less than that, for the bytes.  Three images
give one that cannot be read between two that can.  Two accept loops and four
sockets give each loop a second round.  A length word of 0, 1 or 2 over at most
one word of data says less than there is, as much, or more, so a checksum comes
to lie over the data or the token, in its place, or outside.  Five calls build two messages,
hand one to the other and change it twice; the theorems hold for any number.
`server_sends` leaves NEXT and the load boxes to `server_live`, and to the
proofs of its two properties, which allow every click.  `Clicks` selects the controls the user
touches in a run; between them the runs touch every one.

Symmetry is used for threads, sockets and texts, which the models treat alike,
and only in runs whose properties are invariants, box actions and refinements
without fairness; never with a liveness property.

`two_threads` does not repeat `CompletionCoversList` and `IndexInList`: they
speak of one thread at a time, `one_thread` checks them, and they are proved
for any number of threads.

`CHECK_DEADLOCK FALSE` is set everywhere, for the system really may stop: the
process may end, every thread may have returned while a handler of the dialog
is disabled, a session may have given up, or the user may stop clicking.

## 5. Fairness

* A thread that can go on does (`WF` of `ThreadStep`, `ServerStep`,
  `WorkerStep`, `ClientStep`, `ReceiverStep`): they are threads of the
  operating system, and none waits for a lock.
* A handler of the dialog that has begun finishes (`WF` of `DialogStep` while
  assignments are left).  No fairness makes the user click.
* A posted message is handled in the end although clicks may always be
  pending (`SF` of `HandlePosted`): the Windows message loop takes posted
  messages before input.
* The box asks again when it is its turn (`WF` of `BoxRequest`, `ClientAsks`).
  Without it the blocking read waits for ever, as in the code; a connection may
  still be lost at any time, and nothing is assumed about when.
  `HandLoadedArrives` does without: it begins when a request is there.

The liveness properties exclude what really prevents progress: the process
ended, the user left batch mode, START was enabled by a mode box, or a write
wrote a part.

## 6. What is proved

Every safety invariant and every action property that a passing run checks is a
theorem, and so are the three refinements.  All theorems hold for any sets of
threads, sockets, connections, sessions, texts and message variables and any
bounds, under the named assumptions on the constants beside their declaration:
that the value for "no connection" is not one, that bounds and lengths are
natural numbers, that there is an image (`SizesAssumption` of `ImageExchange`),
that no frame is as long as what its length field counts to
(`FrameAssumption`), that a token is not 0 (`DataAssumption`), that the widest
window needs no more rows than there are (`WindowAssumption`), and that the
speed in the file has two decimals (`SpeedsAssumption`).

`ImageSender_proofs`:

* `TypeCorrect`: `Spec => []TypeOK`.
* `CompletionIsComplete`, `IndexIsSafe` (`CompletionCoversList`, `IndexInList`).
  The inductive invariant `WalkInv` says of each thread where in the list it is
  at each label: the images before the current one are in `sent` or `refused`,
  the current one is about to join them, the snapshot is at most the length of
  the list.  The invariant speaks of one thread alone, so steps of others
  (`OtherThreads`) leave it.
* `AtMostOneThread`, `StartIsEarned`, `RequestsAreIntact` (`OneThread`,
  `StartMeansCompleted`, `RequestIntact`).  The three hang together: that there
  is one thread follows from START being disabled, which follows from the
  report in the message queue being the only one and coming from a thread that
  is gone.  `StartInv` is the conjunction, guarded by `~reenabled`: `StartGuard`
  relates START, the reports in `posted` and the running threads, and
  `RequestGuard` the shared `socket_` and `data_buffer_` to the thread that uses
  them.  Neither is inductive without the other parts.
* `FlagsMatch` (`FlagsMatchCheckBoxes`).  The property speaks of moments at
  which no assignment is pending.  `FlagsInv` speaks of all: it says what each
  flag will be once the assignments left in `writes` are made (`WillBe`), which
  needs that a handler assigns each flag once.
* `SenderWalksItsList`: `Spec => WalksItsList`, any number of threads implement
  `SendingRun`.  A step of another thread, of the dialog or of the box maps to a
  stutter; the type invariant, `WalkInv` and a few facts on where a thread's
  place can be when it starts and moves back give the rest.

`LoadControl_proofs` has the lemmas about the dialog's actions that this and
`ImageServer_proofs` share.

`ImageServer_proofs`:

* `ServerTypeCorrect` (`TypeOK`).  Its strengthening `CountsOK` is that files
  are numbered from 1 and that a body was announced before it is read.
* `ConnectionsHaveThreads` (`OneThreadPerConnection`), with `AcceptedIsNew`: the
  connection in `accepted` has no thread yet.
* `AllButLastServed` (`ServedAllButLast`).  `ServeInv` says at each label which
  images of its snapshot a thread has written.
* `AloneInOrder` (`AloneSavedInOrder`).  `AloneInv` relates the stream of the one
  client, the number of images it has written, the shared buffer, `counter` and
  the files: at each label they belong to the same image.
* `ServerWalksItsList`: the threads implement `SendingRun` for the list without
  its last image.

`AcceptLoops_proofs`: `AcceptTypeCorrect`, and `OwnConnection`
(`ThreadHasItsConnection`): with a single START the member is, between
`accept` and the creation of the thread, the socket `accept` was called with,
and newer than that of any thread.

`ImageExchange_proofs`:

* `ExchangeTypeCorrect` (`ExchangeTypeOK`).  A client that reads a request or
  writes has loaded an image (`HasImage`); without that the size it announces
  is of none.
* `EndsStayInStep`, `SimulatorsStall` (`InStep`, `StalledForGood`).  Both follow
  from `StepInv`: as long as no write was cut short, the two ends together are in
  one of eight places (`InPlace`), each of which fixes what both wait for and what
  is in the stream between them: the receiver is about to ask, has asked, was
  turned down, is being answered, has a header before it, a header and pixels,
  has read the header, or has the pixels before it.  Neither end knows this of
  the other, and what one end knows is not inductive.  `SavedAsSent` relates the
  files to `sent`, and `AskedOnce` says that a simulator that was turned down
  stays so, since it asks once per image it is sent.

`DisplayMessages_proofs`:

* `DisplayTypeCorrect`, `TextsAreOwned` (`TypeOK`, `TextsHaveOneOwner`).  `OwnInv`
  adds that two threads never have the same text (`OwnText`), that a thread that
  shows has one (`HasText`) and has loaded an image (`HasImage`), and that whoever
  refers to a struct finds it filled (`Refers`).  The type invariant needs the
  second half: a message refers to no text that was deleted.
* `PicturesAreNotOlder` (`NeverOlder`).  `AgeInv` says it of every place a picture
  passes through: the thread that filled the struct, the message, the painter.
* `PatientUserIsSafe` (`AliveForPatientUser`).  `Calm` is what the patience of the
  user amounts to.  Once a flag is set, nothing is on its way and no thread
  has an image it has not shown (`Clicked`): only threads that have found the
  flag set can load one.  A picture that is on its way or being drawn is the
  last of a thread that is not about to load (`Safe`).  It holds until the user
  steps on before the last picture is on the screen, a batch is loaded, or a
  thread ends (`risky`).
* `EachPictureLosesAText` (`OneTextLostPerPicture`), by counting.  The texts that
  are allocated and those a thread has are finite sets (`LostInv`); each step
  changes one of the four numbers by one and another with it.

`Dialog_proofs`:

* `TextTypeCorrect`; `LatestLinesInOrder` (`LatestInOrder`), where the invariant
  adds that lines are in the rows the width allows and never below an empty one
  (`Packed`); the rows may begin with leftovers.
* `NewLinesAreDrawn` (`DrawnSoon`), an action property over many steps: `DrawnInv`
  bounds the line in each row from both sides (`LinedUp`).  A row is empty only if
  fewer lines were pushed than there are rows above it; otherwise its line is
  one of the latest, so a line not yet drawn moves up with every push.
* `SettingsTypeCorrect`; `TitleIsCamera` (`TitleTellsCamera`), from
  `TitleFollowsFile`, that the title was set by each handler that has changed the
  number; `PauseFits` (`PauseFitsSpeedShown`), from `ShownIsFile` and
  `UsedIsShown`.

`Camera_proofs`, sessions and their bytes:

* `TypeCorrect`: `Spec => []TypeOK`.
* `NoneIsLost` (`LostOnlyByError`).  `Attended` adds what the property leaves
  out: once the loop has begun no socket is ever closed between two handlers,
  and before, nothing is pending.  The first is why `connect_and_reconnect`
  inside one session's handler does not touch the others.
* `FramesFit` (`RoomForFrame`).  The code compares the buffer with the body
  alone and then reads the body behind the head.  `Fits` keeps where the size of
  the buffer came from: 8, or 8 more than some frame before.  With frames spaced
  by more than 8 bytes (`Spaced`) a buffer that holds a body without its head
  does not occur (`GrownFits`).  Without `Spaced` the read goes past the buffer.
* `BytesLikeSession` (`ReceivesLikeSession`): what `findLeadCode`, `nextLoad` and
  `load` do to bytes is a step of `CameraSession` on their number or a stutter.
  `ReceptionInv` keeps that, while a body is awaited, the buffer begins with
  the head that announced it (`BodyAwaited`): that is what makes `load` find the
  frame when its body is there.  `NoWrap` is the arithmetic on the length field.

`Camera_proofs`, messages: `MessageTypeCorrect`, `MessagesReadBack` and
`MessagesStayInside` (`MessageTypeOK`, `ReadsBack`, `StaysInside`), for any calls
of the class on any number of variables.  `MessageInv` is one statement about
every variable and `StaysInside`: the bytes agree with the fields put into them
(`Agree`), which is that they have their shape (`Shape`) and, if the checksum
was updated since the last change, that it is that of the bytes and the length
fits the data (`Checked`).  `Shape` gives the place of every word, from which
follows where a reader or a checksum lands (`AgreeReads`, `AgreeCrc`): outside
the bytes only with a length that counts more than there is.  `ReadsBack` alone
is not inductive: that `load` takes exactly the bytes of the message needs their
number.  Nothing is said of a variable for which `put` is `None` but the bound on
its bytes; `StaysInside` names such a variable as one of the two causes.

Only model-checked: the four liveness properties (`BatchEnds`,
`CompletionReported`, `ServedToTheEnd`, `HandLoadedArrives`), since the prover has
neither rules for fairness over actions with parameters nor `ENABLED`.  The
properties of the runs `requests_turned_down`, `server_ends`, `passed_over` and
`mixed_frames` are false of the code, so there is nothing to prove.  No theorem
is about what a recursive definition computes.

## 7. Findings

* A client that connects while the server hands another connection to its
  thread is reset: the acceptor lives for one round of the loop
  (`communicator.cpp:381`, run `requests_turned_down`).
* A client that goes away ends the server: no server thread catches what asio
  throws (`communicator.cpp:562`, run `server_ends`).
* A connect that failed is not tried again: `connect_and_reconnect` tests
  `is_open()`, and the failed call left the socket open
  (`DataSimulatorDlg.cpp:536`, run `passed_over`).
* After a connection broke inside a frame the next connection's first bytes
  are taken for the rest of it: the receive state is not reset
  (`VCameraSession.h:289`, run `mixed_frames`).

What else the models show.  These are conditions in properties that hold, for
no line of the repository says otherwise; the name in brackets is the condition
or the property.

* The mode boxes enable START behind a running thread (`reenabled`), and a lost
  connection leaves START disabled (`StartMeansCompleted`).
* The server never sends its last image (`ServedAllButLast`), and two clients
  that send overwrite each other's files (`AloneSavedInOrder`).
* With two STARTs a server thread may get another thread's socket, or one that
  is not connected (`starts <= 1` in `ThreadHasItsConnection`).
* Once an image of a batch has been turned down, two simulators wait for each
  other for good (`StalledForGood`).  After a partial write nothing is in step
  (`~short` in `InStep`).
* A message that was copied has no head, and reading a copy or a moved message
  goes outside its bytes (`put[m] = None` in `StaysInside`).
  `VCameraFrame.cpp:217` is where a frame does so.
* `setLength` moves the place of the checksum and nothing else: `updateCrc`, which
  it calls unless told not to, computes the checksum to the end of the bytes
  but writes it where the new length says (`VCameraMessage.cpp:281-282`), over a
  word of data or outside the string, so that `checkCrc` fails or memory of others
  is written (`Fitting` in `ReadsBack`, the length in `StaysInside`).  The class
  has no call that changes the length and keeps the message whole but `setData`.
* A length field near 2^32 wraps in `nextLoad`, and the body is written past the
  buffer; `Most + 12 < Modulus` keeps such fields out of the model.
* Pixels are drawn after they were freed in a batch, after a hasty step, or when
  a thread ends (`risky`); each picture shown loses one text
  (`OneTextLostPerPicture`).
* The speed in the file is shown, but not used until one has been confirmed in
  the dialog (`confirmed`); one typed as 0 or below 0.005 is shown as 0.00 and
  makes the pause anything up to weeks (`shownSpeed > 0`).
* A window of 7160 pixels or more would need more rows of text than there are
  (`WindowAssumption`).

## 8. What is not modelled

* The classification pipeline (`main.cpp`, `execute.cpp`, `classify.cpp`).  The
  project file does not build it, `execute.cpp:96-99` reads members
  `VCameraMessage` does not have, and its input `frame_queue_` is never
  allocated (`communicator.cpp:88`): there is no behaviour to be faithful to.
  `rw_ini` is used there only, and `ParameterSetting` is a record nobody reads.
* Result packing: `setFrameResult`, its one user, is not called.
* `VCameraMessageTrans`' own functions are stubs; its fields are in
  `ImageExchange`.  `VCameraMessagePrivate` repeats `VCameraMessage` on a string
  nothing reads.  `VCameraFrame` reads fields at fixed places.  Bytes of a
  `VCameraMessage` are taken four at a time: data of a length that is no multiple
  of four, and a length field between two words, are left out, and a beginning
  is taken for a lead code only if all of it is one (`FrameReception` has the match of
  a single byte).  `CameraMessage` does not tell apart the checksums of bytes
  that hold a checksum, of which it claims nothing, and `setCrc` is called with a
  number that is not the checksum.  The private constructor of `VCameraMessage`
  is called by nobody.
* In `DisplayMessages`, which image of the list a step loads, and the wrong index of
  PREVIOUS, which are in `ImageSender`.
* The older `tcp_connect_thread` (`communicator.cpp:678-896`), which nothing
  calls; `asyncSend` and `asyncTask`, which nothing starts; the file
  `processMessage` writes.
* The addresses and ports of the settings, which take the way of the camera's
  number and are used by nothing the models contain; an address the accept loop
  refuses, which changes nothing.
* The contents of images, so also what `cv::resize` throws for an image that
  could not be read.
* Windows, layout and drawing; the generated `label.pb` files and the vendored
  asio, which are most of the repository's lines, and whose calls are modelled
  by their effect; `socket.cpp`, which no file uses and which cannot be built
  for want of `../CLog.h`.

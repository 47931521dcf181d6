---------------------------- MODULE FramePipeline ----------------------------
(***************************************************************************)
(* The running camera application of code/2_ov5640摄像头: every frame buffer*)
(* of the V4L2 driver has a converter thread of its own (ProcessingImages), *)
(* one thread dequeues filled buffers and wakes their converters           *)
(* (cameraFun.c thread_fun), and one thread copies converted pictures to    *)
(* the screen (drmFun.c thread_fun).  They meet in the driver's buffer      *)
(* states, one POSIX semaphore per buffer, one RGB picture per buffer and   *)
(* one System V message queue; no lock protects any of them.                *)
(*                                                                         *)
(* A picture is abstracted to the numbers of the frames its upper and lower *)
(* half come from, so every copy takes two steps and a copy that overlaps a *)
(* writer mixes two frames.  Number 0 is what malloc or mmap left there.    *)
(*                                                                         *)
(* Init is the state right after camera_thread() has returned 0.            *)
(***************************************************************************)
EXTENDS Integers, Sequences

CONSTANTS
  N,         \* camera->uCount: buffers, and converter threads (4 in the code)
  QMax,      \* messages the System V queue holds before msgsnd blocks
  MaxFrame,  \* bound: frames the camera delivers
  Faults     \* the system calls that may fail, out of FaultKinds

FaultKinds == {"create", "dqbuf", "send", "qbuf"}

ASSUME PipelineAssumption ==
  /\ N \in Nat \ {0}
  /\ QMax \in Nat \ {0}
  /\ MaxFrame \in Nat
  /\ Faults \subseteq FaultKinds

Buf == 0 .. N - 1
Worker == 1 .. N
Frame == 0 .. MaxFrame
Picture == [top : Frame, bot : Frame]
Message == [num : Buf, seq : Frame]
Blank == [top |-> 0, bot |-> 0]

VARIABLES
  vb,      \* driver state of each buffer: queued, active (DMA), done, dequeued
  doneQ,   \* the driver's FIFO of filled buffers
  yuv,     \* the mapped buffers, camera->pBuffers[k].pStart
  frame,   \* number of the last frame the camera began to store
  disp,    \* thread_fun of cameraFun.c: create, poll, post, dead
  next,    \*   its loop variable i
  held,    \*   its tV4l2Buf.index
  tid,     \* camera->tid[1 .. uCount]; 0 before pthread_create stored an id
  wpc,     \* converter threads: none, start, wait, convTop .. qbuf, dead
  who,     \*   their local variable who
  sem,     \* camera->sem
  rgb,     \* camera->rgbdata
  mq,      \* the message queue; seq is history: the frame num announced
  lcd,     \* thread_fun of drmFun.c: off, recv, copyTop, copyBot
  msg,     \*   the message it received last
  shown    \* what its last copy put into the frame buffer kms.fb_map

driverVars == <<vb, doneQ, yuv, frame>>
dispVars == <<disp, next, held, tid>>
lcdVars == <<lcd, msg, shown>>
vars == <<driverVars, dispVars, wpc, who, sem, rgb, mq, lcdVars>>

Init ==
  /\ vb = [k \in Buf |-> "queued"]
  /\ doneQ = <<>>
  /\ yuv = [k \in Buf |-> Blank]
  /\ frame = 0
  /\ disp = "create" /\ next = 1 /\ held = 0
  /\ tid = [i \in Worker |-> 0]
  /\ wpc = [w \in Worker |-> "none"]
  /\ who = [w \in Worker |-> 0]
  /\ sem = [k \in Buf |-> 0]
  /\ rgb = [k \in Buf |-> Blank]
  /\ mq = <<>>
  /\ lcd = "off" /\ msg = [num |-> 0, seq |-> 0] /\ shown = Blank

-----------------------------------------------------------------------------
(* The V4L2 driver and the camera's DMA engine (external).                 *)

\* The DMA engine begins to store frame f in a queued buffer, one at a time.
BeginFill(k, f) ==
  /\ vb[k] = "queued"
  /\ \A j \in Buf : vb[j] # "active"
  /\ vb' = [vb EXCEPT ![k] = "active"]
  /\ yuv' = [yuv EXCEPT ![k].top = f]
  /\ frame' = f
  /\ UNCHANGED <<doneQ, dispVars, wpc, who, sem, rgb, mq, lcdVars>>

StartCapture(k) == frame < MaxFrame /\ BeginFill(k, frame + 1)

EndCapture(k) ==
  /\ vb[k] = "active"
  /\ vb' = [vb EXCEPT ![k] = "done"]
  /\ yuv' = [yuv EXCEPT ![k].bot = yuv[k].top]
  /\ doneQ' = Append(doneQ, k)
  /\ UNCHANGED <<frame, dispVars, wpc, who, sem, rgb, mq, lcdVars>>

-----------------------------------------------------------------------------
(* thread_fun of cameraFun.c: create the converters, then hand out buffers. *)

\* Mutant: the id of a converter is stored only when the loop goes on.
CreateWorkerLateId ==
  /\ disp = "create"
  /\ tid' = [i \in Worker |-> IF i < next THEN i ELSE 0]
  /\ wpc' = [wpc EXCEPT ![next] = "start"]
  /\ next' = next + 1
  /\ disp' = IF next = N THEN "poll" ELSE "create"
  /\ UNCHANGED <<driverVars, held, who, sem, rgb, mq, lcdVars>>

\* pthread_create stores the id before the thread starts (glibc's order).
CreateWorker ==
  /\ disp = "create"
  /\ tid' = [tid EXCEPT ![next] = next]
  /\ wpc' = [wpc EXCEPT ![next] = "start"]
  /\ next' = next + 1
  /\ disp' = IF next = N THEN "poll" ELSE "create"
  /\ UNCHANGED <<driverVars, held, who, sem, rgb, mq, lcdVars>>

\* pthread_create failed: the thread returns, the converters it made stay.
CreateFails ==
  /\ "create" \in Faults
  /\ disp = "create"
  /\ disp' = "dead"
  /\ UNCHANGED <<driverVars, next, held, tid, wpc, who, sem, rgb, mq, lcdVars>>

\* poll() reported POLLIN and VIDIOC_DQBUF returned the oldest filled buffer.
Dequeue ==
  /\ disp = "poll"
  /\ doneQ # <<>>
  /\ held' = Head(doneQ)
  /\ doneQ' = Tail(doneQ)
  /\ vb' = [vb EXCEPT ![Head(doneQ)] = "dequeued"]
  /\ disp' = "post"
  /\ UNCHANGED <<yuv, frame, next, tid, wpc, who, sem, rgb, mq, lcdVars>>

DequeueFails ==
  /\ "dqbuf" \in Faults
  /\ disp = "poll"
  /\ doneQ # <<>>
  /\ disp' = "dead"
  /\ UNCHANGED <<driverVars, next, held, tid, wpc, who, sem, rgb, mq, lcdVars>>

\* Mutant: the semaphore of another buffer is posted.
PostWrong ==
  /\ disp = "post"
  /\ sem' = [sem EXCEPT ![(held + 1) % N] = @ + 1]
  /\ disp' = "poll"
  /\ UNCHANGED <<driverVars, next, held, tid, wpc, who, rgb, mq, lcdVars>>

Post ==
  /\ disp = "post"
  /\ sem' = [sem EXCEPT ![held] = @ + 1]
  /\ disp' = "poll"
  /\ UNCHANGED <<driverVars, next, held, tid, wpc, who, rgb, mq, lcdVars>>

-----------------------------------------------------------------------------
(* ProcessingImages: the converter threads.                                *)

Slot(w) == who[w] - 1
Step(w, from, to) == wpc[w] = from /\ wpc' = [wpc EXCEPT ![w] = to]

\* The converter looks its own id up in tid[]; who stays 0 if it is not there.
SelfIndex(w) ==
  LET mine == {i \in Worker : tid[i] = w}
  IN  IF mine = {} THEN 0 ELSE CHOOSE i \in mine : \A j \in mine : i <= j

FindSelf(w) ==
  /\ Step(w, "start", "wait")
  /\ who' = [who EXCEPT ![w] = SelfIndex(w)]
  /\ UNCHANGED <<driverVars, dispVars, sem, rgb, mq, lcdVars>>

\* Mutant: the semaphore is tested and never taken.
TakeWithoutCount(w) ==
  /\ Step(w, "wait", "convTop")
  /\ sem[Slot(w)] > 0
  /\ UNCHANGED <<driverVars, dispVars, who, sem, rgb, mq, lcdVars>>

\* Mutant: the buffer goes back to the driver before it is converted.
TakeRequeuesFirst(w) ==
  /\ Step(w, "wait", "convTop")
  /\ sem[Slot(w)] > 0
  /\ sem' = [sem EXCEPT ![Slot(w)] = @ - 1]
  /\ vb' = [vb EXCEPT ![Slot(w)] = "queued"]
  /\ UNCHANGED <<doneQ, yuv, frame, dispVars, who, rgb, mq, lcdVars>>

\* Mutant: the picture is also announced before it is converted.
TakeAnnounces(w) ==
  /\ Step(w, "wait", "convTop")
  /\ sem[Slot(w)] > 0
  /\ Len(mq) < QMax
  /\ sem' = [sem EXCEPT ![Slot(w)] = @ - 1]
  /\ mq' = Append(mq, [num |-> Slot(w), seq |-> rgb[Slot(w)].bot])
  /\ UNCHANGED <<driverVars, dispVars, who, rgb, lcdVars>>

\* sem_wait(&camera->sem[who-1])
Take(w) ==
  /\ Step(w, "wait", "convTop")
  /\ sem[Slot(w)] > 0
  /\ sem' = [sem EXCEPT ![Slot(w)] = @ - 1]
  /\ UNCHANGED <<driverVars, dispVars, who, rgb, mq, lcdVars>>

\* Mutant: the loop ends at width * height, half of the bytes of a frame.
ConvertTopOnly(w) ==
  /\ Step(w, "convTop", "send")
  /\ rgb' = [rgb EXCEPT ![Slot(w)].top = yuv[Slot(w)].top]
  /\ UNCHANGED <<driverVars, dispVars, who, sem, mq, lcdVars>>

\* Mutant: the converters share one picture.
ConvertTopShared(w) ==
  /\ Step(w, "convTop", "convBot")
  /\ rgb' = [rgb EXCEPT ![0].top = yuv[Slot(w)].top]
  /\ UNCHANGED <<driverVars, dispVars, who, sem, mq, lcdVars>>

\* convert_yuv_to_rgb565_buffer, upper half and lower half.
ConvertTop(w) ==
  /\ Step(w, "convTop", "convBot")
  /\ rgb' = [rgb EXCEPT ![Slot(w)].top = yuv[Slot(w)].top]
  /\ UNCHANGED <<driverVars, dispVars, who, sem, mq, lcdVars>>

ConvertBottom(w) ==
  /\ Step(w, "convBot", "send")
  /\ rgb' = [rgb EXCEPT ![Slot(w)].bot = yuv[Slot(w)].bot]
  /\ UNCHANGED <<driverVars, dispVars, who, sem, mq, lcdVars>>

\* Mutant: msgsnd is retried after it has already delivered the message.
SendTwice(w) ==
  /\ wpc[w] = "send"
  /\ Len(mq) < QMax
  /\ mq' = Append(mq, [num |-> Slot(w), seq |-> rgb[Slot(w)].bot])
  /\ \E to \in {"send", "qbuf"} : wpc' = [wpc EXCEPT ![w] = to]
  /\ UNCHANGED <<driverVars, dispVars, who, sem, rgb, lcdVars>>

\* Mutant: the message carries who, not who - 1.
SendWho(w) ==
  /\ Step(w, "send", "qbuf")
  /\ Len(mq) < QMax
  /\ mq' = Append(mq, [num |-> who[w] % N, seq |-> rgb[Slot(w)].bot])
  /\ UNCHANGED <<driverVars, dispVars, who, sem, rgb, lcdVars>>

\* sendMsgQueue(msg_id, 1234, who-1): msgsnd blocks while the queue is full.
Send(w) ==
  /\ Step(w, "send", "qbuf")
  /\ Len(mq) < QMax
  /\ mq' = Append(mq, [num |-> Slot(w), seq |-> rgb[Slot(w)].bot])
  /\ UNCHANGED <<driverVars, dispVars, who, sem, rgb, lcdVars>>

\* Mutant: the converter waits for the next frame and skips VIDIOC_QBUF.
SendFailsSkips(w) ==
  /\ "send" \in Faults
  /\ Step(w, "send", "wait")
  /\ UNCHANGED <<driverVars, dispVars, who, sem, rgb, mq, lcdVars>>

\* msgsnd failed: sendMsgQueue returns -1 and the converter ignores it.
SendFails(w) ==
  /\ "send" \in Faults
  /\ Step(w, "send", "qbuf")
  /\ UNCHANGED <<driverVars, dispVars, who, sem, rgb, mq, lcdVars>>

\* VIDIOC_QBUF; the driver accepts only a buffer that is dequeued.
Requeue(w) ==
  /\ Step(w, "qbuf", "wait")
  /\ vb[Slot(w)] = "dequeued"
  /\ vb' = [vb EXCEPT ![Slot(w)] = "queued"]
  /\ UNCHANGED <<doneQ, yuv, frame, dispVars, who, sem, rgb, mq, lcdVars>>

\* Mutant: the error is printed and the loop goes on.
RequeueFailsGoesOn(w) ==
  /\ Step(w, "qbuf", "wait")
  /\ "qbuf" \in Faults \/ vb[Slot(w)] # "dequeued"
  /\ UNCHANGED <<driverVars, dispVars, who, sem, rgb, mq, lcdVars>>

\* VIDIOC_QBUF failed: the converter returns and its buffer stays dequeued.
RequeueFails(w) ==
  /\ Step(w, "qbuf", "dead")
  /\ "qbuf" \in Faults \/ vb[Slot(w)] # "dequeued"
  /\ UNCHANGED <<driverVars, dispVars, who, sem, rgb, mq, lcdVars>>

-----------------------------------------------------------------------------
(* drm_thread() and thread_fun of drmFun.c: the display.                   *)

StartLcd ==
  /\ lcd = "off"
  /\ lcd' = "recv"
  /\ UNCHANGED <<driverVars, dispVars, wpc, who, sem, rgb, mq, msg, shown>>

\* Mutant: to keep up, an announcement is dropped when another one waits.
ReceiveDropsOne ==
  /\ lcd = "recv"
  /\ mq # <<>>
  /\ LET n == IF Len(mq) > 1 THEN 2 ELSE 1
     IN  msg' = mq[n] /\ mq' = SubSeq(mq, n + 1, Len(mq))
  /\ lcd' = "copyTop"
  /\ UNCHANGED <<driverVars, dispVars, wpc, who, sem, rgb, shown>>

\* recvMsgQueue(camera.msg_id, 1234)
Receive ==
  /\ lcd = "recv"
  /\ mq # <<>>
  /\ msg' = Head(mq)
  /\ mq' = Tail(mq)
  /\ lcd' = "copyTop"
  /\ UNCHANGED <<driverVars, dispVars, wpc, who, sem, rgb, shown>>

\* lcd_show_camear(camera.rgbdata[who], ..), upper half and lower half.
CopyTop ==
  /\ lcd = "copyTop"
  /\ shown' = [shown EXCEPT !.top = rgb[msg.num].top]
  /\ lcd' = "copyBot"
  /\ UNCHANGED <<driverVars, dispVars, wpc, who, sem, rgb, mq, msg>>

\* Mutant: the loop ends after half of the lines.
CopyBottomSkipped ==
  /\ lcd = "copyBot"
  /\ lcd' = "recv"
  /\ UNCHANGED <<driverVars, dispVars, wpc, who, sem, rgb, mq, msg, shown>>

CopyBottom ==
  /\ lcd = "copyBot"
  /\ shown' = [shown EXCEPT !.bot = rgb[msg.num].bot]
  /\ lcd' = "recv"
  /\ UNCHANGED <<driverVars, dispVars, wpc, who, sem, rgb, mq, msg>>

-----------------------------------------------------------------------------

Camera == \E k \in Buf : StartCapture(k) \/ EndCapture(k)

Dispatcher == CreateWorker \/ CreateFails \/ Dequeue \/ DequeueFails \/ Post

Converter(w) ==
  \/ FindSelf(w) \/ Take(w) \/ ConvertTop(w) \/ ConvertBottom(w)
  \/ Send(w) \/ SendFails(w) \/ Requeue(w) \/ RequeueFails(w)

Display == StartLcd \/ Receive \/ CopyTop \/ CopyBottom

Next ==
  Camera \/ Dispatcher \/ (\E w \in Worker : Converter(w)) \/ Display

Spec == Init /\ [][Next]_vars

-----------------------------------------------------------------------------
(* Properties.                                                             *)

DispStage == {"create", "poll", "post", "dead"}
WorkerStage == {"none", "start", "wait", "convTop", "convBot", "send", "qbuf",
                "dead"}
LcdStage == {"off", "recv", "copyTop", "copyBot"}

\* The type invariant.  sem <= 1 and who <= N are claims about the code.
TypeOK ==
  /\ vb \in [Buf -> {"queued", "active", "done", "dequeued"}]
  /\ doneQ \in Seq(Buf)
  /\ yuv \in [Buf -> Picture]
  /\ frame \in Frame
  /\ disp \in DispStage
  /\ next \in 1 .. N + 1
  /\ held \in Buf
  /\ tid \in [Worker -> 0 .. N]
  /\ wpc \in [Worker -> WorkerStage]
  /\ who \in [Worker -> 0 .. N]
  /\ sem \in [Buf -> 0 .. 1]
  /\ rgb \in [Buf -> Picture]
  /\ mq \in Seq(Message)
  /\ lcd \in LcdStage
  /\ msg \in Message
  /\ shown \in Picture

Converting(w) == wpc[w] \in {"convTop", "convBot"}

\* Converter w has taken buffer k and not given it back; a converter that
\* died on a failed VIDIOC_QBUF keeps its buffer for ever.
Owns(w, k) ==
  /\ wpc[w] \in {"convTop", "convBot", "send", "qbuf", "dead"}
  /\ who[w] = k + 1

\* Every buffer the driver has handed out is in exactly one place: with the
\* dispatcher between VIDIOC_DQBUF and sem_post, counted by its semaphore, or
\* with one converter.  No buffer the driver may write is in any of them.
OneHolder ==
  \A k \in Buf :
    LET inDispatcher == disp = "post" /\ held = k
        inSemaphore == sem[k] = 1
        inConverter == \E w \in Worker : Owns(w, k)
    IN  /\ vb[k] = "dequeued" <=> inDispatcher \/ inSemaphore \/ inConverter
        /\ ~ (inDispatcher /\ inSemaphore)
        /\ ~ (inDispatcher /\ inConverter)
        /\ ~ (inSemaphore /\ inConverter)
        /\ \A v, w \in Worker : Owns(v, k) /\ Owns(w, k) => v = w

\* A converter that reached its loop found itself in tid[], so who - 1 is the
\* index of its own semaphore, buffer and picture (cameraFun.c:343-351 reads
\* tid[] while the creating thread is still filling it).
WorkerKnowsItself ==
  \A w \in Worker : wpc[w] \notin {"none", "start"} => who[w] = w

\* What a converter announces is one whole frame: no half of the picture is
\* from another frame than the buffer it was given.
NoMixedFrame ==
  \A w \in Worker :
    wpc[w] \in {"send", "qbuf"} =>
      /\ rgb[Slot(w)] = yuv[Slot(w)]
      /\ rgb[Slot(w)].top = rgb[Slot(w)].bot
      /\ rgb[Slot(w)].top > 0

\* Announcements of one buffer are waiting in the order of their frames, and
\* none of them is older than, or the same as, the one on its way to the screen.
AnnouncedInOrder ==
  /\ \A i, j \in 1 .. Len(mq) :
       i < j /\ mq[i].num = mq[j].num => mq[i].seq < mq[j].seq
  /\ \A i \in 1 .. Len(mq) :
       mq[i].num = msg.num => msg.seq < mq[i].seq

\* The display may show a newer frame than the one announced, even halves of
\* two newer frames, but no half that is older than the announced frame.
ShownNotOlder ==
  /\ lcd \in {"copyBot", "recv"} => shown.top >= msg.seq
  /\ lcd = "recv" => shown.bot >= msg.seq

\* Halves of two frames are on the screen only if the picture was written while
\* it was copied or since: as long as it is still the announced frame, what the
\* display made of it is that frame.
WholeUnlessOverwritten ==
  lcd = "recv" /\ rgb[msg.num] = [top |-> msg.seq, bot |-> msg.seq] =>
    shown = rgb[msg.num]

DispatcherWaits == disp = "poll" /\ doneQ = <<>>
ConverterWaits(w) ==
  \/ wpc[w] = "wait" /\ sem[Slot(w)] = 0
  \/ wpc[w] = "send" /\ Len(mq) = QMax
DisplayWaits == lcd = "recv" /\ mq = <<>>

\* The threads never all wait for each other: when each of them waits, in poll(),
\* sem_wait(), msgsnd() or msgrcv(), it is for the camera, and the camera has the
\* buffer of every converter that has not died.
NoCircularWait ==
  /\ DispatcherWaits /\ DisplayWaits
  /\ \A w \in Worker : wpc[w] # "dead" => ConverterWaits(w)
  => \A w \in Worker : wpc[w] # "dead" => vb[Slot(w)] \in {"queued", "active"}

\* The camera never overwrites a buffer while its converter reads it.
BusyBufferStable ==
  [][\A w \in Worker : Converting(w) => yuv'[Slot(w)] = yuv[Slot(w)]]_vars

\* The picture of a buffer never goes back to an older frame, in either half.
PicturesAdvance ==
  [][\A k \in Buf : rgb'[k].top >= rgb[k].top /\ rgb'[k].bot >= rgb[k].bot]_vars

-----------------------------------------------------------------------------
(* The inductive invariant: why the safety properties hold.  Converter w is *)
(* the only thread that touches picture w - 1, and it holds buffer w - 1 in *)
(* the stages Busy.                                                         *)

Busy == {"convTop", "convBot", "send", "qbuf", "dead"}

\* Ids are stored before the threads run; the rest are still to be created.
Created ==
  /\ \A w \in Worker : tid[w] = IF wpc[w] = "none" THEN 0 ELSE w
  /\ disp = "create" => next <= N /\ \A w \in next .. N : wpc[w] = "none"

\* OneHolder without the detour over who.
HeldOnce(k) ==
  /\ vb[k] = "dequeued" <=>
       (disp = "post" /\ held = k) \/ sem[k] = 1 \/ wpc[k + 1] \in Busy
  /\ disp = "post" /\ held = k => sem[k] = 0 /\ wpc[k + 1] \notin Busy
  /\ sem[k] = 1 => wpc[k + 1] \notin Busy

Holding == \A k \in Buf : HeldOnce(k)

\* The FIFO of filled buffers has each of them once and nothing else in it.
DoneQueue ==
  /\ \A i \in 1 .. Len(doneQ) : vb[doneQ[i]] = "done"
  /\ \A k \in Buf : vb[k] = "done" => \E i \in 1 .. Len(doneQ) : doneQ[i] = k
  /\ \A i, j \in 1 .. Len(doneQ) : doneQ[i] = doneQ[j] => i = j

\* A filled buffer is one frame.
Whole(k) == yuv[k].top = yuv[k].bot /\ yuv[k].top > 0

\* The picture of buffer k is still the one of an earlier frame.
Behind(k) == rgb[k].top < yuv[k].top /\ rgb[k].bot < yuv[k].top

\* How far the picture of a buffer is, by the buffer's way through the system.
PictureOf(k) ==
  /\ yuv[k].top <= frame /\ rgb[k].top <= frame /\ rgb[k].bot <= frame
  /\ vb[k] \in {"done", "dequeued"} => Whole(k)
  /\ vb[k] \in {"active", "done"} => Behind(k)
  /\ vb[k] = "dequeued" /\ wpc[k + 1] \notin Busy \ {"convTop"} => Behind(k)
  /\ wpc[k + 1] = "convBot" =>
       rgb[k].top = yuv[k].top /\ rgb[k].bot < yuv[k].top
  /\ wpc[k + 1] \in {"send", "qbuf", "dead"} => rgb[k] = yuv[k]

Contents == \A k \in Buf : PictureOf(k)

DistinctFrames ==
  \A j, k \in Buf : yuv[j].top = yuv[k].top /\ yuv[k].top > 0 => j = k

\* Picture m.num is not older than message m, and newer when the converter
\* is about to announce it again.
Backed(m) ==
  /\ m.seq <= rgb[m.num].top /\ m.seq <= rgb[m.num].bot
  /\ wpc[m.num + 1] = "send" => m.seq < rgb[m.num].bot

Announced ==
  /\ \A i \in 1 .. Len(mq) : Backed(mq[i]) /\ mq[i].seq > 0
  /\ Backed(msg)
  /\ lcd = "off" => msg.seq = 0

\* The screen has nothing that the picture did not hold before.
ShownNotNewer ==
  /\ lcd = "off" => shown = Blank
  /\ lcd \in {"copyBot", "recv"} => shown.top <= rgb[msg.num].top
  /\ lcd = "recv" => shown.bot <= rgb[msg.num].bot

\* The part that says nothing of announcements, so it also holds after a
\* restart that finds old ones (CameraApp).
BufferInv ==
  /\ TypeOK
  /\ WorkerKnowsItself
  /\ Created
  /\ Holding
  /\ DoneQueue
  /\ Contents
  /\ DistinctFrames

IInv ==
  /\ BufferInv
  /\ Announced
  /\ AnnouncedInOrder
  /\ ShownNotOlder
  /\ ShownNotNewer

-----------------------------------------------------------------------------
(* The refinement mapping to FrameRelay.  A slot counts as converted when   *)
(* its lower half is written, an announcement as painted when the lower     *)
(* half is on the screen.                                                   *)

Unconverted(k) ==
  \/ vb[k] \in {"active", "done"}
  \/ vb[k] = "dequeued" /\ wpc[k + 1] \notin {"send", "qbuf", "dead"}

Painting == lcd \in {"copyTop", "copyBot"}

Relay == INSTANCE FrameRelay WITH
  Slots <- Buf,
  Depth <- QMax + 1,
  captured <- frame,
  waiting <- {yuv[k].top : k \in {j \in Buf : Unconverted(j)}},
  slot <- [k \in Buf |-> rgb[k].bot],
  fresh <- {k \in Buf : wpc[k + 1] = "send"},
  pending <- IF Painting THEN <<msg>> \o mq ELSE mq,
  half <- lcd = "copyBot",
  screen <- shown

\* The application implements FrameRelay: no frame is converted or announced
\* twice, none is lost before its conversion, and the screen keeps the order
\* of the announcements.
RelaySpec == Relay!Spec

=============================================================================

------------------------------- MODULE CameraApp -----------------------------
(***************************************************************************)
(* The life of the camera program around FramePipeline: main() of           *)
(* code/2_ov5640摄像头/main.c sets the camera up, starts its threads, sets   *)
(* the display up, starts its thread and waits.  The threads loop for ever, *)
(* so the program normally ends by a signal; the System V message queue     *)
(* outlives the process, everything else is new at the next start.          *)
(***************************************************************************)
EXTENDS FramePipeline

CONSTANTS
  MaxBoots,   \* bound: times the program is started
  MainFaults  \* steps of main() that may fail, out of MainFaultKinds

MainFaultKinds == {"open", "v4l2", "stream", "thread", "drm", "lcd"}

ASSUME AppAssumption ==
  /\ MaxBoots \in Nat \ {0}
  /\ MainFaults \subseteq MainFaultKinds

VARIABLES
  main,      \* where main() is
  running,   \* VIDIOC_STREAMON was called: the camera and the threads run
  freed,     \* free_v4l2_memory() was called
  boots,     \* how often the program was started
  bootFrame  \* history: the last frame before this start

appVars == <<main, running, freed, boots, bootFrame>>
allVars == <<vars, appVars>>

MainStage == {"open", "v4l2", "camera", "drm", "lcdThread", "join0", "join1",
              "joinLcd", "free", "close", "exited"}

AppInit ==
  /\ Init
  /\ main = "open" /\ running = FALSE /\ freed = FALSE
  /\ boots = 1 /\ bootFrame = 0

-----------------------------------------------------------------------------
(* main().                                                                 *)

MainStep(from, to) == main = from /\ main' = to

\* The threads, their memory and the mapped buffers go with the process; the
\* next one finds the devices closed and everything but the message queue new.
ProcessEnds ==
  /\ vb' = [k \in Buf |-> "queued"] /\ doneQ' = <<>> /\ yuv' = [k \in Buf |-> Blank]
  /\ disp' = "create" /\ next' = 1 /\ held' = 0 /\ tid' = [i \in Worker |-> 0]
  /\ wpc' = [w \in Worker |-> "none"] /\ who' = [w \in Worker |-> 0]
  /\ sem' = [k \in Buf |-> 0] /\ rgb' = [k \in Buf |-> Blank]
  /\ lcd' = "off" /\ msg' = [num |-> 0, seq |-> 0] /\ shown' = Blank
  /\ running' = FALSE /\ freed' = FALSE
  /\ UNCHANGED <<frame, mq, boots, bootFrame>>

\* camera_open and v4l2_init; CameraSetup has what happens inside them.
CameraOpen == MainStep("open", "v4l2") /\ UNCHANGED <<vars, running, freed, boots, bootFrame>>
V4l2Init == MainStep("v4l2", "camera") /\ UNCHANGED <<vars, running, freed, boots, bootFrame>>

CameraOpenFails ==
  /\ "open" \in MainFaults
  /\ MainStep("open", "exited")
  /\ UNCHANGED <<vars, running, freed, boots, bootFrame>>

V4l2InitFails ==
  /\ "v4l2" \in MainFaults
  /\ MainStep("v4l2", "free")
  /\ UNCHANGED <<vars, running, freed, boots, bootFrame>>

\* camera_thread(): stream on, then create the dispatcher.
CameraThread ==
  /\ MainStep("camera", "drm")
  /\ running' = TRUE
  /\ UNCHANGED <<vars, freed, boots, bootFrame>>

StreamOnFails ==
  /\ "stream" \in MainFaults
  /\ MainStep("camera", "free")
  /\ UNCHANGED <<vars, running, freed, boots, bootFrame>>

\* The camera streams, but there is no dispatcher.
CreateDispatcherFails ==
  /\ "thread" \in MainFaults
  /\ MainStep("camera", "free")
  /\ running' = TRUE
  /\ disp' = "dead"
  /\ UNCHANGED <<driverVars, next, held, tid, wpc, who, sem, rgb, mq, lcdVars,
                 freed, boots, bootFrame>>

\* drm_Open and drm_init; DrmSetup has what happens inside them.
DrmSetup == MainStep("drm", "lcdThread") /\ UNCHANGED <<vars, running, freed, boots, bootFrame>>

\* The threads of the camera go on while main() leaves.
DrmSetupFails ==
  /\ "drm" \in MainFaults
  /\ MainStep("drm", "free")
  /\ UNCHANGED <<vars, running, freed, boots, bootFrame>>

DrmThread ==
  /\ MainStep("lcdThread", "join0")
  /\ StartLcd
  /\ UNCHANGED <<running, freed, boots, bootFrame>>

DrmThreadFails ==
  /\ "lcd" \in MainFaults
  /\ MainStep("lcdThread", "free")
  /\ UNCHANGED <<vars, running, freed, boots, bootFrame>>

\* Mutant: the joins after the first are missing.
JoinDispatcherOnly ==
  /\ MainStep("join0", "free")
  /\ disp = "dead"
  /\ UNCHANGED <<vars, running, freed, boots, bootFrame>>

\* pthread_join(camera.tid[0])
JoinDispatcher ==
  /\ MainStep("join0", "join1")
  /\ disp = "dead"
  /\ UNCHANGED <<vars, running, freed, boots, bootFrame>>

\* pthread_join(camera.tid[1]).  When the thread was never created tid[1] is
\* uninitialised memory: the call returns, hangs, or the process dies (Kill).
\* After it main() waits in pthread_join(kms.tid) for a thread that has no end.
JoinConverter ==
  /\ MainStep("join1", "joinLcd")
  /\ wpc[1] \in {"dead", "none"}
  /\ UNCHANGED <<vars, running, freed, boots, bootFrame>>

\* free_v4l2_memory.  What tid[], sem[] and rgbdata[] hold from here on means
\* nothing, so the model gives it one value and no step below reads it.
Free ==
  /\ MainStep("free", "close")
  /\ freed' = TRUE
  /\ tid' = [i \in Worker |-> 0]
  /\ sem' = [k \in Buf |-> 0]
  /\ rgb' = [k \in Buf |-> Blank]
  /\ UNCHANGED <<driverVars, disp, next, held, wpc, who, mq, lcdVars, running, boots, bootFrame>>

Exit ==
  /\ MainStep("close", "exited")
  /\ ProcessEnds

-----------------------------------------------------------------------------
(* The threads of the camera are not stopped before free_v4l2_memory(): as   *)
(* long as the process lives they go on with memory that is no longer        *)
(* theirs.  The buffers are unmapped, so most of these steps may end it      *)
(* (Kill); what follows is what they do when they do not.                    *)

\* A converter looks itself up in freed memory and may find anything.
FindAny(w) ==
  /\ Step(w, "start", "wait")
  /\ \E i \in 0 .. N : who' = [who EXCEPT ![w] = i]
  /\ UNCHANGED <<driverVars, dispVars, sem, rgb, mq, lcdVars>>

\* Mutant: there is memory in front of rgbdata[0] to convert to.
TakeFreedAny(w) ==
  /\ Step(w, "wait", "convTop")
  /\ UNCHANGED <<driverVars, dispVars, who, sem, rgb, mq, lcdVars>>

\* sem_wait on freed memory may let anyone pass.  With who 0 the converter
\* then writes to rgbdata[-1], which is nCount, and that is NULL (Kill).
TakeFreed(w) ==
  /\ Step(w, "wait", "convTop")
  /\ who[w] # 0
  /\ UNCHANGED <<driverVars, dispVars, who, sem, rgb, mq, lcdVars>>

ConvertFreed(w) ==
  /\ wpc[w] \in {"convTop", "convBot"}
  /\ wpc' = [wpc EXCEPT ![w] = "send"]
  /\ UNCHANGED <<driverVars, dispVars, who, sem, rgb, mq, lcdVars>>

\* The message is about a picture that is not there; seq is when it was sent.
SendFreed(w) ==
  /\ Step(w, "send", "qbuf")
  /\ Len(mq) < QMax
  /\ mq' = Append(mq, [num |-> Slot(w), seq |-> frame])
  /\ UNCHANGED <<driverVars, dispVars, who, sem, rgb, lcdVars>>

PostFreed ==
  /\ disp = "post" /\ disp' = "poll"
  /\ UNCHANGED <<driverVars, next, held, tid, wpc, who, sem, rgb, mq, lcdVars>>

\* VIDIOC_DQBUF and VIDIOC_QBUF may also find camera.fd closed.
DequeueClosed ==
  /\ disp = "poll" /\ doneQ # <<>>
  /\ disp' = "dead"
  /\ UNCHANGED <<driverVars, next, held, tid, wpc, who, sem, rgb, mq, lcdVars>>

RequeueClosed(w) ==
  /\ Step(w, "qbuf", "dead")
  /\ UNCHANGED <<driverVars, dispVars, who, sem, rgb, mq, lcdVars>>

FreedConverter(w) ==
  \/ FindAny(w) \/ TakeFreed(w) \/ ConvertFreed(w)
  \/ SendFreed(w) \/ SendFails(w) \/ Requeue(w) \/ RequeueClosed(w)

FreedThreads ==
  /\ running /\ freed
  /\ \/ Camera
     \/ CreateWorker \/ CreateFails \/ Dequeue \/ DequeueClosed \/ PostFreed
     \/ \E w \in Worker : FreedConverter(w)
  /\ UNCHANGED appVars

-----------------------------------------------------------------------------
(* The process and its environment.                                        *)

\* A signal ends the process, with all its threads, at any point.
Kill ==
  /\ main # "exited"
  /\ main' = "exited"
  /\ ProcessEnds

\* The next start finds the old queue: createMsgQueue only asks for IPC_CREAT
\* and nothing removes the queue.
Restart ==
  /\ main = "exited" /\ boots < MaxBoots
  /\ boots' = boots + 1 /\ bootFrame' = frame
  /\ main' = "open"
  /\ UNCHANGED <<vars, running, freed>>

Main ==
  \/ CameraOpen \/ CameraOpenFails \/ V4l2Init \/ V4l2InitFails
  \/ CameraThread \/ StreamOnFails \/ CreateDispatcherFails
  \/ DrmSetup \/ DrmSetupFails \/ DrmThread \/ DrmThreadFails
  \/ JoinDispatcher \/ JoinConverter \/ Free \/ Exit

Threads ==
  /\ running /\ ~ freed
  /\ \/ Camera \/ Dispatcher
     \/ \E w \in Worker : Converter(w)
     \/ Receive \/ CopyTop \/ CopyBottom
  /\ UNCHANGED appVars

AppNext == Main \/ Threads \/ FreedThreads \/ Kill \/ Restart

AppSpec == AppInit /\ [][AppNext]_allVars

-----------------------------------------------------------------------------
(* Properties.                                                             *)

\* The type invariant; a message of an earlier start may be in the queue.  That
\* a message carries an index of rgbdata[] also holds for the converters that
\* look for themselves in freed memory, and find nothing: they die first.
AppTypeOK ==
  /\ TypeOK
  /\ main \in MainStage
  /\ running \in BOOLEAN /\ freed \in BOOLEAN
  /\ boots \in 1 .. MaxBoots
  /\ bootFrame \in 0 .. frame

\* main() frees the pictures only while no display thread exists: it waits
\* for that thread, which never returns, before it can reach the clean-up
\* (main.c:75-82).
LcdNeverSeesFreed ==
  freed => lcd = "off"

\* What earlier starts left in the queue is received before anything of this
\* start, so the stale announcements are a prefix that is shown once.
StaleFirst ==
  /\ \A i, j \in 1 .. Len(mq) :
       i < j /\ mq[i].seq > bootFrame => mq[j].seq > bootFrame
  /\ msg.seq > bootFrame => \A i \in 1 .. Len(mq) : mq[i].seq > bootFrame

\* An announcement of this start puts nothing older than its frame on the
\* screen, whatever an earlier start left in the queue.
FreshShownNotOlder == msg.seq > bootFrame => ShownNotOlder

\* What the readme says of the program: it shows data the camera captured.
\* Whenever the display copies a picture, a captured frame is in it.
ShowsCaptured ==
  lcd \in {"copyTop", "copyBot"} =>
    rgb[msg.num].top > 0 /\ rgb[msg.num].bot > 0

\* The one way in which the program shows what was not captured (MCStaleQueue): an
\* announcement an earlier start left behind.  The first start, and every start
\* once it has received an announcement of its own, copies captured frames only.
CapturedUnlessStale ==
  ShowsCaptured \/ (boots > 1 /\ msg.seq <= bootFrame)

-----------------------------------------------------------------------------
(* The inductive invariant.  bootFrame divides the frames, and with them     *)
(* the pictures and the messages, into those of earlier starts and the new. *)

\* What main() has started at each stage.
MainOrder ==
  /\ main \in {"open", "v4l2", "camera", "exited"} => ~ running /\ ~ freed
  /\ main \in {"drm", "lcdThread", "join0", "join1", "joinLcd"} => running
  /\ ~ running => disp = "create" /\ lcd = "off" /\ yuv = [k \in Buf |-> Blank]
  /\ lcd # "off" => main \in {"join0", "join1", "joinLcd"}
  /\ freed => main = "close" /\ lcd = "off"

\* The process lives and its threads use memory of its own.
Intact == main # "exited" /\ ~ freed

\* A converter behind sem_wait has an index.
Indexed ==
  /\ disp = "create" => next <= N
  /\ \A w \in Worker : wpc[w] \in {"convTop", "convBot", "send", "qbuf"} => who[w] # 0

\* A buffer of this start holds a frame of this start, or nothing.
NewFrames == \A k \in Buf : yuv[k].top > 0 => yuv[k].top > bootFrame

\* No message is about a frame that is yet to come, and the new ones are about
\* pictures that are at least as new.
AppMessages ==
  /\ \A i \in 1 .. Len(mq) :
       mq[i].seq <= frame /\ (Intact /\ mq[i].seq > bootFrame => Backed(mq[i]))
  /\ msg.seq <= frame
  /\ Intact /\ msg.seq > bootFrame => Backed(msg)
  /\ lcd = "off" => msg.seq = 0

\* In the first start every message that may be received is about a captured frame.
CapturedMessages ==
  boots = 1 =>
    /\ bootFrame = 0
    /\ Intact => \A i \in 1 .. Len(mq) : mq[i].seq > 0
    /\ lcd \in {"copyTop", "copyBot"} => msg.seq > 0

\* While the memory is not freed the threads are in FramePipeline's hands.
AppInv ==
  /\ ~ freed => BufferInv
  /\ AppTypeOK
  /\ MainOrder
  /\ Indexed
  /\ NewFrames
  /\ AppMessages
  /\ CapturedMessages
  /\ StaleFirst
  /\ FreshShownNotOlder

=============================================================================

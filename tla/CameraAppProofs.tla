---------------------------- MODULE CameraAppProofs ---------------------------
(***************************************************************************)
(* CameraApp for any number of starts, buffers, frames and messages, and    *)
(* whatever fails.  The steps of the threads are those of FramePipeline, so *)
(* what FramePipelineProofs shows of a step of BufferInv is used here, as   *)
(* long as the memory of the threads is not freed.  From there on only the  *)
(* types, the indices and the messages are followed: the queue outlives the *)
(* process.                                                                *)
(***************************************************************************)
EXTENDS CameraApp, FramePipelineProofs

\* What a step is to FramePipeline.
LEMMA StepKinds ==
  ASSUME MainOrder, [AppNext]_allVars
  PROVE  \/ UNCHANGED <<vars, boots, bootFrame, freed>> /\ (Intact' => Intact)
         \/ Next /\ Intact /\ Intact' /\ UNCHANGED <<boots, bootFrame, freed>>
         \/ CreateDispatcherFails
         \/ Free
         \/ FreedThreads
         \/ ProcessEnds /\ main' = "exited"
         \/ Restart
<1> USE DEF MainOrder, Intact, MainStep
<1>1. CASE UNCHANGED allVars
  BY <1>1 DEF allVars, appVars
<1>2. CASE CameraOpen \/ CameraOpenFails \/ V4l2Init \/ V4l2InitFails \/ CameraThread
           \/ StreamOnFails \/ DrmSetup \/ DrmSetupFails \/ DrmThreadFails
           \/ JoinDispatcher \/ JoinConverter
  BY <1>2 DEF CameraOpen, CameraOpenFails, V4l2Init, V4l2InitFails, CameraThread,
     StreamOnFails, DrmSetup, DrmSetupFails, DrmThreadFails, JoinDispatcher, JoinConverter
<1>3. CASE DrmThread
  BY <1>3 DEF DrmThread, Next, Display
<1>4. CASE Threads
  BY <1>4 DEF Threads, Next, Display, appVars
<1>5. CASE Kill \/ Exit
  BY <1>5 DEF Kill, Exit
<1>6. QED
  BY <1>1, <1>2, <1>3, <1>4, <1>5 DEF AppNext, Main

\* The steps of main() itself that are more than a move to another stage.
LEMMA DispatcherNotMade ==
  ASSUME MainOrder, CreateDispatcherFails
  PROVE  /\ Intact /\ disp = "create" /\ disp' = "dead"
         /\ UNCHANGED <<driverVars, next, held, tid, wpc, who, sem, rgb, mq, lcdVars>>
         /\ UNCHANGED <<boots, bootFrame, freed>>
BY DEF MainOrder, CreateDispatcherFails, MainStep, Intact

LEMMA FreeFacts ==
  ASSUME Free
  PROVE  /\ ~ Intact' /\ freed' = TRUE
         /\ UNCHANGED <<driverVars, disp, next, held, wpc, who, mq, lcdVars, boots, bootFrame>>
BY DEF Free, Intact

\* A process that ends leaves the frames and the messages; what the next one
\* begins with is as FramePipeline assumes it.
LEMMA EndFacts ==
  ASSUME TypeOK, ProcessEnds, main' = "exited"
  PROVE  /\ Started'
         /\ ~ Intact' /\ freed' = FALSE
         /\ UNCHANGED <<frame, mq, boots, bootFrame>>
<1>1. frame \in Frame /\ mq \in Seq(Message)
  BY DEF TypeOK
<1>2. QED
  BY <1>1 DEF ProcessEnds, Started, Intact

LEMMA RestartFacts ==
  ASSUME MainOrder, Restart
  PROVE  /\ UNCHANGED vars /\ ~ freed /\ freed' = freed
         /\ bootFrame' = frame /\ boots' = boots + 1 /\ boots < MaxBoots
         /\ lcd = "off" /\ yuv = [b \in Buf |-> Blank]
BY DEF MainOrder, Restart

\* What the threads of the camera still do with the memory freed.
LEMMA FreedFacts ==
  ASSUME FreedThreads
  PROVE  /\ freed /\ freed' = freed /\ ~ Intact'
         /\ UNCHANGED <<lcdVars, sem, rgb, boots, bootFrame>>
         /\ frame' = frame \/ frame' = frame + 1
         /\ mq' = mq \/ \E w \in Worker : SendFreed(w)
<1>1. freed /\ UNCHANGED <<freed, boots, bootFrame>>
  BY DEF FreedThreads, appVars
<1> DEFINE Small == /\ UNCHANGED <<lcdVars, sem, rgb>>
                    /\ frame' = frame \/ frame' = frame + 1
                    /\ mq' = mq \/ \E w \in Worker : SendFreed(w)
<1>2. Camera => Small
  BY DEF Camera, StartCapture, BeginFill, EndCapture, lcdVars
<1>3. CreateWorker \/ CreateFails \/ Dequeue \/ DequeueClosed \/ PostFreed => Small
  BY DEF CreateWorker, CreateFails, Dequeue, DequeueClosed, PostFreed, driverVars, lcdVars
<1>4. ASSUME NEW w \in Worker, FreedConverter(w) PROVE Small
  <2>1. CASE FindAny(w) \/ TakeFreed(w) \/ ConvertFreed(w)
    BY <2>1 DEF FindAny, TakeFreed, ConvertFreed, driverVars, lcdVars
  <2>2. CASE SendFails(w) \/ Requeue(w) \/ RequeueClosed(w)
    BY <2>2 DEF SendFails, Requeue, RequeueClosed, driverVars, lcdVars
  <2>3. CASE SendFreed(w)
    <3>1. UNCHANGED <<lcdVars, sem, rgb, frame>>
      BY <2>3 DEF SendFreed, driverVars, lcdVars
    <3>2. QED
      BY <2>3, <3>1
  <2>4. QED
    BY <1>4, <2>1, <2>2, <2>3 DEF FreedConverter
<1>5. Small
  BY <1>2, <1>3, <1>4 DEF FreedThreads
<1>6. QED
  BY <1>1, <1>5 DEF Intact

\* A converter that cannot find itself does not get as far as a message.
LEMMA IndexOfRgb ==
  ASSUME TypeOK, Indexed, NEW w \in Worker, wpc[w] \in {"convTop", "convBot", "send", "qbuf"}
  PROVE  Slot(w) \in Buf
<1>1. who[w] \in 0 .. N /\ who[w] # 0
  BY DEF TypeOK, Indexed
<1>2. QED
  BY <1>1, PipelineAssumption DEF Buf, Slot

LEMMA FreedMessage ==
  ASSUME TypeOK, Indexed, NEW w \in Worker, SendFreed(w)
  PROVE  \E m \in Message : m.seq = frame /\ mq' = Append(mq, m)
<1>1. Slot(w) \in Buf
  BY IndexOfRgb DEF SendFreed, Step
<1>2. [num |-> Slot(w), seq |-> frame] \in Message
  BY <1>1 DEF Message, TypeOK
<1>3. mq' = Append(mq, [num |-> Slot(w), seq |-> frame])
  BY DEF SendFreed
<1>4. QED
  BY <1>2, <1>3

-----------------------------------------------------------------------------
(* The steps, one lemma per part of AppInv.                                *)

LEMMA BufferStep == AppInv /\ [AppNext]_allVars /\ ~ freed' => BufferInv'
<1> SUFFICES ASSUME AppInv, [AppNext]_allVars, ~ freed' PROVE BufferInv'
  OBVIOUS
<1>1. MainOrder /\ TypeOK /\ (~ freed => BufferInv)
  BY DEF AppInv, AppTypeOK
<1>2. CASE (UNCHANGED vars \/ Next) /\ ~ freed
  BY <1>1, <1>2, StepType, StepThreads, StepHolding, StepDoneQueue, StepContents, StepDistinct
  DEF BufferInv
<1>3. CASE CreateDispatcherFails
  <2>1. BufferInv /\ disp = "create"
    BY <1>1, <1>3, DispatcherNotMade DEF Intact
  <2>2. /\ disp' = "dead"
        /\ UNCHANGED <<driverVars, next, held, tid, wpc, who, sem, rgb, mq, lcdVars>>
    BY <1>3 DEF CreateDispatcherFails
  <2>3. TypeOK'
    BY <2>1, <2>2 DEF BufferInv, TypeOK, DispStage, driverVars, lcdVars
  <2>4. WorkerKnowsItself' /\ Created' /\ DoneQueue'
    BY <2>1, <2>2 DEF BufferInv, WorkerKnowsItself, Created, DoneQueue, driverVars
  <2>5. Holding'
    BY <2>1, <2>2 DEF BufferInv, Holding, HeldOnce, driverVars
  <2>6. Contents' /\ DistinctFrames'
    BY <2>1, <2>2 DEF BufferInv, Contents, PictureOf, Whole, Behind, DistinctFrames, driverVars
  <2>7. QED
    BY <2>3, <2>4, <2>5, <2>6 DEF BufferInv
<1>4. Started' => BufferInv'
  BY StartedBuffers, PTL
<1>5. CASE ProcessEnds /\ main' = "exited"
  BY <1>1, <1>4, <1>5, EndFacts
<1>6. QED
  BY <1>1, <1>2, <1>3, <1>5, StepKinds, FreeFacts, FreedFacts, RestartFacts DEF Intact

\* The types while the threads go on in freed memory.
LEMMA FreedType ==
  ASSUME TypeOK, Indexed, FreedThreads
  PROVE  TypeOK'
<1> USE DEF TypeOK, DispStage, WorkerStage, Step, driverVars, dispVars, lcdVars
<1>1. CASE Camera
  BY <1>1, CameraType
<1>2. CASE CreateWorker \/ CreateFails \/ Dequeue
  BY <1>2, HandOutType DEF Indexed, CreateWorker
<1>3. CASE DequeueClosed \/ PostFreed
  BY <1>3 DEF DequeueClosed, PostFreed
<1>4. ASSUME NEW w \in Worker, FindAny(w) \/ TakeFreed(w) \/ ConvertFreed(w)
      PROVE  TypeOK'
  BY <1>4 DEF FindAny, TakeFreed, ConvertFreed
<1>5. ASSUME NEW w \in Worker, SendFails(w) \/ Requeue(w) \/ RequeueClosed(w)
      PROVE  TypeOK'
  BY <1>5 DEF SendFails, Requeue, RequeueClosed
<1>6. ASSUME NEW w \in Worker, SendFreed(w)
      PROVE  TypeOK'
  <2>1. mq' \in Seq(Message)
    <3>1. PICK m \in Message : mq' = Append(mq, m)
      BY <1>6, FreedMessage
    <3>2. QED
      BY <3>1, AppendProperties
  <2>2. QED
    BY <1>6, <2>1 DEF SendFreed
<1>7. QED
  BY <1>1, <1>2, <1>3, <1>4, <1>5, <1>6 DEF FreedThreads, FreedConverter

LEMMA TypeStep == AppInv /\ [AppNext]_allVars => TypeOK'
<1> SUFFICES ASSUME AppInv, [AppNext]_allVars PROVE TypeOK'
  OBVIOUS
<1>1. MainOrder /\ TypeOK /\ Indexed
  BY DEF AppInv, AppTypeOK
<1>2. CASE ~ freed'
  BY <1>2, BufferStep DEF BufferInv
<1>3. CASE UNCHANGED vars
  BY <1>1, <1>3 DEF TypeOK, vars, driverVars, dispVars, lcdVars
<1>4. CASE Free
  BY <1>1, <1>4, Zero, PipelineAssumption
  DEF TypeOK, Free, driverVars, lcdVars
<1>5. CASE FreedThreads
  BY <1>1, <1>5, FreedType
<1>6. QED
  BY <1>1, <1>2, <1>3, <1>4, <1>5, StepKinds, DispatcherNotMade, EndFacts, RestartFacts
  DEF Intact

LEMMA IndexedStep == AppInv /\ [AppNext]_allVars => Indexed'
<1> SUFFICES ASSUME AppInv, [AppNext]_allVars PROVE Indexed'
  OBVIOUS
<1>1. MainOrder /\ TypeOK /\ Indexed
  BY DEF AppInv, AppTypeOK
<1> USE DEF Indexed
<1>2. CASE ~ freed'
  <2>1. WorkerKnowsItself' /\ Created'
    BY <1>2, BufferStep DEF BufferInv
  <2>2. QED
    BY <2>1, OwnBuffer DEF WorkerKnowsItself, Created
<1>3. CASE UNCHANGED <<disp, next, wpc, who>>
  BY <1>1, <1>3
<1>4. CASE FreedThreads
  <2> USE <1>1 DEF TypeOK, Step, dispVars
  <2>1. CASE Camera \/ CreateFails \/ Dequeue \/ DequeueClosed \/ PostFreed
    BY <2>1 DEF Camera, StartCapture, BeginFill, EndCapture, CreateFails, Dequeue,
       DequeueClosed, PostFreed
  <2>2. CASE CreateWorker
    <3>1. next \in 1 .. N /\ next + 1 <= N + 1 /\ next \in Worker
      BY <2>2, PipelineAssumption DEF CreateWorker, Worker
    <3>2. QED
      BY <2>2, <3>1, PipelineAssumption DEF CreateWorker
  <2>3. ASSUME NEW w \in Worker, FreedConverter(w)
        PROVE  Indexed'
    BY <2>3 DEF FreedConverter, FindAny, TakeFreed, ConvertFreed, SendFreed, SendFails,
       Requeue, RequeueClosed
  <2>4. QED
    BY <1>4, <2>1, <2>2, <2>3 DEF FreedThreads
<1>5. QED
  BY <1>1, <1>2, <1>3, <1>4, StepKinds, DispatcherNotMade, FreeFacts, EndFacts, RestartFacts
  DEF Intact, vars, dispVars

LEMMA OrderStep == AppInv /\ [AppNext]_allVars => MainOrder'
<1> SUFFICES ASSUME AppInv, [AppNext]_allVars PROVE MainOrder'
  OBVIOUS
<1>1. MainOrder
  BY DEF AppInv
<1> USE DEF MainOrder, MainStep
<1>2. CASE UNCHANGED allVars \/ Restart
  BY <1>1, <1>2 DEF allVars, appVars, vars, driverVars, dispVars, lcdVars, Restart
<1>3. CASE CameraOpen \/ CameraOpenFails \/ V4l2Init \/ V4l2InitFails
  BY <1>1, <1>3 DEF CameraOpen, CameraOpenFails, V4l2Init, V4l2InitFails, vars, driverVars,
     dispVars, lcdVars
<1>4. CASE CameraThread \/ StreamOnFails \/ CreateDispatcherFails
  BY <1>1, <1>4 DEF CameraThread, StreamOnFails, CreateDispatcherFails, vars, driverVars,
     dispVars, lcdVars
<1>5. CASE DrmSetup \/ DrmSetupFails \/ DrmThreadFails
  BY <1>1, <1>5 DEF DrmSetup, DrmSetupFails, DrmThreadFails, vars, driverVars, dispVars, lcdVars
<1>6. CASE DrmThread
  BY <1>1, <1>6 DEF DrmThread, StartLcd, driverVars, dispVars
<1>7. CASE JoinDispatcher \/ JoinConverter
  BY <1>1, <1>7 DEF JoinDispatcher, JoinConverter, vars, driverVars, dispVars, lcdVars
<1>8. CASE Free
  BY <1>1, <1>8 DEF Free, driverVars, lcdVars
<1>9. CASE Exit \/ Kill
  BY <1>9 DEF Exit, Kill, ProcessEnds
<1>10. CASE Threads
  <2>1. running /\ UNCHANGED <<main, running, freed>>
    BY <1>10 DEF Threads, appVars
  <2>2. lcd' = "off" <=> lcd = "off"
    BY <1>10 DEF Threads, Camera, StartCapture, BeginFill, EndCapture, Dispatcher, CreateWorker,
       CreateFails, Dequeue, DequeueFails, Post, Converter, FindSelf, Take, ConvertTop,
       ConvertBottom, Send, SendFails, Requeue, RequeueFails, Receive, CopyTop, CopyBottom,
       lcdVars
  <2>3. QED
    BY <1>1, <2>1, <2>2
<1>11. CASE FreedThreads
  <2>1. running /\ UNCHANGED <<main, running, freed, lcd>>
    BY <1>11, FreedFacts DEF FreedThreads, appVars, lcdVars
  <2>2. QED
    BY <1>1, <2>1
<1>12. QED
  BY <1>2, <1>3, <1>4, <1>5, <1>6, <1>7, <1>8, <1>9, <1>10, <1>11 DEF AppNext, Main

\* The number of the last frame does not go back.
LEMMA FrameGrows ==
  ASSUME AppInv, [AppNext]_allVars
  PROVE  frame \in Nat /\ frame' \in Nat /\ frame <= frame'
<1>1. frame \in Nat /\ MainOrder /\ TypeOK
  BY PipelineAssumption DEF AppInv, AppTypeOK, TypeOK, Frame
<1>2. Next => frame' = frame \/ frame' = frame + 1
  BY DEF driverVars, Next, Camera, Dispatcher, Converter, Display, StartCapture, BeginFill,
      EndCapture, CreateWorker, CreateFails, Dequeue, DequeueFails, Post, FindSelf, Take,
      ConvertTop, ConvertBottom, Send, SendFails, Requeue, RequeueFails, StartLcd, Receive,
      CopyTop, CopyBottom
<1>3. frame' = frame \/ frame' = frame + 1
  BY <1>1, <1>2, StepKinds, DispatcherNotMade, FreeFacts, FreedFacts, EndFacts, RestartFacts
  DEF vars, driverVars
<1>4. QED
  BY <1>1, <1>3

LEMMA AppTypeStep == AppInv /\ [AppNext]_allVars => AppTypeOK'
<1> SUFFICES ASSUME AppInv, [AppNext]_allVars PROVE AppTypeOK'
  OBVIOUS
<1>1. AppTypeOK /\ TypeOK /\ MainOrder
  BY DEF AppInv, AppTypeOK
<1>2. TypeOK'
  BY TypeStep
<1>3. main' \in MainStage /\ running' \in BOOLEAN /\ freed' \in BOOLEAN
  BY <1>1 DEF AppTypeOK, MainStage, AppNext, allVars, appVars, Main, MainStep, Threads,
     FreedThreads, CameraOpen, CameraOpenFails, V4l2Init, V4l2InitFails, CameraThread,
     StreamOnFails, CreateDispatcherFails, DrmSetup, DrmSetupFails, DrmThread, DrmThreadFails,
     JoinDispatcher, JoinConverter, Free, Exit, Kill, ProcessEnds, Restart
<1>4. \/ UNCHANGED <<boots, bootFrame>>
      \/ boots < MaxBoots /\ boots' = boots + 1 /\ bootFrame' = frame
  BY <1>1, StepKinds, DispatcherNotMade, FreeFacts, FreedFacts, EndFacts, RestartFacts
<1>5. boots' \in 1 .. MaxBoots /\ bootFrame' \in 0 .. frame'
  BY <1>1, <1>4, FrameGrows, AppAssumption DEF AppTypeOK
<1>6. QED
  BY <1>2, <1>3, <1>5 DEF AppTypeOK

\* The camera stores only frames after those of earlier starts.
LEMMA NewFramesStep == AppInv /\ [AppNext]_allVars => NewFrames'
<1> SUFFICES ASSUME AppInv, [AppNext]_allVars PROVE NewFrames'
  OBVIOUS
<1>1. NewFrames /\ MainOrder /\ TypeOK /\ bootFrame \in 0 .. frame /\ frame \in Nat
  BY PipelineAssumption DEF AppInv, AppTypeOK, TypeOK, Frame
<1>2. \A k \in Buf : yuv[k] \in Picture /\ yuv[k].top \in Nat
  BY <1>1, PipelineAssumption DEF TypeOK, Picture, Frame
<1>3. CASE yuv' = [b \in Buf |-> Blank]
  BY <1>3 DEF NewFrames, Blank
<1>4. CASE UNCHANGED <<yuv, bootFrame>>
  BY <1>1, <1>4 DEF NewFrames
<1>5. ASSUME NEW k \in Buf, StartCapture(k), UNCHANGED bootFrame
      PROVE  NewFrames'
  <2>1. \A j \in Buf : yuv'[j].top = IF j = k THEN frame + 1 ELSE yuv[j].top
    BY <1>1, <1>2, <1>5 DEF StartCapture, BeginFill, TypeOK, Picture
  <2>2. QED
    BY <1>1, <1>5, <2>1 DEF NewFrames
<1>6. ASSUME NEW k \in Buf, EndCapture(k), UNCHANGED bootFrame
      PROVE  NewFrames'
  <2>1. \A j \in Buf : yuv'[j].top = yuv[j].top
    BY <1>1, <1>2, <1>6 DEF EndCapture, TypeOK, Picture
  <2>2. QED
    BY <1>1, <1>6, <2>1 DEF NewFrames
<1>7. Next => yuv' = yuv \/ \E k \in Buf : StartCapture(k) \/ EndCapture(k)
  BY DEF driverVars, Next, Camera, Dispatcher, Converter, Display, CreateWorker, CreateFails,
     Dequeue, DequeueFails, Post, FindSelf, Take, ConvertTop, ConvertBottom, Send, SendFails,
     Requeue, RequeueFails, StartLcd, Receive, CopyTop, CopyBottom
<1>8. FreedThreads => yuv' = yuv \/ \E k \in Buf : StartCapture(k) \/ EndCapture(k)
  BY DEF FreedThreads, Camera, CreateWorker, CreateFails, Dequeue, DequeueClosed, PostFreed,
     FreedConverter, FindAny, TakeFreed, ConvertFreed, SendFreed, SendFails, Requeue,
     RequeueClosed, driverVars
<1>9. QED
  BY <1>1, <1>3, <1>4, <1>5, <1>6, <1>7, <1>8, StepKinds, DispatcherNotMade, FreeFacts,
     FreedFacts, RestartFacts
  DEF ProcessEnds, vars, driverVars

\* A converter announces a frame of this start.
LEMMA SentIsNew ==
  ASSUME BufferInv, NewFrames, NEW w \in Worker, Send(w)
  PROVE  \E m \in Message : /\ mq' = Append(mq, m) /\ Backed(m)'
                            /\ m.seq > bootFrame /\ m.seq <= frame
<1> DEFINE k == Slot(w)
<1>1. TypeOK
  BY DEF BufferInv
<1>2. /\ wpc[w] = "send" /\ wpc' = [wpc EXCEPT ![w] = "qbuf"]
      /\ mq' = Append(mq, [num |-> k, seq |-> rgb[k].bot])
      /\ UNCHANGED <<frame, rgb>>
  BY DEF Send, driverVars, Step
<1>3. /\ k \in Buf /\ k + 1 = w /\ rgb[k].top = rgb[k].bot /\ rgb[k].bot > 0
      /\ [num |-> k, seq |-> rgb[k].bot] \in Message
  BY <1>1, <1>2, NewMessage
<1> HIDE DEF k
<1>4. PICK m \in Message : m.num = k /\ m.seq = rgb[k].bot /\ mq' = Append(mq, m)
  BY <1>2, <1>3
<1>5. HeldOnce(k) /\ PictureOf(k)
  BY <1>1, <1>3 DEF BufferInv, Holding, Contents
<1>6. rgb[k] = yuv[k] /\ m.seq <= frame
  BY <1>2, <1>3, <1>4, <1>5 DEF PictureOf
<1>7. m.seq > bootFrame
  BY <1>1, <1>3, <1>4, <1>6 DEF NewFrames
<1>8. wpc'[m.num + 1] = "qbuf" /\ m.seq \in Int
  BY <1>1, <1>2, <1>3, <1>4 DEF TypeOK, Message, Frame
<1>9. Backed(m)'
  BY <1>2, <1>3, <1>4, <1>8 DEF Backed
<1>10. QED
  BY <1>4, <1>6, <1>7, <1>9

\* m is put behind the other messages.
Sent(m) ==
  /\ mq' = Append(mq, m)
  /\ UNCHANGED <<msg, lcd, boots, bootFrame>>
  /\ m.seq <= frame
  /\ \/ Intact' /\ m.seq > bootFrame /\ Backed(m)'
     \/ ~ Intact' /\ m.seq = frame

\* What a step does with the queue and with the display's message.
LEMMA MessageSteps ==
  ASSUME AppInv, [AppNext]_allVars
  PROVE  \/ /\ UNCHANGED <<mq, msg>>
            /\ (lcd' = "off" => lcd = "off")
            /\ (lcd' \in {"copyTop", "copyBot"} => lcd \in {"copyTop", "copyBot"})
            /\ (Intact' => Intact \/ Restart)
         \/ mq' = mq /\ msg'.seq = 0 /\ lcd' = "off" /\ ~ Intact' /\ UNCHANGED <<boots, bootFrame>>
         \/ Receive /\ Intact /\ UNCHANGED <<boots, bootFrame>>
         \/ \E m \in Message : Sent(m)
<1>1. /\ MainOrder /\ TypeOK /\ Indexed /\ NewFrames /\ frame \in Nat
      /\ (Intact => BufferInv)
  BY PipelineAssumption DEF AppInv, AppTypeOK, TypeOK, Frame, Intact
<1>2. CASE Next /\ Intact /\ Intact' /\ UNCHANGED <<boots, bootFrame, freed>>
  <2>1. ASSUME NEW w \in Worker, Send(w) PROVE \E m \in Message : Sent(m)
    <3>1. PICK m \in Message : /\ mq' = Append(mq, m) /\ Backed(m)'
                               /\ m.seq > bootFrame /\ m.seq <= frame
      BY <1>1, <1>2, <2>1, SentIsNew
    <3>2. QED
      BY <1>2, <2>1, <3>1 DEF Sent, Send, lcdVars
  <2>2. CASE \A w \in Worker : ~ Send(w)
    BY <1>2, <2>2
    DEF lcdVars, Next, Camera, Dispatcher, Converter, Display, StartCapture, BeginFill,
        EndCapture, CreateWorker, CreateFails, Dequeue, DequeueFails, Post, FindSelf, Take,
        ConvertTop, ConvertBottom, SendFails, Requeue, RequeueFails, StartLcd, CopyTop,
        CopyBottom
  <2>3. QED
    BY <1>2, <2>1, <2>2
<1>3. CASE FreedThreads
  <2>1. /\ ~ Intact' /\ UNCHANGED <<msg, lcd, boots, bootFrame>>
        /\ mq' = mq \/ \E w \in Worker : SendFreed(w)
    BY <1>3, FreedFacts DEF lcdVars
  <2>2. CASE mq' = mq
    BY <2>1, <2>2
  <2>3. ASSUME NEW w \in Worker, SendFreed(w) PROVE \E m \in Message : Sent(m)
    <3>1. PICK m \in Message : m.seq = frame /\ mq' = Append(mq, m)
      BY <1>1, <2>3, FreedMessage
    <3>2. QED
      BY <1>1, <2>1, <3>1 DEF Sent
  <2>4. QED
    BY <2>1, <2>2, <2>3
<1>4. CASE ProcessEnds /\ main' = "exited"
  BY <1>1, <1>4, EndFacts DEF Started
<1>5. CASE Restart
  BY <1>1, <1>5, RestartFacts DEF vars, lcdVars
<1>6. CASE CreateDispatcherFails
  BY <1>1, <1>6, DispatcherNotMade DEF lcdVars
<1>7. CASE Free
  BY <1>7, FreeFacts DEF lcdVars
<1>8. CASE UNCHANGED <<vars, boots, bootFrame, freed>> /\ (Intact' => Intact)
  BY <1>8 DEF vars, lcdVars
<1>9. QED
  BY <1>1, <1>2, <1>3, <1>4, <1>5, <1>6, <1>7, <1>8, StepKinds

\* Receive takes the oldest message.
LEMMA ReceiveFacts ==
  ASSUME mq \in Seq(Message), Receive
  PROVE  /\ msg' = mq[1] /\ 1 \in 1 .. Len(mq) /\ Len(mq) \in Nat /\ lcd' = "copyTop"
         /\ mq' \in Seq(Message) /\ Len(mq') = Len(mq) - 1
         /\ \A i \in 1 .. Len(mq') : i + 1 \in 1 .. Len(mq) /\ mq'[i] = mq[i + 1]
BY HeadTailProperties, LenProperties DEF Receive

\* The messages are those before and one more.
LEMMA AppendFacts ==
  ASSUME mq \in Seq(Message), NEW m \in Message, mq' = Append(mq, m)
  PROVE  /\ Len(mq) \in Nat /\ Len(mq') = Len(mq) + 1
         /\ \A i \in 1 .. Len(mq') :
              IF i = Len(mq) + 1 THEN mq'[i] = m ELSE i \in 1 .. Len(mq) /\ mq'[i] = mq[i]
BY AppendProperties, LenProperties

LEMMA AppMessagesStep == AppInv /\ [AppNext]_allVars => AppMessages'
<1> SUFFICES ASSUME AppInv, [AppNext]_allVars PROVE AppMessages'
  OBVIOUS
<1> DEFINE Old(x) == x.seq <= frame /\ (Intact /\ x.seq > bootFrame => Backed(x))
           Kept(x) == /\ x.seq <= frame'
                      /\ Intact' /\ x.seq > bootFrame' =>
                           /\ x.seq <= rgb'[x.num].top /\ x.seq <= rgb'[x.num].bot
                           /\ wpc'[x.num + 1] = "send" => x.seq < rgb'[x.num].bot
<1>1. /\ mq \in Seq(Message) /\ msg \in Message /\ MainOrder /\ TypeOK
      /\ \A i \in 1 .. Len(mq) : mq[i] \in Message
  BY ElementOfSeq DEF AppInv, AppTypeOK, TypeOK
<1>2. (\A i \in 1 .. Len(mq) : Old(mq[i])) /\ Old(msg) /\ (lcd = "off" => msg.seq = 0)
  BY DEF AppInv, AppMessages
<1>3. /\ (\A i \in 1 .. Len(mq') : Kept(mq'[i])) /\ Kept(msg')
      /\ (lcd' = "off" => msg'.seq = 0)
      => AppMessages'
  BY DEF AppMessages, Backed
<1>4. frame \in Nat /\ frame' \in Nat /\ frame <= frame'
  BY FrameGrows
<1>5. ASSUME NEW m \in Message, Old(m)
      PROVE  Kept(m)
  <2>1. m.seq \in Int /\ m.seq <= frame'
    BY <1>4, <1>5 DEF Message, Frame
  <2>2. CASE UNCHANGED bootFrame /\ Intact /\ (UNCHANGED vars \/ Next)
    <3>1. BufferInv
      BY <2>2 DEF AppInv, Intact
    <3>2. Backed(m) => Backed(m)'
      BY <2>2, <3>1, BackedStays
    <3>3. QED
      BY <1>5, <2>1, <2>2, <3>2 DEF Backed
  <2>3. CASE CreateDispatcherFails
    BY <1>1, <1>5, <2>1, <2>3, DispatcherNotMade DEF Backed
  <2>4. CASE ~ Intact'
    BY <2>1, <2>4
  <2>5. CASE Restart
    <3>1. ~ (m.seq > bootFrame')
      BY <1>1, <1>4, <1>5, <2>1, <2>5, RestartFacts
    <3>2. QED
      BY <2>1, <3>1
  <2>6. QED
    BY <1>1, <2>2, <2>3, <2>4, <2>5, StepKinds, FreeFacts, FreedFacts, EndFacts
<1> HIDE DEF Old
<1>6. ASSUME NEW m \in Message, Sent(m)
      PROVE  AppMessages'
  <2>1. Kept(m)
    BY <1>4, <1>6 DEF Sent, Backed, Message, Frame
  <2> HIDE DEF Kept
  <2>2. \A i \in 1 .. Len(mq') :
          IF i = Len(mq) + 1 THEN mq'[i] = m ELSE i \in 1 .. Len(mq) /\ mq'[i] = mq[i]
    BY <1>1, <1>6, AppendFacts DEF Sent
  <2>3. \A i \in 1 .. Len(mq') : Kept(mq'[i])
    BY <1>1, <1>2, <1>5, <2>1, <2>2
  <2>4. UNCHANGED <<msg, lcd>>
    BY <1>6 DEF Sent
  <2>5. QED
    BY <1>1, <1>2, <1>3, <1>5, <2>3, <2>4
<1>7. CASE Receive
  <2> HIDE DEF Kept
  <2>1. /\ msg' = mq[1] /\ 1 \in 1 .. Len(mq) /\ lcd' = "copyTop"
        /\ \A i \in 1 .. Len(mq') : i + 1 \in 1 .. Len(mq) /\ mq'[i] = mq[i + 1]
    BY <1>1, <1>7, ReceiveFacts
  <2>2. \A i \in 1 .. Len(mq) : Kept(mq[i])
    BY <1>1, <1>2, <1>5
  <2>3. QED
    BY <1>3, <2>1, <2>2
<1>8. CASE UNCHANGED <<mq, msg>> /\ (lcd' = "off" => lcd = "off")
  <2> HIDE DEF Kept
  <2>1. (\A i \in 1 .. Len(mq') : Kept(mq'[i])) /\ Kept(msg')
    BY <1>1, <1>2, <1>5, <1>8
  <2>2. QED
    BY <1>2, <1>3, <1>8, <2>1
<1>9. CASE mq' = mq /\ msg'.seq = 0 /\ ~ Intact'
  <2>1. Kept(msg')
    BY <1>4, <1>9
  <2> HIDE DEF Kept
  <2>2. \A i \in 1 .. Len(mq') : Kept(mq'[i])
    BY <1>1, <1>2, <1>5, <1>9
  <2>3. QED
    BY <1>3, <1>9, <2>1, <2>2
<1>10. QED
  BY <1>6, <1>7, <1>8, <1>9, MessageSteps

LEMMA StaleFirstStep == AppInv /\ [AppNext]_allVars => StaleFirst'
<1> SUFFICES ASSUME AppInv, [AppNext]_allVars PROVE StaleFirst'
  OBVIOUS
<1> DEFINE New(x) == x.seq > bootFrame
<1>1. /\ mq \in Seq(Message) /\ MainOrder /\ frame \in Nat /\ bootFrame \in 0 .. frame
      /\ \A i \in 1 .. Len(mq) : mq[i].seq \in Int /\ mq[i].seq <= frame
      /\ msg.seq \in Int /\ msg.seq <= frame
  <2>1. \A i \in 1 .. Len(mq) : mq[i] \in Message
    BY ElementOfSeq DEF AppInv, AppTypeOK, TypeOK
  <2>2. QED
    BY <2>1, PipelineAssumption
    DEF AppInv, AppTypeOK, AppMessages, TypeOK, Frame, Message
<1>2. /\ \A i, j \in 1 .. Len(mq) : i < j /\ New(mq[i]) => New(mq[j])
      /\ New(msg) => \A i \in 1 .. Len(mq) : New(mq[i])
  BY DEF AppInv, StaleFirst
<1>3. CASE Restart
  <2>1. UNCHANGED <<mq, msg>> /\ bootFrame' = frame
    BY <1>1, <1>3, RestartFacts DEF vars, lcdVars
  <2>2. QED
    BY <1>1, <2>1 DEF StaleFirst
<1>4. ~ Restart => bootFrame' = bootFrame
  BY <1>1, StepKinds, DispatcherNotMade, FreeFacts, FreedFacts, EndFacts
  DEF AppInv, AppTypeOK
<1>5. ASSUME bootFrame' = bootFrame,
             \A i, j \in 1 .. Len(mq') : i < j /\ New(mq'[i]) => New(mq'[j]),
             New(msg') => \A i \in 1 .. Len(mq') : New(mq'[i])
      PROVE  StaleFirst'
  BY <1>5 DEF StaleFirst
<1>6. ASSUME NEW m \in Message, Sent(m)
      PROVE  StaleFirst'
  <2>1. UNCHANGED <<msg, bootFrame>>
    BY <1>6 DEF Sent
  <2>2. New(m) \/ ((\A i \in 1 .. Len(mq) : ~ New(mq[i])) /\ ~ New(msg))
    <3>1. m.seq > bootFrame \/ (m.seq = frame /\ bootFrame = frame)
      BY <1>1, <1>6 DEF Sent
    <3>2. QED
      BY <1>1, <3>1
  <2> HIDE DEF New
  <2>3. /\ Len(mq) \in Nat /\ Len(mq') = Len(mq) + 1
        /\ \A i \in 1 .. Len(mq') :
          IF i = Len(mq) + 1 THEN mq'[i] = m ELSE i \in 1 .. Len(mq) /\ mq'[i] = mq[i]
    BY <1>1, <1>6, AppendFacts DEF Sent
  <2>4. \A i, j \in 1 .. Len(mq') : i < j /\ New(mq'[i]) => New(mq'[j])
    BY <1>2, <2>2, <2>3
  <2>5. New(msg') => \A i \in 1 .. Len(mq') : New(mq'[i])
    BY <1>2, <2>1, <2>2, <2>3
  <2>6. QED
    BY <1>5, <2>1, <2>4, <2>5
<1>7. CASE Receive /\ ~ Restart
  <2> HIDE DEF New
  <2>1. /\ msg' = mq[1] /\ 1 \in 1 .. Len(mq) /\ Len(mq) \in Nat /\ Len(mq') = Len(mq) - 1
        /\ \A i \in 1 .. Len(mq') : i + 1 \in 1 .. Len(mq) /\ mq'[i] = mq[i + 1]
    BY <1>1, <1>7, ReceiveFacts
  <2>2. ASSUME NEW i \in 1 .. Len(mq'), NEW j \in 1 .. Len(mq'), i < j, New(mq'[i])
        PROVE  New(mq'[j])
    <3>1. i + 1 \in 1 .. Len(mq) /\ j + 1 \in 1 .. Len(mq) /\ i + 1 < j + 1
      BY <2>1, <2>2
    <3>2. QED
      BY <1>2, <2>1, <2>2, <3>1
  <2>3. ASSUME New(msg'), NEW i \in 1 .. Len(mq')
        PROVE  New(mq'[i])
    <3>1. i + 1 \in 1 .. Len(mq) /\ 1 < i + 1
      BY <2>1
    <3>2. QED
      BY <1>2, <2>1, <2>3, <3>1
  <2>4. QED
    BY <1>4, <1>5, <1>7, <2>2, <2>3
<1>8. CASE UNCHANGED <<mq, msg>> /\ ~ Restart
  BY <1>2, <1>4, <1>5, <1>8
<1>9. CASE mq' = mq /\ msg'.seq = 0 /\ ~ Restart
  <2>1. ~ New(msg')
    BY <1>1, <1>9
  <2>2. QED
    BY <1>2, <1>4, <1>5, <1>9, <2>1
<1>10. QED
  BY <1>3, <1>6, <1>7, <1>8, <1>9, MessageSteps

LEMMA FreshShownStep == AppInv /\ [AppNext]_allVars => FreshShownNotOlder'
<1> SUFFICES ASSUME AppInv, [AppNext]_allVars PROVE FreshShownNotOlder'
  OBVIOUS
<1> USE DEF FreshShownNotOlder, ShownNotOlder
<1>1. /\ TypeOK /\ MainOrder /\ AppMessages /\ FreshShownNotOlder /\ frame \in Nat
      /\ bootFrame \in Int /\ bootFrame >= 0
  BY PipelineAssumption DEF AppInv, AppTypeOK, TypeOK, Frame
<1>2. CASE Restart
  <2>1. UNCHANGED msg /\ bootFrame' = frame
    BY <1>1, <1>2, RestartFacts DEF vars, lcdVars
  <2>2. msg.seq \in Int /\ msg.seq <= frame
    BY <1>1 DEF AppMessages, TypeOK, Message, Frame
  <2>3. QED
    BY <1>1, <2>1, <2>2
<1>3. CASE UNCHANGED lcdVars /\ UNCHANGED bootFrame
  BY <1>1, <1>3 DEF lcdVars
<1>4. CASE StartLcd /\ UNCHANGED bootFrame
  BY <1>1, <1>4 DEF StartLcd, AppMessages
<1>5. CASE Receive
  BY <1>5 DEF Receive
<1>6. CASE (CopyTop \/ CopyBottom) /\ Intact /\ UNCHANGED bootFrame
  <2>1. /\ msg.seq \in Int /\ rgb[msg.num].top \in Int /\ rgb[msg.num].bot \in Int
        /\ shown \in Picture
    BY <1>1 DEF TypeOK, Message, Picture, Frame
  <2>2. msg.seq > bootFrame => msg.seq <= rgb[msg.num].top /\ msg.seq <= rgb[msg.num].bot
    BY <1>1, <1>6 DEF AppMessages, Backed
  <2>3. QED
    BY <1>1, <1>6, <2>1, <2>2 DEF CopyTop, CopyBottom, Picture
<1>7. CASE ProcessEnds /\ main' = "exited"
  BY <1>1, <1>7 DEF ProcessEnds
<1>8. Next => UNCHANGED lcdVars \/ StartLcd \/ Receive \/ CopyTop \/ CopyBottom
  BY DEF Next, Camera, Dispatcher, Converter, Display, CreateWorker, CreateFails, Dequeue,
     DequeueFails, Post, StartCapture, BeginFill, EndCapture, FindSelf, Take, ConvertTop,
     ConvertBottom, Send, SendFails, Requeue, RequeueFails
<1>9. QED
  BY <1>1, <1>2, <1>3, <1>4, <1>5, <1>6, <1>7, <1>8, StepKinds, DispatcherNotMade, FreeFacts,
     FreedFacts
  DEF vars

LEMMA CapturedStep == AppInv /\ [AppNext]_allVars => CapturedMessages'
<1> SUFFICES ASSUME AppInv, [AppNext]_allVars PROVE CapturedMessages'
  OBVIOUS
<1>1. /\ mq \in Seq(Message) /\ CapturedMessages /\ MainOrder /\ TypeOK
      /\ bootFrame \in Int /\ bootFrame >= 0 /\ boots \in Int /\ boots >= 1
  BY AppAssumption DEF AppInv, AppTypeOK, TypeOK
<1>2. \/ UNCHANGED <<boots, bootFrame>> /\ ~ Restart
      \/ Restart /\ boots' = boots + 1
  BY <1>1, StepKinds, DispatcherNotMade, FreeFacts, FreedFacts, EndFacts, RestartFacts
<1>3. CASE Restart
  BY <1>1, <1>2, <1>3 DEF CapturedMessages
<1>4. CASE ~ Restart /\ boots' # 1
  BY <1>4 DEF CapturedMessages
<1>5. CASE ~ Restart /\ boots' = 1
  <2>1. boots = 1 /\ bootFrame = 0 /\ bootFrame' = 0
    BY <1>1, <1>2, <1>5 DEF CapturedMessages
  <2>2. ASSUME NEW m \in Message, Sent(m)
        PROVE  CapturedMessages'
    <3>1. Intact' => m.seq > 0
      BY <2>1, <2>2 DEF Sent, Intact
    <3>2. CASE Intact'
      <4>1. Intact
        BY <1>1, <1>5, <3>2, StepKinds, DispatcherNotMade, FreeFacts, FreedFacts, EndFacts
      <4>2. QED
        BY <1>1, <2>1, <2>2, <3>1, <4>1, AppendFacts DEF Sent, CapturedMessages
    <3>3. CASE ~ Intact'
      BY <1>1, <2>1, <2>2, <3>3 DEF Sent, CapturedMessages
    <3>4. QED
      BY <3>2, <3>3
  <2>3. CASE Receive /\ Intact
    BY <1>1, <2>1, <2>3, ReceiveFacts DEF CapturedMessages
  <2>4. CASE /\ UNCHANGED <<mq, msg>> /\ (Intact' => Intact)
             /\ (lcd' \in {"copyTop", "copyBot"} => lcd \in {"copyTop", "copyBot"})
    BY <1>1, <2>1, <2>4 DEF CapturedMessages
  <2>5. CASE mq' = mq /\ lcd' = "off" /\ ~ Intact'
    BY <2>1, <2>5 DEF CapturedMessages
  <2>6. QED
    BY <1>5, <2>2, <2>3, <2>4, <2>5, MessageSteps
<1>6. QED
  BY <1>3, <1>4, <1>5

-----------------------------------------------------------------------------
(* The theorems.                                                           *)

LEMMA AppInitInv == AppInit => AppInv
<1> SUFFICES ASSUME AppInit PROVE AppInv
  OBVIOUS
<1>1. BufferInv /\ Init
  BY InitInv DEF AppInit, IInv
<1>2. TypeOK
  BY <1>1 DEF BufferInv
<1>3. main = "open" /\ running = FALSE /\ freed = FALSE /\ boots = 1 /\ bootFrame = 0
      /\ frame = 0 /\ mq = <<>> /\ lcd = "off" /\ disp = "create" /\ msg.seq = 0
      /\ \A k \in Buf : yuv[k].top = 0
  BY <1>1 DEF AppInit, Init, Blank
<1>4. AppTypeOK
  <2>1. main \in MainStage /\ running \in BOOLEAN /\ freed \in BOOLEAN
    BY <1>3 DEF MainStage
  <2>2. boots \in 1 .. MaxBoots /\ bootFrame \in 0 .. frame
    BY <1>3, AppAssumption
  <2>3. QED
    BY <1>2, <2>1, <2>2 DEF AppTypeOK
<1>5. /\ MainOrder /\ Indexed /\ NewFrames /\ AppMessages /\ CapturedMessages /\ StaleFirst
      /\ FreshShownNotOlder
  BY <1>1, <1>3, PipelineAssumption DEF Init, MainOrder, Indexed, NewFrames, AppMessages,
     CapturedMessages, StaleFirst, FreshShownNotOlder
<1>6. QED
  BY <1>1, <1>4, <1>5 DEF AppInv

\* AppInv holds through every start of the program.
THEOREM AppInductive == AppSpec => []AppInv
<1>1. AppInv /\ [AppNext]_allVars => AppInv'
  BY BufferStep, AppTypeStep, OrderStep, IndexedStep, NewFramesStep, AppMessagesStep, CapturedStep,
     StaleFirstStep, FreshShownStep DEF AppInv
<1>2. QED
  BY AppInitInv, <1>1, PTL DEF AppSpec

\* Every variable keeps its type in every start of the program.
THEOREM AppTypeCorrect == AppSpec => []AppTypeOK
<1>1. AppInv => AppTypeOK
  BY DEF AppInv
<1>2. QED
  BY AppInductive, <1>1, PTL

\* The pictures are freed only while no thread can display them.
THEOREM LcdNeverSeesFreedAlways == AppSpec => []LcdNeverSeesFreed
<1>1. AppInv => LcdNeverSeesFreed
  BY DEF AppInv, MainOrder, LcdNeverSeesFreed
<1>2. QED
  BY AppInductive, <1>1, PTL

\* Messages of earlier starts are ahead of all of this start.
THEOREM StaleFirstAlways == AppSpec => []StaleFirst
<1>1. AppInv => StaleFirst
  BY DEF AppInv
<1>2. QED
  BY AppInductive, <1>1, PTL

\* Once an announcement of this start is received, the screen shows nothing
\* older than what is announced.
THEOREM FreshShownNotOlderAlways == AppSpec => []FreshShownNotOlder
<1>1. AppInv => FreshShownNotOlder
  BY DEF AppInv
<1>2. QED
  BY AppInductive, <1>1, PTL

LEMMA BackedMeansCaptured == AppInv => CapturedUnlessStale
<1> SUFFICES ASSUME AppInv, lcd \in {"copyTop", "copyBot"},
                    ~ (boots > 1 /\ msg.seq <= bootFrame)
             PROVE  rgb[msg.num].top > 0 /\ rgb[msg.num].bot > 0
  BY DEF CapturedUnlessStale, ShowsCaptured
<1>1. /\ msg.seq \in Int /\ bootFrame \in Int /\ bootFrame >= 0
      /\ boots \in Int /\ boots >= 1
      /\ rgb[msg.num].top \in Int /\ rgb[msg.num].bot \in Int
  BY AppAssumption DEF AppInv, AppTypeOK, TypeOK, Message, Picture, Frame
<1>2. msg.seq > bootFrame /\ msg.seq > 0
  BY <1>1 DEF AppInv, CapturedMessages
<1>3. msg.seq <= rgb[msg.num].top /\ msg.seq <= rgb[msg.num].bot
  BY <1>2 DEF AppInv, AppMessages, Backed, MainOrder, Intact
<1>4. QED
  BY <1>1, <1>2, <1>3

\* Only an announcement of an earlier start makes the display copy a picture
\* nothing was captured into.
THEOREM CapturedUnlessStaleAlways == AppSpec => []CapturedUnlessStale
BY AppInductive, BackedMeansCaptured, PTL

\* What FramePipeline promises of the buffers holds in every start for as long
\* as main() has not freed the memory of the threads (main.c:82): it does not
\* depend on the messages, nor on what else main() has set up or failed to.
THEOREM BuffersInEveryStart ==
  AppSpec => [](~ freed => OneHolder /\ WorkerKnowsItself /\ NoMixedFrame /\ NoCircularWait)
<1>1. AppInv => (~ freed => OneHolder /\ WorkerKnowsItself /\ NoMixedFrame /\ NoCircularWait)
  BY HoldingMeansOneHolder, ContentsNoMixedFrame, HoldingMeansProgress DEF AppInv, BufferInv
<1>2. QED
  BY AppInductive, <1>1, PTL

\* Within one start no buffer changes under its converter and no picture goes
\* back to an older frame, for as long as the memory is not freed.
THEOREM SteadyWithinAStart ==
  AppSpec => [][Intact' =>
                  /\ \A w \in Worker : Converting(w) => yuv'[Slot(w)] = yuv[Slot(w)]
                  /\ \A b \in Buf : /\ rgb'[b].top >= rgb[b].top
                                     /\ rgb'[b].bot >= rgb[b].bot]_allVars
<1> DEFINE Steady == /\ \A w \in Worker : Converting(w) => yuv'[Slot(w)] = yuv[Slot(w)]
                     /\ \A b \in Buf : /\ rgb'[b].top >= rgb[b].top
                                        /\ rgb'[b].bot >= rgb[b].bot
<1>1. AppInv /\ [AppNext]_allVars => [Intact' => Steady]_allVars
  <2> SUFFICES ASSUME AppInv, [AppNext]_allVars, Intact' PROVE Steady
    OBVIOUS
  <2>1. MainOrder /\ TypeOK
    BY DEF AppInv, AppTypeOK
  <2>2. CASE Next /\ Intact
    <3>1. BufferInv
      BY <2>2 DEF AppInv, Intact
    <3>2. QED
      BY <2>2, <3>1, BusyStays, PicturesGrow
  <2>3. CASE UNCHANGED <<yuv, rgb>>
    <3>1. \A b \in Buf : rgb[b].top \in Int /\ rgb[b].bot \in Int
      BY <2>1 DEF TypeOK, Picture, Frame
    <3>2. QED
      BY <2>3, <3>1
  <2>4. QED
    BY <2>1, <2>2, <2>3, StepKinds, DispatcherNotMade, FreeFacts, FreedFacts, EndFacts,
       RestartFacts
    DEF vars, driverVars
<1>2. QED
  BY AppInductive, <1>1, PTL DEF AppSpec

=============================================================================

------------------------- MODULE FramePipelineProofs -------------------------
(***************************************************************************)
(* Proofs about FramePipeline, for every number of buffers, queue length,   *)
(* number of frames and set of failing calls.  The inductive invariant is   *)
(* IInv; one lemma per conjunct shows that a step preserves it, with one    *)
(* step per action that touches the variables of the conjunct.              *)
(***************************************************************************)
EXTENDS FramePipeline, SequenceTheorems, TLAPS

USE DEF Slot, Step

LEMMA Zero ==
  /\ 0 \in Buf /\ 0 \in Frame /\ Blank \in Picture
BY PipelineAssumption DEF Buf, Frame, Picture, Blank

LEMMA OwnBuffer == \A w \in Worker : w \in 1 .. N /\ w - 1 \in Buf
BY PipelineAssumption DEF Buf, Worker

LEMMA OwnConverter ==
  \A k \in Buf : k \in Int /\ k + 1 \in Worker
BY PipelineAssumption DEF Buf, Worker

\* A half of one picture overwritten leaves an array of pictures.
LEMMA HalfWritten ==
  ASSUME NEW P \in [Buf -> Picture], NEW k \in Buf, NEW f \in Frame
  PROVE  /\ [P EXCEPT ![k].top = f] \in [Buf -> Picture]
         /\ [P EXCEPT ![k].bot = f] \in [Buf -> Picture]
         /\ P[k].top \in Frame /\ P[k].bot \in Frame
BY DEF Picture

\* A started converter finds its id in tid[], and nobody else's.
LEMMA SelfFound ==
  ASSUME Created, NEW w \in Worker, wpc[w] = "start"
  PROVE  SelfIndex(w) = w
<1>1. {i \in Worker : tid[i] = w} = {w}
  BY OwnBuffer DEF Created
<1>2. w <= w
  BY OwnBuffer
<1>3. QED
  BY <1>1, <1>2 DEF SelfIndex

\* A process that has just started, whatever the camera and the queue did before.
Started ==
  /\ vb = [k \in Buf |-> "queued"]
  /\ doneQ = <<>>
  /\ yuv = [k \in Buf |-> Blank]
  /\ frame \in Frame
  /\ disp = "create" /\ next = 1 /\ held = 0
  /\ tid = [i \in Worker |-> 0]
  /\ wpc = [w \in Worker |-> "none"]
  /\ who = [w \in Worker |-> 0]
  /\ sem = [k \in Buf |-> 0]
  /\ rgb = [k \in Buf |-> Blank]
  /\ mq \in Seq(Message)
  /\ lcd = "off" /\ msg = [num |-> 0, seq |-> 0] /\ shown = Blank

LEMMA StartedBuffers == Started => BufferInv
<1> SUFFICES ASSUME Started PROVE BufferInv
  OBVIOUS
<1> USE Zero DEF Started, Blank
<1>1. TypeOK
  <2>1. 1 \in 1 .. N + 1 /\ 0 \in 0 .. N
    BY PipelineAssumption
  <2>2. <<>> \in Seq(Buf) /\ msg \in Message
    BY DEF Message
  <2>3. QED
    BY <2>1, <2>2 DEF TypeOK, DispStage, WorkerStage, LcdStage
<1>2. WorkerKnowsItself /\ Created /\ Holding /\ DoneQueue
  BY PipelineAssumption, OwnConverter DEF WorkerKnowsItself, Created, Holding,
     HeldOnce, Busy, DoneQueue, Worker
<1>3. Contents /\ DistinctFrames
  BY OwnConverter DEF Contents, PictureOf, DistinctFrames, Whole, Behind, Busy, Frame
<1>4. QED
  BY <1>1, <1>2, <1>3 DEF BufferInv

LEMMA InitInv == Init => IInv
<1> SUFFICES ASSUME Init PROVE IInv
  OBVIOUS
<1>1. Started
  BY Zero DEF Init, Started
<1>2. Announced /\ AnnouncedInOrder /\ ShownNotOlder /\ ShownNotNewer
  BY Zero, OwnConverter DEF Init, Blank, Announced, Backed, AnnouncedInOrder, ShownNotOlder,
     ShownNotNewer
<1>3. QED
  BY <1>1, <1>2, StartedBuffers DEF IInv

-----------------------------------------------------------------------------

\* The steps that keep the types whatever the threads do.
LEMMA CameraType == ASSUME TypeOK, Camera PROVE TypeOK'
<1> USE DEF TypeOK, driverVars, dispVars, lcdVars
<1>1. ASSUME NEW k \in Buf, StartCapture(k) PROVE TypeOK'
  <2>1. frame + 1 \in Frame
    BY <1>1, PipelineAssumption DEF StartCapture, Frame
  <2>2. yuv' \in [Buf -> Picture]
    BY <1>1, <2>1, HalfWritten DEF StartCapture, BeginFill
  <2>3. QED
    BY <1>1, <2>1, <2>2 DEF StartCapture, BeginFill
<1>2. ASSUME NEW k \in Buf, EndCapture(k) PROVE TypeOK'
  <2>1. yuv' \in [Buf -> Picture]
    BY <1>2, HalfWritten DEF EndCapture
  <2>2. doneQ' \in Seq(Buf)
    BY <1>2, AppendProperties DEF EndCapture
  <2>3. QED
    BY <1>2, <2>1, <2>2 DEF EndCapture
<1>3. QED
  BY <1>1, <1>2 DEF Camera

LEMMA HandOutType ==
  ASSUME TypeOK, (CreateWorker /\ next <= N) \/ CreateFails \/ Dequeue
  PROVE  TypeOK'
<1> USE DEF TypeOK, DispStage, WorkerStage, driverVars, lcdVars
<1>1. CASE CreateWorker /\ next <= N
  <2>1. next \in Worker /\ next \in 0 .. N /\ next + 1 \in 1 .. N + 1
    BY <1>1, PipelineAssumption DEF Worker
  <2>2. tid' \in [Worker -> 0 .. N] /\ wpc' \in [Worker -> WorkerStage]
    BY <1>1, <2>1 DEF CreateWorker
  <2>3. QED
    BY <1>1, <2>1, <2>2 DEF CreateWorker
<1>2. CASE CreateFails
  BY <1>2 DEF CreateFails
<1>3. CASE Dequeue
  <2>1. Head(doneQ) \in Buf /\ Tail(doneQ) \in Seq(Buf)
    BY <1>3, HeadTailProperties DEF Dequeue
  <2>2. QED
    BY <1>3, <2>1 DEF Dequeue
<1>4. QED
  BY <1>1, <1>2, <1>3

\* A semaphore is posted only for a buffer no other semaphore, and no
\* converter, holds; so it never counts beyond 1.
LEMMA StepType == BufferInv /\ [Next]_vars => TypeOK'
<1> SUFFICES ASSUME BufferInv, [Next]_vars PROVE TypeOK'
  OBVIOUS
<1>a. TypeOK /\ WorkerKnowsItself /\ Created /\ Holding /\ DoneQueue
  BY DEF BufferInv
<1> USE <1>a DEF TypeOK, DispStage, WorkerStage, LcdStage,
      driverVars, dispVars, lcdVars
<1>1. CASE UNCHANGED vars
  BY <1>1 DEF vars
<1>2. CASE Camera
  BY <1>2, CameraType
<1>3. CASE CreateWorker \/ CreateFails \/ Dequeue
  BY <1>3, HandOutType DEF Created, CreateWorker
<1>4. CASE DequeueFails
  BY <1>4 DEF DequeueFails
<1>5. CASE Post
  BY <1>5 DEF Post, Holding, HeldOnce
<1>6. ASSUME NEW w \in Worker, FindSelf(w) PROVE TypeOK'
  <2>1. SelfIndex(w) \in 0 .. N
    BY <1>6, SelfFound, OwnBuffer DEF FindSelf
  <2>2. QED
    BY <1>6, <2>1 DEF FindSelf
<1>7. ASSUME NEW w \in Worker, Take(w) PROVE TypeOK'
  <2>1. Slot(w) \in Buf
    BY <1>7, OwnBuffer DEF Take, WorkerKnowsItself
  <2>2. QED
    BY <1>7, <2>1 DEF Take
<1>8. ASSUME NEW w \in Worker, ConvertTop(w) \/ ConvertBottom(w)
       PROVE  TypeOK'
  <2>1. Slot(w) \in Buf
    BY <1>8, OwnBuffer DEF ConvertTop, ConvertBottom, WorkerKnowsItself
  <2>2. yuv[Slot(w)].top \in Frame /\ yuv[Slot(w)].bot \in Frame
    BY <2>1, HalfWritten
  <2>3. /\ [rgb EXCEPT ![Slot(w)].top = yuv[Slot(w)].top] \in [Buf -> Picture]
        /\ [rgb EXCEPT ![Slot(w)].bot = yuv[Slot(w)].bot] \in [Buf -> Picture]
    BY <2>1, <2>2, HalfWritten
  <2>4. QED
    BY <1>8, <2>3 DEF ConvertTop, ConvertBottom
<1>9. ASSUME NEW w \in Worker, Send(w) PROVE TypeOK'
  <2>1. Slot(w) \in Buf
    BY <1>9, OwnBuffer DEF Send, WorkerKnowsItself
  <2>2. [num |-> Slot(w), seq |-> rgb[Slot(w)].bot] \in Message
    BY <2>1, HalfWritten DEF Message
  <2>3. mq' \in Seq(Message)
    BY <1>9, <2>2, AppendProperties DEF Send
  <2>4. QED
    BY <1>9, <2>3 DEF Send
<1>10. ASSUME NEW w \in Worker, SendFails(w) \/ RequeueFails(w) PROVE TypeOK'
  BY <1>10 DEF SendFails, RequeueFails
<1>11. ASSUME NEW w \in Worker, Requeue(w) PROVE TypeOK'
  BY <1>11 DEF Requeue
<1>12. CASE StartLcd
  BY <1>12 DEF StartLcd
<1>13. CASE Receive
  <2>1. Head(mq) \in Message /\ Tail(mq) \in Seq(Message)
    BY <1>13, HeadTailProperties DEF Receive
  <2>2. QED
    BY <1>13, <2>1 DEF Receive
<1>14. CASE CopyTop \/ CopyBottom
  <2>1. rgb[msg.num].top \in Frame /\ rgb[msg.num].bot \in Frame
    BY HalfWritten DEF Message, Picture
  <2>2. shown' \in Picture
    BY <1>14, <2>1 DEF CopyTop, CopyBottom, Picture
  <2>3. QED
    BY <1>14, <2>2 DEF CopyTop, CopyBottom
<1>15. QED
  BY <1>1, <1>2, <1>3, <1>4, <1>5, <1>6, <1>7, <1>8, <1>9, <1>10, <1>11, <1>12, <1>13,
     <1>14
  DEF Next, Dispatcher, Converter, Display

\* Ids are in tid[] before the converters look for them.
LEMMA StepThreads == BufferInv /\ [Next]_vars => WorkerKnowsItself' /\ Created'
<1> SUFFICES ASSUME BufferInv, [Next]_vars PROVE WorkerKnowsItself' /\ Created'
  OBVIOUS
<1>a. TypeOK /\ WorkerKnowsItself /\ Created
  BY DEF BufferInv
<1> USE <1>a DEF WorkerKnowsItself, driverVars, dispVars, lcdVars
<1>1. CASE UNCHANGED <<wpc, who, dispVars>>
  BY <1>1 DEF Created
<1>2. CASE CreateWorker
  <2>1. next \in 1 .. N /\ next \in Worker /\ next \in Int
    BY <1>2 DEF CreateWorker, Created, TypeOK, Worker
  <2>2. WorkerKnowsItself'
    BY <1>2, <2>1 DEF CreateWorker, Created, TypeOK
  <2>3. \A w \in Worker : tid'[w] = IF wpc'[w] = "none" THEN 0 ELSE w
    BY <1>2, <2>1 DEF CreateWorker, Created, TypeOK
  <2>4. disp' = "create" =>
          next' <= N /\ \A w \in next' .. N : wpc'[w] = "none"
    BY <1>2, <2>1, PipelineAssumption DEF CreateWorker, Created, TypeOK, Worker
  <2>5. QED
    BY <2>2, <2>3, <2>4 DEF Created
<1>3. CASE CreateFails \/ Dequeue \/ DequeueFails \/ Post
  BY <1>3 DEF CreateFails, Dequeue, DequeueFails, Post, Created
<1>4. ASSUME NEW w \in Worker, FindSelf(w)
      PROVE  WorkerKnowsItself' /\ Created'
  <2>1. SelfIndex(w) = w
    BY <1>4, SelfFound DEF FindSelf
  <2>2. QED
    BY <1>4, <2>1, OwnBuffer DEF FindSelf, Created, TypeOK, Worker
<1>5. ASSUME NEW w \in Worker, Converter(w), ~ FindSelf(w)
      PROVE  WorkerKnowsItself' /\ Created'
  <2>1. /\ UNCHANGED <<who, dispVars>>
        /\ wpc[w] \notin {"none", "start"}
        /\ \E to \in WorkerStage \ {"none", "start"} :
             wpc' = [wpc EXCEPT ![w] = to]
    BY <1>5 DEF Converter, Take, ConvertTop, ConvertBottom, Send, SendFails,
                Requeue, RequeueFails, WorkerStage
  <2>2. QED
    BY <2>1 DEF Created, TypeOK, Worker
<1>6. QED
  BY <1>1, <1>2, <1>3, <1>4, <1>5
  DEF Next, Camera, Dispatcher, Display, StartCapture, BeginFill, EndCapture,
      StartLcd, Receive, CopyTop, CopyBottom, vars

\* A buffer changes hands, and is never in two.
LEMMA StepHolding == BufferInv /\ [Next]_vars => Holding'
<1> SUFFICES ASSUME BufferInv, [Next]_vars, NEW k \in Buf PROVE HeldOnce(k)'
  BY DEF Holding
<1>a. TypeOK /\ WorkerKnowsItself /\ Created /\ DoneQueue /\ HeldOnce(k)
  BY DEF BufferInv, Holding
<1>b. k \in Int /\ k + 1 \in Worker /\ \A w \in Worker : k = w - 1 <=> k + 1 = w
  BY OwnConverter, OwnBuffer
<1> USE <1>a, <1>b DEF TypeOK, HeldOnce, Busy, driverVars, dispVars, lcdVars
<1>1. CASE UNCHANGED <<vb, disp, held, sem, wpc>>
  BY <1>1
<1>2. ASSUME NEW j \in Buf, StartCapture(j) \/ EndCapture(j) PROVE HeldOnce(k)'
  BY <1>2 DEF StartCapture, BeginFill, EndCapture
<1>3. CASE CreateWorker
  <2>1. next \in Worker /\ wpc[next] = "none"
    BY <1>3, PipelineAssumption DEF CreateWorker, Created, Worker
  <2>2. QED
    BY <1>3, <2>1 DEF CreateWorker
<1>4. CASE CreateFails \/ DequeueFails
  BY <1>4 DEF CreateFails, DequeueFails
<1>5. CASE Dequeue
  <2>1. Head(doneQ) \in Buf /\ vb[Head(doneQ)] = "done"
    BY <1>5, HeadTailProperties DEF Dequeue, DoneQueue
  <2>2. QED
    BY <1>5, <2>1 DEF Dequeue
<1>6. CASE Post
  BY <1>6 DEF Post
<1>7. ASSUME NEW w \in Worker, FindSelf(w) PROVE HeldOnce(k)'
  BY <1>7 DEF FindSelf
<1>8. ASSUME NEW w \in Worker, Take(w) PROVE HeldOnce(k)'
  <2>1. Slot(w) = w - 1 /\ w - 1 \in Buf
    BY <1>8, OwnBuffer DEF Take, WorkerKnowsItself
  <2>2. QED
    BY <1>8, <2>1 DEF Take
<1>9. ASSUME NEW w \in Worker,
             ConvertTop(w) \/ ConvertBottom(w) \/ Send(w) \/ SendFails(w)
               \/ RequeueFails(w)
      PROVE  HeldOnce(k)'
  BY <1>9 DEF ConvertTop, ConvertBottom, Send, SendFails, RequeueFails
<1>10. ASSUME NEW w \in Worker, Requeue(w) PROVE HeldOnce(k)'
  <2>1. Slot(w) = w - 1 /\ w - 1 \in Buf
    BY <1>10, OwnBuffer DEF Requeue, WorkerKnowsItself
  <2>2. QED
    BY <1>10, <2>1 DEF Requeue
<1>11. QED
  BY <1>1, <1>2, <1>3, <1>4, <1>5, <1>6, <1>7, <1>8, <1>9, <1>10
  DEF Next, Camera, Dispatcher, Converter, Display,
      StartLcd, Receive, CopyTop, CopyBottom, vars

LEMMA StepDoneQueue == BufferInv /\ [Next]_vars => DoneQueue'
<1> SUFFICES ASSUME BufferInv, [Next]_vars PROVE DoneQueue'
  OBVIOUS
<1>a. /\ doneQ \in Seq(Buf) /\ Len(doneQ) \in Nat
      /\ vb \in [Buf -> {"queued", "active", "done", "dequeued"}]
  BY LenProperties DEF BufferInv, TypeOK
<1>b. DoneQueue /\ \A i \in 1 .. Len(doneQ) : doneQ[i] \in Buf /\ vb[doneQ[i]] = "done"
  BY <1>a, ElementOfSeq DEF BufferInv, DoneQueue
<1> USE DEF driverVars, dispVars, lcdVars
<1>1. CASE UNCHANGED <<vb, doneQ>>
  BY <1>1, <1>b DEF DoneQueue
<1>2. ASSUME NEW k \in Buf, StartCapture(k) PROVE DoneQueue'
  BY <1>2, <1>a, <1>b DEF DoneQueue, StartCapture, BeginFill
<1>3. ASSUME NEW k \in Buf, EndCapture(k) PROVE DoneQueue'
  <2>1. /\ Len(doneQ) \in Nat /\ Len(doneQ') = Len(doneQ) + 1
        /\ \A i \in 1 .. Len(doneQ') :
             doneQ'[i] = IF i = Len(doneQ) + 1 THEN k ELSE doneQ[i]
    BY <1>3, <1>a, AppendProperties, LenProperties DEF EndCapture
  <2>2. \A i \in 1 .. Len(doneQ) : doneQ[i] \in Buf /\ vb[doneQ[i]] = "done"
    BY <1>b
  <2>3. vb' = [vb EXCEPT ![k] = "done"] /\ vb \in [Buf -> {"queued", "active", "done", "dequeued"}]
        /\ vb[k] = "active"
    BY <1>3, <1>a DEF EndCapture
  <2>4. /\ \A j \in Buf : vb[j] = "done" => \E i \in 1 .. Len(doneQ) : doneQ[i] = j
        /\ \A i, j \in 1 .. Len(doneQ) : doneQ[i] = doneQ[j] => i = j
    BY <1>b DEF DoneQueue
  <2>5. \A i \in 1 .. Len(doneQ') : vb'[doneQ'[i]] = "done"
    BY <2>1, <2>2, <2>3
  <2>6. \A j \in Buf : vb'[j] = "done" => \E i \in 1 .. Len(doneQ') : doneQ'[i] = j
    <3> SUFFICES ASSUME NEW j \in Buf, vb'[j] = "done"
                 PROVE  \E i \in 1 .. Len(doneQ') : doneQ'[i] = j
      OBVIOUS
    <3>1. CASE j = k
      <4>1. Len(doneQ) + 1 \in 1 .. Len(doneQ')
        BY <2>1
      <4>2. QED
        BY <2>1, <3>1, <4>1
    <3>2. CASE j # k
      <4>1. PICK i \in 1 .. Len(doneQ) : doneQ[i] = j
        BY <2>3, <2>4, <3>2
      <4>2. i \in 1 .. Len(doneQ') /\ doneQ'[i] = j
        BY <2>1, <4>1
      <4>3. QED
        BY <4>2
    <3>3. QED
      BY <3>1, <3>2
  <2>7. \A i, j \in 1 .. Len(doneQ') : doneQ'[i] = doneQ'[j] => i = j
    BY <2>1, <2>2, <2>3, <2>4
  <2>8. QED
    BY <2>5, <2>6, <2>7 DEF DoneQueue
<1>4. CASE Dequeue
  <2> DEFINE h == Head(doneQ)
  <2>1. /\ Len(doneQ) \in Nat /\ 1 \in 1 .. Len(doneQ) /\ h = doneQ[1]
        /\ Len(doneQ') = Len(doneQ) - 1
        /\ \A i \in 1 .. Len(doneQ') : i + 1 \in 1 .. Len(doneQ) /\ doneQ'[i] = doneQ[i + 1]
    BY <1>4, <1>a, HeadTailProperties, LenProperties DEF Dequeue
  <2>2. vb' = [vb EXCEPT ![h] = "dequeued"]
    BY <1>4 DEF Dequeue
  <2> HIDE DEF h
  <2>3. \A i \in 1 .. Len(doneQ) : doneQ[i] \in Buf /\ vb[doneQ[i]] = "done"
    BY <1>b
  <2>4. /\ \A j \in Buf : vb[j] = "done" => \E i \in 1 .. Len(doneQ) : doneQ[i] = j
        /\ \A i, j \in 1 .. Len(doneQ) : doneQ[i] = doneQ[j] => i = j
    BY <1>b DEF DoneQueue
  <2>5. \A i \in 1 .. Len(doneQ') : vb'[doneQ'[i]] = "done"
    <3> SUFFICES ASSUME NEW i \in 1 .. Len(doneQ') PROVE vb'[doneQ'[i]] = "done"
      OBVIOUS
    <3>1. i + 1 \in 1 .. Len(doneQ) /\ i + 1 # 1 /\ doneQ'[i] = doneQ[i + 1]
      BY <2>1
    <3>2. doneQ[i + 1] # h /\ vb[doneQ[i + 1]] = "done" /\ doneQ[i + 1] \in Buf
      BY <2>1, <2>3, <2>4, <3>1
    <3>3. QED
      BY <1>a, <2>2, <3>1, <3>2
  <2>6. \A j \in Buf : vb'[j] = "done" => \E i \in 1 .. Len(doneQ') : doneQ'[i] = j
    <3> SUFFICES ASSUME NEW j \in Buf, vb'[j] = "done"
                 PROVE  \E i \in 1 .. Len(doneQ') : doneQ'[i] = j
      OBVIOUS
    <3>1. j # h /\ vb[j] = "done"
      BY <1>a, <2>1, <2>2, <2>3
    <3>2. PICK i \in 1 .. Len(doneQ) : doneQ[i] = j
      BY <2>4, <3>1
    <3>3. i # 1 /\ i - 1 \in 1 .. Len(doneQ') /\ (i - 1) + 1 = i
      BY <2>1, <3>1, <3>2
    <3>4. doneQ'[i - 1] = j
      BY <2>1, <3>2, <3>3
    <3>5. QED
      BY <3>3, <3>4
  <2>7. \A i, j \in 1 .. Len(doneQ') : doneQ'[i] = doneQ'[j] => i = j
    <3> SUFFICES ASSUME NEW i \in 1 .. Len(doneQ'), NEW j \in 1 .. Len(doneQ'),
                        doneQ'[i] = doneQ'[j]
                 PROVE  i = j
      OBVIOUS
    <3>1. i + 1 \in 1 .. Len(doneQ) /\ j + 1 \in 1 .. Len(doneQ) /\ doneQ[i + 1] = doneQ[j + 1]
      BY <2>1
    <3>2. i + 1 = j + 1
      BY <2>4, <3>1
    <3>3. QED
      BY <2>1, <3>2
  <2>8. QED
    BY <2>5, <2>6, <2>7 DEF DoneQueue
<1>5. ASSUME NEW w \in Worker, Requeue(w) PROVE DoneQueue'
  BY <1>5, <1>a, <1>b DEF DoneQueue, Requeue
<1>6. QED
  BY <1>1, <1>2, <1>3, <1>4, <1>5
  DEF Next, Camera, Dispatcher, Converter, Display, CreateWorker, CreateFails,
      DequeueFails, Post, FindSelf, Take, ConvertTop, ConvertBottom, Send,
      SendFails, RequeueFails, StartLcd, Receive, CopyTop, CopyBottom, vars

\* A buffer is refilled only after its picture was completed from it.
LEMMA StepContents == BufferInv /\ [Next]_vars => Contents'
<1> SUFFICES ASSUME BufferInv, [Next]_vars, NEW k \in Buf PROVE PictureOf(k)'
  BY DEF Contents
<1>a. TypeOK /\ WorkerKnowsItself /\ Created /\ DoneQueue /\ HeldOnce(k) /\ PictureOf(k)
  BY DEF BufferInv, Holding, Contents
<1>b. k \in Int /\ k + 1 \in Worker /\ \A w \in Worker : k = w - 1 <=> k + 1 = w
  BY OwnConverter, OwnBuffer
<1>c. /\ yuv[k].top \in Int /\ yuv[k].bot \in Int /\ rgb[k].top \in Int
      /\ rgb[k].bot \in Int /\ frame \in Int /\ frame >= 0
      /\ rgb[k].top >= 0
  BY <1>a DEF TypeOK, Picture, Frame
<1>d. yuv[k] \in Picture /\ rgb[k] \in Picture
  BY <1>a DEF TypeOK
<1> USE <1>a, <1>b, <1>c DEF TypeOK, PictureOf, Whole, Behind, Busy, driverVars,
      dispVars, lcdVars
<1>1. CASE UNCHANGED <<vb, yuv, frame, wpc, rgb>>
  BY <1>1
<1>2. ASSUME NEW j \in Buf, StartCapture(j) PROVE PictureOf(k)'
  BY <1>2, <1>d DEF StartCapture, BeginFill, HeldOnce, Picture
<1>3. ASSUME NEW j \in Buf, EndCapture(j) PROVE PictureOf(k)'
  BY <1>3, <1>d DEF EndCapture, HeldOnce, Picture
<1>4. CASE CreateWorker
  <2>1. next \in Worker /\ wpc[next] = "none"
    BY <1>4, PipelineAssumption DEF CreateWorker, Created, Worker
  <2>2. QED
    BY <1>4, <2>1 DEF CreateWorker
<1>5. CASE Dequeue
  <2>1. Head(doneQ) \in Buf /\ vb[Head(doneQ)] = "done"
    BY <1>5, HeadTailProperties DEF Dequeue, DoneQueue
  <2>2. QED
    BY <1>5, <2>1 DEF Dequeue
<1>6. ASSUME NEW w \in Worker, FindSelf(w) \/ Take(w) PROVE PictureOf(k)'
  BY <1>6 DEF FindSelf, Take
<1>7. ASSUME NEW w \in Worker, ConvertTop(w) \/ ConvertBottom(w)
      PROVE  PictureOf(k)'
  <2>1. Slot(w) = w - 1 /\ w - 1 \in Buf
    BY <1>7, OwnBuffer DEF ConvertTop, ConvertBottom, WorkerKnowsItself
  <2>2. CASE w = k + 1 /\ ConvertTop(w)
    <3>1. /\ rgb'[k].top = yuv[k].top /\ rgb'[k].bot = rgb[k].bot
          /\ vb[k] = "dequeued" /\ wpc'[k + 1] = "convBot"
          /\ UNCHANGED <<vb, yuv, frame>>
      BY <1>d, <2>1, <2>2 DEF ConvertTop, HeldOnce, Picture
    <3>2. QED
      BY <2>2, <3>1 DEF ConvertTop
  <2>3. CASE w = k + 1 /\ ConvertBottom(w)
    <3>1. rgb'[k] = [top |-> yuv[k].top, bot |-> yuv[k].bot]
      BY <1>d, <2>1, <2>3 DEF ConvertBottom, Picture
    <3>2. rgb'[k] = yuv[k]
      BY <3>1, <1>d DEF Picture
    <3>3. /\ vb[k] = "dequeued" /\ wpc'[k + 1] = "send"
          /\ UNCHANGED <<vb, yuv, frame>>
      BY <2>1, <2>3 DEF ConvertBottom, HeldOnce
    <3>4. QED
      BY <3>2, <3>3
  <2>4. CASE w # k + 1
    BY <1>7, <2>1, <2>4 DEF ConvertTop, ConvertBottom
  <2>5. QED
    BY <1>7, <2>2, <2>3, <2>4
<1>8. ASSUME NEW w \in Worker, Send(w) \/ SendFails(w) \/ RequeueFails(w)
      PROVE  PictureOf(k)'
  BY <1>8 DEF Send, SendFails, RequeueFails
<1>9. ASSUME NEW w \in Worker, Requeue(w) PROVE PictureOf(k)'
  <2>1. Slot(w) = w - 1 /\ w - 1 \in Buf
    BY <1>9, OwnBuffer DEF Requeue, WorkerKnowsItself
  <2>2. QED
    BY <1>9, <2>1 DEF Requeue
<1>10. QED
  BY <1>1, <1>2, <1>3, <1>4, <1>5, <1>6, <1>7, <1>8, <1>9
  DEF Next, Camera, Dispatcher, Converter, Display, CreateFails, DequeueFails,
      Post, StartLcd, Receive, CopyTop, CopyBottom, vars

LEMMA StepDistinct == BufferInv /\ [Next]_vars => DistinctFrames'
<1> SUFFICES ASSUME BufferInv, [Next]_vars PROVE DistinctFrames'
  OBVIOUS
<1>a. TypeOK /\ Contents /\ DistinctFrames
  BY DEF BufferInv
<1>b. \A k \in Buf : yuv[k] \in Picture /\ yuv[k].top \in Int
  BY <1>a DEF TypeOK, Picture, Frame
<1>c. \A k \in Buf : yuv[k].top <= frame
  BY <1>a DEF Contents, PictureOf
<1>d. frame \in Int
  BY <1>a DEF TypeOK, Frame
<1>1. CASE UNCHANGED yuv
  BY <1>1, <1>a DEF DistinctFrames
<1>2. ASSUME NEW k \in Buf, StartCapture(k) PROVE DistinctFrames'
  <2>1. \A j \in Buf : yuv'[j].top = IF j = k THEN frame + 1 ELSE yuv[j].top
    BY <1>2, <1>a, <1>b DEF StartCapture, BeginFill, TypeOK, Picture
  <2>2. QED
    BY <2>1, <1>a, <1>b, <1>c, <1>d DEF DistinctFrames
<1>3. ASSUME NEW k \in Buf, EndCapture(k) PROVE DistinctFrames'
  <2>1. \A j \in Buf : yuv'[j].top = yuv[j].top
    BY <1>3, <1>a, <1>b DEF EndCapture, TypeOK, Picture
  <2>2. QED
    BY <2>1, <1>a DEF DistinctFrames
<1>4. QED
  BY <1>1, <1>2, <1>3
  DEF Next, Camera, Dispatcher, Converter, Display, CreateWorker, CreateFails,
      Dequeue, DequeueFails, Post, FindSelf, Take, ConvertTop, ConvertBottom,
      Send, SendFails, Requeue, RequeueFails, StartLcd, Receive, CopyTop,
      CopyBottom, vars, driverVars

\* A picture only gets newer, and newer than every message about it before it
\* is announced again.
LEMMA BackedStays ==
  ASSUME BufferInv, [Next]_vars, NEW m \in Message, Backed(m)
  PROVE  Backed(m)'
<1> DEFINE k == m.num
<1>a. k \in Buf /\ m.seq \in Int
  BY DEF Message, Frame
<1>b. /\ TypeOK /\ WorkerKnowsItself /\ Created
      /\ HeldOnce(k) /\ PictureOf(k)
  BY <1>a DEF BufferInv, Holding, Contents
<1>c. k + 1 \in Worker /\ \A w \in Worker : k = w - 1 <=> k + 1 = w
  BY <1>a, OwnConverter, OwnBuffer
<1>d. /\ yuv[k].top \in Int /\ yuv[k].bot \in Int /\ rgb[k].top \in Int
      /\ rgb[k].bot \in Int /\ yuv[k] \in Picture /\ rgb[k] \in Picture
  BY <1>a, <1>b DEF TypeOK, Picture, Frame
<1> HIDE DEF k
<1>e. Backed(m) <=> /\ m.seq <= rgb[k].top /\ m.seq <= rgb[k].bot
                    /\ wpc[k + 1] = "send" => m.seq < rgb[k].bot
  BY DEF Backed, k
<1>f. Backed(m)' <=> /\ m.seq <= rgb'[k].top /\ m.seq <= rgb'[k].bot
                     /\ wpc'[k + 1] = "send" => m.seq < rgb'[k].bot
  BY DEF Backed, k
<1> USE <1>a, <1>b, <1>c, <1>d, <1>e, <1>f DEF TypeOK
<1>1. CASE UNCHANGED <<wpc, rgb>>
  BY <1>1
<1>2. CASE CreateWorker
  <2>1. next \in Worker /\ wpc[next] = "none"
    BY <1>2, PipelineAssumption DEF CreateWorker, Created, Worker
  <2>2. QED
    BY <1>2, <2>1 DEF CreateWorker
<1>3. ASSUME NEW w \in Worker, ConvertTop(w) \/ ConvertBottom(w)
      PROVE  Backed(m)'
  <2>1. Slot(w) = w - 1 /\ w - 1 \in Buf
    BY <1>3, OwnBuffer DEF ConvertTop, ConvertBottom, WorkerKnowsItself
  <2>2. CASE w = k + 1 /\ ConvertTop(w)
    <3>1. rgb[k].top < yuv[k].top
      BY <2>2 DEF ConvertTop, HeldOnce, PictureOf, Busy, Behind
    <3>2. rgb'[k].top = yuv[k].top /\ rgb'[k].bot = rgb[k].bot
      BY <2>1, <2>2 DEF ConvertTop, Picture
    <3>3. QED
      BY <2>2, <3>1, <3>2 DEF ConvertTop
  <2>3. CASE w = k + 1 /\ ConvertBottom(w)
    <3>1. rgb[k].bot < yuv[k].top /\ yuv[k].top = yuv[k].bot
      BY <2>3 DEF ConvertBottom, HeldOnce, PictureOf, Busy, Whole
    <3>2. rgb'[k].top = rgb[k].top /\ rgb'[k].bot = yuv[k].bot
      BY <2>1, <2>3 DEF ConvertBottom, Picture
    <3>3. QED
      BY <3>1, <3>2
  <2>4. CASE w # k + 1
    BY <1>3, <2>1, <2>4 DEF ConvertTop, ConvertBottom
  <2>5. QED
    BY <1>3, <2>2, <2>3, <2>4
<1>4. ASSUME NEW w \in Worker, Converter(w), ~ ConvertTop(w), ~ ConvertBottom(w)
      PROVE  Backed(m)'
  <2>1. /\ UNCHANGED rgb
        /\ \E to \in WorkerStage \ {"send"} : wpc' = [wpc EXCEPT ![w] = to]
    BY <1>4 DEF Converter, FindSelf, Take, Send, SendFails, Requeue,
                RequeueFails, WorkerStage
  <2>2. QED
    BY <2>1
<1>5. QED
  BY <1>1, <1>2, <1>3, <1>4
  DEF Next, Camera, Dispatcher, Display, StartCapture, BeginFill, EndCapture,
      CreateFails, Dequeue, DequeueFails, Post, StartLcd, Receive, CopyTop,
      CopyBottom, vars

\* What a converter is about to announce is whole and newer than all it has
\* announced before.
LEMMA NewMessage ==
  ASSUME BufferInv, NEW w \in Worker, wpc[w] = "send"
  PROVE  /\ Slot(w) \in Buf /\ Slot(w) + 1 = w
         /\ rgb[Slot(w)].top = rgb[Slot(w)].bot /\ rgb[Slot(w)].bot > 0
         /\ [num |-> Slot(w), seq |-> rgb[Slot(w)].bot] \in Message
<1>1. who[w] = w /\ w - 1 \in Buf /\ (w - 1) + 1 = w
  BY OwnBuffer DEF BufferInv, WorkerKnowsItself
<1>2. HeldOnce(w - 1) /\ PictureOf(w - 1)
  BY <1>1 DEF BufferInv, Holding, Contents
<1>3. rgb[w - 1] = yuv[w - 1] /\ Whole(w - 1)
  BY <1>1, <1>2 DEF HeldOnce, PictureOf, Busy
<1>4. rgb[w - 1].bot \in Frame
  BY <1>1, HalfWritten DEF BufferInv, TypeOK, Picture
<1>5. QED
  BY <1>1, <1>3, <1>4 DEF Whole, Message

\* The messages in the queue and the one on its way to the screen stay backed.
LEMMA StepAnnounced == IInv /\ [Next]_vars => Announced'
<1> SUFFICES ASSUME IInv, [Next]_vars PROVE Announced'
  OBVIOUS
<1>a. /\ mq \in Seq(Message) /\ msg \in Message /\ Announced
      /\ \A i \in 1 .. Len(mq) : mq[i] \in Message
  BY ElementOfSeq DEF IInv, BufferInv, TypeOK
<1>b. \A m \in Message :
        Backed(m) => /\ m.seq <= rgb'[m.num].top /\ m.seq <= rgb'[m.num].bot
                     /\ wpc'[m.num + 1] = "send" => m.seq < rgb'[m.num].bot
  BY BackedStays DEF Backed, IInv
<1> USE <1>a, <1>b DEF Announced, Backed
<1>1. CASE UNCHANGED <<mq, lcd, msg>>
  BY <1>1
<1>2. ASSUME NEW w \in Worker, Send(w) PROVE Announced'
  <2> DEFINE m == [num |-> Slot(w), seq |-> rgb[Slot(w)].bot]
  <2>1. /\ m \in Message /\ Slot(w) + 1 = w
        /\ rgb[Slot(w)].top = rgb[Slot(w)].bot /\ rgb[Slot(w)].bot > 0
    BY <1>2, NewMessage DEF Send, IInv
  <2>2. wpc'[w] = "qbuf" /\ mq' = Append(mq, m) /\ UNCHANGED <<rgb, lcd, msg>>
    BY <1>2 DEF Send, IInv, BufferInv, TypeOK, lcdVars
  <2>3. rgb[Slot(w)].bot \in Int
    BY <2>1 DEF Message, Frame
  <2>4. \A i \in 1 .. Len(mq') :
          IF i = Len(mq) + 1 THEN mq'[i] = m ELSE i \in 1 .. Len(mq) /\ mq'[i] = mq[i]
    BY <2>1, <2>2, AppendProperties, LenProperties
  <2>5. /\ m.seq > 0
        /\ m.seq <= rgb'[m.num].top /\ m.seq <= rgb'[m.num].bot
        /\ wpc'[m.num + 1] # "send"
    BY <2>1, <2>2, <2>3
  <2> HIDE DEF m
  <2>6. \A i \in 1 .. Len(mq') :
          /\ mq'[i].seq > 0
          /\ mq'[i].seq <= rgb'[mq'[i].num].top
          /\ mq'[i].seq <= rgb'[mq'[i].num].bot
          /\ wpc'[mq'[i].num + 1] = "send" => mq'[i].seq < rgb'[mq'[i].num].bot
    BY <2>4, <2>5
  <2>7. QED
    BY <2>2, <2>6
<1>3. CASE StartLcd
  BY <1>3 DEF StartLcd
<1>4. CASE Receive
  <2>1. /\ msg' = mq[1] /\ 1 \in 1 .. Len(mq) /\ lcd' # "off"
        /\ \A i \in 1 .. Len(mq') : i + 1 \in 1 .. Len(mq) /\ mq'[i] = mq[i + 1]
    BY <1>4, HeadTailProperties, LenProperties DEF Receive
  <2>2. QED
    BY <2>1
<1>5. CASE CopyTop \/ CopyBottom
  BY <1>5 DEF CopyTop, CopyBottom
<1>6. QED
  BY <1>1, <1>2, <1>3, <1>4, <1>5
  DEF Next, Camera, Dispatcher, Converter, Display, CreateWorker, CreateFails,
      Dequeue, DequeueFails, Post, StartCapture, BeginFill, EndCapture, FindSelf,
      Take, ConvertTop, ConvertBottom, SendFails, Requeue, RequeueFails, vars,
      lcdVars

\* A new announcement is newer than the older ones of its picture.
LEMMA StepOrder == IInv /\ [Next]_vars => AnnouncedInOrder'
<1> SUFFICES ASSUME IInv, [Next]_vars PROVE AnnouncedInOrder'
  OBVIOUS
<1>a. /\ mq \in Seq(Message) /\ Announced /\ AnnouncedInOrder
  BY DEF IInv, BufferInv, TypeOK
<1> USE <1>a DEF AnnouncedInOrder
<1>1. CASE UNCHANGED <<mq, msg>>
  BY <1>1
<1>2. ASSUME NEW w \in Worker, Send(w) PROVE AnnouncedInOrder'
  <2> DEFINE m == [num |-> Slot(w), seq |-> rgb[Slot(w)].bot]
  <2>1. m \in Message /\ Slot(w) + 1 = w /\ wpc[w] = "send"
    BY <1>2, NewMessage DEF Send, IInv
  <2>2. mq' = Append(mq, m) /\ UNCHANGED msg
    BY <1>2 DEF Send, lcdVars
  <2>3. /\ Len(mq') = Len(mq) + 1 /\ Len(mq) \in Nat
        /\ \A i \in 1 .. Len(mq') :
          IF i = Len(mq) + 1 THEN mq'[i] = m ELSE i \in 1 .. Len(mq) /\ mq'[i] = mq[i]
    BY <2>1, <2>2, AppendProperties, LenProperties
  <2>4. /\ \A i \in 1 .. Len(mq) : mq[i].num = m.num => mq[i].seq < m.seq
        /\ msg.num = m.num => msg.seq < m.seq
    BY <2>1 DEF Announced, Backed
  <2>5. QED
    BY <2>2, <2>3, <2>4
<1>3. CASE Receive
  <2>1. /\ msg' = mq[1] /\ 1 \in 1 .. Len(mq) /\ Len(mq) \in Nat
        /\ Len(mq') = Len(mq) - 1
        /\ \A i \in 1 .. Len(mq') : i + 1 \in 1 .. Len(mq) /\ mq'[i] = mq[i + 1]
    BY <1>3, HeadTailProperties, LenProperties DEF Receive
  <2>2. \A i, j \in 1 .. Len(mq') :
          i < j /\ mq'[i].num = mq'[j].num => mq'[i].seq < mq'[j].seq
    <3> SUFFICES ASSUME NEW i \in 1 .. Len(mq'), NEW j \in 1 .. Len(mq'), i < j,
                        mq'[i].num = mq'[j].num
                 PROVE  mq'[i].seq < mq'[j].seq
      OBVIOUS
    <3>1. i + 1 \in 1 .. Len(mq) /\ j + 1 \in 1 .. Len(mq) /\ i + 1 < j + 1
      BY <2>1
    <3>2. QED
      BY <2>1, <3>1
  <2>3. \A i \in 1 .. Len(mq') : mq'[i].num = msg'.num => msg'.seq < mq'[i].seq
    <3> SUFFICES ASSUME NEW i \in 1 .. Len(mq'), mq'[i].num = msg'.num
                 PROVE  msg'.seq < mq'[i].seq
      OBVIOUS
    <3>1. i + 1 \in 1 .. Len(mq) /\ 1 < i + 1
      BY <2>1
    <3>2. QED
      BY <2>1, <3>1
  <2>4. QED
    BY <2>2, <2>3
<1>4. QED
  BY <1>1, <1>2, <1>3
  DEF Next, Camera, Dispatcher, Converter, Display, CreateWorker, CreateFails,
      Dequeue, DequeueFails, Post, StartCapture, BeginFill, EndCapture, FindSelf,
      Take, ConvertTop, ConvertBottom, SendFails, Requeue, RequeueFails, vars,
      StartLcd, CopyTop, CopyBottom, lcdVars

LEMMA StepShown == IInv /\ [Next]_vars => ShownNotOlder'
<1> SUFFICES ASSUME IInv, [Next]_vars PROVE ShownNotOlder'
  OBVIOUS
<1>a. TypeOK /\ Announced /\ ShownNotOlder
  BY DEF IInv, BufferInv
<1> USE <1>a DEF ShownNotOlder
<1>1. CASE UNCHANGED lcdVars
  BY <1>1 DEF lcdVars
<1>2. CASE StartLcd
  <2>1. msg.seq = 0 /\ shown.top >= 0 /\ shown.bot >= 0
    BY <1>2 DEF StartLcd, Announced, TypeOK, Picture, Frame
  <2>2. QED
    BY <1>2, <2>1 DEF StartLcd
<1>3. CASE Receive
  BY <1>3 DEF Receive
<1>4. CASE CopyTop \/ CopyBottom
  <2>1. /\ msg.seq \in Int /\ rgb[msg.num].top \in Int /\ rgb[msg.num].bot \in Int
        /\ shown \in Picture
    BY DEF TypeOK, Message, Picture, Frame
  <2>2. msg.seq <= rgb[msg.num].top /\ msg.seq <= rgb[msg.num].bot
    BY DEF Announced, Backed
  <2>3. QED
    BY <1>4, <2>1, <2>2 DEF CopyTop, CopyBottom, Picture
<1>5. QED
  BY <1>1, <1>2, <1>3, <1>4
  DEF Next, Camera, Dispatcher, Converter, Display, CreateWorker, CreateFails,
      Dequeue, DequeueFails, Post, StartCapture, BeginFill, EndCapture, FindSelf,
      Take, ConvertTop, ConvertBottom, Send, SendFails, Requeue, RequeueFails, vars

\* The parts of BufferInv about one buffer and its converter.
LEMMA BufferFacts ==
  ASSUME BufferInv, NEW k \in Buf
  PROVE  /\ TypeOK /\ WorkerKnowsItself /\ HeldOnce(k) /\ PictureOf(k)
         /\ k \in Int /\ k + 1 \in Worker
         /\ \A w \in Worker : k = w - 1 <=> k + 1 = w
         /\ yuv[k] \in Picture /\ rgb[k] \in Picture
         /\ yuv[k].top \in Int /\ yuv[k].bot \in Int
         /\ rgb[k].top \in Int /\ rgb[k].bot \in Int
<1>1. TypeOK /\ WorkerKnowsItself /\ HeldOnce(k) /\ PictureOf(k)
  BY DEF BufferInv, Holding, Contents
<1>2. /\ k \in Int /\ k + 1 \in Worker
      /\ \A w \in Worker : k = w - 1 <=> k + 1 = w
  BY OwnConverter, OwnBuffer
<1>3. yuv[k] \in Picture /\ rgb[k] \in Picture
  BY <1>1 DEF TypeOK
<1>4. /\ yuv[k].top \in Int /\ yuv[k].bot \in Int
      /\ rgb[k].top \in Int /\ rgb[k].bot \in Int
  BY <1>3 DEF Picture, Frame
<1>5. QED
  BY <1>1, <1>2, <1>3, <1>4

LEMMA SlotIsOwn ==
  ASSUME BufferInv, NEW w \in Worker, wpc[w] \notin {"none", "start"}
  PROVE  Slot(w) = w - 1 /\ Slot(w) \in Buf /\ Slot(w) + 1 = w
<1>1. who[w] = w
  BY DEF BufferInv, WorkerKnowsItself
<1>2. w - 1 \in Buf /\ (w - 1) + 1 = w
  BY OwnBuffer
<1>3. QED
  BY <1>1, <1>2

\* The camera leaves a buffer alone that its converter reads.
LEMMA BusyStays ==
  ASSUME BufferInv, [Next]_vars, NEW w \in Worker, Converting(w)
  PROVE  yuv'[Slot(w)] = yuv[Slot(w)]
<1>1. Slot(w) = w - 1 /\ Slot(w) \in Buf /\ Slot(w) + 1 = w
  BY SlotIsOwn DEF Converting
<1>2. vb[Slot(w)] = "dequeued" /\ yuv \in [Buf -> Picture]
  BY <1>1, BufferFacts DEF Converting, HeldOnce, Busy, TypeOK
<1>3. ASSUME NEW k \in Buf, StartCapture(k) \/ EndCapture(k)
      PROVE  yuv'[Slot(w)] = yuv[Slot(w)]
  BY <1>1, <1>2, <1>3 DEF StartCapture, BeginFill, EndCapture
<1>4. CASE UNCHANGED yuv
  BY <1>4
<1>5. QED
  BY <1>3, <1>4
  DEF Next, Camera, Dispatcher, Converter, Display, CreateWorker, CreateFails,
      Dequeue, DequeueFails, Post, FindSelf, Take, ConvertTop, ConvertBottom,
      Send, SendFails, Requeue, RequeueFails, StartLcd, Receive, CopyTop,
      CopyBottom, vars, driverVars

\* A picture only gets newer.
LEMMA PicturesGrow ==
  ASSUME BufferInv, [Next]_vars, NEW k \in Buf
  PROVE  rgb'[k].top >= rgb[k].top /\ rgb'[k].bot >= rgb[k].bot
<1>a. /\ TypeOK /\ HeldOnce(k) /\ PictureOf(k)
      /\ yuv[k] \in Picture /\ rgb[k] \in Picture
      /\ yuv[k].top \in Int /\ yuv[k].bot \in Int
      /\ rgb[k].top \in Int /\ rgb[k].bot \in Int
  BY BufferFacts
<1> USE <1>a
<1>1. CASE UNCHANGED rgb
  BY <1>1
<1>2. ASSUME NEW w \in Worker, ConvertTop(w) \/ ConvertBottom(w)
      PROVE  rgb'[k].top >= rgb[k].top /\ rgb'[k].bot >= rgb[k].bot
  <2>1. Slot(w) = w - 1 /\ Slot(w) \in Buf /\ Slot(w) + 1 = w
    BY <1>2, SlotIsOwn DEF ConvertTop, ConvertBottom
  <2>2. CASE Slot(w) # k
    BY <1>2, <2>2 DEF ConvertTop, ConvertBottom, TypeOK
  <2>3. CASE Slot(w) = k /\ ConvertTop(w)
    BY <2>1, <2>3 DEF ConvertTop, TypeOK, HeldOnce, PictureOf, Busy, Behind, Picture
  <2>4. CASE Slot(w) = k /\ ConvertBottom(w)
    BY <2>1, <2>4 DEF ConvertBottom, TypeOK, HeldOnce, PictureOf, Busy, Whole, Picture
  <2>5. QED
    BY <1>2, <2>2, <2>3, <2>4
<1>3. QED
  BY <1>1, <1>2
  DEF Next, Camera, Dispatcher, Converter, Display, StartCapture, BeginFill,
      EndCapture, CreateWorker, CreateFails, Dequeue, DequeueFails, Post,
      FindSelf, Take, Send, SendFails, Requeue, RequeueFails, StartLcd, Receive,
      CopyTop, CopyBottom, vars

\* What the display copied came from the picture, which has only got newer.
LEMMA StepNotNewer == IInv /\ [Next]_vars => ShownNotNewer'
<1> SUFFICES ASSUME IInv, [Next]_vars PROVE ShownNotNewer'
  OBVIOUS
<1> DEFINE k == msg.num
<1>1. TypeOK /\ BufferInv /\ ShownNotNewer /\ k \in Buf
  BY DEF IInv, BufferInv, TypeOK, Message
<1>2. /\ rgb[k] \in Picture /\ rgb[k].top \in Int /\ rgb[k].bot \in Int
      /\ shown \in Picture /\ shown.top \in Int /\ shown.bot \in Int
  BY <1>1 DEF TypeOK, Picture, Frame
<1>3. /\ rgb'[k].top \in Int /\ rgb'[k].top >= rgb[k].top
      /\ rgb'[k].bot \in Int /\ rgb'[k].bot >= rgb[k].bot
  <2>1. rgb' \in [Buf -> Picture]
    BY <1>1, StepType DEF TypeOK
  <2>2. rgb'[k].top \in Int /\ rgb'[k].bot \in Int
    BY <1>1, <2>1 DEF Picture, Frame
  <2>3. QED
    BY <1>1, <2>2, PicturesGrow
<1> HIDE DEF k
<1> USE DEF ShownNotNewer
<1>4. CASE UNCHANGED lcdVars
  BY <1>1, <1>2, <1>3, <1>4 DEF lcdVars, k
<1>5. CASE StartLcd
  <2>1. rgb[k].top >= 0 /\ rgb[k].bot >= 0
    BY <1>2 DEF Picture, Frame
  <2>2. QED
    BY <1>1, <1>5, <2>1 DEF StartLcd, Blank, k
<1>6. CASE Receive
  BY <1>6 DEF Receive
<1>7. CASE CopyTop \/ CopyBottom
  BY <1>1, <1>2, <1>7 DEF CopyTop, CopyBottom, Picture, k
<1>8. QED
  BY <1>4, <1>5, <1>6, <1>7
  DEF Next, Camera, Dispatcher, Converter, Display, CreateWorker, CreateFails,
      Dequeue, DequeueFails, Post, StartCapture, BeginFill, EndCapture, FindSelf,
      Take, ConvertTop, ConvertBottom, Send, SendFails, Requeue, RequeueFails, vars

-----------------------------------------------------------------------------

LEMMA StepInv == IInv /\ [Next]_vars => IInv'
BY StepType, StepThreads, StepHolding, StepDoneQueue, StepContents,
   StepDistinct, StepAnnounced, StepOrder, StepShown,
   StepNotNewer
DEF IInv, BufferInv

\* IInv holds in every state the application reaches.
THEOREM InductiveInvariant == Spec => []IInv
BY InitInv, StepInv, PTL DEF Spec

\* Every variable keeps its type; no semaphore counts beyond 1 and every
\* converter's index stays within the buffers.
THEOREM TypeCorrect == Spec => []TypeOK
<1>1. IInv => TypeOK
  BY DEF IInv, BufferInv
<1>2. QED
  BY <1>1, InductiveInvariant, PTL

LEMMA HoldingMeansOneHolder == BufferInv => OneHolder
<1> SUFFICES ASSUME BufferInv, NEW k \in Buf
             PROVE  LET inDispatcher == disp = "post" /\ held = k
                        inSemaphore == sem[k] = 1
                        inConverter == \E w \in Worker : Owns(w, k)
                    IN  /\ vb[k] = "dequeued" <=>
                             inDispatcher \/ inSemaphore \/ inConverter
                        /\ ~ (inDispatcher /\ inSemaphore)
                        /\ ~ (inDispatcher /\ inConverter)
                        /\ ~ (inSemaphore /\ inConverter)
                        /\ \A v, w \in Worker : Owns(v, k) /\ Owns(w, k) => v = w
  BY DEF OneHolder
<1>1. k + 1 \in Worker /\ k \in Int
  BY OwnConverter
<1>2. \A w \in Worker : Owns(w, k) <=> w = k + 1 /\ wpc[k + 1] \in Busy
  BY <1>1 DEF BufferInv, WorkerKnowsItself, Owns, Busy
<1>3. HeldOnce(k)
  BY DEF BufferInv, Holding
<1>4. (\E w \in Worker : Owns(w, k)) <=> wpc[k + 1] \in Busy
  BY <1>1, <1>2
<1>5. QED
  BY <1>2, <1>3, <1>4 DEF HeldOnce

\* A buffer the driver handed out is in exactly one place at any time.
THEOREM OneHolderAlways == Spec => []OneHolder
<1>1. IInv => OneHolder
  BY HoldingMeansOneHolder DEF IInv
<1>2. QED
  BY <1>1, InductiveInvariant, PTL

\* A converter never works on another converter's buffer.
THEOREM WorkerKnowsItselfAlways == Spec => []WorkerKnowsItself
<1>1. IInv => WorkerKnowsItself
  BY DEF IInv, BufferInv
<1>2. QED
  BY <1>1, InductiveInvariant, PTL

LEMMA ContentsNoMixedFrame == BufferInv => NoMixedFrame
<1> SUFFICES ASSUME BufferInv, NEW w \in Worker, wpc[w] \in {"send", "qbuf"}
             PROVE  /\ rgb[Slot(w)] = yuv[Slot(w)]
                    /\ rgb[Slot(w)].top = rgb[Slot(w)].bot
                    /\ rgb[Slot(w)].top > 0
  BY DEF NoMixedFrame
<1>1. Slot(w) = w - 1 /\ w - 1 \in Buf /\ (w - 1) + 1 = w
  BY OwnBuffer DEF BufferInv, WorkerKnowsItself
<1>2. HeldOnce(w - 1) /\ PictureOf(w - 1)
  BY <1>1 DEF BufferInv, Holding, Contents
<1>3. QED
  BY <1>1, <1>2 DEF HeldOnce, PictureOf, Busy, Whole

\* Only whole frames are announced.
THEOREM NoMixedFrameAlways == Spec => []NoMixedFrame
<1>1. IInv => NoMixedFrame
  BY ContentsNoMixedFrame DEF IInv
<1>2. QED
  BY <1>1, InductiveInvariant, PTL

\* Announcements of a buffer never overtake each other.
THEOREM AnnouncedInOrderAlways == Spec => []AnnouncedInOrder
<1>1. IInv => AnnouncedInOrder
  BY DEF IInv, BufferInv
<1>2. QED
  BY <1>1, InductiveInvariant, PTL

\* The screen never shows a half that is older than the announced frame.
THEOREM ShownNotOlderAlways == Spec => []ShownNotOlder
<1>1. IInv => ShownNotOlder
  BY DEF IInv, BufferInv
<1>2. QED
  BY <1>1, InductiveInvariant, PTL

LEMMA BoundsMeanWhole == IInv => WholeUnlessOverwritten
<1> SUFFICES ASSUME IInv, lcd = "recv",
                    rgb[msg.num] = [top |-> msg.seq, bot |-> msg.seq]
             PROVE  shown = rgb[msg.num]
  BY DEF WholeUnlessOverwritten
<1>1. /\ shown \in Picture /\ msg.seq \in Int
      /\ shown.top \in Int /\ shown.bot \in Int
  BY DEF IInv, BufferInv, TypeOK, Picture, Message, Frame
<1>2. /\ msg.seq <= shown.top /\ shown.top <= msg.seq
      /\ msg.seq <= shown.bot /\ shown.bot <= msg.seq
  BY <1>1 DEF IInv, ShownNotOlder, ShownNotNewer
<1>3. shown = [top |-> shown.top, bot |-> shown.bot]
  BY <1>1 DEF Picture
<1>4. QED
  BY <1>1, <1>2, <1>3

\* The screen has halves of two frames only when the picture was overwritten
\* after its announcement.
THEOREM WholeUnlessOverwrittenAlways == Spec => []WholeUnlessOverwritten
BY BoundsMeanWhole, InductiveInvariant, PTL

\* A waiting thread holds no buffer, and a filled buffer is in the FIFO.
LEMMA HoldingMeansProgress == BufferInv => NoCircularWait
<1> SUFFICES ASSUME BufferInv, DispatcherWaits, DisplayWaits,
                    NEW w \in Worker, wpc[w] # "dead", ConverterWaits(w)
             PROVE  vb[Slot(w)] \in {"queued", "active"}
  BY DEF NoCircularWait
<1>1. Len(mq) # QMax
  BY PipelineAssumption DEF DisplayWaits
<1>2. wpc[w] = "wait" /\ sem[Slot(w)] = 0
  BY <1>1 DEF ConverterWaits
<1>3. Slot(w) \in Buf /\ Slot(w) + 1 = w
  BY <1>2, OwnBuffer DEF BufferInv, WorkerKnowsItself
<1>4. vb[Slot(w)] # "dequeued"
  BY <1>2, <1>3 DEF BufferInv, Holding, HeldOnce, Busy, DispatcherWaits
<1>5. vb[Slot(w)] # "done"
  <2>1. 1 .. Len(doneQ) = {}
    BY DEF DispatcherWaits
  <2>2. QED
    BY <1>3, <2>1 DEF BufferInv, DoneQueue
<1>6. QED
  BY <1>3, <1>4, <1>5 DEF BufferInv, TypeOK

\* The threads never wait for each other in a circle.
THEOREM NoCircularWaitAlways == Spec => []NoCircularWait
<1>1. IInv => NoCircularWait
  BY HoldingMeansProgress DEF IInv
<1>2. QED
  BY <1>1, InductiveInvariant, PTL

=============================================================================

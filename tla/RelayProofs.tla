----------------------------- MODULE RelayProofs -----------------------------
(***************************************************************************)
(* FramePipeline implements FrameRelay, and its action properties hold, for *)
(* every value of the constants.  Both follow from IInv.                    *)
(***************************************************************************)
EXTENDS FramePipelineProofs

USE DEF Slot, Step

\* The camera never overwrites a buffer while its converter reads it.
THEOREM BusyBufferStableAlways == Spec => BusyBufferStable
<1>1. IInv /\ [Next]_vars =>
        [\A w \in Worker : Converting(w) => yuv'[Slot(w)] = yuv[Slot(w)]]_vars
  BY BusyStays DEF IInv
<1>2. QED
  BY <1>1, InductiveInvariant, PTL DEF Spec, BusyBufferStable

\* A converted picture is never replaced by an older one.
THEOREM PicturesAdvanceAlways == Spec => PicturesAdvance
<1>1. IInv /\ [Next]_vars =>
        [\A k \in Buf :
           rgb'[k].top >= rgb[k].top /\ rgb'[k].bot >= rgb[k].bot]_vars
  BY PicturesGrow DEF IInv
<1>2. QED
  BY <1>1, InductiveInvariant, PTL DEF Spec, PicturesAdvance

-----------------------------------------------------------------------------
(* The refinement.                                                         *)

Waiting == {yuv[k].top : k \in {j \in Buf : Unconverted(j)}}
SlotFrame == [k \in Buf |-> rgb[k].bot]
Fresh == {k \in Buf : wpc[k + 1] = "send"}
Pending == IF Painting THEN <<msg>> \o mq ELSE mq
Half == lcd = "copyBot"

relayState == <<frame, Waiting, SlotFrame, Fresh, Pending, Half, shown>>

\* A message in front of a queue.
LEMMA InFront ==
  ASSUME NEW m \in Message, NEW s \in Seq(Message)
  PROVE  /\ <<m>> \o s # <<>> /\ Len(<<m>> \o s) = Len(s) + 1
         /\ Head(<<m>> \o s) = m /\ Tail(<<m>> \o s) = s
         /\ \A n \in Message : Append(<<m>> \o s, n) = <<m>> \o Append(s, n)
<1>1. <<m>> \in Seq(Message) /\ Len(<<m>>) = 1 /\ <<m>>[1] = m /\ Len(s) \in Nat
  BY LenProperties
<1>2. /\ <<m>> \o s \in Seq(Message) /\ Len(<<m>> \o s) = Len(s) + 1
      /\ \A i \in 1 .. Len(s) + 1 :
           (<<m>> \o s)[i] = IF i = 1 THEN m ELSE s[i - 1]
  BY <1>1, ConcatProperties
<1>3. <<m>> \o s # <<>> /\ Head(<<m>> \o s) = m
  BY <1>1, <1>2
<1>4. Tail(<<m>> \o s) = s
  <2>1. /\ Tail(<<m>> \o s) \in Seq(Message) /\ Len(Tail(<<m>> \o s)) = Len(s)
        /\ \A i \in 1 .. Len(s) : Tail(<<m>> \o s)[i] = s[i]
    BY <1>1, <1>2, <1>3, HeadTailProperties
  <2>2. QED
    BY <2>1, SeqEqual
<1>5. ASSUME NEW n \in Message
      PROVE  Append(<<m>> \o s, n) = <<m>> \o Append(s, n)
  <2>1. <<n>> \in Seq(Message) /\ Append(s, n) = s \o <<n>>
    BY AppendIsConcat
  <2>2. Append(<<m>> \o s, n) = (<<m>> \o s) \o <<n>>
    BY <1>2, AppendIsConcat
  <2>3. QED
    BY <1>1, <2>1, <2>2, ConcatAssociative
<1>6. QED
  BY <1>2, <1>3, <1>4, <1>5

LEMMA RelayInit == Init => Relay!Init
<1> SUFFICES ASSUME Init PROVE Relay!Init
  OBVIOUS
<1>1. \A k \in Buf : ~ Unconverted(k) /\ wpc[k + 1] = "none" /\ rgb[k].bot = 0
  BY OwnConverter DEF Init, Unconverted, Blank
<1>2. Waiting = {} /\ Fresh = {} /\ SlotFrame = [k \in Buf |-> 0]
  BY <1>1 DEF Waiting, Fresh, SlotFrame
<1>3. ~ Painting /\ lcd # "copyBot"
  BY DEF Init, Painting
<1>4. QED
  BY <1>2, <1>3 DEF Init, Relay!Init, Waiting, Fresh, SlotFrame, Blank

\* Steps that change nothing the mapping looks at.
LEMMA SameRelayState ==
  ASSUME UNCHANGED <<frame, shown, Pending, Half>>,
         \A k \in Buf :
           /\ rgb'[k].bot = rgb[k].bot /\ yuv'[k].top = yuv[k].top
           /\ wpc'[k + 1] = "send" <=> wpc[k + 1] = "send"
           /\ Unconverted(k)' <=> Unconverted(k)
  PROVE  UNCHANGED relayState
<1>1. SlotFrame' = SlotFrame /\ Fresh' = Fresh /\ Waiting' = Waiting
  BY DEF SlotFrame, Fresh, Waiting
<1>2. QED
  BY <1>1 DEF relayState

LEMMA CaptureStep ==
  ASSUME IInv, NEW k \in Buf, StartCapture(k)
  PROVE  Relay!Capture
<1>1. /\ frame' = frame + 1 /\ yuv'[k].top = frame + 1 /\ vb'[k] = "active"
      /\ \A j \in Buf : j # k => yuv'[j] = yuv[j] /\ vb'[j] = vb[j]
      /\ UNCHANGED <<rgb, wpc, mq, lcd, msg, shown>>
  BY BufferFacts DEF IInv, StartCapture, BeginFill, TypeOK, Picture, lcdVars
<1>2. ~ Unconverted(k) /\ Unconverted(k)'
  BY <1>1 DEF StartCapture, BeginFill, Unconverted
<1>3. \A j \in Buf : j # k => (Unconverted(j)' <=> Unconverted(j))
  BY <1>1 DEF Unconverted
<1>4. Waiting' = Waiting \union {frame'}
  BY <1>1, <1>2, <1>3 DEF Waiting
<1>5. UNCHANGED <<SlotFrame, Fresh, Pending, Half, shown>>
  BY <1>1 DEF SlotFrame, Fresh, Pending, Painting, Half
<1>6. QED
  BY <1>1, <1>4, <1>5 DEF Relay!Capture, Waiting, SlotFrame, Fresh, Pending, Half

LEMMA ConvertStep ==
  ASSUME IInv, NEW w \in Worker, ConvertBottom(w)
  PROVE  \E k \in Buf : Relay!Convert(k)
<1> DEFINE k == w - 1
           f == yuv[k].top
<1>1. k \in Buf /\ k + 1 = w /\ Slot(w) = k
  BY SlotIsOwn DEF IInv, ConvertBottom
<1>a. \A j \in Buf : j + 1 \in Worker /\ (j # k => j + 1 # w)
  BY OwnConverter
<1>b. TypeOK /\ HeldOnce(k) /\ PictureOf(k) /\ yuv[k] \in Picture /\ rgb[k] \in Picture
  BY <1>1, BufferFacts DEF IInv
<1>2. /\ wpc[w] = "convBot" /\ wpc'[w] = "send"
      /\ vb[k] = "dequeued" /\ rgb[k].bot < f /\ yuv[k].bot = f /\ f > 0
  BY <1>1, <1>b DEF ConvertBottom, TypeOK, HeldOnce, PictureOf, Busy, Whole
<1>3. /\ rgb'[k].bot = f
      /\ \A j \in Buf : j # k => rgb'[j] = rgb[j] /\ wpc'[j + 1] = wpc[j + 1]
      /\ UNCHANGED <<frame, yuv, vb, mq, lcd, msg, shown>>
  BY <1>1, <1>2, <1>a, <1>b DEF ConvertBottom, TypeOK, Picture, driverVars, lcdVars
<1>4. Unconverted(k) /\ ~ Unconverted(k)'
      /\ \A j \in Buf : j # k => (Unconverted(j)' <=> Unconverted(j))
  BY <1>1, <1>2, <1>3 DEF Unconverted
<1>5. \A j \in Buf : j # k => yuv[j].top # f
  BY <1>1, <1>2 DEF IInv, BufferInv, DistinctFrames
<1>6. f \in Waiting /\ Waiting' = Waiting \ {f}
  BY <1>1, <1>3, <1>4, <1>5 DEF Waiting
<1>7. k \notin Fresh /\ Fresh' = Fresh \union {k}
  BY <1>1, <1>2, <1>3 DEF Fresh
<1>8. f > SlotFrame[k] /\ SlotFrame' = [SlotFrame EXCEPT ![k] = f]
  BY <1>1, <1>2, <1>3 DEF SlotFrame
<1>9. UNCHANGED <<frame, Pending, Half, shown>>
  BY <1>3 DEF Pending, Painting, Half
<1> HIDE DEF k, f
<1>10. Relay!Convert(k)
  BY <1>1, <1>6, <1>7, <1>8, <1>9
  DEF Relay!Convert, Waiting, SlotFrame, Fresh, Pending, Half
<1>11. QED
  BY <1>1, <1>10

\* A message the converter sends, or fails to send.
LEMMA FreshSlot ==
  ASSUME IInv, NEW w \in Worker, wpc[w] = "send", wpc' = [wpc EXCEPT ![w] = "qbuf"],
         UNCHANGED <<vb, yuv, frame, rgb, lcd, msg, shown>>
  PROVE  /\ w - 1 \in Fresh /\ Fresh' = Fresh \ {w - 1}
         /\ UNCHANGED <<Waiting, SlotFrame, Half>>
<1> DEFINE k == w - 1
<1>1. k \in Buf /\ k + 1 = w /\ TypeOK
  BY SlotIsOwn DEF IInv, BufferInv
<1>2. \A j \in Buf : j + 1 \in Worker /\ (j # k => j + 1 # w)
  BY OwnConverter
<1>3. /\ wpc'[k + 1] = "qbuf"
      /\ \A j \in Buf : j # k => wpc'[j + 1] = wpc[j + 1]
  BY <1>1, <1>2 DEF TypeOK
<1>4. \A j \in Buf : Unconverted(j)' <=> Unconverted(j)
  BY <1>1, <1>3 DEF Unconverted
<1>5. k \in Fresh /\ Fresh' = Fresh \ {k}
  BY <1>1, <1>3 DEF Fresh
<1>6. QED
  BY <1>4, <1>5 DEF Waiting, SlotFrame, Half

LEMMA AnnounceStep ==
  ASSUME IInv, NEW w \in Worker, Send(w)
  PROVE  \E k \in Buf : Relay!Announce(k)
<1> DEFINE k == w - 1
           m == [num |-> k, seq |-> rgb[k].bot]
<1>1. k \in Buf /\ Slot(w) = k /\ m \in Message
  BY SlotIsOwn, NewMessage DEF Send, IInv
<1>2. /\ mq' = Append(mq, m) /\ Len(mq) < QMax
      /\ wpc[w] = "send" /\ wpc' = [wpc EXCEPT ![w] = "qbuf"]
      /\ UNCHANGED <<vb, yuv, frame, rgb, lcd, msg, shown>>
  BY <1>1 DEF Send, driverVars, lcdVars
<1>3. /\ k \in Fresh /\ Fresh' = Fresh \ {k}
      /\ UNCHANGED <<Waiting, SlotFrame, Half, frame, shown>>
  BY <1>2, FreshSlot
<1>4. mq \in Seq(Message) /\ msg \in Message /\ Len(mq) \in Nat /\ QMax \in Nat
  BY PipelineAssumption, LenProperties DEF IInv, BufferInv, TypeOK
<1>5. m = [num |-> k, seq |-> SlotFrame[k]]
  BY <1>1 DEF SlotFrame
<1> HIDE DEF m, k
<1>6. Len(Pending) < QMax + 1 /\ Pending' = Append(Pending, m)
  BY <1>1, <1>2, <1>4, InFront DEF Pending, Painting
<1>7. Relay!Announce(k)
  BY <1>3, <1>5, <1>6
  DEF Relay!Announce, Waiting, SlotFrame, Fresh, Pending, Half
<1>8. QED
  BY <1>1, <1>7

LEMMA LoseStep ==
  ASSUME IInv, NEW w \in Worker, SendFails(w)
  PROVE  \E k \in Buf : Relay!Lose(k)
<1>1. /\ wpc[w] = "send" /\ wpc' = [wpc EXCEPT ![w] = "qbuf"]
      /\ UNCHANGED <<vb, yuv, frame, rgb, mq, lcd, msg, shown>>
  BY DEF SendFails, driverVars, lcdVars
<1>2. /\ w - 1 \in Fresh /\ Fresh' = Fresh \ {w - 1}
      /\ UNCHANGED <<Waiting, SlotFrame, Half, frame, shown>>
  BY <1>1, FreshSlot
<1>3. UNCHANGED Pending
  BY <1>1 DEF Pending, Painting
<1>4. w - 1 \in Buf
  BY OwnBuffer
<1>5. Relay!Lose(w - 1)
  BY <1>2, <1>3 DEF Relay!Lose, Waiting, SlotFrame, Fresh, Pending, Half
<1>6. QED
  BY <1>4, <1>5

LEMMA PaintStep ==
  ASSUME IInv, CopyTop \/ CopyBottom
  PROVE  Relay!PaintTop \/ Relay!PaintBottom
<1> DEFINE k == msg.num
<1>1. /\ mq \in Seq(Message) /\ msg \in Message /\ k \in Buf
      /\ frame \in Int /\ msg.seq \in Int
  BY DEF IInv, BufferInv, TypeOK, Message, Frame
<1>2. /\ rgb[k].top \in msg.seq .. frame /\ rgb[k].bot \in msg.seq .. frame
  BY <1>1, BufferFacts DEF IInv, BufferInv, Announced, Backed, Contents, PictureOf
<1>3. Pending # <<>> /\ Head(Pending) = msg /\ Tail(Pending) = mq
  BY <1>1, InFront DEF Pending, Painting, CopyTop, CopyBottom
<1>4. /\ UNCHANGED <<frame, rgb, yuv, vb, wpc, mq, msg>>
  BY DEF CopyTop, CopyBottom, driverVars
<1>5. UNCHANGED <<Waiting, SlotFrame, Fresh>>
  BY <1>4 DEF Waiting, SlotFrame, Fresh, Unconverted
<1> HIDE DEF k
<1>6. CASE CopyTop
  <2>1. ~ Half /\ Half' /\ shown' = [shown EXCEPT !.top = rgb[k].top]
    BY <1>6 DEF CopyTop, Half, k
  <2>2. Pending' = Pending
    BY <1>6, <1>4 DEF CopyTop, Pending, Painting
  <2>3. Relay!PaintTop
    BY <1>2, <1>3, <1>4, <1>5, <2>1, <2>2
    DEF Relay!PaintTop, Waiting, SlotFrame, Fresh, Pending, Half
  <2>4. QED
    BY <2>3
<1>7. CASE CopyBottom
  <2>1. Half /\ ~ Half' /\ shown' = [shown EXCEPT !.bot = rgb[k].bot]
    BY <1>7 DEF CopyBottom, Half, k
  <2>2. Pending' = Tail(Pending)
    BY <1>3, <1>4, <1>7 DEF CopyBottom, Pending, Painting
  <2>3. Relay!PaintBottom
    BY <1>2, <1>3, <1>4, <1>5, <2>1, <2>2
    DEF Relay!PaintBottom, Waiting, SlotFrame, Fresh, Pending, Half
  <2>4. QED
    BY <2>3
<1>8. QED
  BY <1>6, <1>7

LEMMA ReceiveStep ==
  ASSUME IInv, Receive
  PROVE  UNCHANGED relayState
<1>1. /\ mq \in Seq(Message) /\ mq # <<>> /\ mq = <<Head(mq)>> \o Tail(mq)
  <2>1. mq \in Seq(Message) /\ mq # <<>>
    BY DEF Receive, IInv, BufferInv, TypeOK
  <2>2. /\ Head(mq) \in Message /\ Head(mq) = mq[1]
        /\ Tail(mq) \in Seq(Message) /\ Len(Tail(mq)) = Len(mq) - 1
        /\ Len(mq) \in Nat
        /\ \A i \in 1 .. Len(Tail(mq)) : Tail(mq)[i] = mq[i + 1]
    BY <2>1, HeadTailProperties, LenProperties
  <2>3. /\ <<Head(mq)>> \in Seq(Message) /\ Len(<<Head(mq)>>) = 1
        /\ <<Head(mq)>>[1] = Head(mq)
    BY <2>2
  <2>4. /\ <<Head(mq)>> \o Tail(mq) \in Seq(Message)
        /\ Len(<<Head(mq)>> \o Tail(mq)) = Len(mq)
        /\ \A i \in 1 .. Len(mq) : (<<Head(mq)>> \o Tail(mq))[i] = mq[i]
    BY <2>2, <2>3, ConcatProperties
  <2>5. QED
    BY <2>1, <2>4, SeqEqual
<1>2. /\ Pending' = Pending /\ Half' = Half
  BY <1>1 DEF Receive, Pending, Painting, Half
<1>3. UNCHANGED <<frame, rgb, yuv, vb, wpc, shown>>
  BY DEF Receive, driverVars
<1>4. QED
  BY <1>2, <1>3, SameRelayState DEF Unconverted

LEMMA OtherCameraSteps ==
  ASSUME IInv, \/ \E k \in Buf : EndCapture(k)
               \/ CreateWorker \/ CreateFails \/ Dequeue \/ DequeueFails \/ Post
               \/ StartLcd
  PROVE  UNCHANGED relayState
<1>1. ASSUME NEW k \in Buf PROVE
        /\ rgb'[k].bot = rgb[k].bot /\ yuv'[k].top = yuv[k].top
        /\ wpc'[k + 1] = "send" <=> wpc[k + 1] = "send"
        /\ Unconverted(k)' <=> Unconverted(k)
  <2>a. TypeOK /\ HeldOnce(k) /\ yuv[k] \in Picture /\ k + 1 \in Worker
    BY BufferFacts DEF IInv
  <2>1. CASE \E j \in Buf : EndCapture(j)
    BY <2>a, <2>1 DEF EndCapture, Unconverted, TypeOK, Picture
  <2>2. CASE CreateWorker
    <3>1. next \in Worker /\ wpc[next] = "none"
      BY <2>2, PipelineAssumption DEF CreateWorker, IInv, BufferInv, TypeOK, Created, Worker
    <3>2. QED
      BY <2>2, <2>a, <3>1 DEF CreateWorker, Unconverted, TypeOK, driverVars
  <2>3. CASE Dequeue
    <3>1. Head(doneQ) \in Buf /\ vb[Head(doneQ)] = "done"
      BY <2>3, HeadTailProperties DEF Dequeue, IInv, BufferInv, TypeOK, DoneQueue
    <3>2. QED
      BY <2>3, <2>a, <3>1 DEF Dequeue, Unconverted, TypeOK, HeldOnce, Busy
  <2>4. CASE CreateFails \/ DequeueFails \/ Post \/ StartLcd
    BY <2>4 DEF CreateFails, DequeueFails, Post, StartLcd, Unconverted, driverVars
  <2>5. QED
    BY <2>1, <2>2, <2>3, <2>4
<1>2. UNCHANGED <<frame, shown, Pending, Half>>
  BY DEF EndCapture, CreateWorker, CreateFails, Dequeue, DequeueFails, Post,
         StartLcd, Pending, Painting, Half, driverVars, lcdVars
<1>3. QED
  BY <1>1, <1>2, SameRelayState

LEMMA OtherConverterSteps ==
  ASSUME IInv, NEW w \in Worker,
         FindSelf(w) \/ Take(w) \/ ConvertTop(w) \/ Requeue(w) \/ RequeueFails(w)
  PROVE  UNCHANGED relayState
<1>1. ASSUME NEW k \in Buf PROVE
        /\ rgb'[k].bot = rgb[k].bot /\ yuv'[k].top = yuv[k].top
        /\ wpc'[k + 1] = "send" <=> wpc[k + 1] = "send"
        /\ Unconverted(k)' <=> Unconverted(k)
  <2>a. TypeOK /\ HeldOnce(k) /\ k + 1 \in Worker /\ rgb[k] \in Picture
    BY BufferFacts DEF IInv
  <2>b. k + 1 = w <=> k = w - 1
    BY BufferFacts DEF IInv
  <2>1. CASE FindSelf(w) \/ Take(w)
    BY <2>a, <2>1 DEF FindSelf, Take, Unconverted, TypeOK, driverVars
  <2>2. CASE ConvertTop(w)
    <3>1. Slot(w) = w - 1 /\ Slot(w) \in Buf
      BY <2>2, SlotIsOwn DEF IInv, ConvertTop
    <3>2. QED
      BY <2>a, <2>2, <3>1 DEF ConvertTop, Unconverted, TypeOK, driverVars, Picture
  <2>3. CASE Requeue(w)
    <3>1. Slot(w) = w - 1 /\ Slot(w) \in Buf
      BY <2>3, SlotIsOwn DEF IInv, Requeue
    <3>2. QED
      BY <2>a, <2>b, <2>3, <3>1 DEF Requeue, Unconverted, TypeOK
  <2>4. CASE RequeueFails(w)
    BY <2>a, <2>4 DEF RequeueFails, Unconverted, TypeOK, driverVars
  <2>5. QED
    BY <2>1, <2>2, <2>3, <2>4
<1>2. UNCHANGED <<frame, shown, Pending, Half>>
  BY DEF FindSelf, Take, ConvertTop, Requeue, RequeueFails, Pending, Painting, Half,
         driverVars, lcdVars
<1>3. QED
  BY <1>1, <1>2, SameRelayState

LEMMA RelayStep == IInv /\ [Next]_vars => [Relay!Next]_(Relay!relayVars)
<1> SUFFICES ASSUME IInv, [Next]_vars
             PROVE  Relay!Next \/ UNCHANGED relayState
  BY DEF Relay!relayVars, relayState, Waiting, SlotFrame, Fresh, Pending, Half
<1>1. CASE UNCHANGED vars
  BY <1>1 DEF vars, driverVars, lcdVars, relayState, Waiting, SlotFrame, Fresh,
              Pending, Painting, Half, Unconverted
<1>2. CASE Camera
  BY <1>2, CaptureStep, OtherCameraSteps DEF Camera, Relay!Next
<1>3. CASE Dispatcher
  BY <1>3, OtherCameraSteps DEF Dispatcher
<1>4. ASSUME NEW w \in Worker, Converter(w)
      PROVE  Relay!Next \/ UNCHANGED relayState
  BY <1>4, ConvertStep, AnnounceStep, LoseStep, OtherConverterSteps
  DEF Converter, Relay!Next
<1>5. CASE Display
  BY <1>5, OtherCameraSteps, ReceiveStep, PaintStep DEF Display, Relay!Next
<1>6. QED
  BY <1>1, <1>2, <1>3, <1>4, <1>5 DEF Next

\* The application implements FrameRelay.
THEOREM Refinement == Spec => RelaySpec
BY RelayInit, RelayStep, InductiveInvariant, PTL DEF Spec, RelaySpec, Relay!Spec

=============================================================================

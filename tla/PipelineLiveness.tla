--------------------------- MODULE PipelineLiveness --------------------------
(***************************************************************************)
(* What must eventually happen in the running application.  The camera never*)
(* stops: once MaxFrame frames are numbered it goes on delivering frames    *)
(* with the last number, so that every behaviour is infinite.               *)
(*                                                                         *)
(* Fairness.  The sensor streams as long as a buffer is queued, and every   *)
(* thread is a Linux thread that runs again as long as it is not blocked:   *)
(* weak fairness of each step that does not fail.  A full queue is left by  *)
(* several blocked senders, and the kernel wakes them in the order in which *)
(* they came: strong fairness of Send.  Nothing makes a call fail.          *)
(***************************************************************************)
EXTENDS FramePipeline

Recapture(k) == frame = MaxFrame /\ BeginFill(k, frame)

LiveNext == Next \/ \E k \in Buf : Recapture(k)

Fairness ==
  /\ WF_vars(\E k \in Buf : StartCapture(k) \/ Recapture(k))
  /\ \A k \in Buf : WF_vars(EndCapture(k))
  /\ WF_vars(CreateWorker) /\ WF_vars(Dequeue) /\ WF_vars(Post)
  /\ \A w \in Worker :
       /\ WF_vars(FindSelf(w)) /\ WF_vars(Take(w))
       /\ WF_vars(ConvertTop(w)) /\ WF_vars(ConvertBottom(w))
       /\ SF_vars(Send(w)) /\ WF_vars(Requeue(w))
  /\ WF_vars(StartLcd) /\ WF_vars(Receive)
  /\ WF_vars(CopyTop) /\ WF_vars(CopyBottom)

LiveSpec == Init /\ [][LiveNext]_vars /\ Fairness

AllDead == \A w \in Worker : wpc[w] = "dead"

\* A filled buffer is handed out unless the dispatcher has ended, and a buffer
\* that was handed out goes back to the driver, whatever happens to its
\* announcement and even when the dispatcher ends meanwhile on a failed
\* VIDIOC_DQBUF, unless VIDIOC_QBUF itself failed and its converter is gone
\* (cameraFun.c:355-372, 412-417).
BufferComesBack ==
  \A k \in Buf :
    /\ vb[k] = "done" ~> (vb[k] # "done" \/ disp = "dead")
    /\ vb[k] = "dequeued" ~> (vb[k] = "queued" \/ wpc[k + 1] = "dead")

\* An announced picture reaches the screen, although the queue is full most of
\* the time and any of the threads but the display may have ended meanwhile
\* (cameraFun.c:360, drmFun.c:338-339).
Announces(k) == \E i \in 1 .. Len(mq) : mq[i].num = k

AnnouncedIsShown ==
  \A k \in Buf : Announces(k) ~> (lcd = "copyBot" /\ msg.num = k)

\* The display goes on for as long as the dispatcher and one converter are left,
\* or every message from some time on is lost: a buffer that is lost with its
\* converter stops none of the others (cameraFun.c:368-372).
LosesMessage == \E w \in Worker : SendFails(w)

SurvivorsKeepShowing ==
  \/ <>[]AllDead \/ <>[](disp = "dead")
  \/ []<>(lcd = "copyBot") \/ []<><<LosesMessage>>_vars

=============================================================================

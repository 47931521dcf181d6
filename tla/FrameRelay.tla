------------------------------ MODULE FrameRelay -----------------------------
(***************************************************************************)
(* What the camera application promises, without threads, semaphores or     *)
(* driver buffers: every captured frame is converted at most once, into a   *)
(* slot whose frames only get newer; a conversion is announced at most once;*)
(* announcements are painted in the order in which they were made; and the  *)
(* screen never gets a half that is older than the announced frame.         *)
(* FramePipeline implements it.                                             *)
(***************************************************************************)
EXTENDS Integers, Sequences

CONSTANTS
  Slots,  \* the pictures converted frames are written to
  Depth   \* announcements outstanding at once

VARIABLES
  captured,  \* number of the newest frame
  waiting,   \* captured frames that are not converted yet
  slot,      \* the frame each slot holds; 0 is none
  fresh,     \* slots converted and not announced yet
  pending,   \* announcements made and not painted yet
  half,      \* the head of pending is half painted
  screen     \* frames of the upper and the lower half of the screen

relayVars == <<captured, waiting, slot, fresh, pending, half, screen>>

Init ==
  /\ captured = 0 /\ waiting = {}
  /\ slot = [k \in Slots |-> 0] /\ fresh = {}
  /\ pending = <<>> /\ half = FALSE
  /\ screen = [top |-> 0, bot |-> 0]

Capture ==
  /\ captured' = captured + 1
  /\ waiting' = waiting \union {captured'}
  /\ UNCHANGED <<slot, fresh, pending, half, screen>>

Convert(k) ==
  /\ k \notin fresh
  /\ \E f \in waiting :
       /\ f > slot[k]
       /\ slot' = [slot EXCEPT ![k] = f]
       /\ waiting' = waiting \ {f}
  /\ fresh' = fresh \union {k}
  /\ UNCHANGED <<captured, pending, half, screen>>

Announce(k) ==
  /\ k \in fresh
  /\ Len(pending) < Depth
  /\ pending' = Append(pending, [num |-> k, seq |-> slot[k]])
  /\ fresh' = fresh \ {k}
  /\ UNCHANGED <<captured, waiting, slot, half, screen>>

\* The announcement is lost; the slot is announced with its next frame.
Lose(k) ==
  /\ k \in fresh
  /\ fresh' = fresh \ {k}
  /\ UNCHANGED <<captured, waiting, slot, pending, half, screen>>

\* The slot may have got a newer frame since: paint that, but nothing older.
PaintTop ==
  /\ pending # <<>> /\ ~ half
  /\ \E f \in Head(pending).seq .. captured : screen' = [screen EXCEPT !.top = f]
  /\ half' = TRUE
  /\ UNCHANGED <<captured, waiting, slot, fresh, pending>>

PaintBottom ==
  /\ half
  /\ \E f \in Head(pending).seq .. captured : screen' = [screen EXCEPT !.bot = f]
  /\ half' = FALSE
  /\ pending' = Tail(pending)
  /\ UNCHANGED <<captured, waiting, slot, fresh>>

Next ==
  \/ Capture
  \/ \E k \in Slots : Convert(k) \/ Announce(k) \/ Lose(k)
  \/ PaintTop \/ PaintBottom

Spec == Init /\ [][Next]_relayVars

=============================================================================

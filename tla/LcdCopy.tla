-------------------------------- MODULE LcdCopy -------------------------------
(***************************************************************************)
(* The drawing functions of drmFun.c: they walk over the screen line by     *)
(* line and write pixels through kms.fb_map.  The frame buffer is an array  *)
(* of pixels of n bytes, n being what the colour depth asks for; a line of  *)
(* it may be longer than the screen is wide.                                *)
(***************************************************************************)
EXTENDS Integers

VARIABLES
  scr,  \* kms.fb_widht, fb_hight, fb_line_size and fb_size, and n
  fb,   \* what kms.fb_map points to
  i,    \* the loop variables of lcd_show_camear and lcd_show_pic
  j,
  z     \*   and the index of the next pixel to write

\* What the kernel makes of a request for a buffer of width x height pixels of
\* n bytes (external): lines are padded, and so is the end.
IsScreen(s) ==
  /\ s \in [width : Nat, height : Nat, line : Nat, size : Nat, n : {2, 4}]
  /\ s.line >= s.width * s.n /\ s.line % s.n = 0
  /\ s.size >= s.line * s.height

\* kms is a global variable: before drm_init() everything in it is 0.
NoScreen == [width |-> 0, height |-> 0, line |-> 0, size |-> 0, n |-> 2]

Elem == 0 .. scr.size \div scr.n - 1
Stride == scr.line \div scr.n

StartCopy == i' = 0 /\ j' = 0 /\ z' = 0

Inside(w, h) == j < w /\ i < h

\* Mutant: z goes on from where the last line of the picture ended.
NextLineKeepsZ ==
  /\ i < scr.height /\ j = scr.width
  /\ i' = i + 1 /\ j' = 0
  /\ UNCHANGED <<z, fb>>

\* The inner loop is over; z starts again at kms.fb_line_size / n * i.
NextLine ==
  /\ i < scr.height /\ j = scr.width
  /\ i' = i + 1 /\ j' = 0 /\ z' = Stride * (i + 1)
  /\ UNCHANGED fb

\* Mutant: the loop over the lines stops one line early.
CopyEndsEarly == i + 1 >= scr.height

CopyEnds == i = scr.height

\* lcd_show_camear, one round of the inner loop: a pixel of the picture is
\* copied, and where there is none nothing happens.
CamearPixel(p, w, h) ==
  /\ i < scr.height /\ j < scr.width
  /\ i' = i /\ j' = j + 1
  /\ IF Inside(w, h)
     THEN fb' = [fb EXCEPT ![z] = p[w * i + j]] /\ z' = z + 1
     ELSE UNCHANGED <<fb, z>>

\* lcd_show_pic, one round of the inner loop: white where there is no picture.
PicPixel(p, w, h, white) ==
  /\ i < scr.height /\ j < scr.width
  /\ i' = i /\ j' = j + 1
  /\ fb' = [fb EXCEPT ![z] = IF Inside(w, h) THEN p[w * i + j] ELSE white]
  /\ z' = z + 1

\* Where the display controller looks for column c of row r: a row begins every
\* fb_line_size bytes (external).
ScanPos(r, c) == (scr.line * r) \div scr.n + c

\* The loops have been at column c of row r.
Passed(r, c) == r < i \/ (r = i /\ c < j)

=============================================================================

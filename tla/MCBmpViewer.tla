------------------------------ MODULE MCBmpViewer -----------------------------
(* BmpViewer for small pictures: whole, cut short, with odd headers, and in  *)
(* words of eight bits with sizes that are too big for them.                *)
EXTENDS BmpViewer

H(w, h, bits) == [off |-> 54, w |-> w, h |-> h, bits |-> bits]
F(hdr_, len) == [bm |-> TRUE, hdr |-> hdr_, len |-> len]

MCFiles ==
  {F(H(2, 2, 16), 62), F(H(2, 2, 16), 59), F(H(4, 1, 24), 66), F(H(4, 2, 24), 70),
   F(H(1, 4, 24), 70), F(H(3, 2, 16), 70), F(H(2, -2, 24), 70), F(H(-2, -1, 16), 62),
   F(H(0, 3, 24), 54), F(H(2, 2, 8), 58), F(H(2, 2, 24), 27), F(H(2, 1, 16), 40),
   [bm |-> FALSE, hdr |-> H(2, 1, 16), len |-> 58],
   F([H(2, 1, 16) EXCEPT !.off = 200], 58),
   F(H(17, 4, 24), 60), F(H(16, 16, 16), 60), F(H(8, 16, 16), 60), F(H(-35, 2, 16), 60)}

\* One that looks like a picture, and one that does not.
MCHeaders == {H(2, 3, 16), [off |-> 0, w |-> 1, h |-> 1, bits |-> 0]}

Screen(w, h, line, size, n) ==
  [width |-> w, height |-> h, line |-> line, size |-> size, n |-> n]

MCScreens ==
  {Screen(3, 2, 6, 16, 2), Screen(2, 3, 8, 24, 2),
   Screen(3, 2, 16, 32, 4), Screen(2, 3, 8, 24, 4)}

=============================================================================

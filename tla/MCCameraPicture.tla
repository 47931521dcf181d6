---------------------------- MODULE MCCameraPicture ---------------------------
(* CameraPicture for small pictures and screens, and for colours at the edges. *)
EXTENDS CameraPicture

Extent(w, h) == [width |-> w, height |-> h]

\* Narrower and higher, wider and lower than the screens, and an odd width.
MCPictures == {Extent(2, 2), Extent(4, 1), Extent(1, 4), Extent(3, 2)}

\* Lines of the screen's width and padded lines, with a tail behind the last.
MCScreens ==
  {[width |-> 3, height |-> 2, line |-> 6, size |-> 12, n |-> 2],
   [width |-> 2, height |-> 3, line |-> 8, size |-> 28, n |-> 2]}

MCSamples == {0, 1, 15, 16, 17, 81, 127, 128, 129, 145, 235, 240, 254, 255}

=============================================================================

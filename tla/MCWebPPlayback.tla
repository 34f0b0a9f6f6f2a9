---------------------------- MODULE MCWebPPlayback ----------------------------
(***************************************************************************)
(* Animations of three frames on a canvas of two pixels.  The first frame  *)
(* has a hole, or is disposed of; the others cover all or one pixel.       *)
(***************************************************************************)
EXTENDS WebPPlayback

SomeFrame(w, blend, background, look) ==
    [x_offset |-> CanvasWidth - w, y_offset |-> 0, width |-> w, height |-> 1,
     blend |-> blend, background |-> background, has_alpha |-> look # "opaque",
     alpha |-> [p \in Positions |->
                  CASE look = "opaque" -> "full"
                    [] look = "part"   -> "part"
                    [] look = "hole"   -> IF p[1] = 0 THEN "clear" ELSE "full"]]

Firsts ==
    {SomeFrame(2, FALSE, FALSE, "hole"), SomeFrame(2, TRUE, TRUE, "opaque"),
     SomeFrame(1, TRUE, TRUE, "opaque")}

Others ==
    {SomeFrame(2, TRUE, FALSE, "opaque"), SomeFrame(1, TRUE, TRUE, "opaque"),
     SomeFrame(2, TRUE, TRUE, "hole"), SomeFrame(1, FALSE, FALSE, "part"),
     SomeFrame(2, FALSE, FALSE, "hole")}

MCAnimations == {<<f, g, h>> : f \in Firsts, g \in Others, h \in Others}
================================================================================

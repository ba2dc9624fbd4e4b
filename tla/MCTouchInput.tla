---------------------------- MODULE MCTouchInput ----------------------------
(***************************************************************************)
(* TouchInput on a display of 8 x 4 pixels for a picture of 4 x 2: upright *)
(* it fills the display, or a part of it if the plane does not scale;      *)
(* sideways it leaves broad borders.                                       *)
(***************************************************************************)
EXTENDS TouchInput

MCDisplay == <<8, 4>>
MCSource == <<4, 2>>
\* By the plane, the CPU, the GPU and the plane.
MCModes == {<<0, FALSE, "none", TRUE, TRUE>>, <<90, FALSE, "none", TRUE, TRUE>>,
            <<180, FALSE, "ready", TRUE, FALSE>>, <<270, TRUE, "ready", TRUE, TRUE>>}
MCTouchPoints == {<<3, 1>>, <<0, 2>>}
=============================================================================

------------------------------ MODULE Rotation ------------------------------
(***************************************************************************)
(* The places of carlinkit-kms that turn the picture and turn touches      *)
(* back: rotate_nv12() of src/src/software_decoder_source.cpp (the CPU),   *)
(* rot_matrix() of src/src/gl_rotate_source.cpp (the GPU), the kernel's    *)
(* plane (external), and to_video() and rotate_delta() of                  *)
(* src/src/input_touch.h.  They are written apart and must agree.          *)
(*                                                                         *)
(* A pixel is a pair <<column, row>> from the top left.  A point is a pair *)
(* in half pixels, so that pixel <<c, r>> has its centre in                *)
(* <<2c + 1, 2r + 1>>.  Sizes are pairs <<width, height>> in pixels.       *)
(***************************************************************************)
EXTENDS Integers

Angles == {0, 90, 180, 270}

Sideways(rot) == rot \in {90, 270}

\* out_dims(): the size of the rotated picture.
OutDims(size, rot) == IF Sideways(rot) THEN <<size[2], size[1]>> ELSE size

Pixels(size) == (0..(size[1] - 1)) \X (0..(size[2] - 1))

Centre(pixel) == <<2 * pixel[1] + 1, 2 * pixel[2] + 1>>

(***************************************************************************)
(* What is shown: the pixel of the decoded picture, of the given size,     *)
(* that lies under pixel p of the rotated one.                             *)
(***************************************************************************)
\* rotate_nv12(), which goes through the luma and through the chroma plane.
CpuSource(p, size, rot) ==
  CASE rot = 90  -> <<size[1] - 1 - p[2], p[1]>>
    [] rot = 180 -> <<size[1] - 1 - p[1], size[2] - 1 - p[2]>>
    [] rot = 270 -> <<p[2], size[2] - 1 - p[1]>>
    [] OTHER     -> p

\* Mutant: the y-flip of GL is forgotten.
GlMatrix_NoFlip(rot) ==
  CASE rot = 90  -> <<0, 1, -1, 0>>
    [] rot = 180 -> <<-1, 0, 0, -1>>
    [] rot = 270 -> <<0, -1, 1, 0>>
    [] OTHER     -> <<1, 0, 0, 1>>

\* rot_matrix(), by columns.
GlMatrix(rot) ==
  CASE rot = 90  -> <<0, 1, 1, 0>>
    [] rot = 180 -> <<-1, 0, 0, 1>>
    [] rot = 270 -> <<0, -1, -1, 0>>
    [] OTHER     -> <<1, 0, 0, -1>>

\* The vertex shader: the matrix turns the coordinate about the centre of the
\* screen, whose origin is at the bottom, into one of the texture, whose first
\* row is the top of the picture.
GlSource(p, size, rot) ==
  LET out == OutDims(size, rot)
      s   == 2 * p[1] + 1 - out[1]
      t   == out[2] - (2 * p[2] + 1)
      m   == GlMatrix(rot)
  IN <<(m[1] * s + m[3] * t + size[1] - 1) \div 2,
       (m[2] * s + m[4] * t + size[2] - 1) \div 2>>

\* A picture turned counter-clockwise by a quarter: the pixel under p.
Quarter(p, size) == <<size[1] - 1 - p[2], p[1]>>

\* The plane: quarter turns, each of the picture the one before has made.
PlaneSource(p, size, rot) ==
  LET turned == OutDims(size, 90) IN
  CASE rot = 90  -> Quarter(p, size)
    [] rot = 180 -> Quarter(Quarter(p, turned), size)
    [] rot = 270 -> Quarter(Quarter(Quarter(p, size), turned), size)
    [] OTHER     -> p

(***************************************************************************)
(* What is touched.                                                        *)
(***************************************************************************)
\* Mutant: 90 and 270 degrees are taken for each other.
ToVideo_Swapped(l, rect, rot) ==
  CASE rot = 90  -> <<l[2], 2 * rect[1] - l[1]>>
    [] rot = 180 -> <<2 * rect[1] - l[1], 2 * rect[2] - l[2]>>
    [] rot = 270 -> <<2 * rect[2] - l[2], l[1]>>
    [] OTHER     -> l

\* to_video(): point l of the video rectangle of size rect on the display, as a
\* point of the picture there when it is turned back.
ToVideo(l, rect, rot) ==
  CASE rot = 90  -> <<2 * rect[2] - l[2], l[1]>>
    [] rot = 180 -> <<2 * rect[1] - l[1], 2 * rect[2] - l[2]>>
    [] rot = 270 -> <<l[2], 2 * rect[1] - l[1]>>
    [] OTHER     -> l

\* rotate_delta(): a movement of the mouse, as one of the cursor.
RotateDelta(d, rot) ==
  CASE rot = 90  -> <<d[2], -d[1]>>
    [] rot = 180 -> <<-d[1], -d[2]>>
    [] rot = 270 -> <<-d[2], d[1]>>
    [] OTHER     -> d
=============================================================================

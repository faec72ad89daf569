--------------------------- MODULE MCCameraDriver ---------------------------
(* A small instance of CameraDriver: a ring of three half buffers, frames    *)
(* that hold two and shots of two or three.                                 *)
EXTENDS CameraDriver

MCSizes == {2, 3}
=============================================================================

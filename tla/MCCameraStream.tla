--------------------------- MODULE MCCameraStream ---------------------------
(* CameraStream for TLC.                                                   *)
EXTENDS CameraStream

CONSTANTS s1, s2, p1, p2

MCSocket == {s1, s2}
MCPeer == {p1, p2}
=============================================================================

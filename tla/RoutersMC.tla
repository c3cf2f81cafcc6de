------------------------------ MODULE RoutersMC ------------------------------
(* Routers with frames made of the octets that KISS and the reader treat in *)
(* a special way, and a line that may be in the middle of something.       *)
EXTENDS Routers

MCPayload == <<<<192, 0>>, <<219>>>>

\* Nothing, the tail of a frame, a frame with an invalid escape, and a frame
\* that is a command to the TNC.
MCLeftover == {<<>>, <<7, 192>>, <<192, 0, 219, 7, 192>>, <<192, 1, 7, 192>>}
==============================================================================

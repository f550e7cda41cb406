---------------------------- MODULE MCUdpTransfer ----------------------------
(* Small instances of UdpTransfer for TLC. *)
EXTENDS UdpTransfer, TLC

CONSTANTS c1, c2

\* Files of two parts and of one part, the shortest that has a last part only.
TwoAndOne == c1 :> 2 @@ c2 :> 1
\* One client with a file of three parts, or of one.
OneLong  == c1 :> 3
OneShort == c1 :> 1
==============================================================================

---------------------------- MODULE MCAhbBridge ----------------------------
(* Two addresses, two data values and two sizes: enough for a transfer to   *)
(* reach the wrong location, carry the wrong data or the wrong size.        *)
EXTENDS AhbBridge

MCAddr == {0, 1}
MCData == {0, 1}
MCSize == {0, 2}
=============================================================================

--------------------------- MODULE MCHidTransmit ----------------------------
(* Instances of HidTransmit for TLC: two-byte reports, and responses from an *)
(* empty one to one of 18 reports, which is longer than the sequence space.  *)
EXTENDS HidTransmit

MCByte == 1..36
Bytes(n) == [i \in 1..n |-> i]
MCApdus == {Bytes(n) : n \in {4, 5}}
MCResps == {Bytes(n) : n \in {0, 1, 5, 36}}
=============================================================================

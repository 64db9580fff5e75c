----------------------------- MODULE MCHexCodec -----------------------------
(* HexCodec for TLC: every pair of bytes; texts of three code units at the *)
(* boundaries of the conversions.                                          *)
EXTENDS HexCodec

AllBytes == -128 .. 127
=============================================================================

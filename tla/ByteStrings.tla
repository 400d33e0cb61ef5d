---------------------------- MODULE ByteStrings ----------------------------
(* Addresses and packets are sequences of bytes. *)
EXTENDS Integers, Sequences

Byte  == 0 .. 255
Bytes == Seq(Byte)
=============================================================================

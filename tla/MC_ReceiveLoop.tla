---------------------------- MODULE MC_ReceiveLoop ----------------------------
(* Blocks of two bytes and chunks of four. The longest frame reaches one byte *)
(* beyond two chunks, as 65557 is beyond 16 chunks of 4096 bytes. The cipher  *)
(* itself is evaluated with the assumptions of Rijndael.                      *)
EXTENDS ReceiveLoop, Rijndael

Lengths == {1, 4, 9}
===============================================================================

-------------------------------- MODULE MCConsole -------------------------------
(* A small window; a number below 0 with two digits, and 0 itself.  itoa is *)
(* tried on numbers of one to four digits and ten, with zeros in and behind. *)
EXTENDS Console

MCNumbers == {-10, 0}
MCSamples == {-2147483647, -1230, -10, -9, 0, 7, 10, 99, 1009, 2147483647}
================================================================================

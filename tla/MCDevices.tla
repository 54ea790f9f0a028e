------------------------------- MODULE MCDevices -------------------------------
(* A key, two movements, three functions on the PCI bus. *)
EXTENDS Devices

MCConfigs == {100, 101}
MCMoves == {<<8, 100, 3>>, <<9, 0, 1>>}
MCGarbage == {<<-3, 100>>, <<79, 0>>}

Function(vendor, header, words) ==
  [vendor |-> vendor, header |-> header, words |-> [r \in 0 .. 5 |-> words[r + 1]]]

\* Nothing; a disk controller whose ports come fifth, alone and as one of
\* several functions; a network card; a bridge with ports behind it; a card bus
\* bridge; a card with a self test.
MCPciFunctions ==
  {Function(65535, 65535, <<65535, 65535, 65535, 65535, 65535, 65535>>),
   Function(32902, 0, <<0, 0, 0, 0, 49153, 0>>),
   Function(32902, 128, <<0, 0, 0, 0, 49153, 0>>),
   Function(4130, 0, <<49185, 61440, 0, 0, 0, 0>>),
   Function(32902, 1, <<49217, 0, 66305, 0, 0, 0>>),
   Function(4172, 2, <<61440, 160, 66305, 0, 0, 0>>),
   Function(4172, 32768, <<49249, 0, 0, 0, 49281, 0>>)}
MCLeft == {[type |-> "io", address |-> 4096, portBase |-> 8192],
           [type |-> "memory", address |-> 0, portBase |-> 0]}
================================================================================

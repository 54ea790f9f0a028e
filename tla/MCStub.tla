-------------------------------- MODULE MCStub --------------------------------
(* One exception of each kind and one request. *)
EXTENDS Stub

MCVectors == {0, 14, 32}
MCWithCode == {14}
MCBelow == <<"w1", "w2", "w3">>
================================================================================

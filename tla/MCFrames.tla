------------------------------- MODULE MCFrames -------------------------------
(* Instances of Frames for TLC. *)
EXTENDS Frames

\* Page 0 and four pages that are identity mapped, allocated and freed in any order.
MCPages == 0 .. 4

\* The arguments CompletePaging gives: a kernel page that is not writable.
MCOneMode == {<<1, 0>>}

\* One or two frames inside RAM, and one address beyond it.
MCReserved == {3 * PageSize, NFrames * PageSize}
MCReservedHigh == {3 * PageSize, 5 * PageSize, NFrames * PageSize}
================================================================================

-------------------------------- MODULE MCBoot --------------------------------
(* A small machine for Boot: pages of 4 bytes, tables of 4 pages. *)
EXTENDS Boot

MCLowEnd == 4 * PageSize
MCVgaStart == 2 * PageSize
MCVgaEnd == 3 * PageSize
MCSlack == 3 * PageSize
MCHeapGap == 24 * PageSize
MCHeapInit == 32 * PageSize
MCHeapLimit == 80 * PageSize
MCDirSize == 2 * PageSize + 1

\* A kernel that ends on a page, in the middle of one, one that makes the
\* identity map need a second table, and one that reaches the heap's start.
MCLastMods == {4 * PageSize, 5 * PageSize + 2, 8 * PageSize, 24 * PageSize + 2}

\* In low memory, in the heap space, above it, and outside RAM.
MCReserved == {PageSize, 28 * PageSize, 60 * PageSize, NFrames * PageSize}
================================================================================

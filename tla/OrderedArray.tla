----------------------------- MODULE OrderedArray -----------------------------
(* The array of orderedarray.cpp, as a sequence.  `less` is the set of the     *)
(* items x for which the array's predicate says LessThan(x, item).             *)
EXTENDS Sequences, SequencesExt

\* Insert's first loop: it passes over items while they are less than `item`.
InsertPosition(array, less) ==
  LET stop == SelectInSeq(array, LAMBDA x : x \notin less)
  IN  IF stop = 0 THEN Len(array) + 1 ELSE stop

Insert(array, item, less) == InsertAt(array, InsertPosition(array, less), item)

\* A RemoveAt that only makes the array shorter.
RemoveLast(array, i) == Front(array)

\* RemoveAt moves the items after i, and one word more, one place back.
RemoveItem(array, i) == RemoveAt(array, i)

\* The loops of the callers that look for an item: 0 when it is not there.
Find(array, item) == SelectInSeq(array, LAMBDA x : x = item)
================================================================================

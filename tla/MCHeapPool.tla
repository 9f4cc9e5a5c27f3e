------------------------------ MODULE MCHeapPool ------------------------------
(* TLC instances of HeapPool: a pool of 3 pages in a bitmap of 12.         *)
EXTENDS HeapPool

Entry(b, l, u) == [base |-> b, length |-> l, usable |-> u]

(* One region from 0; two with ragged ends around a hole, the first longer *)
(* than the pool; one past the end of the bitmap; a run broken by a hole   *)
(* after two pages, in order and out of it with reserved memory above all; *)
(* a low entry listed last; two usable pages in all; no usable memory; no  *)
(* entry.                                                                  *)
MCMemMaps == {
  <<Entry(0, 24, TRUE)>>,
  <<Entry(0, 4, FALSE), Entry(5, 7, TRUE), Entry(13, 3, TRUE)>>,
  <<Entry(0, 4, FALSE), Entry(15, 14, TRUE)>>,
  <<Entry(2, 4, TRUE), Entry(6, 2, FALSE), Entry(8, 6, TRUE)>>,
  <<Entry(10, 7, TRUE), Entry(2, 5, TRUE), Entry(40, 8, FALSE)>>,
  <<Entry(9, 7, TRUE), Entry(0, 3, FALSE)>>,
  <<Entry(2, 4, TRUE)>>,
  <<Entry(0, 8, FALSE)>>,
  <<>> }
=============================================================================

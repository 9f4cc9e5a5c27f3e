--------------------------------- MODULE Heap ---------------------------------
(***************************************************************************)
(* The first-fit allocator of kernel/mm/heap.cpp on a pool of POOL bytes   *)
(* (how the pool is found is module HeapPool's).  An address is an offset  *)
(* into the pool.                                                          *)
(*                                                                         *)
(* hdr holds the addresses at which a HeapHeader can be read, that is,     *)
(* whose magic is HEAP_MAGIC: the headers of the list and stale ones that  *)
(* merge_next left behind.  kmalloc walks the list one header per step;    *)
(* kfree is one step.  Nothing else runs meanwhile.                        *)
(***************************************************************************)
EXTENDS Integers, FiniteSets

CONSTANTS
  POOL,          (* HEAP_PAGES * 4096                                      *)
  HDR,           (* sizeof(HeapHeader), 32                                 *)
  MIN_SPLIT,     (* 32                                                     *)
  ALIGN,         (* 8                                                      *)
  SIZE_WRAP,     (* number of values of size_t, 2^64                       *)
  Requests       (* sizes that callers ask for                             *)

ASSUME HeapAssumption ==
  /\ {POOL, HDR, MIN_SPLIT, ALIGN, SIZE_WRAP} \subseteq Nat \ {0}
  /\ POOL % ALIGN = 0 /\ HDR % ALIGN = 0 /\ SIZE_WRAP % ALIGN = 0
  /\ HDR < POOL /\ POOL < SIZE_WRAP
  /\ Requests \subseteq 0 .. SIZE_WRAP - 1

(* nullptr *)
Null == -1

VARIABLES
  pc,            (* "init", "idle", or "walk" inside kmalloc               *)
  hdr,           (* address |-> [size, free, next, prev]                   *)
  s_head,
  req,           (* kmalloc's argument                                     *)
  size,          (* ... rounded up                                         *)
  cur,           (* ... and its cursor                                     *)
  blocks,        (* history: the headers linked into the list              *)
  live,          (* history: pointer |-> size asked for                    *)
  freed          (* history: freed pointers whose memory is still free     *)

vars == <<pc, hdr, s_head, req, size, cur, blocks, live, freed>>

Addr == 0 .. POOL - 1

Header == [size : Nat, free : BOOLEAN, next : Addr \cup {Null},
           prev : Addr \cup {Null}]

(* Where the block of header b ends, given the headers h. *)
End(h, b) == b + HDR + h[b].size

Restrict_to(f, S) == [a \in S |-> f[a]]

-----------------------------------------------------------------------------

Init ==
  /\ pc = "init"
  /\ hdr = [a \in {} |-> 0]
  /\ s_head = Null
  /\ req = 0 /\ size = 0 /\ cur = Null
  /\ blocks = {}
  /\ live = [a \in {} |-> 0]
  /\ freed = {}

(* One free block; without a first page (~ok) the list stays empty. *)
heap_init(ok) ==
  /\ pc = "init"
  /\ pc' = "idle"
  /\ IF ok
     THEN /\ hdr' = [a \in {0} |-> [size |-> POOL - HDR, free |-> TRUE,
                                    next |-> Null, prev |-> Null]]
          /\ s_head' = 0
          /\ blocks' = {0}
     ELSE UNCHANGED <<hdr, s_head, blocks>>
  /\ UNCHANGED <<req, size, cur, live, freed>>

-----------------------------------------------------------------------------

(* Mutant: The size is rounded down. *)
RoundDown(n) == (n \div ALIGN) * ALIGN

(* (n + 7) & ~7, in the width of size_t. *)
RoundUp(n) == (((n + ALIGN - 1) % SIZE_WRAP) \div ALIGN) * ALIGN

(* A request for 0 bytes returns nullptr at once. *)
kmalloc(n) ==
  /\ pc = "idle"
  /\ IF n = 0 THEN UNCHANGED <<pc, req, size, cur>>
     ELSE /\ pc' = "walk"
          /\ req' = n
          /\ size' = RoundUp(n)
          /\ cur' = s_head
  /\ UNCHANGED <<hdr, s_head, blocks, live, freed>>

(* kmalloc returns; its locals are gone. *)
Return == pc' = "idle" /\ req' = 0 /\ size' = 0 /\ cur' = Null

(* Mutant: A block in use is taken if it is large enough. *)
FitsInUse(b) == hdr[b].size >= size

(* Mutant: A block of exactly the size asked for is passed over. *)
FitsStrictly(b) == hdr[b].free /\ hdr[b].size > size

Fits(b) == hdr[b].free /\ hdr[b].size >= size

(* Mutant: Any remainder is split off. *)
CanSplitAlways(b) == hdr[b].size > size

CanSplit(b) == hdr[b].size >= size + HDR + MIN_SPLIT

(* Writing a header at address n spoils the stale headers it overlaps. *)
NotOverlapping(n) == {a \in DOMAIN hdr : a + HDR <= n \/ n + HDR <= a}

(* Mutant: The back link of the block after the new one is not updated. *)
SplitNoBackLink(b) ==
  LET n == b + HDR + size
      new == [size |-> hdr[b].size - size - HDR, free |-> TRUE,
              next |-> hdr[b].next, prev |-> b]
  IN  [a \in NotOverlapping(n) \cup {n} |->
         CASE a = n -> new
           [] a = b -> [hdr[b] EXCEPT !.next = n, !.size = size]
           [] OTHER -> hdr[a]]

(* The headers after b is cut down to `size' bytes: the rest becomes a     *)
(* free block between b and its successor.                                 *)
Split(b) ==
  LET n == b + HDR + size
      new == [size |-> hdr[b].size - size - HDR, free |-> TRUE,
              next |-> hdr[b].next, prev |-> b]
  IN  [a \in NotOverlapping(n) \cup {n} |->
         CASE a = n -> new
           [] a = b -> [hdr[b] EXCEPT !.next = n, !.size = size]
           [] a = hdr[b].next -> [hdr[a] EXCEPT !.prev = n]
           [] OTHER -> hdr[a]]

(* The caller owns, and (like kzalloc) writes, all bytes it asked for: no  *)
(* header survives there.                                                  *)
Written(p) == {a \in Addr : p < a + HDR /\ a < p + req}

(* Mutant: A block that is cut to size is not marked as used. *)
MarkUsedUnsplit(h, b) == IF CanSplit(b) THEN h ELSE [h EXCEPT ![b].free = FALSE]

MarkUsed(h, b) == [h EXCEPT ![b].free = FALSE]

(* The cursor is on a block that fits: take it, cut to size if worth it.   *)
kmalloc_take ==
  /\ pc = "walk"
  /\ cur \in DOMAIN hdr
  /\ Fits(cur)
  /\ LET h1 == IF CanSplit(cur) THEN Split(cur) ELSE hdr
         h2 == MarkUsed(h1, cur)
         p  == cur + HDR
     IN  /\ hdr' = Restrict_to(h2, DOMAIN h2 \ Written(p))
         /\ blocks' = IF CanSplit(cur) THEN blocks \cup {p + size} ELSE blocks
         /\ live' = [q \in DOMAIN live \cup {p} |->
                       IF q = p THEN req ELSE live[q]]
         /\ freed' = {q \in freed : q - HDR \in DOMAIN hdr' /\ q # p}
  /\ Return
  /\ UNCHANGED s_head

(* Mutant: A block in use is skipped with `continue', before the advance. *)
kmalloc_next_continue ==
  /\ pc = "walk"
  /\ cur \in DOMAIN hdr
  /\ ~Fits(cur)
  /\ cur' = IF hdr[cur].free THEN hdr[cur].next ELSE cur
  /\ UNCHANGED <<pc, hdr, s_head, req, size, blocks, live, freed>>

kmalloc_next ==
  /\ pc = "walk"
  /\ cur \in DOMAIN hdr
  /\ ~Fits(cur)
  /\ cur' = hdr[cur].next
  /\ UNCHANGED <<pc, hdr, s_head, req, size, blocks, live, freed>>

(* nullptr: the end of the list, or something that is no header. *)
kmalloc_fail ==
  /\ pc = "walk"
  /\ cur \notin DOMAIN hdr
  /\ Return
  /\ UNCHANGED <<hdr, s_head, blocks, live, freed>>

-----------------------------------------------------------------------------

(* Whether merge_next(b) does anything. *)
CanMerge(h, b) ==
  b # Null /\ h[b].next # Null /\ h[b].free /\ h[h[b].next].free

(* The headers after merge_next(b); the merged one goes stale in place. *)
merge_next(h, b) ==
  IF ~CanMerge(h, b) THEN h
  ELSE LET n == h[b].next
       IN  [a \in DOMAIN h |->
              CASE a = b -> [h[b] EXCEPT !.size = @ + HDR + h[n].size,
                                         !.next = h[n].next]
                [] a = h[n].next -> [h[a] EXCEPT !.prev = b]
                [] OTHER -> h[a]]

(* Mutant: A freed block is not merged with the one before it. *)
ReleaseForwardOnly(b) ==
  LET h1 == [hdr EXCEPT ![b].free = TRUE]
  IN  /\ hdr' = merge_next(h1, b)
      /\ blocks' = IF CanMerge(h1, b) THEN blocks \ {h1[b].next} ELSE blocks

(* kfree's work on the block of header b: mark it, merge it with the next  *)
(* block, then the previous block with it.                                 *)
Release(b) ==
  LET h1 == [hdr EXCEPT ![b].free = TRUE]
      h2 == merge_next(h1, b)
      into_prev == CanMerge(h2, h2[b].prev)
  IN  /\ hdr' = merge_next(h2, h2[b].prev)
      /\ blocks' = blocks \ ((IF CanMerge(h1, b) THEN {h1[b].next} ELSE {})
                            \cup (IF into_prev THEN {b} ELSE {}))

(* Freeing nullptr, something that is no header, or a free block (again)   *)
(* does nothing.                                                           *)
kfree(p) ==
  /\ pc = "idle"
  /\ IF p # Null /\ p - HDR \in DOMAIN hdr /\ ~hdr[p - HDR].free
     THEN /\ Release(p - HDR)
          /\ live' = Restrict_to(live, DOMAIN live \ {p})
          /\ freed' = freed \cup {p}
     ELSE UNCHANGED <<hdr, blocks, live, freed>>
  /\ UNCHANGED <<pc, s_head, req, size, cur>>

(* Callers free what they own, once more while nobody else owns it, or     *)
(* nothing.                                                                *)
Next ==
  \/ \E ok \in BOOLEAN : heap_init(ok)
  \/ \E n \in Requests : kmalloc(n)
  \/ kmalloc_take
  \/ kmalloc_next
  \/ kmalloc_fail
  \/ \E p \in DOMAIN live \cup freed \cup {Null} : kfree(p)

Spec == Init /\ [][Next]_vars

(* Code that has entered kmalloc keeps running. *)
FairSpec ==
  Spec /\ WF_vars(kmalloc_take) /\ WF_vars(kmalloc_next) /\ WF_vars(kmalloc_fail)

-----------------------------------------------------------------------------

(* Every variable stays in the set of values its C++ type and use allow;   *)
(* in particular no unsigned size ever goes below zero.                    *)
TypeOK ==
  /\ pc \in {"init", "idle", "walk"}
  /\ DOMAIN hdr \subseteq Addr
  /\ \A a \in DOMAIN hdr : hdr[a] \in Header
  /\ s_head \in {0, Null}
  /\ req \in Nat
  /\ size \in 0 .. SIZE_WRAP - 1
  /\ cur \in Addr \cup {Null}
  /\ blocks \subseteq Addr
  /\ DOMAIN live \subseteq Addr
  /\ freed \subseteq Addr

(* The list describes the pool: its blocks, each directly after the one    *)
(* before it, cover the pool without gap or overlap, and prev undoes next. *)
Tiling ==
  /\ blocks \subseteq DOMAIN hdr
  /\ s_head # Null => 0 \in blocks /\ hdr[0].prev = Null
  /\ \A b \in blocks :
       /\ hdr[b].size % ALIGN = 0
       /\ hdr[b].next = IF End(hdr, b) = POOL THEN Null ELSE End(hdr, b)
       /\ hdr[b].next # Null =>
            hdr[b].next \in blocks /\ hdr[hdr[b].next].prev = b
  /\ \A b, c \in blocks : b < c => End(hdr, b) <= c

(* A block is marked used exactly while a caller owns it: kfree, also of a *)
(* pointer that was freed before, neither frees another's block nor leaks  *)
(* one, and what kmalloc hands out is not free for the next caller.        *)
UsedIffOwned ==
  {b \in blocks : ~hdr[b].free} = {p - HDR : p \in DOMAIN live}

(* While a caller owns a block, no kmalloc or kfree of anybody else cuts   *)
(* it, grows it, frees it or gives it to a second owner.                   *)
OwnedUntouched ==
  [][\A p \in DOMAIN live \cap DOMAIN live' :
       /\ live'[p] = live[p]
       /\ hdr'[p - HDR].size = hdr[p - HDR].size
       /\ ~hdr'[p - HDR].free]_vars

(* "Allocate at least `size' bytes." (heap.hpp): the block of an owned     *)
(* pointer has room for what its owner asked for.                          *)
AtLeastSize == \A p \in DOMAIN live : hdr[p - HDR].size >= live[p]

(* Two free neighbours never stay apart, so a heap whose users have given  *)
(* everything back is one block again, whatever the order.                 *)
Coalesced ==
  /\ \A b \in blocks :
       hdr[b].free /\ hdr[b].next # Null => ~hdr[hdr[b].next].free
  /\ s_head # Null /\ DOMAIN live = {} => blocks = {0}

(* kmalloc reports out-of-memory only when no free block is large enough.  *)
NoFalseOom ==
  [][pc = "walk" /\ pc' = "idle" /\ live' = live =>
       \A b \in blocks : hdr[b].free => hdr[b].size < size]_vars

(* The walk of kmalloc always ends. *)
KmallocReturns == pc = "walk" ~> pc = "idle"
==============================================================================

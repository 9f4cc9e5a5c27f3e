--------------------------------- MODULE Pmm ---------------------------------
(***************************************************************************)
(* The physical memory manager of kernel/mm/pmm.cpp: a bitmap with one bit *)
(* per page (1 = free), scanned one machine word at a time.                *)
(*                                                                         *)
(* pmm_init runs once in _start; its loops over the memory map are taken   *)
(* one entry per step.  pmm_alloc and pmm_free are called with nobody else *)
(* running and are one step each.                                          *)
(***************************************************************************)
EXTENDS Integers, Sequences, FiniteSets

CONSTANTS
  PAGE,           (* bytes per page (4096)                                 *)
  BITMAP_QWORDS,  (* words in the bitmap (16384)                           *)
  BITS,           (* bits per word (64)                                    *)
  RESERVED,       (* pages of the first megabyte (256)                     *)
  MemMaps         (* memory maps the boot loader may hand over             *)

Capacity == BITMAP_QWORDS * BITS

(* The bytes of a memory map entry. *)
Bytes(e) == e.base .. e.base + e.length - 1

(* Limine's usable entries do not overlap (its other entries may). *)
ASSUME PmmAssumption ==
  /\ PAGE \in Nat \ {0}
  /\ BITMAP_QWORDS \in Nat \ {0}
  /\ BITS \in Nat \ {0}
  /\ RESERVED \in Nat \ {0}
  /\ \A mm \in MemMaps :
       /\ mm \in Seq([base : Nat, length : Nat, usable : BOOLEAN])
       /\ \A i, j \in DOMAIN mm :
            i # j /\ mm[i].usable /\ mm[j].usable
              => Bytes(mm[i]) \cap Bytes(mm[j]) = {}

VARIABLES
  entries,        (* the memory map                                        *)
  pc,             (* "pass1", "pass2", "reserve", "ready"                  *)
  i,              (* the loop variable of the two passes                   *)
  bitmap,         (* word |-> the set of its bits that are 1               *)
  s_total_pages,
  s_free_pages,
  held            (* history: pages handed out and not freed since         *)

vars == <<entries, pc, i, bitmap, s_total_pages, s_free_pages, held>>

Word == 0 .. BITMAP_QWORDS - 1
Bit  == 0 .. BITS - 1
Page == 0 .. Capacity - 1

(* bit_test *)
bit_test(p) == p % BITS \in bitmap[p \div BITS]

(* bit_set and bit_clear, for a set of pages. *)
bit_set(pages) ==
  [w \in Word |-> bitmap[w] \cup {b \in Bit : w * BITS + b \in pages}]
bit_clear(pages) ==
  [w \in Word |-> bitmap[w] \ {b \in Bit : w * BITS + b \in pages}]

(* The pages whose bit is 1. *)
Free == {p \in Page : bit_test(p)}

-----------------------------------------------------------------------------

Init ==
  /\ entries \in MemMaps
  /\ pc = "pass1"
  /\ i = 1
  /\ bitmap = [w \in Word |-> {}]
  /\ s_total_pages = 0
  /\ s_free_pages = 0
  /\ held = {}

LastPage(e) == (e.base + e.length) \div PAGE

AtMost(n, bound) == IF n > bound THEN bound ELSE n

(* Mutant: The last entry, not the highest, determines the total. *)
pmm_init_count_last ==
  /\ pc = "pass1"
  /\ IF i <= Len(entries)
     THEN /\ s_total_pages' = LastPage(entries[i])
          /\ i' = i + 1
          /\ pc' = pc
     ELSE /\ s_total_pages' = AtMost(s_total_pages, Capacity)
          /\ i' = 1
          /\ pc' = "pass2"
  /\ UNCHANGED <<entries, bitmap, s_free_pages, held>>

(* First pass: the highest address, capped at the bitmap's reach. *)
pmm_init_count ==
  /\ pc = "pass1"
  /\ IF i <= Len(entries)
     THEN /\ s_total_pages' = IF LastPage(entries[i]) > s_total_pages
                              THEN LastPage(entries[i]) ELSE s_total_pages
          /\ i' = i + 1
          /\ pc' = pc
     ELSE /\ s_total_pages' = AtMost(s_total_pages, Capacity)
          /\ i' = 1
          /\ pc' = "pass2"
  /\ UNCHANGED <<entries, bitmap, s_free_pages, held>>

(* Mutant: The base is rounded down, so a partly usable page is handed out. *)
PagesOfRoundedOut(e) ==
  {p \in Page : e.base \div PAGE <= p /\ p <= LastPage(e)}

(* The whole pages inside an entry that the bitmap can describe: the base  *)
(* is rounded up, the limit down.                                          *)
PagesOf(e) ==
  LET first == (e.base + PAGE - 1) \div PAGE
      limit == LastPage(e)
  IN  {p \in Page : first <= p /\ p < limit}

(* Second pass: the pages of a usable entry become free, and are counted   *)
(* without a look at their bits.                                           *)
pmm_init_mark ==
  /\ pc = "pass2"
  /\ IF i <= Len(entries)
     THEN /\ i' = i + 1
          /\ pc' = pc
          /\ IF entries[i].usable
             THEN /\ bitmap' = bit_set(PagesOf(entries[i]))
                  /\ s_free_pages' =
                       s_free_pages + Cardinality(PagesOf(entries[i]))
             ELSE UNCHANGED <<bitmap, s_free_pages>>
     ELSE /\ pc' = "reserve"
          /\ UNCHANGED <<i, bitmap, s_free_pages>>
  /\ UNCHANGED <<entries, s_total_pages, held>>

LowPages == {p \in Page : p < RESERVED}

(* The first megabyte is never handed out. *)
pmm_init_reserve ==
  /\ pc = "reserve"
  /\ pc' = "ready"
  /\ s_free_pages' = s_free_pages - Cardinality(LowPages \cap Free)
  /\ bitmap' = bit_clear(LowPages)
  /\ UNCHANGED <<entries, i, s_total_pages, held>>

-----------------------------------------------------------------------------

(* __builtin_ctzll, and the first word that is not 0. *)
Lowest(ns) == CHOOSE n \in ns : \A m \in ns : n <= m

NonEmptyWords == {w \in Word : bitmap[w] # {}}

(* Mutant: The scan takes the highest word. *)
ScanPageHigh ==
  LET qi == CHOOSE w \in NonEmptyWords : \A v \in NonEmptyWords : w >= v
  IN  qi * BITS + Lowest(bitmap[qi])

(* The page the scan of pmm_alloc arrives at. *)
ScanPage ==
  LET qi == Lowest(NonEmptyWords) IN qi * BITS + Lowest(bitmap[qi])

(* With no bit left pmm_alloc returns nullptr and changes nothing. *)
pmm_alloc ==
  /\ pc = "ready"
  /\ IF NonEmptyWords = {} THEN UNCHANGED <<bitmap, s_free_pages, held>>
     ELSE /\ bitmap' = bit_clear({ScanPage})
          /\ s_free_pages' = s_free_pages - 1
          /\ held' = held \cup {ScanPage}
  /\ UNCHANGED <<entries, pc, i, s_total_pages>>

(* Mutant: pmm_free counts without a look at the bit. *)
pmm_free_unguarded(p) ==
  /\ pc = "ready"
  /\ bitmap' = bit_set({p})
  /\ s_free_pages' = s_free_pages + 1
  /\ held' = held \ {p}
  /\ UNCHANGED <<entries, pc, i, s_total_pages>>

(* A page beyond the bitmap is ignored; one that is already free stays as  *)
(* it is.                                                                  *)
pmm_free(p) ==
  /\ pc = "ready"
  /\ IF p < Capacity /\ ~bit_test(p)
     THEN /\ bitmap' = bit_set({p})
          /\ s_free_pages' = s_free_pages + 1
     ELSE UNCHANGED <<bitmap, s_free_pages>>
  /\ held' = held \ {p}
  /\ UNCHANGED <<entries, pc, i, s_total_pages>>

(* What there is to manage: the pages above the first megabyte whose bytes *)
(* all belong to one usable entry.                                         *)
Managed ==
  {p \in Page :
     /\ p >= RESERVED
     /\ \E k \in DOMAIN entries :
          /\ entries[k].usable
          /\ p * PAGE >= entries[k].base
          /\ (p + 1) * PAGE <= entries[k].base + entries[k].length}

(* Callers free pages they were given, some of them twice, and pages the   *)
(* bitmap cannot describe.                                                 *)
Next ==
  \/ pmm_init_count
  \/ pmm_init_mark
  \/ pmm_init_reserve
  \/ pmm_alloc
  \/ \E p \in Managed \cup {Capacity} : pmm_free(p)

Spec == Init /\ [][Next]_vars

-----------------------------------------------------------------------------

(* Every variable stays in the set of values its C++ type and use allow. *)
TypeOK ==
  /\ entries \in MemMaps
  /\ pc \in {"pass1", "pass2", "reserve", "ready"}
  /\ i \in Nat \ {0}
  /\ bitmap \in [Word -> SUBSET Bit]
  /\ s_total_pages \in Nat
  /\ s_free_pages \in Nat
  /\ held \subseteq Page

(* s_free_pages, which pmm_init and the two operations keep by hand, is    *)
(* the number of 1 bits, so meminfo shows the truth.                       *)
FreeCountExact == s_free_pages = Cardinality(Free)

(* pmm_used_bytes subtracts two unsigned counters; it never wraps round.   *)
UsedNeverNegative == pc = "ready" => s_free_pages <= s_total_pages

(* No page is both handed out and free, none outside the usable memory     *)
(* above the first megabyte is ever handed out (so never page 0, which     *)
(* callers would take for out of memory), and none gets lost.              *)
PagesConserved ==
  pc = "ready" => held \cap Free = {} /\ held \cup Free = Managed

(* pmm_alloc hands out the lowest free page: what heap_init relies on when *)
(* it takes page after page for consecutive ones.                          *)
LowestFirst ==
  [][held' \ held \subseteq {p \in Free : \A q \in Free : p <= q}]_vars

==============================================================================

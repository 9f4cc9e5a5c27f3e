------------------------------- MODULE HeapPool -------------------------------
(***************************************************************************)
(* heap_init of kernel/mm/heap.cpp on top of the physical memory manager:  *)
(* which pages the heap reserves and which bytes it then uses.  Once the   *)
(* pool is placed, other users of the PMM take and return pages.           *)
(***************************************************************************)
EXTENDS Pmm

CONSTANT
  HEAP_PAGES      (* pages of the pool (64)                                *)

ASSUME HeapPagesAssumption == HEAP_PAGES \in Nat \ {0}

VARIABLES
  hp,             (* heap_init: "start", "loop", "placed", "failed"        *)
  got,            (* calls of pmm_alloc made so far                        *)
  pool,           (* pages those calls returned                            *)
  phys_base       (* page of first_phys, -1 before                         *)

poolvars == <<vars, hp, got, pool, phys_base>>

PoolInit ==
  /\ Init
  /\ hp = "start"
  /\ got = 0
  /\ pool = {}
  /\ phys_base = -1

pmm_init ==
  /\ pmm_init_count \/ pmm_init_mark \/ pmm_init_reserve
  /\ UNCHANGED <<hp, got, pool, phys_base>>

(* The first page; on nullptr heap_init returns and s_head stays nullptr. *)
heap_init_first ==
  /\ hp = "start"
  /\ pmm_alloc
  /\ IF held' = held
     THEN hp' = "failed" /\ UNCHANGED <<got, pool, phys_base>>
     ELSE /\ hp' = "loop"
          /\ got' = 1
          /\ pool' = held' \ held
          /\ phys_base' = ScanPage

(* Mutant: The loop asks for one page too few. *)
heap_init_loop_short ==
  /\ hp = "loop"
  /\ got < HEAP_PAGES
  /\ IF got + 1 < HEAP_PAGES
     THEN pmm_alloc /\ pool' = pool \cup (held' \ held)
     ELSE UNCHANGED <<vars, pool>>
  /\ got' = got + 1
  /\ UNCHANGED <<hp, phys_base>>

(* The remaining pages: the result of pmm_alloc is thrown away. *)
heap_init_loop ==
  /\ hp = "loop"
  /\ got < HEAP_PAGES
  /\ pmm_alloc
  /\ got' = got + 1
  /\ pool' = pool \cup (held' \ held)
  /\ UNCHANGED <<hp, phys_base>>

(* Mutant: The reserved pages are given back once the pool is placed. *)
heap_init_place_returns ==
  /\ hp = "loop"
  /\ got = HEAP_PAGES
  /\ hp' = "placed"
  /\ pmm_free(phys_base)
  /\ UNCHANGED <<got, pool, phys_base>>

(* One free block of HEAP_PAGES pages is laid out from phys_base on. *)
heap_init_place ==
  /\ hp = "loop"
  /\ got = HEAP_PAGES
  /\ hp' = "placed"
  /\ UNCHANGED <<vars, got, pool, phys_base>>

(* Other users of the PMM: they free pages they were given, some of them   *)
(* twice, and pages the bitmap cannot describe, but never the heap's.      *)
others ==
  /\ hp \in {"placed", "failed"}
  /\ pmm_alloc \/ \E p \in (Managed \ pool) \cup {Capacity} : pmm_free(p)
  /\ UNCHANGED <<hp, got, pool, phys_base>>

PoolNext ==
  \/ pmm_init
  \/ heap_init_first
  \/ heap_init_loop
  \/ heap_init_place
  \/ others

PoolSpec == PoolInit /\ [][PoolNext]_poolvars

-----------------------------------------------------------------------------

(* The pages whose bytes the heap reads and writes. *)
Region == phys_base .. phys_base + HEAP_PAGES - 1

(* The memory map has a run of HEAP_PAGES pages at its lowest usable page. *)
LowRun ==
  \E p \in Managed :
    /\ \A q \in Managed : p <= q
    /\ p .. p + HEAP_PAGES - 1 \subseteq Managed

(* With such a run the heap works only on pages it has reserved: nobody    *)
(* else holds one and the PMM never hands one out.                         *)
PoolExclusive ==
  hp = "placed" /\ LowRun =>
    /\ Region = pool
    /\ Region \cap (Free \cup (held \ pool)) = {}

(* "Chain additional pages: each page follows the previous in physical     *)
(* address space" (heap_init): the heap works only on pages it reserved.   *)
PoolBacked == hp = "placed" => Region \subseteq pool

(* Whatever the map, the heap keeps all pages heap_init asked for: none of *)
(* them is handed out again, even those it never uses.                     *)
PoolKept == pool \cap Free = {} /\ pool \subseteq held
==============================================================================

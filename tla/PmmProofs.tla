------------------------------- MODULE PmmProofs -------------------------------
(***************************************************************************)
(* Proofs, for a bitmap, a memory map and a pool of any size, that the     *)
(* physical memory manager loses and doubles no page, that its counter is  *)
(* exact, that it hands out the lowest free page, and that heap_init       *)
(* therefore ends up on pages of its own whenever they lie in one run.     *)
(***************************************************************************)
EXTENDS HeapPool, NumberLemmas, FiniteSetTheorems

-----------------------------------------------------------------------------
(* Numbers.                                                                *)

(* A set of natural numbers that is not empty has a least element: what    *)
(* makes __builtin_ctzll of a word that is not 0, and the scan for such a  *)
(* word, well defined.                                                     *)
LEMMA LeastNumber ==
  ASSUME NEW S, S \subseteq Nat, S # {}
  PROVE  /\ Lowest(S) \in S
         /\ \A n \in S : Lowest(S) <= n
<1>1. \E m \in S : \A n \in S : m <= n
  BY LeastElement
<1> QED BY <1>1 DEF Lowest

(* The quotient is unique, and division with remainder undoes itself. *)
LEMMA DivUnique ==
  ASSUME NEW n \in Nat \ {0}, NEW y \in Nat, NEW q \in Int,
         NEW r \in 0 .. n - 1, y = n * q + r
  PROVE  y \div n = q
<1>1. PICK d \in Int : d = y \div n
  OBVIOUS
<1>2. PICK s \in 0 .. n - 1 : s = y % n
  OBVIOUS
<1>3. y = n * d + s
  BY <1>1, <1>2, Z3
<1>4. n * d \in Int /\ n * q \in Int
  OBVIOUS
<1>5. CASE d < q
  BY <1>3, <1>4, <1>5, MulLess
<1>6. CASE q < d
  BY <1>3, <1>4, <1>6, MulLess
<1> QED BY <1>1, <1>5, <1>6

(* Rounding down: m whole units fit into y bytes iff m is at most y \div n. *)
LEMMA DivBound ==
  ASSUME NEW n \in Nat \ {0}, NEW y \in Nat, NEW m \in Int
  PROVE  m <= y \div n <=> n * m <= y
<1>1. PICK d \in Int : d = y \div n
  OBVIOUS
<1>2. PICK s \in 0 .. n - 1 : s = y % n
  OBVIOUS
<1>3. y = n * d + s
  BY <1>1, <1>2, Z3
<1>4. n * d \in Int /\ n * m \in Int
  OBVIOUS
<1>5. CASE m < d
  BY <1>1, <1>3, <1>4, <1>5, MulLess
<1>6. CASE d < m
  BY <1>1, <1>3, <1>4, <1>6, MulLess
<1>7. CASE m = d
  BY <1>1, <1>3, <1>4, <1>7
<1> QED BY <1>5, <1>6, <1>7

-----------------------------------------------------------------------------
(* Pages and bits.                                                         *)

(* The word and the bit of a page ... *)
LEMMA PageToBit ==
  ASSUME NEW p \in Page
  PROVE  /\ p \div BITS \in Word
         /\ p % BITS \in Bit
         /\ (p \div BITS) * BITS + (p % BITS) = p
<1>1. BITS \in Nat \ {0} /\ BITMAP_QWORDS \in Nat \ {0}
  BY PmmAssumption
<1>2. p \in Nat /\ p < BITMAP_QWORDS * BITS
  BY <1>1 DEF Page, Capacity
<1>3. PICK d \in Int : d = p \div BITS
  BY <1>1, <1>2
<1>4. PICK s \in 0 .. BITS - 1 : s = p % BITS
  BY <1>1, <1>2
<1>5. p = BITS * d + s
  BY <1>1, <1>2, <1>3, <1>4, Z3
<1>6. BITS * d \in Int /\ d * BITS = BITS * d
      /\ BITS * BITMAP_QWORDS = BITMAP_QWORDS * BITS
  BY <1>1
<1>7. d < BITMAP_QWORDS
  <2> SUFFICES ASSUME d >= BITMAP_QWORDS PROVE FALSE
    BY <1>1
  <2>1. CASE d = BITMAP_QWORDS
    BY <1>1, <1>2, <1>5, <1>6, <2>1
  <2>2. CASE d > BITMAP_QWORDS
    <3>1. BITS * BITMAP_QWORDS + BITS <= BITS * d
      BY <1>1, <2>2, MulLess
    <3> QED BY <1>1, <1>2, <1>5, <1>6, <3>1
  <2> QED BY <1>1, <2>1, <2>2
<1>8. d >= 0
  <2> SUFFICES ASSUME d < 0 PROVE FALSE
    OBVIOUS
  <2>1. BITS * d + BITS <= BITS * 0
    BY <1>1, MulLess
  <2> QED BY <1>1, <1>2, <1>5, <1>6, <2>1
<1> QED BY <1>1, <1>3, <1>4, <1>5, <1>6, <1>7, <1>8 DEF Word, Bit

(* ... and back. *)
LEMMA BitToPage ==
  ASSUME NEW w \in Word, NEW b \in Bit
  PROVE  /\ w * BITS + b \in Page
         /\ (w * BITS + b) \div BITS = w
         /\ (w * BITS + b) % BITS = b
<1>1. BITS \in Nat \ {0} /\ BITMAP_QWORDS \in Nat \ {0}
  BY PmmAssumption
<1>2. w \in Nat /\ w < BITMAP_QWORDS /\ b \in 0 .. BITS - 1
  BY <1>1 DEF Word, Bit
<1>3. w * BITS = BITS * w /\ BITS * BITMAP_QWORDS = BITMAP_QWORDS * BITS
      /\ BITS * w \in Nat /\ BITMAP_QWORDS * BITS \in Nat
  BY <1>1, <1>2
<1>4. BITS * w + BITS <= BITS * BITMAP_QWORDS
  BY <1>1, <1>2, MulLess
<1>5. PICK y \in Nat : y = w * BITS + b
  BY <1>2, <1>3
<1>6. y = BITS * w + b
  BY <1>3, <1>5
<1>7. y \in Page
  BY <1>1, <1>2, <1>3, <1>4, <1>6 DEF Page, Capacity
<1>8. y % BITS = b
  BY <1>1, <1>2, <1>6, ModUnique
<1>9. y \div BITS = w
  BY <1>1, <1>2, <1>6, DivUnique
<1> QED BY <1>5, <1>7, <1>8, <1>9

(* Free, bit_set, bit_clear and ScanPage as functions of the bitmap. *)
FreeIn(bm) == {p \in Page : p % BITS \in bm[p \div BITS]}
SetIn(bm, pages) ==
  [w \in Word |-> bm[w] \cup {b \in Bit : w * BITS + b \in pages}]
ClearIn(bm, pages) ==
  [w \in Word |-> bm[w] \ {b \in Bit : w * BITS + b \in pages}]
WordsIn(bm) == {w \in Word : bm[w] # {}}
ScanIn(bm) == Lowest(WordsIn(bm)) * BITS + Lowest(bm[Lowest(WordsIn(bm))])

(* bit_set frees exactly the pages it is called for ... *)
LEMMA SetFrees ==
  ASSUME NEW bm \in [Word -> SUBSET Bit], NEW pages \in SUBSET Page
  PROVE  /\ SetIn(bm, pages) \in [Word -> SUBSET Bit]
         /\ FreeIn(SetIn(bm, pages)) = FreeIn(bm) \cup pages
<1>1. SetIn(bm, pages) \in [Word -> SUBSET Bit]
  BY DEF SetIn
<1>2. ASSUME NEW p \in Page
      PROVE  p % BITS \in SetIn(bm, pages)[p \div BITS]
             <=> p % BITS \in bm[p \div BITS] \/ p \in pages
  <2>1. PICK w \in Word : w = p \div BITS
    BY PageToBit
  <2>2. PICK b \in Bit : b = p % BITS
    BY PageToBit
  <2>3. w * BITS + b = p
    BY <2>1, <2>2, PageToBit
  <2>4. SetIn(bm, pages)[w] = bm[w] \cup {c \in Bit : w * BITS + c \in pages}
    BY DEF SetIn
  <2>5. b \in SetIn(bm, pages)[w] <=> b \in bm[w] \/ w * BITS + b \in pages
    BY <2>4, Zenon
  <2> QED BY <2>1, <2>2, <2>3, <2>5, Zenon
<1> QED BY <1>1, <1>2, Zenon DEF FreeIn

(* ... and bit_clear takes exactly those away. *)
LEMMA ClearTakes ==
  ASSUME NEW bm \in [Word -> SUBSET Bit], NEW pages \in SUBSET Page
  PROVE  /\ ClearIn(bm, pages) \in [Word -> SUBSET Bit]
         /\ FreeIn(ClearIn(bm, pages)) = FreeIn(bm) \ pages
<1>1. ClearIn(bm, pages) \in [Word -> SUBSET Bit]
  BY DEF ClearIn
<1>2. ASSUME NEW p \in Page
      PROVE  p % BITS \in ClearIn(bm, pages)[p \div BITS]
             <=> p % BITS \in bm[p \div BITS] /\ p \notin pages
  <2>1. PICK w \in Word : w = p \div BITS
    BY PageToBit
  <2>2. PICK b \in Bit : b = p % BITS
    BY PageToBit
  <2>3. w * BITS + b = p
    BY <2>1, <2>2, PageToBit
  <2>4. ClearIn(bm, pages)[w] = bm[w] \ {c \in Bit : w * BITS + c \in pages}
    BY DEF ClearIn
  <2>5. b \in ClearIn(bm, pages)[w] <=> b \in bm[w] /\ w * BITS + b \notin pages
    BY <2>4, Zenon
  <2> QED BY <2>1, <2>2, <2>3, <2>5, Zenon
<1> QED BY <1>1, <1>2, Zenon DEF FreeIn

(* The scan word by word arrives at the lowest free page, or at none when  *)
(* there is none.                                                          *)
LEMMA ScanFindsLowest ==
  ASSUME NEW bm \in [Word -> SUBSET Bit]
  PROVE  /\ WordsIn(bm) = {} => FreeIn(bm) = {}
         /\ WordsIn(bm) # {} => /\ ScanIn(bm) \in FreeIn(bm)
                                /\ \A q \in FreeIn(bm) : ScanIn(bm) <= q
<1>1. ASSUME NEW q \in FreeIn(bm)
      PROVE  \E w \in WordsIn(bm), b \in Bit : b \in bm[w] /\ q = w * BITS + b
  <2>1. q \in Page /\ q % BITS \in bm[q \div BITS]
    BY DEF FreeIn
  <2>2. PICK w \in Word : w = q \div BITS
    BY <2>1, PageToBit
  <2>3. PICK b \in Bit : b = q % BITS
    BY <2>1, PageToBit
  <2>4. w * BITS + b = q
    BY <2>1, <2>2, <2>3, PageToBit
  <2>5. b \in bm[w] /\ w \in WordsIn(bm)
    BY <2>1, <2>2, <2>3, Zenon DEF WordsIn
  <2> QED BY <2>4, <2>5
<1>2. WordsIn(bm) = {} => FreeIn(bm) = {}
  BY <1>1
<1>3. ASSUME WordsIn(bm) # {}
      PROVE  ScanIn(bm) \in FreeIn(bm) /\ \A q \in FreeIn(bm) : ScanIn(bm) <= q
  <2>1. WordsIn(bm) \subseteq Nat /\ \A w \in Word : bm[w] \subseteq Nat
    BY PmmAssumption DEF WordsIn, Word, Bit
  <2>2. PICK w \in WordsIn(bm) :
          w = Lowest(WordsIn(bm)) /\ \A v \in WordsIn(bm) : w <= v
    BY <1>3, <2>1, LeastNumber
  <2>3. w \in Word /\ bm[w] # {} /\ bm[w] \subseteq Bit
    BY DEF WordsIn
  <2>4. PICK b \in bm[w] : b = Lowest(bm[w]) /\ \A c \in bm[w] : b <= c
    BY <2>1, <2>3, LeastNumber
  <2>5. ScanIn(bm) = w * BITS + b
    BY <2>2, <2>4 DEF ScanIn
  <2>6. b \in Bit
    BY <2>3, <2>4
  <2>7. PICK p \in Page : p = w * BITS + b /\ p \div BITS = w /\ p % BITS = b
    BY <2>3, <2>6, BitToPage
  <2>8. p \in FreeIn(bm)
    BY <2>4, <2>7 DEF FreeIn
  <2>9. ASSUME NEW q \in FreeIn(bm)
        PROVE  p <= q
    <3>1. PICK v \in WordsIn(bm), c \in Bit : c \in bm[v] /\ q = v * BITS + c
      BY <1>1
    <3>2. BITS \in Nat \ {0} /\ w \in Nat /\ v \in Nat /\ w <= v
      BY <2>1, <2>2, PmmAssumption
    <3>3. b \in Nat /\ c \in Nat /\ b < BITS
      BY <2>6, PmmAssumption DEF Bit
    <3>4. BITS * w = w * BITS /\ BITS * v = v * BITS
          /\ BITS * w \in Int /\ BITS * v \in Int
      BY <3>2
    <3>5. CASE w = v
      BY <2>4, <2>7, <3>1, <3>3, <3>4, <3>5
    <3>6. CASE w < v
      <4>1. BITS * w + BITS <= BITS * v
        BY <3>2, <3>6, MulLess
      <4> QED BY <2>7, <3>1, <3>2, <3>3, <3>4, <4>1
    <3> QED BY <3>2, <3>5, <3>6
  <2> QED BY <2>5, <2>7, <2>8, <2>9
<1> QED BY <1>2, <1>3

-----------------------------------------------------------------------------
(* The memory map.                                                         *)

(* An element of a sequence is one of the sequence's set. *)
LEMMA ElementType ==
  ASSUME NEW S, NEW s \in Seq(S)
  PROVE  /\ Len(s) \in Nat /\ DOMAIN s = 1 .. Len(s)
         /\ \A k \in DOMAIN s : s[k] \in S
  OBVIOUS

(* The entries have their types. *)
LEMMA EntryTypes ==
  ASSUME NEW es \in MemMaps
  PROVE  /\ Len(es) \in Nat /\ DOMAIN es = 1 .. Len(es)
         /\ \A k \in DOMAIN es : /\ es[k].base \in Nat
                                 /\ es[k].length \in Nat
                                 /\ es[k].usable \in BOOLEAN
<1>1. es \in Seq([base : Nat, length : Nat, usable : BOOLEAN])
  BY PmmAssumption
<1>2. /\ Len(es) \in Nat /\ DOMAIN es = 1 .. Len(es)
      /\ \A k \in DOMAIN es :
           es[k] \in [base : Nat, length : Nat, usable : BOOLEAN]
  BY <1>1, ElementType, Zenon
<1> QED BY <1>2

(* pmm_init's rounding: a page counts as usable iff all its bytes are. *)
LEMMA PagesOfBytes ==
  ASSUME NEW e, e.base \in Nat, e.length \in Nat, NEW p \in Page
  PROVE  /\ p \in PagesOf(e) <=> /\ p * PAGE >= e.base
                                 /\ (p + 1) * PAGE <= e.base + e.length
         /\ p \in PagesOf(e) => p < LastPage(e)
         /\ LastPage(e) \in Nat
<1>1. PAGE \in Nat \ {0} /\ p \in Nat
  BY PmmAssumption DEF Page, Capacity
<1>2. PICK x \in Nat : x = e.base + PAGE - 1
  BY <1>1
<1>3. PICK y \in Nat : y = e.base + e.length
  OBVIOUS
<1>4. PICK first \in Int : first = x \div PAGE
  BY <1>1
<1>5. PICK limit \in Nat : limit = y \div PAGE
  <2>1. y \div PAGE \in Int
    BY <1>1
  <2>2. PAGE * 0 <= y
    BY <1>1
  <2>3. 0 <= y \div PAGE
    BY <1>1, <2>2, DivBound
  <2> QED BY <2>1, <2>3
<1>6. p + 1 <= first <=> PAGE * (p + 1) <= x
  BY <1>1, <1>4, DivBound
<1>7. p + 1 <= limit <=> PAGE * (p + 1) <= y
  BY <1>1, <1>5, DivBound
<1>8. /\ PAGE * (p + 1) = PAGE * p + PAGE /\ PAGE * p = p * PAGE
      /\ (p + 1) * PAGE = PAGE * (p + 1) /\ PAGE * p \in Int
  BY <1>1
<1>9. first <= p <=> p * PAGE >= e.base
  BY <1>1, <1>2, <1>6, <1>8
<1>10. p < limit <=> (p + 1) * PAGE <= e.base + e.length
  BY <1>1, <1>3, <1>7, <1>8
<1>11. p \in PagesOf(e) <=> first <= p /\ p < limit
  BY <1>2, <1>3, <1>4, <1>5 DEF PagesOf, LastPage
<1>12. LastPage(e) = limit
  BY <1>3, <1>5 DEF LastPage
<1> QED BY <1>9, <1>10, <1>11, <1>12

(* The pages of the usable entries before the n-th; Managed as a function  *)
(* of the map.                                                             *)
MarkedIn(es, n) ==
  {p \in Page : \E k \in DOMAIN es :
                   k < n /\ es[k].usable /\ p \in PagesOf(es[k])}
ManagedIn(es) ==
  {p \in Page :
     /\ p >= RESERVED
     /\ \E k \in DOMAIN es :
          /\ es[k].usable
          /\ p * PAGE >= es[k].base
          /\ (p + 1) * PAGE <= es[k].base + es[k].length}

(* One round of the second pass: no page is counted twice, because usable  *)
(* entries share no byte.                                                  *)
LEMMA MarkOne ==
  ASSUME NEW es \in MemMaps, NEW n \in DOMAIN es
  PROVE  /\ es[n].usable => /\ MarkedIn(es, n + 1) =
                                 MarkedIn(es, n) \cup PagesOf(es[n])
                            /\ MarkedIn(es, n) \cap PagesOf(es[n]) = {}
         /\ ~es[n].usable => MarkedIn(es, n + 1) = MarkedIn(es, n)
<1>1. \A k \in DOMAIN es : k \in Int
  BY EntryTypes
<1>2. \A k \in DOMAIN es : k < n + 1 <=> k < n \/ k = n
  BY <1>1
<1>3. PagesOf(es[n]) \subseteq Page
  BY DEF PagesOf
<1>4. es[n].usable => MarkedIn(es, n + 1) = MarkedIn(es, n) \cup PagesOf(es[n])
  BY <1>2, <1>3, Zenon DEF MarkedIn
<1>5. ~es[n].usable => MarkedIn(es, n + 1) = MarkedIn(es, n)
  BY <1>2, Zenon DEF MarkedIn
<1>6. ASSUME es[n].usable, NEW p \in MarkedIn(es, n), p \in PagesOf(es[n])
      PROVE  FALSE
  <2>1. PICK k \in DOMAIN es : k < n /\ es[k].usable /\ p \in PagesOf(es[k])
    BY <1>6 DEF MarkedIn
  <2>2. p \in Page
    BY DEF MarkedIn
  <2>3. /\ p * PAGE >= es[k].base /\ (p + 1) * PAGE <= es[k].base + es[k].length
        /\ p * PAGE >= es[n].base /\ (p + 1) * PAGE <= es[n].base + es[n].length
    BY <1>6, <2>1, <2>2, EntryTypes, PagesOfBytes
  <2>4. PAGE \in Nat \ {0} /\ p \in Nat
    BY <2>2, PmmAssumption DEF Page, Capacity
  <2>5. (p + 1) * PAGE = p * PAGE + PAGE /\ p * PAGE \in Int
    BY <2>4
  <2>6. p * PAGE \in Bytes(es[k]) /\ p * PAGE \in Bytes(es[n])
    <3>1. /\ es[k].base \in Nat /\ es[k].length \in Nat
          /\ es[n].base \in Nat /\ es[n].length \in Nat
      BY EntryTypes
    <3>2. PICK y \in Int : y = p * PAGE
      BY <2>5
    <3>3. /\ y >= es[k].base /\ y < es[k].base + es[k].length
          /\ y >= es[n].base /\ y < es[n].base + es[n].length
      BY <2>3, <2>4, <2>5, <3>1, <3>2
    <3>4. y \in Bytes(es[k]) /\ y \in Bytes(es[n])
      BY <3>1, <3>3 DEF Bytes
    <3> QED BY <3>2, <3>4
  <2>7. k # n
    BY <1>1, <2>1
  <2>8. Bytes(es[k]) \cap Bytes(es[n]) = {}
    BY <1>6, <2>1, <2>7, PmmAssumption
  <2> QED BY <2>6, <2>8
<1> QED BY <1>4, <1>5, <1>6

(* All entries together are what there is to manage, and the first         *)
(* megabyte.                                                               *)
LEMMA MarkedAll ==
  ASSUME NEW es \in MemMaps
  PROVE  /\ MarkedIn(es, 1) = {}
         /\ ManagedIn(es) = MarkedIn(es, Len(es) + 1) \ LowPages
<1>1. MarkedIn(es, 1) = {}
  BY EntryTypes DEF MarkedIn
<1>2. ASSUME NEW p \in Page, NEW k \in DOMAIN es
      PROVE  k < Len(es) + 1 /\
             (p \in PagesOf(es[k]) <=>
                /\ p * PAGE >= es[k].base
                /\ (p + 1) * PAGE <= es[k].base + es[k].length)
  BY EntryTypes, PagesOfBytes
<1>3. \A p \in Page : p >= RESERVED <=> ~(p < RESERVED)
  BY PmmAssumption DEF Page, Capacity
<1> QED BY <1>1, <1>2, <1>3, Zenon DEF ManagedIn, MarkedIn, LowPages

(* The first pass makes the total cover every page there is to manage. *)
LEMMA ManagedBelowTotal ==
  ASSUME NEW es \in MemMaps, NEW total \in Nat,
         \A k \in DOMAIN es : AtMost(LastPage(es[k]), Capacity) <= total
  PROVE  ManagedIn(es) \subseteq 0 .. total - 1
<1> SUFFICES ASSUME NEW p \in ManagedIn(es)
             PROVE  p \in Nat /\ p < total
  OBVIOUS
<1>1. p \in Page /\ p \in Nat /\ p < Capacity /\ Capacity \in Nat
  BY PmmAssumption DEF ManagedIn, Page, Capacity
<1>2. PICK k \in DOMAIN es : p \in PagesOf(es[k])
  BY <1>1, EntryTypes, PagesOfBytes DEF ManagedIn
<1>3. p < LastPage(es[k]) /\ LastPage(es[k]) \in Nat
  BY <1>1, <1>2, EntryTypes, PagesOfBytes
<1>4. AtMost(LastPage(es[k]), Capacity) <= total
  OBVIOUS
<1> QED BY <1>1, <1>3, <1>4 DEF AtMost

(* Sets of pages are finite. *)
LEMMA PagesFinite ==
  ASSUME NEW S \in SUBSET Page
  PROVE  IsFiniteSet(S) /\ Cardinality(S) \in Nat
<1>1. IsFiniteSet(Page)
  <2>1. Capacity - 1 \in Int
    BY PmmAssumption DEF Capacity
  <2> QED BY <2>1, FS_Interval DEF Page
<1> QED BY <1>1, FS_Subset, FS_CardinalityType

-----------------------------------------------------------------------------
(* The inductive invariant of the PMM.                                     *)

(* What is free while pmm_init runs: nothing in the first pass, then the   *)
(* pages of the entries done so far, in the end all of them.               *)
InitPhases ==
  /\ pc # "ready" => held = {}
  /\ pc = "pass1" => i <= Len(entries) + 1 /\ Free = {}
  /\ pc = "pass2" => i <= Len(entries) + 1 /\ Free = MarkedIn(entries, i)
  /\ pc = "reserve" => Free = MarkedIn(entries, Len(entries) + 1)

(* The total covers every entry seen, as far as the bitmap reaches. *)
TotalCovers ==
  /\ pc = "pass1" =>
       \A k \in DOMAIN entries : k < i => LastPage(entries[k]) <= s_total_pages
  /\ pc # "pass1" =>
       \A k \in DOMAIN entries :
         AtMost(LastPage(entries[k]), Capacity) <= s_total_pages

IInv ==
  /\ TypeOK
  /\ InitPhases
  /\ TotalCovers
  /\ FreeCountExact
  /\ PagesConserved

(* The state's sets in terms of the bitmap and the map. *)
LEMMA Views ==
  /\ Free = FreeIn(bitmap) /\ NonEmptyWords = WordsIn(bitmap)
  /\ ScanPage = ScanIn(bitmap) /\ Managed = ManagedIn(entries)
  /\ \A pages : bit_set(pages) = SetIn(bitmap, pages)
  /\ \A pages : bit_clear(pages) = ClearIn(bitmap, pages)
  /\ Free \subseteq Page /\ Managed \subseteq Page
  BY Zenon DEF Free, FreeIn, bit_test, NonEmptyWords, WordsIn, ScanPage, ScanIn,
         Managed, ManagedIn, bit_set, SetIn, bit_clear, ClearIn

(* An empty bitmap has no free page. *)
LEMMA InitEstablishes == Init => IInv
<1> SUFFICES ASSUME Init PROVE IInv
  OBVIOUS
<1> USE DEF Init
<1>1. bitmap \in [Word -> SUBSET Bit]
  OBVIOUS
<1>2. Free = {}
  <2> SUFFICES ASSUME NEW p \in Free PROVE FALSE
    OBVIOUS
  <2>1. p \in Page /\ p % BITS \in bitmap[p \div BITS]
    BY DEF Free, bit_test
  <2>2. p \div BITS \in Word
    BY <2>1, PageToBit
  <2>3. bitmap[p \div BITS] = {}
    BY <2>2, Zenon
  <2> QED BY <2>1, <2>3
<1>3. TypeOK
  BY <1>1 DEF TypeOK
<1>4. InitPhases
  BY <1>2, EntryTypes DEF InitPhases
<1>5. TotalCovers
  BY EntryTypes DEF TotalCovers
<1>6. FreeCountExact
  BY <1>2, FS_EmptySet DEF FreeCountExact
<1>7. PagesConserved
  BY DEF PagesConserved
<1> QED BY <1>3, <1>4, <1>5, <1>6, <1>7 DEF IInv

(* The first pass leaves the bitmap alone and keeps the maximum. *)
LEMMA CountPreserves == IInv /\ pmm_init_count => IInv'
<1> SUFFICES ASSUME IInv, pmm_init_count PROVE IInv'
  OBVIOUS
<1> USE DEF pmm_init_count
<1>1. TypeOK /\ entries \in MemMaps /\ i \in Nat \ {0} /\ s_total_pages \in Nat
  BY DEF IInv, TypeOK
<1>2. Free' = Free /\ Free = {} /\ held = {} /\ i <= Len(entries) + 1
  BY DEF IInv, InitPhases, Free, bit_test
<1>3. \A k \in DOMAIN entries : LastPage(entries[k]) \in Nat
  <2>1. 0 \in Page
    BY PmmAssumption DEF Page, Capacity
  <2> QED BY <1>1, <2>1, EntryTypes, PagesOfBytes
<1>4. Capacity \in Nat
  BY PmmAssumption DEF Capacity
<1>5. \A k \in DOMAIN entries : k < i => LastPage(entries[k]) <= s_total_pages
  BY DEF IInv, TotalCovers
<1>6. Len(entries) \in Nat /\ DOMAIN entries = 1 .. Len(entries)
  BY <1>1, EntryTypes
<1>7. CASE i <= Len(entries)
  <2>1. i \in DOMAIN entries /\ LastPage(entries[i]) \in Nat
    BY <1>1, <1>3, <1>6, <1>7
  <2>2. /\ i' = i + 1 /\ pc' = "pass1" /\ pc = "pass1"
        /\ s_total_pages' \in Nat /\ s_total_pages' >= s_total_pages
        /\ s_total_pages' >= LastPage(entries[i])
    BY <1>1, <1>7, <2>1
  <2>3. TypeOK'
    BY <1>1, <2>2 DEF TypeOK
  <2>4. InitPhases'
    BY <1>1, <1>2, <1>6, <1>7, <2>2 DEF InitPhases
  <2>5. TotalCovers'
    <3>1. \A k \in DOMAIN entries :
            k < i + 1 => LastPage(entries[k]) <= s_total_pages'
      BY <1>1, <1>3, <1>5, <1>6, <2>2
    <3> QED BY <2>2, <3>1 DEF TotalCovers
  <2> QED BY <1>2, <2>2, <2>3, <2>4, <2>5 DEF IInv, FreeCountExact, PagesConserved
<1>8. CASE ~(i <= Len(entries))
  <2>1. /\ i' = 1 /\ pc' = "pass2"
        /\ s_total_pages' = AtMost(s_total_pages, Capacity)
    BY <1>8
  <2>2. s_total_pages' \in Nat
    BY <1>1, <1>4, <2>1 DEF AtMost
  <2>3. TypeOK'
    BY <1>1, <2>1, <2>2 DEF TypeOK
  <2>4. InitPhases'
    BY <1>1, <1>2, <1>6, <2>1, MarkedAll DEF InitPhases
  <2>5. TotalCovers'
    <3>1. \A k \in DOMAIN entries :
            AtMost(LastPage(entries[k]), Capacity) <= s_total_pages'
      BY <1>1, <1>3, <1>4, <1>5, <1>6, <1>8, <2>1 DEF AtMost
    <3> QED BY <2>1, <3>1 DEF TotalCovers
  <2> QED BY <1>2, <2>1, <2>3, <2>4, <2>5 DEF IInv, FreeCountExact, PagesConserved
<1> QED BY <1>7, <1>8

(* The second pass counts what it marks, and marks no page twice. *)
LEMMA MarkPreserves == IInv /\ pmm_init_mark => IInv'
<1> SUFFICES ASSUME IInv, pmm_init_mark PROVE IInv'
  OBVIOUS
<1>1. /\ TypeOK /\ entries \in MemMaps /\ i \in Nat \ {0}
      /\ bitmap \in [Word -> SUBSET Bit] /\ s_free_pages \in Nat
  BY DEF IInv, TypeOK
<1>2. pc = "pass2" /\ held = {} /\ i <= Len(entries) + 1
      /\ Free = MarkedIn(entries, i)
  BY DEF IInv, InitPhases, pmm_init_mark
<1>3. Len(entries) \in Nat /\ DOMAIN entries = 1 .. Len(entries)
  BY <1>1, EntryTypes
<1>4. entries' = entries /\ s_total_pages' = s_total_pages /\ held' = held
  BY DEF pmm_init_mark
<1>5. s_free_pages = Cardinality(Free)
  BY DEF IInv, FreeCountExact
<1>7. \A k \in DOMAIN entries :
        AtMost(LastPage(entries[k]), Capacity) <= s_total_pages
  BY <1>2 DEF IInv, TotalCovers
<1>8. CASE i > Len(entries)
  <2>1. pc' = "reserve" /\ UNCHANGED <<i, bitmap, s_free_pages>>
    BY <1>1, <1>3, <1>8 DEF pmm_init_mark
  <2>2. Free' = Free /\ i = Len(entries) + 1
    BY <1>1, <1>2, <1>3, <1>8, <2>1 DEF Free, bit_test
  <2>3. TypeOK'
    BY <1>1, <1>4, <2>1 DEF TypeOK
  <2>4. InitPhases'
    BY <1>2, <1>4, <2>1, <2>2 DEF InitPhases
  <2>5. TotalCovers'
    BY <1>4, <1>7, <2>1 DEF TotalCovers
  <2>6. FreeCountExact' /\ PagesConserved'
    BY <1>5, <2>1, <2>2 DEF FreeCountExact, PagesConserved
  <2> QED BY <2>3, <2>4, <2>5, <2>6 DEF IInv
<1>9. CASE i <= Len(entries)
  <2>1. i' = i + 1 /\ pc' = "pass2" /\ i \in DOMAIN entries
    BY <1>1, <1>2, <1>3, <1>9 DEF pmm_init_mark
  <2>2. /\ bitmap' \in [Word -> SUBSET Bit]
        /\ Free' = MarkedIn(entries, i + 1)
        /\ s_free_pages' = Cardinality(Free')
    <3>1. CASE entries[i].usable
      <4>1. /\ bitmap' = SetIn(bitmap, PagesOf(entries[i]))
            /\ s_free_pages' = s_free_pages + Cardinality(PagesOf(entries[i]))
        BY <1>9, <3>1, Views DEF pmm_init_mark
      <4>2. PagesOf(entries[i]) \in SUBSET Page
        BY DEF PagesOf
      <4>3. /\ bitmap' \in [Word -> SUBSET Bit]
            /\ FreeIn(bitmap') = FreeIn(bitmap) \cup PagesOf(entries[i])
        BY <1>1, <4>1, <4>2, SetFrees
      <4>4. Free' = Free \cup PagesOf(entries[i])
        BY <4>3, Views DEF Free, FreeIn, bit_test
      <4>5. /\ MarkedIn(entries, i + 1) =
                 MarkedIn(entries, i) \cup PagesOf(entries[i])
            /\ MarkedIn(entries, i) \cap PagesOf(entries[i]) = {}
        BY <1>1, <2>1, <3>1, MarkOne
      <4>6. Free \cap PagesOf(entries[i]) = {}
        BY <1>2, <4>5
      <4>7. /\ IsFiniteSet(Free) /\ Cardinality(Free) \in Nat
            /\ IsFiniteSet(PagesOf(entries[i]))
            /\ Cardinality(PagesOf(entries[i])) \in Nat
        BY <4>2, Views, PagesFinite
      <4>8. Cardinality(Free') =
              Cardinality(Free) + Cardinality(PagesOf(entries[i]))
        <5>1. Cardinality(Free \cup PagesOf(entries[i])) =
                Cardinality(Free) + Cardinality(PagesOf(entries[i]))
                  - Cardinality(Free \cap PagesOf(entries[i]))
          BY <4>7, FS_Union, Zenon
        <5>2. Cardinality(Free \cap PagesOf(entries[i])) = 0
          BY <4>6, FS_EmptySet, Zenon
        <5> QED BY <4>4, <4>7, <5>1, <5>2
      <4> QED BY <1>2, <1>5, <4>1, <4>3, <4>4, <4>5, <4>7, <4>8
    <3>2. CASE ~entries[i].usable
      <4>1. UNCHANGED <<bitmap, s_free_pages>>
        BY <1>9, <3>2 DEF pmm_init_mark
      <4>2. Free' = Free
        BY <4>1 DEF Free, bit_test
      <4> QED BY <1>1, <1>2, <1>5, <2>1, <3>2, <4>1, <4>2, MarkOne
    <3> QED BY <3>1, <3>2
  <2>3. s_free_pages' \in Nat
    <3>1. Free' \subseteq Page
      BY DEF Free
    <3> QED BY <2>2, <3>1, PagesFinite
  <2>4. TypeOK'
    BY <1>1, <1>4, <2>1, <2>2, <2>3 DEF TypeOK
  <2>5. InitPhases'
    BY <1>1, <1>2, <1>3, <1>4, <1>9, <2>1, <2>2 DEF InitPhases
  <2>6. TotalCovers'
    BY <1>4, <1>7, <2>1 DEF TotalCovers
  <2>7. FreeCountExact' /\ PagesConserved'
    BY <2>1, <2>2 DEF FreeCountExact, PagesConserved
  <2> QED BY <2>4, <2>5, <2>6, <2>7 DEF IInv
<1> QED BY <1>1, <1>3, <1>8, <1>9

(* The first megabyte leaves the bitmap and the count. *)
LEMMA ReservePreserves == IInv /\ pmm_init_reserve => IInv'
<1> SUFFICES ASSUME IInv, pmm_init_reserve PROVE IInv'
  OBVIOUS
<1>1. /\ TypeOK /\ entries \in MemMaps
      /\ bitmap \in [Word -> SUBSET Bit] /\ s_free_pages = Cardinality(Free)
  BY DEF IInv, TypeOK, FreeCountExact
<1>2. /\ pc = "reserve" /\ pc' = "ready" /\ held = {}
      /\ Free = MarkedIn(entries, Len(entries) + 1)
      /\ s_free_pages' = s_free_pages - Cardinality(LowPages \cap Free)
      /\ bitmap' = ClearIn(bitmap, LowPages)
      /\ UNCHANGED <<entries, i, s_total_pages, held>>
  BY Views DEF IInv, InitPhases, pmm_init_reserve
<1>3. LowPages \in SUBSET Page
  BY DEF LowPages
<1>4. bitmap' \in [Word -> SUBSET Bit] /\ Free' = Free \ LowPages
  <2>1. /\ bitmap' \in [Word -> SUBSET Bit]
        /\ FreeIn(bitmap') = FreeIn(bitmap) \ LowPages
    BY <1>1, <1>2, <1>3, ClearTakes
  <2> QED BY <2>1, Views DEF Free, FreeIn, bit_test
<1>5. s_free_pages' = Cardinality(Free') /\ s_free_pages' \in Nat
  <2>1. IsFiniteSet(Free) /\ Free' \subseteq Page
    BY <1>4, Views, PagesFinite
  <2>2. Cardinality(Free \ LowPages) =
          Cardinality(Free) - Cardinality(Free \cap LowPages)
    BY <2>1, FS_Difference
  <2>3. Free \cap LowPages = LowPages \cap Free
    OBVIOUS
  <2> QED BY <1>1, <1>2, <1>4, <2>1, <2>2, <2>3, PagesFinite
<1>6. TypeOK'
  BY <1>1, <1>2, <1>4, <1>5 DEF TypeOK
<1>7. InitPhases'
  BY <1>2 DEF InitPhases
<1>8. TotalCovers'
  BY <1>2 DEF IInv, TotalCovers
<1>9. PagesConserved'
  <2>1. Managed' = Managed /\ Managed = Free \ LowPages
    BY <1>1, <1>2, Views, MarkedAll DEF Managed
  <2> QED BY <1>2, <1>4, <2>1 DEF PagesConserved
<1> QED BY <1>5, <1>6, <1>7, <1>8, <1>9 DEF IInv, FreeCountExact

(* pmm_alloc turns the lowest free page, if there is one, into a held one. *)
LEMMA AllocStep ==
  ASSUME TypeOK, pmm_alloc
  PROVE  \/ UNCHANGED vars /\ Free = {}
         \/ /\ ScanPage \in Free /\ \A q \in Free : ScanPage <= q
            /\ Free' = Free \ {ScanPage} /\ held' = held \cup {ScanPage}
            /\ s_free_pages' = s_free_pages - 1
            /\ bitmap' \in [Word -> SUBSET Bit]
            /\ UNCHANGED <<entries, pc, i, s_total_pages>>
<1>1. bitmap \in [Word -> SUBSET Bit]
  BY DEF TypeOK
<1>2. CASE NonEmptyWords = {}
  BY <1>1, <1>2, Views, ScanFindsLowest DEF pmm_alloc, vars
<1>3. CASE NonEmptyWords # {}
  <2>1. ScanPage \in Free /\ \A q \in Free : ScanPage <= q
    BY <1>1, <1>3, Views, ScanFindsLowest
  <2>2. {ScanPage} \in SUBSET Page
    BY <2>1, Views
  <2>3. bitmap' = ClearIn(bitmap, {ScanPage})
    BY <1>3, Views DEF pmm_alloc
  <2>4. /\ bitmap' \in [Word -> SUBSET Bit]
        /\ FreeIn(bitmap') = FreeIn(bitmap) \ {ScanPage}
    BY <1>1, <2>2, <2>3, ClearTakes
  <2>5. Free' = Free \ {ScanPage}
    BY <2>4, Views DEF Free, FreeIn, bit_test
  <2> QED BY <1>3, <2>1, <2>4, <2>5 DEF pmm_alloc
<1> QED BY <1>2, <1>3

(* pmm_free makes a page free that was not; it can count none twice. *)
LEMMA FreeStep ==
  ASSUME TypeOK, NEW p \in Managed \cup {Capacity}, pmm_free(p)
  PROVE  /\ \/ p \in Page /\ p \notin Free /\ Free' = Free \cup {p}
               /\ s_free_pages' = s_free_pages + 1
            \/ p = Capacity /\ Free' = Free /\ s_free_pages' = s_free_pages
            \/ p \in Free /\ Free' = Free /\ s_free_pages' = s_free_pages
         /\ bitmap' \in [Word -> SUBSET Bit]
         /\ held' = held \ {p}
         /\ pc = "ready"
         /\ UNCHANGED <<entries, pc, i, s_total_pages>>
<1>1. bitmap \in [Word -> SUBSET Bit]
  BY DEF TypeOK
<1>2. held' = held \ {p} /\ pc = "ready"
      /\ UNCHANGED <<entries, pc, i, s_total_pages>>
  BY DEF pmm_free
<1>3. p \in Page \/ p = Capacity
  BY Views
<1>4. p \in Page => p < Capacity /\ (p \in Free <=> bit_test(p))
  BY PmmAssumption DEF Page, Capacity, Free
<1>5. ~(Capacity < Capacity)
  BY PmmAssumption DEF Capacity
<1>6. CASE p < Capacity /\ ~bit_test(p)
  <2>1. p \in Page /\ p \notin Free /\ {p} \in SUBSET Page
    BY <1>3, <1>4, <1>5, <1>6
  <2>2. bitmap' = SetIn(bitmap, {p}) /\ s_free_pages' = s_free_pages + 1
    BY <1>6, Views DEF pmm_free
  <2>3. /\ bitmap' \in [Word -> SUBSET Bit]
        /\ FreeIn(bitmap') = FreeIn(bitmap) \cup {p}
    BY <1>1, <2>1, <2>2, SetFrees
  <2>4. Free' = Free \cup {p}
    BY <2>3, Views DEF Free, FreeIn, bit_test
  <2> QED BY <1>2, <2>1, <2>2, <2>3, <2>4
<1>7. CASE ~(p < Capacity /\ ~bit_test(p))
  <2>1. UNCHANGED <<bitmap, s_free_pages>>
    BY <1>7 DEF pmm_free
  <2>2. Free' = Free
    BY <2>1 DEF Free, bit_test
  <2> QED BY <1>1, <1>2, <1>3, <1>4, <1>7, <2>1, <2>2
<1> QED BY <1>6, <1>7

(* Both operations keep the invariant. *)
LEMMA AllocPreserves == IInv /\ pmm_alloc => IInv'
<1> SUFFICES ASSUME IInv, pmm_alloc PROVE IInv'
  OBVIOUS
<1>1. TypeOK /\ s_free_pages = Cardinality(Free) /\ pc = "ready"
  BY DEF IInv, FreeCountExact, pmm_alloc
<1>2. CASE UNCHANGED vars
  BY <1>2 DEF vars, IInv, TypeOK, InitPhases, TotalCovers, FreeCountExact,
              PagesConserved, Free, bit_test, Managed
<1>3. CASE /\ ScanPage \in Free /\ \A q \in Free : ScanPage <= q
           /\ Free' = Free \ {ScanPage} /\ held' = held \cup {ScanPage}
           /\ s_free_pages' = s_free_pages - 1
           /\ bitmap' \in [Word -> SUBSET Bit]
           /\ UNCHANGED <<entries, pc, i, s_total_pages>>
  <2>1. s_free_pages' = Cardinality(Free') /\ s_free_pages' \in Nat
    <3>1. IsFiniteSet(Free) /\ Free' \subseteq Page
      BY <1>3, Views, PagesFinite
    <3>2. Cardinality(Free') = Cardinality(Free) - 1
      BY <1>3, <3>1, FS_RemoveElement
    <3> QED BY <1>1, <1>3, <3>1, <3>2, PagesFinite
  <2>2. TypeOK'
    BY <1>1, <1>3, <2>1, Views DEF TypeOK
  <2>3. InitPhases' /\ TotalCovers'
    BY <1>1, <1>3 DEF IInv, InitPhases, TotalCovers
  <2>4. PagesConserved'
    <3>1. Managed' = Managed
      BY <1>3 DEF Managed
    <3>2. held \cap Free = {} /\ held \cup Free = Managed
      BY <1>1 DEF IInv, PagesConserved
    <3> QED BY <1>3, <3>1, <3>2 DEF PagesConserved
  <2> QED BY <2>1, <2>2, <2>3, <2>4 DEF IInv, FreeCountExact
<1> QED BY <1>1, <1>2, <1>3, AllocStep

(* Freeing a page again, or one the bitmap does not reach, is harmless. *)
LEMMA FreePreserves ==
  ASSUME IInv, NEW p \in Managed \cup {Capacity}, pmm_free(p)
  PROVE  IInv'
<1>1. TypeOK /\ s_free_pages = Cardinality(Free) /\ held \subseteq Page
  BY DEF IInv, FreeCountExact, TypeOK
<1>2. /\ bitmap' \in [Word -> SUBSET Bit] /\ held' = held \ {p} /\ pc = "ready"
      /\ UNCHANGED <<entries, pc, i, s_total_pages>>
  BY <1>1, FreeStep
<1>3. Managed' = Managed
  BY <1>2 DEF Managed
<1>4. held \cap Free = {} /\ held \cup Free = Managed
  BY <1>2 DEF IInv, PagesConserved
<1>5. Capacity \notin Page
  BY PmmAssumption DEF Page, Capacity
<1>6. s_free_pages' = Cardinality(Free') /\ held' \cap Free' = {}
      /\ held' \cup Free' = Managed
  <2>1. CASE p \in Page /\ p \notin Free /\ Free' = Free \cup {p}
             /\ s_free_pages' = s_free_pages + 1
    <3>1. IsFiniteSet(Free) /\ p \in Managed
      BY <1>5, <2>1, Views, PagesFinite
    <3>2. Cardinality(Free') = Cardinality(Free) + 1
      BY <2>1, <3>1, FS_AddElement
    <3> QED BY <1>1, <1>2, <1>4, <2>1, <3>1, <3>2
  <2>2. CASE p = Capacity /\ Free' = Free /\ s_free_pages' = s_free_pages
    BY <1>1, <1>2, <1>4, <1>5, <2>2
  <2>3. CASE p \in Free /\ Free' = Free /\ s_free_pages' = s_free_pages
    BY <1>1, <1>2, <1>4, <2>3
  <2> QED BY <1>1, <2>1, <2>2, <2>3, FreeStep
<1>7. s_free_pages' \in Nat
  <2>1. Free' \subseteq Page
    BY DEF Free
  <2> QED BY <1>6, <2>1, PagesFinite
<1>8. TypeOK'
  BY <1>1, <1>2, <1>7 DEF TypeOK
<1>9. InitPhases' /\ TotalCovers'
  BY <1>2 DEF IInv, InitPhases, TotalCovers
<1> QED BY <1>3, <1>6, <1>8, <1>9 DEF IInv, FreeCountExact, PagesConserved

(* Every step keeps it. *)
LEMMA NextPreserves == IInv /\ [Next]_vars => IInv'
<1> SUFFICES ASSUME IInv, [Next]_vars PROVE IInv'
  OBVIOUS
<1>1. CASE UNCHANGED vars
  BY <1>1 DEF vars, IInv, TypeOK, InitPhases, TotalCovers, FreeCountExact,
              PagesConserved, Free, bit_test, Managed
<1>2. CASE pmm_init_count
  BY <1>2, CountPreserves
<1>3. CASE pmm_init_mark
  BY <1>3, MarkPreserves
<1>4. CASE pmm_init_reserve
  BY <1>4, ReservePreserves
<1>5. CASE pmm_alloc
  BY <1>5, AllocPreserves
<1>6. CASE \E p \in Managed \cup {Capacity} : pmm_free(p)
  BY <1>6, FreePreserves
<1> QED BY <1>1, <1>2, <1>3, <1>4, <1>5, <1>6 DEF Next

(* The free pages all lie below the total, so the unsigned difference of   *)
(* pmm_used_bytes does not wrap round.                                     *)
LEMMA UsedFits == IInv => UsedNeverNegative
<1> SUFFICES ASSUME IInv, pc = "ready" PROVE s_free_pages <= s_total_pages
  BY DEF UsedNeverNegative
<1>1. /\ entries \in MemMaps /\ s_total_pages \in Nat
      /\ s_free_pages = Cardinality(Free) /\ Free \subseteq Managed
  BY DEF IInv, TypeOK, FreeCountExact, PagesConserved
<1>2. \A k \in DOMAIN entries :
        AtMost(LastPage(entries[k]), Capacity) <= s_total_pages
  BY DEF IInv, TotalCovers
<1>3. Free \in SUBSET (0 .. s_total_pages - 1)
  BY <1>1, <1>2, Views, ManagedBelowTotal
<1>4. IsFiniteSet(0 .. s_total_pages - 1)
      /\ Cardinality(0 .. s_total_pages - 1) = s_total_pages
  BY <1>1, FS_Interval
<1>5. Cardinality(Free) <= Cardinality(0 .. s_total_pages - 1)
  BY <1>3, <1>4, FS_Subset, Zenon
<1> QED BY <1>1, <1>4, <1>5

-----------------------------------------------------------------------------
(* The physical memory manager, whoever calls it.                          *)

(* The inductive invariant holds in every reachable state. *)
THEOREM Invariant == Spec => []IInv
  BY InitEstablishes, NextPreserves, PTL DEF Spec

(* Every variable of the PMM keeps its type; the free counter, an unsigned *)
(* number in the code, never goes below zero.                              *)
THEOREM TypeCorrect == Spec => []TypeOK
<1>1. IInv => TypeOK
  BY DEF IInv
<1> QED BY <1>1, Invariant, PTL

(* The counter kept by hand is the number of free bits, for any memory     *)
(* map and any sequence of calls, double frees included.                   *)
THEOREM FreeCountIsExact == Spec => []FreeCountExact
<1>1. IInv => FreeCountExact
  BY DEF IInv
<1> QED BY <1>1, Invariant, PTL

(* The subtraction in pmm_used_bytes does not wrap round. *)
THEOREM UsedIsNatural == Spec => []UsedNeverNegative
<1>1. IInv => UsedNeverNegative
  BY UsedFits DEF IInv
<1> QED BY <1>1, Invariant, PTL

(* No page is lost, doubled or invented. *)
THEOREM PagesAccounted == Spec => []PagesConserved
<1>1. IInv => PagesConserved
  BY DEF IInv
<1> QED BY <1>1, Invariant, PTL

(* pmm_alloc hands out the lowest free page there is. *)
THEOREM LowestPageFirst == Spec => LowestFirst
<1>1. ASSUME IInv, [Next]_vars
      PROVE  [held' \ held \subseteq {p \in Free : \A q \in Free : p <= q}]_vars
  <2>1. CASE pmm_alloc
    BY <1>1, <2>1, AllocStep DEF IInv, vars
  <2>2. CASE pmm_init_count \/ pmm_init_mark \/ pmm_init_reserve
             \/ UNCHANGED vars
    BY <2>2 DEF pmm_init_count, pmm_init_mark, pmm_init_reserve, vars
  <2>3. CASE \E p \in Managed \cup {Capacity} : pmm_free(p)
    BY <2>3 DEF pmm_free
  <2> QED BY <1>1, <2>1, <2>2, <2>3 DEF Next
<1> QED BY <1>1, Invariant, PTL DEF Spec, LowestFirst

-----------------------------------------------------------------------------
(* heap_init as a client of the PMM.                                       *)

(* Nobody has taken a page before heap_init, and nobody takes one while it *)
(* runs.                                                                   *)
PoolPhases ==
  /\ hp \in {"start", "loop", "placed", "failed"}
  /\ hp = "start" => held = {} /\ pool = {}
  /\ hp = "failed" => pool = {}
  /\ hp # "start" => pc = "ready"
  /\ hp = "loop" => held = pool /\ got \in 1 .. HEAP_PAGES
  /\ hp = "placed" => got = HEAP_PAGES
  /\ PoolKept

(* If the lowest pages lie in one run, heap_init's pages so far are the    *)
(* beginning of it.                                                        *)
RunTaken ==
  hp \in {"loop", "placed"} /\ LowRun =>
    /\ phys_base \in Nat
    /\ pool = phys_base .. phys_base + got - 1
    /\ \A q \in Managed : phys_base <= q
    /\ phys_base .. phys_base + HEAP_PAGES - 1 \subseteq Managed

PoolIInv ==
  /\ IInv
  /\ PoolPhases
  /\ RunTaken

(* To the PMM, heap_init and the other users are callers like any other. *)
LEMMA PoolStepIsPmmStep == [PoolNext]_poolvars => [Next]_vars
<1> SUFFICES ASSUME [PoolNext]_poolvars PROVE [Next]_vars
  OBVIOUS
<1>1. CASE UNCHANGED poolvars
  BY <1>1 DEF poolvars, vars
<1>2. CASE pmm_init
  BY <1>2 DEF pmm_init, Next
<1>3. CASE heap_init_first \/ heap_init_loop
  BY <1>3 DEF heap_init_first, heap_init_loop, Next
<1>4. CASE heap_init_place
  BY <1>4 DEF heap_init_place
<1>5. CASE others
  BY <1>5 DEF others, Next
<1> QED BY <1>1, <1>2, <1>3, <1>4, <1>5 DEF PoolNext

(* The memory map, and so what there is to manage, never changes. *)
LEMMA ManagedFixed ==
  [PoolNext]_poolvars => Managed' = Managed /\ LowRun' = LowRun
<1> SUFFICES ASSUME [PoolNext]_poolvars
             PROVE  Managed' = Managed /\ LowRun' = LowRun
  OBVIOUS
<1>1. [Next]_vars
  BY PoolStepIsPmmStep
<1>2. entries' = entries
  BY <1>1 DEF Next, vars, pmm_init_count, pmm_init_mark, pmm_init_reserve,
              pmm_alloc, pmm_free
<1> QED BY <1>2 DEF Managed, LowRun

(* The first page is the lowest of all. *)
LEMMA FirstPreserves ==
  ASSUME PoolIInv, heap_init_first, Managed' = Managed, LowRun' = LowRun
  PROVE  PoolPhases' /\ RunTaken'
<1>1. /\ TypeOK /\ hp = "start" /\ held = {} /\ pool = {} /\ pc = "ready"
      /\ pmm_alloc /\ pc' = "ready"
  BY DEF PoolIInv, IInv, PoolPhases, heap_init_first, pmm_alloc
<1>2. Free = Managed
  BY <1>1 DEF PoolIInv, IInv, PagesConserved
<1>3. CASE UNCHANGED vars /\ Free = {}
  <2>1. hp' = "failed" /\ held' = {} /\ pool' = {}
    BY <1>1, <1>3 DEF heap_init_first, vars
  <2> QED BY <1>1, <2>1 DEF PoolPhases, RunTaken, PoolKept
<1>4. CASE /\ ScanPage \in Free /\ \A q \in Free : ScanPage <= q
           /\ Free' = Free \ {ScanPage} /\ held' = held \cup {ScanPage}
  <2>1. held' = {ScanPage} /\ held' # held
    BY <1>1, <1>4
  <2>2. hp' = "loop" /\ got' = 1 /\ pool' = {ScanPage} /\ phys_base' = ScanPage
    BY <1>1, <2>1 DEF heap_init_first
  <2>3. PoolPhases'
    BY <1>1, <1>4, <2>1, <2>2, HeapPagesAssumption DEF PoolPhases, PoolKept
  <2>4. ScanPage \in Nat /\ Managed \subseteq Nat
    BY <1>2, <1>4, Views, PmmAssumption DEF Page, Capacity
  <2>5. LowRun => ScanPage .. ScanPage + HEAP_PAGES - 1 \subseteq Managed
    <3> SUFFICES ASSUME LowRun
                 PROVE  ScanPage .. ScanPage + HEAP_PAGES - 1 \subseteq Managed
      OBVIOUS
    <3>1. PICK p \in Managed : /\ \A q \in Managed : p <= q
                               /\ p .. p + HEAP_PAGES - 1 \subseteq Managed
      BY DEF LowRun
    <3>2. p = ScanPage
      BY <1>2, <1>4, <2>4, <3>1
    <3> QED BY <3>1, <3>2
  <2>6. {ScanPage} = ScanPage .. ScanPage + 1 - 1
    BY <2>4
  <2>7. RunTaken'
    BY <1>2, <1>4, <2>2, <2>4, <2>5, <2>6, Zenon DEF RunTaken
  <2> QED BY <2>3, <2>7
<1> QED BY <1>1, <1>3, <1>4, AllocStep

(* While the run lasts, every further page is the next one of it. *)
LEMMA LoopPreserves ==
  ASSUME PoolIInv, heap_init_loop, Managed' = Managed, LowRun' = LowRun, IInv'
  PROVE  PoolPhases' /\ RunTaken'
<1>1. /\ TypeOK /\ hp = "loop" /\ hp' = "loop" /\ held = pool /\ pc = "ready"
      /\ got \in 1 .. HEAP_PAGES /\ got < HEAP_PAGES /\ got' = got + 1
      /\ pmm_alloc /\ pc' = "ready" /\ pool' = pool \cup (held' \ held)
      /\ phys_base' = phys_base
  BY DEF PoolIInv, IInv, PoolPhases, heap_init_loop, pmm_alloc
<1>2. held \cap Free = {} /\ held \cup Free = Managed
  BY <1>1 DEF PoolIInv, IInv, PagesConserved
<1>3. held' \cap Free' = {}
  BY <1>1 DEF IInv, PagesConserved
<1>4. \/ UNCHANGED vars /\ Free = {}
      \/ /\ ScanPage \in Free /\ \A q \in Free : ScanPage <= q
         /\ held' = held \cup {ScanPage}
  BY <1>1, AllocStep
<1>5. held' = pool'
  BY <1>1, <1>4 DEF vars
<1>6. PoolPhases'
  BY <1>1, <1>3, <1>5, HeapPagesAssumption DEF PoolPhases, PoolKept
<1>7. ASSUME LowRun
      PROVE  /\ phys_base \in Nat
             /\ pool' = phys_base .. phys_base + (got + 1) - 1
             /\ \A q \in Managed : phys_base <= q
             /\ phys_base .. phys_base + HEAP_PAGES - 1 \subseteq Managed
  <2>1. /\ phys_base \in Nat /\ pool = phys_base .. phys_base + got - 1
        /\ \A q \in Managed : phys_base <= q
        /\ phys_base .. phys_base + HEAP_PAGES - 1 \subseteq Managed
    BY <1>1, <1>7 DEF PoolIInv, RunTaken
  <2>2. phys_base + got \in Managed /\ phys_base + got \notin pool
    BY <1>1, <2>1, HeapPagesAssumption
  <2>3. phys_base + got \in Free
    BY <1>1, <1>2, <2>2
  <2>4. /\ ScanPage \in Free /\ \A q \in Free : ScanPage <= q
        /\ pool' = pool \cup {ScanPage}
    BY <1>1, <1>4, <1>5, <2>3
  <2>5. ScanPage \in Nat /\ ScanPage \in Managed /\ ScanPage \notin pool
    BY <1>1, <1>2, <2>4, Views, PmmAssumption DEF Page, Capacity
  <2>6. ScanPage <= phys_base + got /\ phys_base <= ScanPage
    BY <2>1, <2>3, <2>4, <2>5
  <2>7. ScanPage = phys_base + got
    BY <1>1, <2>1, <2>5, <2>6
  <2>8. pool' = phys_base .. phys_base + (got + 1) - 1
    BY <1>1, <2>1, <2>4, <2>7
  <2> QED BY <2>1, <2>8
<1>8. RunTaken'
  BY <1>1, <1>7, Zenon DEF RunTaken
<1> QED BY <1>6, <1>8

(* Other users never free the heap's pages. *)
LEMMA OthersPreserve ==
  ASSUME PoolIInv, others, Managed' = Managed, LowRun' = LowRun, IInv'
  PROVE  PoolPhases' /\ RunTaken'
<1>1. /\ TypeOK /\ hp \in {"placed", "failed"} /\ pc = "ready"
      /\ UNCHANGED <<hp, got, pool, phys_base>>
      /\ pool \subseteq held /\ held \subseteq Page
  BY DEF PoolIInv, IInv, TypeOK, PoolPhases, PoolKept, others
<1>2. pc' = "ready" /\ pool \subseteq held'
  <2>1. CASE pmm_alloc
    BY <1>1, <2>1, AllocStep DEF vars
  <2>2. ASSUME NEW p \in (Managed \ pool) \cup {Capacity}, pmm_free(p)
        PROVE  pc' = "ready" /\ pool \subseteq held'
    <3>1. Capacity \notin Page
      BY PmmAssumption DEF Page, Capacity
    <3>2. p \notin pool
      BY <1>1, <3>1
    <3> QED BY <1>1, <2>2, <3>2 DEF pmm_free
  <2> QED BY <2>1, <2>2 DEF others
<1>3. held' \cap Free' = {}
  BY <1>2 DEF IInv, PagesConserved
<1>4. PoolPhases'
  BY <1>1, <1>2, <1>3 DEF PoolIInv, PoolPhases, PoolKept
<1>5. RunTaken'
  BY <1>1 DEF PoolIInv, RunTaken
<1> QED BY <1>4, <1>5

(* The pool's part of the invariant is inductive. *)
LEMMA PoolPreserves == PoolIInv /\ [PoolNext]_poolvars => PoolIInv'
<1> SUFFICES ASSUME PoolIInv, [PoolNext]_poolvars PROVE PoolIInv'
  OBVIOUS
<1>1. IInv'
  BY PoolStepIsPmmStep, NextPreserves DEF PoolIInv
<1>2. Managed' = Managed /\ LowRun' = LowRun
  BY ManagedFixed
<1>3. CASE UNCHANGED poolvars
  <2>1. Free' = Free
    BY <1>3 DEF poolvars, vars, Free, bit_test
  <2> QED BY <1>1, <1>2, <1>3, <2>1
          DEF poolvars, vars, PoolIInv, PoolPhases, RunTaken, PoolKept
<1>4. CASE pmm_init
  <2>1. /\ pc # "ready" /\ held' = held
        /\ UNCHANGED <<hp, got, pool, phys_base>>
    BY <1>4 DEF pmm_init, pmm_init_count, pmm_init_mark, pmm_init_reserve
  <2>2. hp = "start" /\ held = {} /\ pool = {}
    BY <2>1 DEF PoolIInv, PoolPhases
  <2>3. PoolPhases' /\ RunTaken'
    BY <2>1, <2>2 DEF PoolPhases, RunTaken, PoolKept
  <2> QED BY <1>1, <2>3 DEF PoolIInv
<1>5. CASE heap_init_first
  BY <1>1, <1>2, <1>5, FirstPreserves DEF PoolIInv
<1>6. CASE heap_init_loop
  BY <1>1, <1>2, <1>6, LoopPreserves DEF PoolIInv
<1>7. CASE heap_init_place
  <2>1. /\ hp = "loop" /\ got = HEAP_PAGES /\ hp' = "placed"
        /\ UNCHANGED <<vars, got, pool, phys_base>>
    BY <1>7 DEF heap_init_place
  <2>2. Free' = Free /\ pc' = pc /\ held' = held
    BY <2>1 DEF vars, Free, bit_test
  <2>3. PoolPhases'
    BY <2>1, <2>2 DEF PoolIInv, PoolPhases, PoolKept
  <2>4. RunTaken'
    BY <1>2, <2>1 DEF PoolIInv, RunTaken
  <2> QED BY <1>1, <2>3, <2>4 DEF PoolIInv
<1>8. CASE others
  BY <1>1, <1>2, <1>8, OthersPreserve DEF PoolIInv
<1> QED BY <1>3, <1>4, <1>5, <1>6, <1>7, <1>8 DEF PoolNext

(* heap_init is a legal user of the PMM: everything proved above holds     *)
(* with it.                                                                *)
THEOREM PoolUsesPmm == PoolSpec => Spec
<1>1. PoolInit => Init
  BY DEF PoolInit
<1> QED BY <1>1, PoolStepIsPmmStep, PTL DEF PoolSpec, Spec

(* The inductive invariant of the PMM and heap_init together. *)
THEOREM PoolInvariant == PoolSpec => []PoolIInv
<1>1. PoolInit => PoolIInv
  <2> SUFFICES ASSUME PoolInit PROVE PoolIInv
    OBVIOUS
  <2>1. IInv /\ held = {}
    BY InitEstablishes DEF PoolInit, Init
  <2> QED BY <2>1 DEF PoolInit, PoolIInv, PoolPhases, RunTaken, PoolKept
<1> QED BY <1>1, PoolPreserves, PTL DEF PoolSpec

(* No page that heap_init asked for is handed out again, whatever the map. *)
THEOREM PoolNeverHandedOut == PoolSpec => []PoolKept
<1>1. PoolIInv => PoolKept
  BY DEF PoolIInv, PoolPhases
<1> QED BY <1>1, PoolInvariant, PTL

(* The step heap_init takes on trust: pages taken one after the other are  *)
(* consecutive when the lowest HEAP_PAGES pages are, and then the heap     *)
(* works on exactly the pages it has reserved.                             *)
THEOREM HeapOwnsItsPages == PoolSpec => []PoolExclusive
<1>1. PoolIInv => PoolExclusive
  <2> SUFFICES ASSUME PoolIInv, hp = "placed", LowRun
               PROVE  /\ Region = pool
                      /\ Region \cap (Free \cup (held \ pool)) = {}
    BY DEF PoolExclusive
  <2>1. Region = pool
    BY DEF PoolIInv, PoolPhases, RunTaken, Region
  <2>2. pool \cap Free = {}
    BY DEF PoolIInv, PoolPhases, PoolKept
  <2> QED BY <2>1, <2>2
<1> QED BY <1>1, PoolInvariant, PTL
==============================================================================

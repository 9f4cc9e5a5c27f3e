------------------------------ MODULE HeapProofs ------------------------------
(***************************************************************************)
(* Proofs, for a pool, headers and requests of any size, that kmalloc and  *)
(* kfree keep the list of blocks a tiling of the pool, that a block is     *)
(* marked used exactly while a caller owns it and is large enough, that    *)
(* free neighbours are merged, and that kmalloc fails only when it must.   *)
(***************************************************************************)
EXTENDS Heap, NumberLemmas

(* No request is so large that rounding it up wraps round. *)
RequestsFit == \A n \in Requests : n + ALIGN - 1 < SIZE_WRAP

-----------------------------------------------------------------------------
(* The list, as a predicate of the headers h and the linked ones B.        *)

Typed(h, B) ==
  /\ B \subseteq DOMAIN h /\ DOMAIN h \subseteq Addr
  /\ \A a \in DOMAIN h : h[a] \in Header

(* Each block's successor begins where the block ends, and points back. *)
Linked(h, B) ==
  \A b \in B :
    /\ h[b].next = IF End(h, b) = POOL THEN Null ELSE End(h, b)
    /\ h[b].next # Null => h[b].next \in B /\ h[h[b].next].prev = b

(* Each block but the first is the successor of the one it points back to: *)
(* what the second merge of kfree needs.                                   *)
BackLinked(h, B) ==
  \A b \in B :
    /\ b = 0 => h[b].prev = Null
    /\ b # 0 => h[b].prev \in B /\ h[h[b].prev].next = b

Apart(h, B) == \A b, c \in B : b < c => End(h, b) <= c

Even(h, B) == \A b \in B : h[b].size % ALIGN = 0

(* A header that merging left behind says `free', so that freeing it again *)
(* does nothing.                                                           *)
StaleFree(h, B) == \A a \in DOMAIN h \ B : h[a].free

Layout(h, B) ==
  /\ Typed(h, B)
  /\ Linked(h, B)
  /\ BackLinked(h, B)
  /\ Apart(h, B)
  /\ Even(h, B)
  /\ StaleFree(h, B)

(* b and its successor are not both free. *)
Merged(h, b) == h[b].free /\ h[b].next # Null => ~h[h[b].next].free

-----------------------------------------------------------------------------
(* Lists and addresses.                                                    *)

(* The constants are what they are used as. *)
LEMMA Constants ==
  /\ POOL \in Nat /\ HDR \in Nat \ {0} /\ MIN_SPLIT \in Nat \ {0}
  /\ ALIGN \in Nat \ {0} /\ SIZE_WRAP \in Nat \ {0} /\ HDR < POOL
  BY HeapAssumption

(* The fields of a header. *)
LEMMA Fields ==
  ASSUME NEW h, NEW B, Typed(h, B), NEW a \in DOMAIN h
  PROVE  /\ a \in Addr /\ a \in Nat /\ h[a] \in Header
         /\ h[a].size \in Nat /\ h[a].free \in BOOLEAN
         /\ h[a].next \in Addr \cup {Null} /\ h[a].prev \in Addr \cup {Null}
         /\ End(h, a) \in Nat
<1>1. a \in Addr /\ h[a] \in Header
  BY DEF Typed
<1>2. /\ h[a].size \in Nat /\ h[a].free \in BOOLEAN
      /\ h[a].next \in Addr \cup {Null} /\ h[a].prev \in Addr \cup {Null}
  BY <1>1 DEF Header
<1> QED BY <1>1, <1>2, Constants DEF Addr, End

(* A block lies inside the pool; its successor, if any, directly after it. *)
LEMMA BlockBounds ==
  ASSUME NEW h, NEW B, Typed(h, B), Linked(h, B), NEW b \in B
  PROVE  /\ b \in Nat /\ b \in DOMAIN h /\ b \in Addr
         /\ h[b].size \in Nat
         /\ End(h, b) = b + HDR + h[b].size
         /\ End(h, b) <= POOL
         /\ h[b].next = Null <=> End(h, b) = POOL
         /\ h[b].next # Null => /\ h[b].next = End(h, b)
                                /\ h[b].next \in B /\ h[h[b].next].prev = b
<1>1. b \in DOMAIN h
  BY DEF Typed
<1>2. b \in Addr /\ b \in Nat /\ h[b].size \in Nat /\ End(h, b) \in Nat
  BY <1>1, Fields
<1>3. /\ h[b].next = IF End(h, b) = POOL THEN Null ELSE End(h, b)
      /\ h[b].next # Null => h[b].next \in B /\ h[h[b].next].prev = b
  BY DEF Linked
<1>4. Null # POOL /\ ~(Null \in Nat)
  BY Constants DEF Null
<1>5. CASE End(h, b) = POOL
  BY <1>1, <1>2, <1>3, <1>4, <1>5, Constants DEF End
<1>6. CASE End(h, b) # POOL
  <2>1. h[b].next = End(h, b) /\ h[b].next # Null
    BY <1>2, <1>3, <1>4, <1>6
  <2>2. End(h, b) \in Addr
    BY <1>3, <2>1 DEF Typed
  <2> QED BY <1>1, <1>2, <1>3, <1>6, <2>1, <2>2, Constants DEF End, Addr
<1> QED BY <1>5, <1>6

(* Only b's successor points back to b. *)
LEMMA OneSuccessor ==
  ASSUME NEW h, NEW B, Typed(h, B), Linked(h, B), Apart(h, B),
         NEW b \in B, NEW c \in B, b # c
  PROVE  /\ h[b].next = h[c].next => h[b].next = Null
         /\ b < c => End(h, b) <= c
         /\ c < b => End(h, c) <= b
<1>1. b < c => End(h, b) <= c
  BY DEF Apart
<1>2. c < b => End(h, c) <= b
  BY DEF Apart
<1>3. ASSUME h[b].next = h[c].next, h[b].next # Null
      PROVE  FALSE
  <2>1. h[h[b].next].prev = b /\ h[h[c].next].prev = c
    BY <1>3, BlockBounds
  <2> QED BY <1>3, <2>1
<1> QED BY <1>1, <1>2, <1>3

(* Sums and differences of multiples of ALIGN are multiples. *)
LEMMA Multiples ==
  ASSUME NEW a \in Nat, NEW b \in Nat, a % ALIGN = 0, b % ALIGN = 0
  PROVE  /\ (a + b) % ALIGN = 0
         /\ a >= b => (a - b) % ALIGN = 0
<1>1. ALIGN \in Nat \ {0}
  BY Constants
<1>2. PICK x \in Int : a = ALIGN * x
  <2>1. PICK d \in Int, r \in 0 .. ALIGN - 1 : r = a % ALIGN /\ a = ALIGN * d + r
    BY <1>1, DivMod
  <2>2. a = ALIGN * d
    BY <1>1, <2>1
  <2> QED BY <2>2
<1>3. PICK y \in Int : b = ALIGN * y
  <2>1. PICK d \in Int, r \in 0 .. ALIGN - 1 : r = b % ALIGN /\ b = ALIGN * d + r
    BY <1>1, DivMod
  <2>2. b = ALIGN * d
    BY <1>1, <2>1
  <2> QED BY <2>2
<1>4. ALIGN * (x + y) = ALIGN * x + ALIGN * y
      /\ ALIGN * (x - y) = ALIGN * x - ALIGN * y
  BY <1>1
<1>5. 0 \in 0 .. ALIGN - 1 /\ x + y \in Int /\ x - y \in Int
  BY <1>1
<1>6. (a + b) % ALIGN = 0
  <2>1. PICK s \in Nat : s = a + b
    OBVIOUS
  <2>2. PICK z \in Int : z = x + y
    OBVIOUS
  <2>3. s = ALIGN * z + 0
    BY <1>1, <1>2, <1>3, <1>4, <2>1, <2>2
  <2>4. s % ALIGN = 0
    BY <1>1, <1>5, <2>3, ModUnique, Zenon
  <2> QED BY <2>1, <2>4
<1>7. ASSUME a >= b PROVE (a - b) % ALIGN = 0
  <2>1. PICK s \in Nat : s = a - b
    BY <1>7
  <2>2. PICK z \in Int : z = x - y
    OBVIOUS
  <2>3. s = ALIGN * z + 0
    BY <1>1, <1>2, <1>3, <1>4, <2>1, <2>2
  <2>4. s % ALIGN = 0
    BY <1>1, <1>5, <2>3, ModUnique, Zenon
  <2> QED BY <2>1, <2>4
<1> QED BY <1>6, <1>7

(* Rounding up gives a multiple of ALIGN that is large enough. *)
LEMMA RoundUpFits ==
  ASSUME NEW n \in Nat, n + ALIGN - 1 < SIZE_WRAP
  PROVE  /\ RoundUp(n) \in 0 .. SIZE_WRAP - 1
         /\ RoundUp(n) >= n
         /\ RoundUp(n) % ALIGN = 0
<1>1. ALIGN \in Nat \ {0} /\ SIZE_WRAP \in Nat \ {0}
  BY Constants
<1>2. PICK y \in Nat : y = n + ALIGN - 1
  BY <1>1
<1>3. y % SIZE_WRAP = y
  BY <1>1, <1>2, ModSmall
<1>4. PICK d \in Int : d = y \div ALIGN
  BY <1>1
<1>5. PICK r \in 0 .. ALIGN - 1 : r = y % ALIGN
  BY <1>1
<1>6. y = ALIGN * d + r
  BY <1>1, <1>4, <1>5, Z3
<1>7. RoundUp(n) = d * ALIGN
  BY <1>2, <1>3, <1>4 DEF RoundUp
<1>8. PICK z \in Int : z = ALIGN * d
  BY <1>1
<1>9. d * ALIGN = z
  BY <1>1, <1>8
<1>10. z \in Nat /\ z >= n /\ z < SIZE_WRAP
  BY <1>1, <1>2, <1>6, <1>8
<1>11. z % ALIGN = 0
  <2>1. z = ALIGN * d + 0 /\ 0 \in 0 .. ALIGN - 1
    BY <1>1, <1>8
  <2> QED BY <1>1, <1>10, <2>1, ModUnique, Zenon
<1> QED BY <1>1, <1>7, <1>9, <1>10, <1>11

-----------------------------------------------------------------------------
(* Cutting a block (kmalloc).                                              *)

(* Split as a function of the headers h and the size sz; n is the address  *)
(* of the new header.                                                      *)
Keep(h, n) == {a \in DOMAIN h : a + HDR <= n \/ n + HDR <= a}
NewHeader(h, b, sz) ==
  [size |-> h[b].size - sz - HDR, free |-> TRUE, next |-> h[b].next, prev |-> b]
SplitIn(h, b, sz, n) ==
  [a \in Keep(h, n) \cup {n} |->
     CASE a = n -> NewHeader(h, b, sz)
       [] a = b -> [h[b] EXCEPT !.next = n, !.size = sz]
       [] a = h[b].next -> [h[a] EXCEPT !.prev = n]
       [] OTHER -> h[a]]

(* What the cut changes, field by field: g are the headers after it. *)
CutAt(h, g, b, sz, n) ==
  /\ n \in DOMAIN g /\ b \in DOMAIN g
  /\ g[n].size = h[b].size - sz - HDR /\ g[n].free
  /\ g[n].next = h[b].next /\ g[n].prev = b
  /\ g[b].size = sz /\ g[b].free = h[b].free
  /\ g[b].next = n /\ g[b].prev = h[b].prev
  /\ \A a \in DOMAIN g \ {n, b} :
       /\ a \in DOMAIN h
       /\ g[a].size = h[a].size /\ g[a].free = h[a].free /\ g[a].next = h[a].next
       /\ a = h[b].next => g[a].prev = n
       /\ a # h[b].next => g[a].prev = h[a].prev

(* The new header lies inside the old block and spoils no other block's. *)
LEMMA CutPlace ==
  ASSUME NEW h, NEW B, Layout(h, B), NEW b \in B, NEW sz \in Nat,
         h[b].size >= sz + HDR + MIN_SPLIT
  PROVE  /\ b + HDR + sz \in Addr /\ b + HDR + sz \notin B
         /\ B \subseteq Keep(h, b + HDR + sz)
         /\ b < b + HDR + sz /\ b + HDR + sz + HDR < End(h, b)
<1>1. Typed(h, B) /\ Linked(h, B) /\ Apart(h, B)
  BY DEF Layout
<1>2. PICK n \in Nat : n = b + HDR + sz
  BY <1>1, BlockBounds, Constants
<1>3. /\ b \in Nat /\ h[b].size \in Nat /\ End(h, b) = b + HDR + h[b].size
      /\ End(h, b) <= POOL
  BY <1>1, BlockBounds
<1>4. b + HDR <= n /\ b < n /\ n + HDR < End(h, b) /\ n \in Addr
  BY <1>2, <1>3, Constants DEF Addr
<1>5. ASSUME NEW c \in B, c # b
      PROVE  c \in Nat /\ (c + HDR <= n \/ n + HDR <= c) /\ c # n
  <2>1. c \in Nat /\ h[c].size \in Nat /\ End(h, c) = c + HDR + h[c].size
    BY <1>1, BlockBounds
  <2>2. CASE b < c
    <3>1. End(h, b) <= c
      BY <1>1, <1>5, <2>2, OneSuccessor
    <3> QED BY <1>3, <1>4, <2>1, <3>1, Constants
  <2>3. CASE c < b
    <3>1. End(h, c) <= b
      BY <1>1, <1>5, <2>3, OneSuccessor
    <3> QED BY <1>3, <1>4, <2>1, <3>1, Constants
  <2> QED BY <1>3, <1>5, <2>1, <2>2, <2>3
<1>6. n \notin B
  BY <1>3, <1>4, <1>5
<1>7. B \subseteq Keep(h, n)
  BY <1>1, <1>4, <1>5 DEF Keep, Typed
<1> QED BY <1>2, <1>4, <1>6, <1>7

(* The constructor of Split does what CutAt says, and keeps the types. *)
LEMMA SplitCuts ==
  ASSUME NEW h, NEW B, Layout(h, B), NEW b \in B, NEW sz \in Nat,
         h[b].size >= sz + HDR + MIN_SPLIT, NEW n \in Addr, n = b + HDR + sz
  PROVE  /\ CutAt(h, SplitIn(h, b, sz, n), b, sz, n)
         /\ Typed(SplitIn(h, b, sz, n), B \cup {n})
<1>1. Typed(h, B) /\ Linked(h, B) /\ Apart(h, B)
  BY DEF Layout
<1>2. n \notin B /\ B \subseteq Keep(h, n) /\ b < n
  BY CutPlace
<1>3. b \in DOMAIN h /\ h[b] \in Header /\ b \in Addr
  BY <1>1, BlockBounds, Fields
<1>4. h[b].next # b /\ h[b].next # n /\ b # n
  <2>1. Null \notin Addr
    BY DEF Null, Addr
  <2> QED BY <1>1, <1>2, <2>1, BlockBounds, Constants DEF Null, End
<1> DEFINE g == SplitIn(h, b, sz, n)
           new == NewHeader(h, b, sz)
           old == [h[b] EXCEPT !.next = n, !.size = sz]
<1>5. DOMAIN g = Keep(h, n) \cup {n} /\ b \in DOMAIN g /\ n \in DOMAIN g
  BY <1>2 DEF SplitIn
<1>6. \A a \in DOMAIN g :
        g[a] = CASE a = n -> new
                 [] a = b -> old
                 [] a = h[b].next -> [h[a] EXCEPT !.prev = n]
                 [] OTHER -> h[a]
  BY <1>5, Zenon DEF SplitIn
<1>7. \A a \in DOMAIN g :
        g[a] = IF a = n THEN new
               ELSE IF a = b THEN old
               ELSE IF a = h[b].next THEN [h[a] EXCEPT !.prev = n]
               ELSE h[a]
  <2> HIDE DEF g, new, old
  <2> TAKE a \in DOMAIN g
  <2>1. CASE a = n
    BY <1>4, <1>6, <2>1
  <2>2. CASE a = b
    BY <1>4, <1>6, <2>2
  <2>3. CASE a # n /\ a # b /\ a = h[b].next
    BY <1>6, <2>3
  <2>4. CASE a # n /\ a # b /\ a # h[b].next
    BY <1>6, <2>4
  <2> QED BY <2>1, <2>2, <2>3, <2>4
<1>8. g[n] = new /\ g[b] = old
  <2> HIDE DEF g, new, old
  <2> QED BY <1>4, <1>5, <1>7
<1>9. new \in Header
  <2>2. h[b].size - sz - HDR \in Nat
    BY <1>3, Constants DEF Header
  <2>3. h[b].next \in Addr \cup {Null}
    BY <1>3 DEF Header
  <2> QED BY <1>3, <2>2, <2>3 DEF Header, NewHeader
<1>10. old \in Header /\ old.free = h[b].free
       /\ old.prev = h[b].prev /\ old.next = n /\ old.size = sz
  BY <1>3 DEF Header
<1>11. ASSUME NEW a \in DOMAIN g \ {n, b}
       PROVE  /\ a \in DOMAIN h /\ g[a] \in Header
              /\ g[a].size = h[a].size /\ g[a].free = h[a].free
              /\ g[a].next = h[a].next
              /\ a = h[b].next => g[a].prev = n
              /\ a # h[b].next => g[a].prev = h[a].prev
  <2>1. a \in DOMAIN h /\ h[a] \in Header
    BY <1>1, <1>5 DEF Keep, Typed
  <2>2. g[a] = IF a = h[b].next THEN [h[a] EXCEPT !.prev = n] ELSE h[a]
    BY <1>7
  <2> HIDE DEF g
  <2>3. CASE a = h[b].next
    BY <2>1, <2>2, <2>3 DEF Header
  <2>4. CASE a # h[b].next
    BY <2>1, <2>2, <2>4
  <2> QED BY <2>3, <2>4
<1>12. new.size = h[b].size - sz - HDR /\ new.free /\ new.next = h[b].next
       /\ new.prev = b
  BY DEF NewHeader
<1> HIDE DEF g, old, new
<1>13. CutAt(h, g, b, sz, n)
  BY <1>5, <1>8, <1>10, <1>11, <1>12 DEF CutAt
<1>14. Typed(g, B \cup {n})
  <2>1. B \cup {n} \subseteq DOMAIN g /\ DOMAIN g \subseteq Addr
    BY <1>1, <1>2, <1>5 DEF Keep, Typed
  <2>2. \A a \in DOMAIN g : g[a] \in Header
    BY <1>8, <1>9, <1>10, <1>11
  <2> QED BY <2>1, <2>2 DEF Typed
<1> QED BY <1>13, <1>14 DEF g

(* A list with one block cut in two is a list again. *)
LEMMA CutKeepsLayout ==
  ASSUME NEW h, NEW B, Layout(h, B), NEW b \in B, NEW sz \in Nat,
         h[b].size >= sz + HDR + MIN_SPLIT, sz % ALIGN = 0,
         NEW n \in Addr, n = b + HDR + sz,
         NEW g, CutAt(h, g, b, sz, n), Typed(g, B \cup {n})
  PROVE  Layout(g, B \cup {n})
<1>1. /\ Typed(h, B) /\ Linked(h, B) /\ Apart(h, B) /\ BackLinked(h, B)
      /\ Even(h, B) /\ StaleFree(h, B)
  BY DEF Layout
<1>2. n \notin B /\ b < n /\ n + HDR < End(h, b) /\ n \in Nat
  BY CutPlace DEF Addr
<1>3. /\ n \in DOMAIN g /\ b \in DOMAIN g
      /\ g[n].size = h[b].size - sz - HDR /\ g[n].free
      /\ g[n].next = h[b].next /\ g[n].prev = b
      /\ g[b].size = sz /\ g[b].free = h[b].free
      /\ g[b].next = n /\ g[b].prev = h[b].prev
  BY DEF CutAt
<1>4. \A a \in DOMAIN g \ {n, b} :
        /\ a \in DOMAIN h
        /\ g[a].size = h[a].size /\ g[a].free = h[a].free
        /\ g[a].next = h[a].next
        /\ a = h[b].next => g[a].prev = n
        /\ a # h[b].next => g[a].prev = h[a].prev
  BY DEF CutAt
<1>5. /\ b \in Nat /\ h[b].size \in Nat /\ End(h, b) = b + HDR + h[b].size
      /\ End(h, b) <= POOL /\ (h[b].next = Null <=> End(h, b) = POOL)
      /\ h[b].next # Null => /\ h[b].next = End(h, b) /\ h[b].next \in B
                             /\ h[h[b].next].prev = b
  BY <1>1, BlockBounds
<1>6. B \subseteq DOMAIN g
  BY DEF Typed
<1>7. End(g, n) = End(h, b) /\ End(g, b) = n /\ n # POOL /\ n # Null /\ n # 0
  BY <1>2, <1>3, <1>5, Constants DEF End, Addr, Null
<1>8. \A c \in B \ {b} : End(g, c) = End(h, c) /\ c # n
  BY <1>2, <1>4, <1>6 DEF End
<1>9. h[b].next # b /\ h[b].next # n
  BY <1>2, <1>5, <1>7, Constants DEF Null
<1>10. Linked(g, B \cup {n})
  <2> SUFFICES ASSUME NEW c \in B \cup {n}
      PROVE  /\ g[c].next = IF End(g, c) = POOL THEN Null ELSE End(g, c)
             /\ g[c].next # Null =>
                  g[c].next \in B \cup {n} /\ g[g[c].next].prev = c
    BY DEF Linked
  <2>1. CASE c = n
    <3>1. h[b].next # Null => g[h[b].next].prev = n
      BY <1>4, <1>5, <1>6, <1>9
    <3> QED BY <1>3, <1>5, <1>7, <2>1, <3>1
  <2>2. CASE c = b
    BY <1>3, <1>7, <2>2
  <2>3. CASE c \in B /\ c # b
    <3>1. g[c].next = h[c].next /\ End(g, c) = End(h, c)
      BY <1>4, <1>6, <1>8, <2>3
    <3>2. /\ h[c].next = IF End(h, c) = POOL THEN Null ELSE End(h, c)
          /\ h[c].next # Null => h[c].next \in B /\ h[h[c].next].prev = c
      BY <1>1, <2>3 DEF Linked
    <3>3. ASSUME h[c].next # Null
          PROVE  g[h[c].next].prev = c
      <4>1. h[c].next # h[b].next
        BY <1>1, <2>3, <3>3, OneSuccessor
      <4>2. h[c].next \in B /\ h[c].next # n /\ h[c].next \in DOMAIN g
        BY <1>2, <1>6, <3>2, <3>3
      <4>3. g[h[c].next].prev = h[h[c].next].prev
        BY <1>3, <1>4, <4>1, <4>2
      <4> QED BY <3>2, <3>3, <4>3
    <3> QED BY <3>1, <3>2, <3>3
  <2> QED BY <2>1, <2>2, <2>3
<1>11. BackLinked(g, B \cup {n})
  <2> SUFFICES ASSUME NEW c \in B \cup {n}
      PROVE  /\ c = 0 => g[c].prev = Null
             /\ c # 0 => g[c].prev \in B \cup {n} /\ g[g[c].prev].next = c
    BY DEF BackLinked
  <2>1. CASE c = n
    BY <1>3, <1>7, <2>1
  <2>2. CASE c \in B /\ c = h[b].next
    <3>1. g[c].prev = n /\ c # 0
      BY <1>4, <1>5, <1>6, <1>9, <2>2, Constants DEF Null
    <3> QED BY <1>3, <2>2, <3>1
  <2>3. CASE c \in B /\ c # h[b].next
    <3>1. g[c].prev = h[c].prev
      BY <1>3, <1>4, <1>6, <1>8, <2>3
    <3>2. /\ c = 0 => h[c].prev = Null
          /\ c # 0 => h[c].prev \in B /\ h[h[c].prev].next = c
      BY <1>1, <2>3 DEF BackLinked
    <3>3. ASSUME c # 0
          PROVE  g[h[c].prev].next = c
      <4>1. h[c].prev \in B /\ h[c].prev # b /\ h[c].prev # n
        BY <1>2, <2>3, <3>2, <3>3
      <4> QED BY <1>4, <1>6, <3>2, <3>3, <4>1
    <3> QED BY <3>1, <3>2, <3>3
  <2> QED BY <2>1, <2>2, <2>3
<1>12. Apart(g, B \cup {n})
  <2> SUFFICES ASSUME NEW c \in B \cup {n}, NEW d \in B \cup {n}, c < d
               PROVE  End(g, c) <= d
    BY DEF Apart
  <2>1. \A x \in B : x \in Nat /\ End(h, x) \in Nat
    BY <1>1, BlockBounds, Fields
  <2>2. \A x, y \in B : x < y => End(h, x) <= y
    BY <1>1 DEF Apart
  <2>3. CASE c = n
    BY <1>2, <1>5, <1>7, <2>1, <2>2, <2>3
  <2>4. CASE c = b
    BY <1>2, <1>5, <1>7, <2>1, <2>2, <2>4, Constants
  <2>5. CASE c \in B /\ c # b /\ d = n
    BY <1>2, <1>5, <1>8, <2>1, <2>2, <2>5, Constants
  <2>6. CASE c \in B /\ c # b /\ d \in B
    BY <1>8, <2>2, <2>6
  <2> QED BY <2>3, <2>4, <2>5, <2>6
<1>13. Even(g, B \cup {n})
  <2>1. \A c \in B : h[c].size % ALIGN = 0
    BY <1>1 DEF Even
  <2>2. (h[b].size - sz - HDR) % ALIGN = 0
    <3>1. PICK x \in Nat : x = h[b].size - sz
      BY <1>5, Constants
    <3>2. x % ALIGN = 0
      BY <1>5, <2>1, <3>1, Multiples, Constants
    <3>3. HDR \in Nat /\ HDR % ALIGN = 0 /\ x >= HDR
      BY <1>5, <3>1, HeapAssumption
    <3>4. (x - HDR) % ALIGN = 0
      BY <3>2, <3>3, Multiples
    <3> QED BY <1>5, <3>1, <3>4, Constants
  <2>3. \A c \in B \ {b} : g[c].size = h[c].size
    BY <1>4, <1>6, <1>8
  <2> QED BY <1>3, <2>1, <2>2, <2>3 DEF Even
<1>14. StaleFree(g, B \cup {n})
  BY <1>1, <1>4 DEF StaleFree
<1> QED BY <1>10, <1>11, <1>12, <1>13, <1>14 DEF Layout

-----------------------------------------------------------------------------
(* Joining two blocks (merge_next).                                        *)

(* What the join of b with its successor n changes, field by field. *)
JoinAt(h, g, b, n) ==
  /\ DOMAIN g = DOMAIN h
  /\ g[b].size = h[b].size + HDR + h[n].size /\ g[b].next = h[n].next
  /\ g[b].free = h[b].free /\ g[b].prev = h[b].prev
  /\ \A a \in DOMAIN h \ {b} :
       /\ g[a].size = h[a].size /\ g[a].free = h[a].free /\ g[a].next = h[a].next
       /\ a = h[n].next => g[a].prev = b
       /\ a # h[n].next => g[a].prev = h[a].prev

(* merge_next does what JoinAt says, and keeps the types. *)
LEMMA MergeJoins ==
  ASSUME NEW h, NEW B, Layout(h, B), NEW b \in B, CanMerge(h, b)
  PROVE  /\ h[b].next \in B
         /\ JoinAt(h, merge_next(h, b), b, h[b].next)
         /\ Typed(merge_next(h, b), B \ {h[b].next})
<1>1. Typed(h, B) /\ Linked(h, B) /\ Apart(h, B)
  BY DEF Layout
<1>2. PICK n : n = h[b].next /\ n # Null
  BY DEF CanMerge
<1>3. /\ b \in Addr /\ n \in B /\ n \in DOMAIN h /\ b \in DOMAIN h /\ n > b
      /\ h[b] \in Header /\ h[n] \in Header /\ b \in Nat
  BY <1>1, <1>2, BlockBounds, Fields, Constants
<1>4. h[n].next # b
  BY <1>1, <1>3, BlockBounds, Constants DEF Null
<1> DEFINE g == merge_next(h, b)
           joined == [h[b] EXCEPT !.size = @ + HDR + h[n].size,
                                  !.next = h[n].next]
<1>5. g = [a \in DOMAIN h |->
             CASE a = b -> joined
               [] a = h[n].next -> [h[a] EXCEPT !.prev = b]
               [] OTHER -> h[a]]
  BY <1>2 DEF merge_next
<1>6. DOMAIN g = DOMAIN h
  BY <1>5
<1>7. \A a \in DOMAIN h :
        g[a] = CASE a = b -> joined
                 [] a = h[n].next -> [h[a] EXCEPT !.prev = b]
                 [] OTHER -> h[a]
  BY <1>5, Zenon
<1>8. joined \in Header /\ joined.size = h[b].size + HDR + h[n].size
      /\ joined.next = h[n].next /\ joined.free = h[b].free
      /\ joined.prev = h[b].prev
  <2>1. h[b].size + HDR + h[n].size \in Nat
    BY <1>3, Constants DEF Header
  <2>2. h[n].next \in Addr \cup {Null}
    BY <1>3 DEF Header
  <2> QED BY <1>3, <2>1, <2>2 DEF Header
<1> HIDE DEF g, joined
<1>9. g[b] = joined
  BY <1>3, <1>4, <1>7
<1>10. ASSUME NEW a \in DOMAIN h \ {b}
       PROVE  /\ g[a] \in Header
              /\ g[a].size = h[a].size /\ g[a].free = h[a].free
              /\ g[a].next = h[a].next
              /\ a = h[n].next => g[a].prev = b
              /\ a # h[n].next => g[a].prev = h[a].prev
  <2>1. h[a] \in Header
    BY <1>1 DEF Typed
  <2>2. CASE a = h[n].next
    <3>1. g[a] = [h[a] EXCEPT !.prev = b]
      BY <1>7, <2>2
    <3> QED BY <1>3, <2>1, <2>2, <3>1 DEF Header
  <2>3. CASE a # h[n].next
    <3>1. g[a] = h[a]
      BY <1>7, <2>3
    <3> QED BY <2>1, <2>3, <3>1
  <2> QED BY <2>2, <2>3
<1>11. JoinAt(h, g, b, n)
  BY <1>6, <1>8, <1>9, <1>10 DEF JoinAt
<1>12. Typed(g, B \ {n})
  BY <1>1, <1>6, <1>8, <1>9, <1>10 DEF Typed
<1> QED BY <1>2, <1>3, <1>11, <1>12 DEF g

(* A list with two neighbours joined is a list again. *)
LEMMA JoinKeepsLayout ==
  ASSUME NEW h, NEW B, Layout(h, B), NEW b \in B, NEW n \in B, n = h[b].next,
         h[n].free, NEW g, JoinAt(h, g, b, n), Typed(g, B \ {n})
  PROVE  Layout(g, B \ {n}) /\ n # b /\ n # 0 /\ n # Null
<1>1. /\ Typed(h, B) /\ Linked(h, B) /\ Apart(h, B) /\ BackLinked(h, B)
      /\ Even(h, B) /\ StaleFree(h, B)
  BY DEF Layout
<1>2. /\ b \in Nat /\ n \in Nat /\ h[b].size \in Nat /\ h[n].size \in Nat
      /\ b \in DOMAIN h /\ n \in DOMAIN h
      /\ End(h, b) = b + HDR + h[b].size /\ End(h, n) = n + HDR + h[n].size
      /\ n = End(h, b) /\ n > b
  BY <1>1, BlockBounds, Constants DEF Null
<1>3. /\ End(h, n) <= POOL /\ (h[n].next = Null <=> End(h, n) = POOL)
      /\ h[n].next # Null => /\ h[n].next = End(h, n) /\ h[n].next \in B
                             /\ h[h[n].next].prev = n
  BY <1>1, BlockBounds
<1>4. n # b /\ n # 0 /\ n # Null /\ h[n].next # b /\ h[n].next # n
      /\ h[n].next # 0
  BY <1>2, <1>3, Constants DEF Null
<1>5. /\ g[b].size = h[b].size + HDR + h[n].size /\ g[b].next = h[n].next
      /\ g[b].free = h[b].free /\ g[b].prev = h[b].prev
  BY DEF JoinAt
<1>6. \A a \in DOMAIN h \ {b} :
        /\ g[a].size = h[a].size /\ g[a].free = h[a].free
        /\ g[a].next = h[a].next
        /\ a = h[n].next => g[a].prev = b
        /\ a # h[n].next => g[a].prev = h[a].prev
  BY DEF JoinAt
<1>7. B \subseteq DOMAIN h
  BY <1>1 DEF Typed
<1>8. End(g, b) = End(h, n)
  BY <1>2, <1>5, Constants DEF End
<1>9. \A c \in B \ {b} : End(g, c) = End(h, c)
  BY <1>6, <1>7 DEF End
<1>10. Linked(g, B \ {n})
  <2> SUFFICES ASSUME NEW c \in B \ {n}
      PROVE  /\ g[c].next = IF End(g, c) = POOL THEN Null ELSE End(g, c)
             /\ g[c].next # Null =>
                  g[c].next \in B \ {n} /\ g[g[c].next].prev = c
    BY DEF Linked
  <2>1. CASE c = b
    <3>1. h[n].next # Null => g[h[n].next].prev = b
      BY <1>3, <1>4, <1>6, <1>7
    <3> QED BY <1>3, <1>4, <1>5, <1>8, <2>1, <3>1
  <2>2. CASE c # b
    <3>1. g[c].next = h[c].next /\ End(g, c) = End(h, c)
      BY <1>6, <1>7, <1>9, <2>2
    <3>2. /\ h[c].next = IF End(h, c) = POOL THEN Null ELSE End(h, c)
          /\ h[c].next # Null => h[c].next \in B /\ h[h[c].next].prev = c
      BY <1>1 DEF Linked
    <3>3. ASSUME h[c].next # Null
          PROVE  h[c].next # n /\ g[h[c].next].prev = c
      <4>1. h[c].next # n
        BY <1>1, <1>4, <2>2, <3>3, OneSuccessor
      <4>2. h[c].next # h[n].next
        BY <1>1, <3>3, OneSuccessor
      <4>3. g[h[c].next].prev = h[h[c].next].prev
        BY <1>5, <1>6, <1>7, <3>2, <3>3, <4>2
      <4> QED BY <3>2, <3>3, <4>1, <4>3
    <3> QED BY <3>1, <3>2, <3>3
  <2> QED BY <2>1, <2>2
<1>11. BackLinked(g, B \ {n})
  <2> SUFFICES ASSUME NEW c \in B \ {n}
      PROVE  /\ c = 0 => g[c].prev = Null
             /\ c # 0 => g[c].prev \in B \ {n} /\ g[g[c].prev].next = c
    BY DEF BackLinked
  <2>1. CASE c = h[n].next
    <3>1. g[c].prev = b /\ c # 0
      BY <1>4, <1>6, <1>7, <2>1
    <3> QED BY <1>4, <1>5, <2>1, <3>1
  <2>2. CASE c # h[n].next
    <3>1. g[c].prev = h[c].prev
      BY <1>5, <1>6, <1>7, <2>2
    <3>2. /\ c = 0 => h[c].prev = Null
          /\ c # 0 => h[c].prev \in B /\ h[h[c].prev].next = c
      BY <1>1 DEF BackLinked
    <3>3. ASSUME c # 0
          PROVE  h[c].prev # n /\ g[h[c].prev].next = c
      <4>1. h[c].prev \in B /\ h[c].prev # b /\ h[c].prev # n
        BY <2>2, <3>2, <3>3
      <4> QED BY <1>6, <1>7, <3>2, <3>3, <4>1
    <3> QED BY <3>1, <3>2, <3>3
  <2> QED BY <2>1, <2>2
<1>12. Apart(g, B \ {n})
  <2> SUFFICES ASSUME NEW c \in B \ {n}, NEW d \in B \ {n}, c < d
               PROVE  End(g, c) <= d
    BY DEF Apart
  <2>1. \A x \in B : x \in Nat /\ End(h, x) \in Nat
    BY <1>1, BlockBounds, Fields
  <2>2. \A x, y \in B : x < y => End(h, x) <= y
    BY <1>1 DEF Apart
  <2>3. CASE c = b
    <3>1. n <= d /\ n # d /\ d \in Nat
      BY <1>2, <2>1, <2>2, <2>3
    <3>2. End(h, n) <= d
      BY <1>2, <2>2, <3>1
    <3> QED BY <1>8, <2>3, <3>2
  <2>4. CASE c # b
    BY <1>9, <2>2, <2>4
  <2> QED BY <2>3, <2>4
<1>13. Even(g, B \ {n})
  <2>1. \A c \in B : h[c].size % ALIGN = 0
    BY <1>1 DEF Even
  <2>2. (h[b].size + HDR + h[n].size) % ALIGN = 0
    <3>1. HDR \in Nat /\ HDR % ALIGN = 0
      BY HeapAssumption
    <3>2. PICK x \in Nat : x = h[b].size + HDR
      BY <1>2, <3>1
    <3>3. x % ALIGN = 0
      BY <1>2, <2>1, <3>1, <3>2, Multiples
    <3>4. (x + h[n].size) % ALIGN = 0
      BY <1>2, <2>1, <3>3, Multiples
    <3> QED BY <3>2, <3>4
  <2>3. \A c \in B \ {b} : g[c].size = h[c].size
    BY <1>6, <1>7
  <2> QED BY <1>5, <2>1, <2>2, <2>3 DEF Even
<1>14. StaleFree(g, B \ {n})
  <2> SUFFICES ASSUME NEW a \in DOMAIN g \ (B \ {n})
               PROVE  g[a].free
    BY DEF StaleFree
  <2>1. a \in DOMAIN h /\ a # b /\ g[a].free = h[a].free
    BY <1>4, <1>6 DEF JoinAt
  <2>2. h[a].free
    BY <1>1, <2>1 DEF StaleFree
  <2> QED BY <2>1, <2>2
<1> QED BY <1>4, <1>10, <1>11, <1>12, <1>13, <1>14 DEF Layout

(* The blocks of the list after merge_next, whether it does anything or    *)
(* not.                                                                    *)
AfterMerge(h, B, b) == IF CanMerge(h, b) THEN B \ {h[b].next} ELSE B

(* merge_next keeps the layout; what stays as it was, and which neighbours *)
(* are merged afterwards.                                                  *)
LEMMA MergeStep ==
  ASSUME NEW h, NEW B, Layout(h, B), NEW b \in B
  PROVE  /\ Layout(merge_next(h, b), AfterMerge(h, B, b))
         /\ b \in AfterMerge(h, B, b)
         /\ 0 \in B => 0 \in AfterMerge(h, B, b)
         /\ DOMAIN merge_next(h, b) = DOMAIN h
         /\ \A a \in DOMAIN h : merge_next(h, b)[a].free = h[a].free
         /\ \A a \in DOMAIN h \ {b} : merge_next(h, b)[a].size = h[a].size
         /\ merge_next(h, b)[b].prev = h[b].prev
         /\ \A c \in B \ AfterMerge(h, B, b) : h[c].free
         /\ \A c \in AfterMerge(h, B, b) :
              c # b /\ Merged(h, c) => Merged(merge_next(h, b), c)
         /\ (h[b].next # Null => Merged(h, h[b].next))
              => Merged(merge_next(h, b), b)
<1>1. Typed(h, B) /\ Linked(h, B) /\ Apart(h, B)
  BY DEF Layout
<1>2. b \in DOMAIN h /\ b # Null
  BY <1>1, BlockBounds DEF Null
<1>3. CASE ~CanMerge(h, b)
  <2>1. merge_next(h, b) = h /\ AfterMerge(h, B, b) = B
    BY <1>3 DEF merge_next, AfterMerge
  <2>2. Merged(h, b)
    BY <1>2, <1>3 DEF CanMerge, Merged
  <2> QED BY <1>2, <2>1, <2>2
<1>4. CASE CanMerge(h, b)
  <2>1. PICK n \in B : n = h[b].next
    BY <1>4, MergeJoins
  <2>2. PICK g : g = merge_next(h, b)
    OBVIOUS
  <2>3. h[n].free /\ h[b].free /\ n # Null
    BY <1>4, <2>1 DEF CanMerge
  <2>4. JoinAt(h, g, b, n) /\ Typed(g, B \ {n})
    BY <1>4, <2>1, <2>2, MergeJoins
  <2>5. Layout(g, B \ {n}) /\ n # b /\ n # 0
    BY <2>1, <2>3, <2>4, JoinKeepsLayout
  <2>6. AfterMerge(h, B, b) = B \ {n}
    BY <1>4, <2>1 DEF AfterMerge
  <2>7. /\ DOMAIN g = DOMAIN h /\ \A a \in DOMAIN h : g[a].free = h[a].free
        /\ \A a \in DOMAIN h \ {b} : g[a].size = h[a].size /\ g[a].next = h[a].next
        /\ g[b].prev = h[b].prev /\ g[b].next = h[n].next
    BY <2>4 DEF JoinAt
  <2>8. \A c \in B : c \in DOMAIN h
                     /\ (h[c].next # Null => h[c].next \in DOMAIN h)
    BY <1>1, BlockBounds DEF Typed
  <2>9. ASSUME NEW c \in B \ {n}, c # b, Merged(h, c)
        PROVE  Merged(g, c)
    BY <2>7, <2>8, <2>9 DEF Merged
  <2>10. Merged(h, n) => Merged(g, b)
    BY <2>3, <2>7, <2>8 DEF Merged
  <2>11. \A c \in B \ (B \ {n}) : h[c].free
    BY <2>3
  <2> QED BY <2>1, <2>2, <2>3, <2>5, <2>6, <2>7, <2>9, <2>10, <2>11
<1> QED BY <1>3, <1>4

-----------------------------------------------------------------------------
(* Marking and forgetting headers.                                         *)

(* Writing a block's free flag changes no link. *)
LEMMA MarkKeepsLayout ==
  ASSUME NEW h, NEW B, Layout(h, B), NEW b \in B, NEW v \in BOOLEAN
  PROVE  LET g == [h EXCEPT ![b].free = v] IN
         /\ Layout(g, B) /\ DOMAIN g = DOMAIN h /\ g[b].free = v
         /\ \A a \in DOMAIN h : /\ g[a].size = h[a].size /\ g[a].next = h[a].next
                                /\ g[a].prev = h[a].prev
                                /\ a # b => g[a].free = h[a].free
<1> DEFINE g == [h EXCEPT ![b].free = v]
<1>1. Typed(h, B)
  BY DEF Layout
<1>2. b \in DOMAIN h /\ B \subseteq DOMAIN h
  BY <1>1 DEF Typed
<1>3. DOMAIN g = DOMAIN h
  OBVIOUS
<1>4. ASSUME NEW a \in DOMAIN h
      PROVE  /\ g[a].size = h[a].size /\ g[a].next = h[a].next
             /\ g[a].prev = h[a].prev /\ g[a] \in Header
             /\ a # b => g[a].free = h[a].free
             /\ a = b => g[a].free = v
  <2>1. h[a] \in Header
    BY <1>1 DEF Typed
  <2>2. CASE a = b
    BY <2>1, <2>2 DEF Header
  <2>3. CASE a # b
    BY <2>1, <2>3
  <2> QED BY <2>2, <2>3
<1> HIDE DEF g
<1>5. \A a \in DOMAIN h : End(g, a) = End(h, a)
  BY <1>4 DEF End
<1>6. Typed(g, B)
  BY <1>1, <1>3, <1>4 DEF Typed
<1>7. \A c \in B : h[c].next # Null => h[c].next \in DOMAIN h
  BY <1>2 DEF Layout, Linked
<1>8. Linked(g, B)
  BY <1>2, <1>4, <1>5, <1>7 DEF Layout, Linked
<1>9. BackLinked(g, B)
  BY <1>2, <1>4 DEF Layout, BackLinked
<1>10. Apart(g, B) /\ Even(g, B)
  BY <1>2, <1>4, <1>5 DEF Layout, Apart, Even
<1>11. StaleFree(g, B)
  BY <1>3, <1>4 DEF Layout, StaleFree
<1>12. Layout(g, B)
  BY <1>6, <1>8, <1>9, <1>10, <1>11 DEF Layout
<1> QED BY <1>2, <1>3, <1>4, <1>12 DEF g

(* Overwriting headers that are not in the list does no harm. *)
LEMMA ForgetKeepsLayout ==
  ASSUME NEW h, NEW B, Layout(h, B), NEW D \in SUBSET (DOMAIN h), B \subseteq D
  PROVE  LET g == Restrict_to(h, D) IN
         /\ Layout(g, B) /\ DOMAIN g = D
         /\ \A a \in D : g[a] = h[a]
<1> DEFINE g == Restrict_to(h, D)
<1>1. DOMAIN g = D /\ \A a \in D : g[a] = h[a]
  BY DEF Restrict_to
<1> HIDE DEF g
<1>2. \A a \in B : a \in D /\ g[a] = h[a] /\ End(g, a) = End(h, a)
  BY <1>1 DEF End
<1>3. Typed(g, B)
  BY <1>1 DEF Layout, Typed
<1>4. Linked(g, B)
  BY <1>2 DEF Layout, Linked
<1>5. BackLinked(g, B)
  BY <1>2 DEF Layout, BackLinked
<1>6. Apart(g, B) /\ Even(g, B)
  BY <1>2 DEF Layout, Apart, Even
<1>7. StaleFree(g, B)
  BY <1>1 DEF Layout, StaleFree
<1>8. Layout(g, B)
  BY <1>3, <1>4, <1>5, <1>6, <1>7 DEF Layout
<1> QED BY <1>1, <1>8 DEF g

-----------------------------------------------------------------------------
(* kfree on the headers.                                                   *)

(* Release as a function of the headers. *)
Marked(h, b) == [h EXCEPT ![b].free = TRUE]
MergedNext(h, b) == merge_next(Marked(h, b), b)
MergedBoth(h, b) == merge_next(MergedNext(h, b), MergedNext(h, b)[b].prev)
BlocksAfter(h, B, b) ==
  B \ ((IF CanMerge(Marked(h, b), b) THEN {Marked(h, b)[b].next} ELSE {})
       \cup (IF CanMerge(MergedNext(h, b), MergedNext(h, b)[b].prev)
             THEN {b} ELSE {}))

(* kfree of a used block: the list stays a list without two free           *)
(* neighbours, and every other used block stays as it is.                  *)
LEMMA ReleaseEffect ==
  ASSUME NEW h, NEW B, Layout(h, B), \A c \in B : Merged(h, c),
         NEW b \in B, ~h[b].free
  PROVE  LET g == MergedBoth(h, b)
             C == BlocksAfter(h, B, b) IN
         /\ Layout(g, C) /\ C \subseteq B /\ (0 \in B => 0 \in C)
         /\ \A c \in C : Merged(g, c)
         /\ \A c \in B : c # b /\ ~h[c].free =>
              c \in C /\ ~g[c].free /\ g[c].size = h[c].size
         /\ \A c \in C : ~g[c].free => c # b /\ ~h[c].free
<1> DEFINE h1 == Marked(h, b)
           h2 == MergedNext(h, b)
           B2 == AfterMerge(h1, B, b)
           q  == h2[b].prev
           g  == MergedBoth(h, b)
           C  == BlocksAfter(h, B, b)
<1>1. Typed(h, B) /\ Linked(h, B) /\ Apart(h, B)
  BY DEF Layout
<1>2. /\ Layout(h1, B) /\ DOMAIN h1 = DOMAIN h /\ h1[b].free
      /\ \A a \in DOMAIN h : /\ h1[a].size = h[a].size /\ h1[a].next = h[a].next
                             /\ h1[a].prev = h[a].prev
                             /\ a # b => h1[a].free = h[a].free
  BY MarkKeepsLayout DEF Marked
<1>3. \A c \in B : c \in DOMAIN h /\ (h[c].next # Null => h[c].next \in B)
  BY <1>1, BlockBounds
<1>4. \A c \in B : h[c].next = b => c = h[b].prev
  <2> SUFFICES ASSUME NEW c \in B, h[c].next = b PROVE c = h[b].prev
    OBVIOUS
  <2>1. b # Null
    BY <1>1, BlockBounds DEF Null
  <2> QED BY <1>1, <2>1, BlockBounds
<1>5. h[b].next # Null => h[b].next # b /\ h[b].next # h[b].prev
  <2> SUFFICES ASSUME h[b].next # Null
               PROVE  h[b].next # b /\ h[b].next # h[b].prev
    OBVIOUS
  <2>1. h[b].next \in B /\ h[b].next > b /\ b \in Nat /\ h[b].next \in Nat
    BY <1>1, BlockBounds, Constants
  <2>2. h[b].next = h[b].prev => h[h[b].prev].next = b
    <3>1. Null \notin B
      BY <1>1, BlockBounds DEF Null
    <3> QED BY <2>1, <3>1 DEF Layout, BackLinked
  <2>3. h[h[b].next].next # b
    BY <1>1, <2>1, BlockBounds, Constants DEF Null
  <2> QED BY <2>1, <2>2, <2>3
<1> HIDE DEF h1
<1>6. \A c \in B : c # b /\ c # h[b].prev => Merged(h1, c)
  BY <1>2, <1>3, <1>4 DEF Merged
<1>7. h2 = merge_next(h1, b)
  BY DEF MergedNext, h1
<1> HIDE DEF h2
<1>8. /\ Layout(h2, B2) /\ b \in B2 /\ (0 \in B => 0 \in B2)
      /\ DOMAIN h2 = DOMAIN h
      /\ \A a \in DOMAIN h : h2[a].free = h1[a].free
      /\ \A a \in DOMAIN h \ {b} : h2[a].size = h1[a].size
      /\ h2[b].prev = h[b].prev
      /\ \A c \in B \ B2 : h1[c].free
      /\ \A c \in B2 : c # b /\ Merged(h1, c) => Merged(h2, c)
      /\ (h1[b].next # Null => Merged(h1, h1[b].next)) => Merged(h2, b)
  BY <1>2, <1>3, <1>7, MergeStep
<1>9. B2 \subseteq B
  BY DEF AfterMerge
<1>10. B2 = B \ (IF CanMerge(h1, b) THEN {h1[b].next} ELSE {})
  BY DEF AfterMerge
<1> HIDE DEF B2
<1>11. Merged(h2, b)
  BY <1>2, <1>3, <1>5, <1>6, <1>8
<1>12. \A c \in B2 : c # q => Merged(h2, c)
  BY <1>6, <1>8, <1>9, <1>11
<1>13. g = merge_next(h2, q)
       /\ C = B2 \ (IF CanMerge(h2, q) THEN {b} ELSE {})
  <2>1. g = merge_next(h2, q)
    BY DEF MergedBoth, h2
  <2>2. C = B \ ((IF CanMerge(h1, b) THEN {h1[b].next} ELSE {})
                 \cup (IF CanMerge(h2, q) THEN {b} ELSE {}))
    BY DEF BlocksAfter, h1, h2
  <2> HIDE DEF C
  <2> QED BY <1>10, <2>1, <2>2
<1> HIDE DEF g, C
<1>14. /\ Layout(g, C) /\ C \subseteq B2 /\ (0 \in B2 => 0 \in C)
       /\ \A a \in DOMAIN h : g[a].free = h2[a].free
       /\ \A a \in DOMAIN h : h2[a].free \/ g[a].size = h2[a].size
       /\ \A c \in B2 \ C : h2[c].free
       /\ \A c \in C : Merged(g, c)
  <2>1. CASE q = Null
    <3>1. ~CanMerge(h2, q)
      BY <2>1 DEF CanMerge
    <3>2. g = h2 /\ C = B2
      BY <1>13, <3>1 DEF merge_next
    <3>3. \A c \in B2 : c # q
      BY <1>1, <1>9, <2>1, BlockBounds DEF Null
    <3> QED BY <1>8, <1>12, <3>2, <3>3
  <2>2. CASE q # Null
    <3>1. q \in B2 /\ h2[q].next = b
      BY <1>8, <2>2 DEF Layout, BackLinked
    <3>2. C = AfterMerge(h2, B2, q)
      BY <1>13, <3>1 DEF AfterMerge
    <3>3. /\ Layout(g, C) /\ (0 \in B2 => 0 \in C)
          /\ \A a \in DOMAIN h : g[a].free = h2[a].free
          /\ \A a \in DOMAIN h \ {q} : g[a].size = h2[a].size
          /\ \A c \in B2 \ C : h2[c].free
          /\ \A c \in C : c # q /\ Merged(h2, c) => Merged(g, c)
          /\ (h2[q].next # Null => Merged(h2, h2[q].next)) => Merged(g, q)
      <4> HIDE DEF q
      <4>1. Layout(h2, B2) /\ DOMAIN h2 = DOMAIN h /\ q \in B2
        BY <1>8, <3>1
      <4>2. g = merge_next(h2, q)
        BY <1>13
      <4> QED BY <3>2, <4>1, <4>2, MergeStep
    <3>4. C \subseteq B2
      BY <1>13
    <3>5. h2[q].free \/ g[q].size = h2[q].size
      <4>1. ~h2[q].free => g = h2
        BY <1>13 DEF CanMerge, merge_next
      <4> QED BY <4>1
    <3>6. \A c \in C : Merged(g, c)
      BY <1>11, <1>12, <3>1, <3>3, <3>4
    <3> QED BY <3>3, <3>4, <3>5, <3>6
  <2> QED BY <2>1, <2>2
<1>15. \A c \in B : c # b /\ ~h[c].free =>
         c \in C /\ ~g[c].free /\ g[c].size = h[c].size
  <2> SUFFICES ASSUME NEW c \in B, c # b, ~h[c].free
               PROVE  c \in C /\ ~g[c].free /\ g[c].size = h[c].size
    OBVIOUS
  <2>1. c \in DOMAIN h /\ ~h1[c].free /\ h1[c].size = h[c].size
    BY <1>2, <1>3
  <2>2. c \in B2 /\ ~h2[c].free /\ h2[c].size = h[c].size
    BY <1>8, <2>1
  <2> QED BY <1>14, <2>1, <2>2
<1>16. \A c \in C : ~g[c].free => c # b /\ ~h[c].free
  BY <1>2, <1>3, <1>8, <1>9, <1>14
<1>17. C \subseteq B /\ (0 \in B => 0 \in C)
  BY <1>8, <1>9, <1>14
<1> QED BY <1>14, <1>15, <1>16, <1>17 DEF g, C

-----------------------------------------------------------------------------
(* kmalloc on the headers.                                                 *)

(* The steps of kmalloc_take as functions of the headers. *)
WorthCutting(h, b, sz) == h[b].size >= sz + HDR + MIN_SPLIT
HeadersCut(h, b, sz) ==
  IF WorthCutting(h, b, sz) THEN SplitIn(h, b, sz, b + HDR + sz) ELSE h
BlocksCut(h, B, b, sz) ==
  IF WorthCutting(h, b, sz) THEN B \cup {b + HDR + sz} ELSE B
HeadersUsed(h, b, sz) == [HeadersCut(h, b, sz) EXCEPT ![b].free = FALSE]
Overwritten(b, rq) == {a \in Addr : b + HDR < a + HDR /\ a < b + HDR + rq}
HeadersTaken(h, b, sz, rq) ==
  Restrict_to(HeadersUsed(h, b, sz),
              DOMAIN HeadersUsed(h, b, sz) \ Overwritten(b, rq))

(* Cut or not, the block is large enough and everything else as before. *)
LEMMA CutEffect ==
  ASSUME NEW h, NEW B, Layout(h, B), \A c \in B : Merged(h, c),
         NEW b \in B, h[b].free, NEW sz \in Nat, sz % ALIGN = 0,
         h[b].size >= sz
  PROVE  LET g == HeadersCut(h, b, sz)
             C == BlocksCut(h, B, b, sz) IN
         /\ Layout(g, C) /\ B \subseteq C /\ g[b].size >= sz
         /\ \A c \in B \ {b} : g[c].size = h[c].size /\ g[c].free = h[c].free
         /\ \A c \in C \ B : g[c].free
         /\ \A c \in C \ {b} : Merged(g, c)
<1>1. CASE ~WorthCutting(h, b, sz)
  <2>1. HeadersCut(h, b, sz) = h /\ BlocksCut(h, B, b, sz) = B
    BY <1>1 DEF HeadersCut, BlocksCut
  <2> QED BY <2>1
<1>2. CASE WorthCutting(h, b, sz)
  <2>1. h[b].size >= sz + HDR + MIN_SPLIT
    BY <1>2 DEF WorthCutting
  <2>2. PICK n \in Addr : n = b + HDR + sz /\ n \notin B
    BY <2>1, CutPlace
  <2>3. PICK g : g = SplitIn(h, b, sz, n)
    OBVIOUS
  <2>4. CutAt(h, g, b, sz, n) /\ Typed(g, B \cup {n})
    BY <2>1, <2>2, <2>3, SplitCuts
  <2>5. Layout(g, B \cup {n})
    BY <2>1, <2>2, <2>4, CutKeepsLayout
  <2>6. HeadersCut(h, b, sz) = g /\ BlocksCut(h, B, b, sz) = B \cup {n}
    BY <1>2, <2>2, <2>3 DEF HeadersCut, BlocksCut
  <2>7. /\ g[n].free /\ g[n].next = h[b].next
        /\ g[b].size = sz /\ g[b].free = h[b].free
        /\ \A a \in DOMAIN g \ {n, b} :
             /\ g[a].size = h[a].size /\ g[a].free = h[a].free
             /\ g[a].next = h[a].next
    BY <2>4 DEF CutAt
  <2>8. B \subseteq DOMAIN g
    BY <2>4 DEF Typed
  <2>9. \A c \in B : g[c].free = h[c].free
    BY <2>2, <2>7, <2>8
  <2>10. \A c \in B : h[c].next # Null => h[c].next \in B
    BY DEF Layout, Linked
  <2>11. Merged(g, n)
    BY <2>7, <2>9, <2>10 DEF Merged
  <2>12. \A c \in B \ {b} : Merged(g, c)
    BY <2>2, <2>7, <2>8, <2>9, <2>10 DEF Merged
  <2> QED BY <2>2, <2>5, <2>6, <2>7, <2>8, <2>11, <2>12
<1> QED BY <1>1, <1>2

(* kmalloc's work on a free block that is large enough. *)
LEMMA TakeEffect ==
  ASSUME NEW h, NEW B, Layout(h, B), \A c \in B : Merged(h, c),
         NEW b \in B, h[b].free, NEW sz \in Nat, sz % ALIGN = 0,
         h[b].size >= sz, NEW rq \in Nat, sz >= rq
  PROVE  LET g == HeadersTaken(h, b, sz, rq)
             C == BlocksCut(h, B, b, sz) IN
         /\ Layout(g, C) /\ B \subseteq C
         /\ g[b].size >= rq /\ ~g[b].free
         /\ \A c \in B \ {b} : g[c].size = h[c].size /\ g[c].free = h[c].free
         /\ \A c \in C \ B : g[c].free
         /\ \A c \in C : Merged(g, c)
<1> DEFINE h1 == HeadersCut(h, b, sz)
           C  == BlocksCut(h, B, b, sz)
           h2 == HeadersUsed(h, b, sz)
           D  == DOMAIN h2 \ Overwritten(b, rq)
           g  == HeadersTaken(h, b, sz, rq)
<1>1. /\ Layout(h1, C) /\ B \subseteq C /\ h1[b].size >= sz
      /\ \A c \in B \ {b} : h1[c].size = h[c].size /\ h1[c].free = h[c].free
      /\ \A c \in C \ B : h1[c].free
      /\ \A c \in C \ {b} : Merged(h1, c)
  BY CutEffect
<1>2. h2 = [h1 EXCEPT ![b].free = FALSE]
  BY DEF HeadersUsed
<1> HIDE DEF h1, C, h2
<1>3. /\ Layout(h2, C) /\ DOMAIN h2 = DOMAIN h1 /\ ~h2[b].free
      /\ \A a \in DOMAIN h1 : /\ h2[a].size = h1[a].size /\ h2[a].next = h1[a].next
                              /\ a # b => h2[a].free = h1[a].free
  <2>1. b \in C /\ FALSE \in BOOLEAN
    BY <1>1
  <2> QED BY <1>1, <1>2, <2>1, MarkKeepsLayout
<1>4. C \subseteq DOMAIN h1 /\ \A c \in C : h1[c].next # Null => h1[c].next \in C
  BY <1>1 DEF Layout, Typed, Linked
<1>5. \A c \in C : Merged(h2, c)
  BY <1>1, <1>3, <1>4 DEF Merged
<1>6. C \subseteq D
  <2> SUFFICES ASSUME NEW a \in C, a \in Overwritten(b, rq)
               PROVE  FALSE
    BY <1>3, <1>4
  <2>1. Typed(h2, C) /\ Linked(h2, C) /\ Apart(h2, C) /\ b \in C
    BY <1>1, <1>3 DEF Layout
  <2>2. /\ a \in Nat /\ b \in Nat /\ h2[b].size \in Nat
        /\ End(h2, b) = b + HDR + h2[b].size
    BY <2>1, BlockBounds
  <2>3. b < a /\ a < b + HDR + rq
    BY <2>2, Constants DEF Overwritten
  <2>4. End(h2, b) <= a
    BY <2>1, <2>3 DEF Apart
  <2>5. h2[b].size >= sz
    BY <1>1, <1>3, <1>4
  <2> QED BY <2>2, <2>3, <2>4, <2>5, Constants
<1>7. g = Restrict_to(h2, D)
  BY DEF HeadersTaken, h2
<1>8. D \in SUBSET (DOMAIN h2)
  OBVIOUS
<1> HIDE DEF g, D
<1>9. Layout(g, C) /\ DOMAIN g = D /\ \A a \in D : g[a] = h2[a]
  BY <1>3, <1>6, <1>7, <1>8, ForgetKeepsLayout
<1>10. \A c \in C : g[c] = h2[c]
  BY <1>6, <1>9
<1>11. \A c \in C : Merged(g, c)
  BY <1>3, <1>4, <1>5, <1>10 DEF Merged
<1>12. b \in Nat /\ h1[b].size \in Nat
  <2>1. Typed(h1, C) /\ Linked(h1, C) /\ b \in C
    BY <1>1 DEF Layout
  <2> QED BY <2>1, BlockBounds
<1>13. g[b].size >= rq /\ ~g[b].free
  <2>1. g[b].size = h1[b].size /\ ~g[b].free
    BY <1>1, <1>3, <1>4, <1>10
  <2> QED BY <1>1, <1>12, <2>1
<1>14. \A c \in B \ {b} : g[c].size = h[c].size /\ g[c].free = h[c].free
  BY <1>1, <1>3, <1>4, <1>10
<1>15. \A c \in C \ B : g[c].free
  BY <1>1, <1>3, <1>4, <1>10
<1> QED BY <1>1, <1>9, <1>11, <1>13, <1>14, <1>15 DEF g, C

-----------------------------------------------------------------------------
(* The inductive invariant.                                                *)

(* The types of everything but the headers. *)
Scalars ==
  /\ pc \in {"init", "idle", "walk"} /\ s_head \in {0, Null}
  /\ req \in Nat /\ size \in 0 .. SIZE_WRAP - 1 /\ cur \in Addr \cup {Null}
  /\ DOMAIN live \subseteq Addr /\ freed \subseteq Addr

(* The list begins at s_head, and there is none before heap_init. *)
HeadFirst ==
  /\ s_head = Null => blocks = {}
  /\ s_head # Null => 0 \in blocks
  /\ pc = "init" => s_head = Null

(* UsedIffOwned, block by block and pointer by pointer. *)
Owned ==
  /\ \A p \in DOMAIN live : p - HDR \in blocks /\ ~hdr[p - HDR].free
  /\ \A b \in blocks : ~hdr[b].free => b + HDR \in DOMAIN live

(* A pointer that may be freed again is nobody's. *)
FreedNotOwned == freed \cap DOMAIN live = {}

(* No two free neighbours. *)
AllMerged == \A b \in blocks : Merged(hdr, b)

(* kmalloc's size is a rounded request, its cursor is on the list, and the *)
(* blocks it has passed do not fit.                                        *)
WalkSoFar ==
  pc = "walk" =>
    /\ size % ALIGN = 0 /\ req >= 1 /\ size >= req
    /\ cur \in blocks \cup {Null}
    /\ \A b \in blocks : cur = Null \/ b < cur => ~Fits(b)

IInv ==
  /\ Scalars
  /\ Layout(hdr, blocks)
  /\ HeadFirst
  /\ Owned
  /\ AtLeastSize
  /\ FreedNotOwned
  /\ AllMerged
  /\ WalkSoFar

(* With no headers there is no list. *)
LEMMA InitEstablishes == Init => IInv
<1> SUFFICES ASSUME Init PROVE IInv
  OBVIOUS
<1> USE DEF Init
<1>1. DOMAIN hdr = {} /\ DOMAIN live = {}
  OBVIOUS
<1>2. Scalars
  BY <1>1, Constants DEF Scalars
<1>3. Layout(hdr, blocks)
  BY <1>1 DEF Layout, Typed, Linked, BackLinked, Apart, Even, StaleFree
<1>4. HeadFirst
  BY DEF HeadFirst
<1>5. Owned /\ AtLeastSize /\ FreedNotOwned /\ AllMerged
  BY <1>1 DEF Owned, AtLeastSize, FreedNotOwned, AllMerged
<1>6. WalkSoFar
  BY DEF WalkSoFar
<1> QED BY <1>2, <1>3, <1>4, <1>5, <1>6 DEF IInv

(* heap_init lays out one free block, or none. *)
LEMMA HeapInitPreserves ==
  ASSUME IInv, NEW ok \in BOOLEAN, heap_init(ok)
  PROVE  IInv'
<1>1. /\ pc = "init" /\ pc' = "idle" /\ s_head = Null /\ blocks = {}
      /\ UNCHANGED <<req, size, cur, live, freed>>
  BY DEF IInv, HeadFirst, heap_init
<1>2. DOMAIN live = {}
  BY <1>1 DEF IInv, Owned
<1>3. Scalars' /\ Owned' /\ AtLeastSize' /\ FreedNotOwned' /\ WalkSoFar'
      /\ HeadFirst' /\ Layout(hdr', blocks') /\ AllMerged'
  <2>1. WalkSoFar'
    BY <1>1 DEF WalkSoFar
  <2>2. FreedNotOwned' /\ AtLeastSize'
    BY <1>1, <1>2 DEF FreedNotOwned, AtLeastSize
  <2>3. CASE ~ok
    <3>1. UNCHANGED <<hdr, s_head, blocks>>
      BY <2>3 DEF heap_init
    <3>2. Scalars'
      BY <1>1, <3>1 DEF IInv, Scalars
    <3>3. Owned' /\ HeadFirst' /\ Layout(hdr', blocks') /\ AllMerged'
      BY <1>1, <1>2, <3>1 DEF IInv, Owned, HeadFirst, AllMerged
    <3> QED BY <2>1, <2>2, <3>2, <3>3
  <2>4. CASE ok
    <3>1. /\ hdr' = [a \in {0} |-> [size |-> POOL - HDR, free |-> TRUE,
                                    next |-> Null, prev |-> Null]]
          /\ s_head' = 0 /\ blocks' = {0}
      BY <2>4 DEF heap_init
    <3>2. /\ DOMAIN hdr' = {0} /\ hdr'[0].size = POOL - HDR /\ hdr'[0].free
          /\ hdr'[0].next = Null /\ hdr'[0].prev = Null
      BY <3>1
    <3>3. POOL - HDR \in Nat /\ 0 \in Addr /\ (POOL - HDR) % ALIGN = 0
      <4>1. POOL \in Nat /\ HDR \in Nat /\ POOL % ALIGN = 0 /\ HDR % ALIGN = 0
            /\ POOL >= HDR
        BY HeapAssumption
      <4>2. (POOL - HDR) % ALIGN = 0
        BY <4>1, Multiples
      <4> QED BY <4>1, <4>2, Constants DEF Addr
    <3>4. hdr'[0] \in Header
      BY <3>1, <3>3 DEF Header
    <3>5. End(hdr', 0) = POOL
      BY <3>2, Constants DEF End
    <3>6. Layout(hdr', blocks')
      <4>1. Typed(hdr', blocks')
        BY <3>1, <3>2, <3>3, <3>4 DEF Typed
      <4>2. Linked(hdr', blocks') /\ BackLinked(hdr', blocks')
        BY <3>1, <3>2, <3>5 DEF Linked, BackLinked
      <4>3. Apart(hdr', blocks') /\ Even(hdr', blocks') /\ StaleFree(hdr', blocks')
        BY <3>1, <3>2, <3>3 DEF Apart, Even, StaleFree
      <4> QED BY <4>1, <4>2, <4>3 DEF Layout
    <3>7. Scalars'
      BY <1>1, <3>1 DEF IInv, Scalars
    <3>8. Owned' /\ HeadFirst' /\ AllMerged'
      BY <1>1, <1>2, <3>1, <3>2 DEF Owned, HeadFirst, AllMerged, Merged, Null
    <3> QED BY <2>1, <2>2, <3>6, <3>7, <3>8
  <2> QED BY <2>3, <2>4
<1> QED BY <1>3 DEF IInv

(* Entering kmalloc: the walk begins at the head, with nothing before it. *)
LEMMA KmallocPreserves ==
  ASSUME IInv, RequestsFit, NEW n \in Requests, kmalloc(n)
  PROVE  IInv'
<1>1. UNCHANGED <<hdr, s_head, blocks, live, freed>> /\ pc = "idle"
  BY DEF kmalloc
<1>2. CASE n = 0
  BY <1>1, <1>2 DEF kmalloc, IInv, Scalars, HeadFirst, Owned, AtLeastSize,
       FreedNotOwned, AllMerged, WalkSoFar
<1>3. CASE n # 0
  <2>1. pc' = "walk" /\ req' = n /\ size' = RoundUp(n) /\ cur' = s_head
    BY <1>3 DEF kmalloc
  <2>2. n \in Nat /\ n >= 1 /\ n + ALIGN - 1 < SIZE_WRAP
    BY <1>3, HeapAssumption DEF RequestsFit
  <2>3. size' \in 0 .. SIZE_WRAP - 1 /\ size' >= n /\ size' % ALIGN = 0
    BY <2>1, <2>2, RoundUpFits
  <2>4. 0 \in Addr
    BY Constants DEF Addr
  <2>5. Scalars'
    BY <1>1, <2>1, <2>2, <2>3, <2>4 DEF IInv, Scalars
  <2>6. HeadFirst' /\ Owned' /\ AtLeastSize' /\ FreedNotOwned' /\ AllMerged'
        /\ Layout(hdr', blocks')
    BY <1>1, <2>1 DEF IInv, HeadFirst, Owned, AtLeastSize, FreedNotOwned, AllMerged
  <2>7. WalkSoFar'
    <3>1. cur' \in blocks \cup {Null}
      BY <2>1 DEF IInv, Scalars, HeadFirst
    <3>2. \A b \in blocks : ~(cur' = Null) /\ ~(b < cur')
      <4>1. \A b \in blocks : b \in Nat
        BY DEF IInv, Layout, Typed, Addr
      <4> QED BY <2>1, <4>1 DEF IInv, Scalars, HeadFirst, Null
    <3> QED BY <1>1, <2>1, <2>2, <2>3, <3>1, <3>2 DEF WalkSoFar
  <2> QED BY <2>5, <2>6, <2>7 DEF IInv
<1> QED BY <1>2, <1>3

(* One step of the walk: only the block under the cursor lies between the  *)
(* old and the new position.                                               *)
LEMMA NextHeaderPreserves == IInv /\ kmalloc_next => IInv'
<1> SUFFICES ASSUME IInv, kmalloc_next PROVE IInv'
  OBVIOUS
<1>1. /\ pc = "walk" /\ cur \in DOMAIN hdr /\ ~Fits(cur) /\ cur' = hdr[cur].next
      /\ UNCHANGED <<pc, hdr, s_head, req, size, blocks, live, freed>>
  BY DEF kmalloc_next
<1>2. /\ size % ALIGN = 0 /\ req >= 1 /\ size >= req
      /\ cur \in blocks \cup {Null}
      /\ \A b \in blocks : cur = Null \/ b < cur => ~Fits(b)
  BY <1>1 DEF IInv, WalkSoFar
<1>3. Typed(hdr, blocks) /\ Linked(hdr, blocks) /\ Apart(hdr, blocks)
  BY DEF IInv, Layout
<1>4. cur \in blocks
  BY <1>1, <1>2, <1>3, Fields DEF Null
<1>5. cur' \in Addr \cup {Null} /\ cur' \in blocks \cup {Null}
  BY <1>1, <1>3, <1>4, BlockBounds, Fields
<1>6. ASSUME NEW b \in blocks, cur' = Null \/ b < cur'
      PROVE  ~Fits(b)
  <2>1. /\ b \in Nat /\ cur \in Nat /\ End(hdr, b) <= POOL
        /\ End(hdr, b) = b + HDR + hdr[b].size /\ hdr[b].size \in Nat
        /\ (hdr[cur].next = Null <=> End(hdr, cur) = POOL)
        /\ hdr[cur].next # Null => hdr[cur].next = End(hdr, cur)
    BY <1>3, <1>4, BlockBounds
  <2>2. CASE b < cur
    BY <1>2, <2>2
  <2>3. CASE b = cur
    BY <1>1, <2>3
  <2>4. CASE cur < b
    <3>1. End(hdr, cur) <= b
      BY <1>3, <1>4, <2>4 DEF Apart
    <3>2. b < POOL /\ ~(b < Null)
      BY <2>1, Constants DEF Null
    <3>3. End(hdr, cur) \in Nat
      BY <1>1, <1>3, Fields
    <3>4. CASE hdr[cur].next = Null
      BY <2>1, <3>1, <3>2, <3>4, Constants
    <3>5. CASE hdr[cur].next # Null
      BY <1>1, <1>6, <2>1, <3>1, <3>3, <3>5
    <3> QED BY <3>4, <3>5
  <2> QED BY <2>1, <2>2, <2>3, <2>4
<1>7. WalkSoFar'
  BY <1>1, <1>2, <1>5, <1>6 DEF WalkSoFar, Fits
<1>8. Scalars'
  BY <1>1, <1>5 DEF IInv, Scalars
<1>9. HeadFirst' /\ Owned' /\ AtLeastSize' /\ FreedNotOwned' /\ AllMerged'
      /\ Layout(hdr', blocks')
  BY <1>1 DEF IInv, HeadFirst, Owned, AtLeastSize, FreedNotOwned, AllMerged
<1> QED BY <1>7, <1>8, <1>9 DEF IInv

(* Leaving kmalloc empty-handed. *)
LEMMA FailPreserves == IInv /\ kmalloc_fail => IInv'
<1> SUFFICES ASSUME IInv, kmalloc_fail PROVE IInv'
  OBVIOUS
<1>1. /\ pc' = "idle" /\ req' = 0 /\ size' = 0 /\ cur' = Null
      /\ UNCHANGED <<hdr, s_head, blocks, live, freed>>
  BY DEF kmalloc_fail, Return
<1>2. Scalars'
  BY <1>1, Constants DEF IInv, Scalars
<1>3. HeadFirst' /\ Owned' /\ AtLeastSize' /\ FreedNotOwned' /\ AllMerged'
      /\ Layout(hdr', blocks') /\ WalkSoFar'
  BY <1>1 DEF IInv, HeadFirst, Owned, AtLeastSize, FreedNotOwned, AllMerged, WalkSoFar
<1> QED BY <1>2, <1>3 DEF IInv

(* kmalloc_take on the headers is TakeEffect's step. *)
LEMMA TakeIs ==
  ASSUME IInv, kmalloc_take
  PROVE  /\ cur \in blocks /\ hdr[cur].free /\ hdr[cur].size >= size
         /\ hdr' = HeadersTaken(hdr, cur, size, req)
         /\ blocks' = BlocksCut(hdr, blocks, cur, size)
         /\ DOMAIN live' = DOMAIN live \cup {cur + HDR}
         /\ live'[cur + HDR] = req
         /\ \A q \in DOMAIN live \ {cur + HDR} : live'[q] = live[q]
         /\ freed' \subseteq freed \ {cur + HDR}
         /\ cur + HDR \in Addr
         /\ size % ALIGN = 0 /\ size >= req /\ size \in Nat /\ req \in Nat
         /\ req >= 1
<1>1. /\ pc = "walk" /\ cur \in DOMAIN hdr /\ Fits(cur)
  BY DEF kmalloc_take
<1>2. /\ size % ALIGN = 0 /\ req >= 1 /\ size >= req
      /\ cur \in blocks \cup {Null}
  BY <1>1 DEF IInv, WalkSoFar
<1>3. Typed(hdr, blocks) /\ Linked(hdr, blocks)
  BY DEF IInv, Layout
<1>4. cur \in blocks
  BY <1>1, <1>2, <1>3, Fields DEF Null
<1>5. size \in Nat /\ req \in Nat
  BY Constants DEF IInv, Scalars
<1>6. hdr[cur].free /\ hdr[cur].size >= size
  BY <1>1 DEF Fits
<1>7. /\ Split(cur) = SplitIn(hdr, cur, size, cur + HDR + size)
      /\ CanSplit(cur) = WorthCutting(hdr, cur, size)
      /\ Written(cur + HDR) = Overwritten(cur, req)
  BY Zenon DEF Split, SplitIn, NewHeader, NotOverlapping, Keep, CanSplit,
       WorthCutting, Written, Overwritten
<1>8. hdr' = HeadersTaken(hdr, cur, size, req)
  BY <1>7, Zenon DEF kmalloc_take, MarkUsed, HeadersTaken, HeadersUsed, HeadersCut
<1>9. blocks' = BlocksCut(hdr, blocks, cur, size)
  BY <1>7, Zenon DEF kmalloc_take, BlocksCut
<1>10. /\ live' = [q \in DOMAIN live \cup {cur + HDR} |->
                     IF q = cur + HDR THEN req ELSE live[q]]
       /\ freed' = {q \in freed : q - HDR \in DOMAIN hdr' /\ q # cur + HDR}
  BY Zenon DEF kmalloc_take
<1>11. cur + HDR \in Addr
  BY <1>2, <1>3, <1>4, <1>5, <1>6, BlockBounds, Constants DEF Addr
<1> QED BY <1>2, <1>4, <1>5, <1>6, <1>8, <1>9, <1>10, <1>11

(* Taking a block makes its caller the owner of it and of nothing else. *)
LEMMA TakePreserves == IInv /\ kmalloc_take => IInv'
<1> SUFFICES ASSUME IInv, kmalloc_take PROVE IInv'
  OBVIOUS
<1>1. /\ cur \in blocks /\ hdr[cur].free /\ hdr[cur].size >= size
      /\ hdr' = HeadersTaken(hdr, cur, size, req)
      /\ blocks' = BlocksCut(hdr, blocks, cur, size)
      /\ DOMAIN live' = DOMAIN live \cup {cur + HDR}
      /\ live'[cur + HDR] = req
      /\ \A q \in DOMAIN live \ {cur + HDR} : live'[q] = live[q]
      /\ freed' \subseteq freed \ {cur + HDR}
      /\ cur + HDR \in Addr
      /\ size % ALIGN = 0 /\ size >= req /\ size \in Nat /\ req \in Nat
  BY TakeIs
<1>2. Layout(hdr, blocks) /\ \A c \in blocks : Merged(hdr, c)
  BY DEF IInv, AllMerged
<1>3. /\ Layout(hdr', blocks') /\ blocks \subseteq blocks'
      /\ hdr'[cur].size >= req /\ ~hdr'[cur].free
      /\ \A c \in blocks \ {cur} :
           hdr'[c].size = hdr[c].size /\ hdr'[c].free = hdr[c].free
      /\ \A c \in blocks' \ blocks : hdr'[c].free
      /\ \A c \in blocks' : Merged(hdr', c)
  BY <1>1, <1>2, TakeEffect
<1>4. /\ pc' = "idle" /\ req' = 0 /\ size' = 0 /\ cur' = Null
      /\ s_head' = s_head /\ pc = "walk"
  BY DEF kmalloc_take, Return
<1>5. cur \in Nat /\ HDR \in Nat /\ DOMAIN live \subseteq Nat
  <2>1. cur \in Addr /\ DOMAIN live \subseteq Addr
    BY <1>1, <1>2 DEF Layout, Typed, IInv, Scalars
  <2> QED BY <2>1, Constants DEF Addr
<1>6. Scalars'
  BY <1>1, <1>4, Constants DEF IInv, Scalars
<1>7. HeadFirst'
  BY <1>1, <1>3, <1>4 DEF IInv, HeadFirst
<1>8. \A p \in DOMAIN live : p - HDR \in blocks \ {cur}
  BY <1>1 DEF IInv, Owned
<1>9. Owned'
  <2>1. ASSUME NEW p \in DOMAIN live'
        PROVE  p - HDR \in blocks' /\ ~hdr'[p - HDR].free
    <3>1. CASE p = cur + HDR
      <4>1. p - HDR = cur
        BY <1>5, <3>1
      <4> QED BY <1>1, <1>3, <4>1
    <3>2. CASE p \in DOMAIN live
      BY <1>3, <1>8, <3>2 DEF IInv, Owned
    <3> QED BY <1>1, <2>1, <3>1, <3>2
  <2>2. ASSUME NEW b \in blocks', ~hdr'[b].free
        PROVE  b + HDR \in DOMAIN live'
    <3>1. b \in blocks
      BY <1>3, <2>2
    <3>2. CASE b = cur
      BY <1>1, <3>2
    <3>3. CASE b # cur
      BY <1>1, <1>3, <2>2, <3>1, <3>3 DEF IInv, Owned
    <3> QED BY <3>2, <3>3
  <2> QED BY <2>1, <2>2 DEF Owned
<1>10. AtLeastSize'
  <2> SUFFICES ASSUME NEW p \in DOMAIN live'
               PROVE  hdr'[p - HDR].size >= live'[p]
    BY DEF AtLeastSize
  <2>1. CASE p = cur + HDR
    <3>1. p - HDR = cur
      BY <1>5, <2>1
    <3> QED BY <1>1, <1>3, <2>1, <3>1
  <2>2. CASE p \in DOMAIN live /\ p # cur + HDR
    <3>1. hdr'[p - HDR].size = hdr[p - HDR].size /\ live'[p] = live[p]
      BY <1>1, <1>3, <1>8, <2>2
    <3> QED BY <2>2, <3>1 DEF IInv, AtLeastSize
  <2> QED BY <1>1, <2>1, <2>2
<1>11. FreedNotOwned'
  BY <1>1 DEF IInv, FreedNotOwned
<1>12. AllMerged' /\ WalkSoFar'
  BY <1>3, <1>4 DEF AllMerged, WalkSoFar
<1> QED BY <1>3, <1>6, <1>7, <1>9, <1>10, <1>11, <1>12 DEF IInv

(* A kfree that does anything is one of an owned block: what the caller    *)
(* freed before is marked free, in the list or as a stale header.          *)
LEMMA FreeIs ==
  ASSUME IInv, NEW p \in DOMAIN live \cup freed \cup {Null}, kfree(p)
  PROVE  \/ UNCHANGED vars
         \/ /\ p \in DOMAIN live /\ p - HDR \in blocks /\ ~hdr[p - HDR].free
            /\ hdr' = MergedBoth(hdr, p - HDR)
            /\ blocks' = BlocksAfter(hdr, blocks, p - HDR)
            /\ DOMAIN live' = DOMAIN live \ {p}
            /\ \A q \in DOMAIN live \ {p} : live'[q] = live[q]
            /\ freed' = freed \cup {p}
            /\ UNCHANGED <<pc, s_head, req, size, cur>> /\ pc = "idle"
<1>1. UNCHANGED <<pc, s_head, req, size, cur>> /\ pc = "idle"
  BY DEF kfree
<1>2. CASE ~(p # Null /\ p - HDR \in DOMAIN hdr /\ ~hdr[p - HDR].free)
  <2>1. UNCHANGED <<hdr, blocks, live, freed>>
    BY <1>2 DEF kfree
  <2> QED BY <1>1, <2>1 DEF vars
<1>3. CASE p # Null /\ p - HDR \in DOMAIN hdr /\ ~hdr[p - HDR].free
  <2>1. /\ Release(p - HDR)
        /\ live' = Restrict_to(live, DOMAIN live \ {p})
        /\ freed' = freed \cup {p}
    BY <1>3 DEF kfree
  <2>2. p - HDR \in blocks
    BY <1>3 DEF IInv, Layout, StaleFree
  <2>3. p \in Nat
    <3>1. p \in Addr
      BY <1>3 DEF IInv, Scalars
    <3> QED BY <3>1 DEF Addr
  <2>4. p \in DOMAIN live
    <3>1. (p - HDR) + HDR = p
      BY <2>3, Constants
    <3> QED BY <1>3, <2>2, <3>1 DEF IInv, Owned
  <2>5. hdr' = MergedBoth(hdr, p - HDR)
        /\ blocks' = BlocksAfter(hdr, blocks, p - HDR)
    BY <2>1, Zenon DEF Release, MergedBoth, MergedNext, Marked, BlocksAfter
  <2>6. DOMAIN live' = DOMAIN live \ {p}
        /\ \A q \in DOMAIN live \ {p} : live'[q] = live[q]
    BY <2>1 DEF Restrict_to
  <2> QED BY <1>1, <1>3, <2>1, <2>2, <2>4, <2>5, <2>6
<1> QED BY <1>2, <1>3

(* kfree returns one block to the list and leaves all others owned. *)
LEMMA KfreePreserves ==
  ASSUME IInv, NEW p \in DOMAIN live \cup freed \cup {Null}, kfree(p)
  PROVE  IInv'
<1>1. CASE UNCHANGED vars
  BY <1>1 DEF vars, IInv, Scalars, HeadFirst, Owned, AtLeastSize, FreedNotOwned,
              AllMerged, WalkSoFar, Fits
<1>2. CASE /\ p \in DOMAIN live /\ p - HDR \in blocks /\ ~hdr[p - HDR].free
           /\ hdr' = MergedBoth(hdr, p - HDR)
           /\ blocks' = BlocksAfter(hdr, blocks, p - HDR)
           /\ DOMAIN live' = DOMAIN live \ {p}
           /\ \A q \in DOMAIN live \ {p} : live'[q] = live[q]
           /\ freed' = freed \cup {p}
           /\ UNCHANGED <<pc, s_head, req, size, cur>> /\ pc = "idle"
  <2>1. PICK b \in blocks : b = p - HDR
    BY <1>2
  <2>2. Layout(hdr, blocks) /\ \A c \in blocks : Merged(hdr, c)
    BY DEF IInv, AllMerged
  <2>3. /\ Layout(hdr', blocks') /\ blocks' \subseteq blocks
        /\ (0 \in blocks => 0 \in blocks')
        /\ \A c \in blocks' : Merged(hdr', c)
        /\ \A c \in blocks : c # b /\ ~hdr[c].free =>
             c \in blocks' /\ ~hdr'[c].free /\ hdr'[c].size = hdr[c].size
        /\ \A c \in blocks' : ~hdr'[c].free => c # b /\ ~hdr[c].free
    <3>1. ~hdr[b].free /\ hdr' = MergedBoth(hdr, b)
          /\ blocks' = BlocksAfter(hdr, blocks, b)
      BY <1>2, <2>1
    <3> QED BY <2>2, <3>1, ReleaseEffect
  <2>4. \A q \in DOMAIN live : q # p => q - HDR # b
    <3>1. DOMAIN live \subseteq Int
      BY DEF IInv, Scalars, Addr
    <3> QED BY <1>2, <2>1, <3>1, Constants
  <2>5. Scalars'
    BY <1>2 DEF IInv, Scalars
  <2>6. HeadFirst'
    BY <1>2, <2>3 DEF IInv, HeadFirst
  <2>7. Owned'
    <3>1. \A q \in DOMAIN live' : q - HDR \in blocks' /\ ~hdr'[q - HDR].free
      BY <1>2, <2>3, <2>4 DEF IInv, Owned
    <3>2. ASSUME NEW c \in blocks', ~hdr'[c].free
          PROVE  c + HDR \in DOMAIN live'
      <4>1. c \in blocks /\ c # b /\ ~hdr[c].free
        BY <2>3, <3>2
      <4>2. c + HDR \in DOMAIN live
        BY <4>1 DEF IInv, Owned
      <4>3. c \in Nat
        BY <2>2, <4>1 DEF Layout, Typed, Addr
      <4>4. c + HDR # p
        BY <2>1, <4>1, <4>3, Constants
      <4> QED BY <1>2, <4>2, <4>4
    <3> QED BY <3>1, <3>2 DEF Owned
  <2>8. AtLeastSize'
    <3> SUFFICES ASSUME NEW q \in DOMAIN live'
                 PROVE  hdr'[q - HDR].size >= live'[q]
      BY DEF AtLeastSize
    <3>1. q \in DOMAIN live /\ q # p /\ live'[q] = live[q]
      BY <1>2
    <3>2. q - HDR \in blocks /\ q - HDR # b /\ ~hdr[q - HDR].free
      BY <2>4, <3>1 DEF IInv, Owned
    <3>3. hdr'[q - HDR].size = hdr[q - HDR].size
      BY <2>3, <3>2
    <3> QED BY <3>1, <3>3 DEF IInv, AtLeastSize
  <2>9. FreedNotOwned'
    BY <1>2 DEF IInv, FreedNotOwned
  <2>10. AllMerged' /\ WalkSoFar'
    BY <1>2, <2>3 DEF AllMerged, WalkSoFar
  <2> QED BY <2>3, <2>5, <2>6, <2>7, <2>8, <2>9, <2>10 DEF IInv
<1> QED BY <1>1, <1>2, FreeIs

(* Every step keeps the invariant. *)
LEMMA NextPreserves == RequestsFit /\ IInv /\ [Next]_vars => IInv'
<1> SUFFICES ASSUME RequestsFit, IInv, [Next]_vars PROVE IInv'
  OBVIOUS
<1>1. CASE UNCHANGED vars
  BY <1>1 DEF vars, IInv, Scalars, HeadFirst, Owned, AtLeastSize, FreedNotOwned,
              AllMerged, WalkSoFar, Fits
<1>2. CASE \E ok \in BOOLEAN : heap_init(ok)
  BY <1>2, HeapInitPreserves
<1>3. CASE \E n \in Requests : kmalloc(n)
  BY <1>3, KmallocPreserves
<1>4. CASE kmalloc_take
  BY <1>4, TakePreserves
<1>5. CASE kmalloc_next
  BY <1>5, NextHeaderPreserves
<1>6. CASE kmalloc_fail
  BY <1>6, FailPreserves
<1>7. CASE \E p \in DOMAIN live \cup freed \cup {Null} : kfree(p)
  BY <1>7, KfreePreserves
<1> QED BY <1>1, <1>2, <1>3, <1>4, <1>5, <1>6, <1>7 DEF Next

-----------------------------------------------------------------------------
(* What the invariant says of the states.                                  *)

(* The types. *)
LEMMA TypesFollow == IInv => TypeOK
  BY DEF IInv, Scalars, Layout, Typed, TypeOK

(* The list is a tiling. *)
LEMMA TilingFollows == IInv => Tiling
<1> SUFFICES ASSUME IInv PROVE Tiling
  OBVIOUS
<1>1. blocks \subseteq DOMAIN hdr
  BY DEF IInv, Layout, Typed
<1>2. s_head # Null => 0 \in blocks /\ hdr[0].prev = Null
  BY DEF IInv, HeadFirst, Layout, BackLinked
<1>3. \A b \in blocks :
        /\ hdr[b].size % ALIGN = 0
        /\ hdr[b].next = IF End(hdr, b) = POOL THEN Null ELSE End(hdr, b)
        /\ hdr[b].next # Null =>
             hdr[b].next \in blocks /\ hdr[hdr[b].next].prev = b
  BY DEF IInv, Layout, Linked, Even
<1>4. \A b, c \in blocks : b < c => End(hdr, b) <= c
  BY DEF IInv, Layout, Apart
<1> QED BY <1>1, <1>2, <1>3, <1>4 DEF Tiling

(* Used blocks and owned pointers correspond. *)
LEMMA OwnershipFollows == IInv => UsedIffOwned
<1> SUFFICES ASSUME IInv PROVE UsedIffOwned
  OBVIOUS
<1>1. \A p \in DOMAIN live : p - HDR \in blocks /\ ~hdr[p - HDR].free
  BY DEF IInv, Owned
<1>2. ASSUME NEW b \in blocks, ~hdr[b].free
      PROVE  \E p \in DOMAIN live : b = p - HDR
  <2>1. b + HDR \in DOMAIN live
    BY <1>2 DEF IInv, Owned
  <2>2. b \in Nat
    BY DEF IInv, Layout, Typed, Addr
  <2>3. b = (b + HDR) - HDR
    BY <2>2, Constants
  <2> QED BY <2>1, <2>3
<1> QED BY <1>1, <1>2 DEF UsedIffOwned

(* A heap nobody uses is one block again: a free block 0 has no free       *)
(* successor, so it has none, ends at the end of the pool and leaves no    *)
(* room for another.                                                       *)
LEMMA CoalescedFollows == IInv => Coalesced
<1> SUFFICES ASSUME IInv PROVE Coalesced
  OBVIOUS
<1>1. \A b \in blocks :
        hdr[b].free /\ hdr[b].next # Null => ~hdr[hdr[b].next].free
  BY DEF IInv, AllMerged, Merged
<1>2. ASSUME s_head # Null, DOMAIN live = {}
      PROVE  blocks = {0}
  <2>1. 0 \in blocks
    BY <1>2 DEF IInv, HeadFirst
  <2>2. \A b \in blocks : hdr[b].free
    BY <1>2 DEF IInv, Owned
  <2>3. Typed(hdr, blocks) /\ Linked(hdr, blocks) /\ Apart(hdr, blocks)
    BY DEF IInv, Layout
  <2>4. hdr[0].next = Null
    BY <1>1, <2>1, <2>2, <2>3, BlockBounds
  <2>5. End(hdr, 0) = POOL
    BY <2>1, <2>3, <2>4, BlockBounds
  <2>6. ASSUME NEW c \in blocks, c # 0 PROVE FALSE
    <3>1. c \in Nat /\ c < POOL
      BY <2>3, Constants DEF Typed, Addr
    <3>2. End(hdr, 0) <= c
      BY <2>1, <2>3, <2>6, <3>1 DEF Apart
    <3> QED BY <2>5, <3>1, <3>2, Constants
  <2> QED BY <2>1, <2>6
<1> QED BY <1>1, <1>2 DEF Coalesced

(* What a step may do to an owned block: nothing. *)
LEMMA OwnedStep ==
  ASSUME IInv, [Next]_vars
  PROVE  \A p \in DOMAIN live \cap DOMAIN live' :
           /\ live'[p] = live[p]
           /\ hdr'[p - HDR].size = hdr[p - HDR].size
           /\ ~hdr'[p - HDR].free
<1> SUFFICES ASSUME NEW p \in DOMAIN live \cap DOMAIN live'
             PROVE  /\ live'[p] = live[p]
                    /\ hdr'[p - HDR].size = hdr[p - HDR].size
                    /\ ~hdr'[p - HDR].free
  OBVIOUS
<1>1. p - HDR \in blocks /\ ~hdr[p - HDR].free /\ p \in Nat
  BY DEF IInv, Owned, Scalars, Addr
<1>2. Layout(hdr, blocks) /\ \A c \in blocks : Merged(hdr, c)
  BY DEF IInv, AllMerged
<1>3. CASE live' = live /\ hdr' = hdr
  BY <1>1, <1>3
<1>4. CASE UNCHANGED vars \/ kmalloc_next \/ kmalloc_fail
           \/ \E n \in Requests : kmalloc(n)
  BY <1>3, <1>4 DEF vars, kmalloc_next, kmalloc_fail, kmalloc
<1>5. CASE \E ok \in BOOLEAN : heap_init(ok)
  BY <1>1, <1>5 DEF IInv, HeadFirst, heap_init
<1>6. CASE kmalloc_take
  <2>1. /\ cur \in blocks /\ hdr[cur].free /\ hdr[cur].size >= size
        /\ hdr' = HeadersTaken(hdr, cur, size, req)
        /\ \A q \in DOMAIN live \ {cur + HDR} : live'[q] = live[q]
        /\ size % ALIGN = 0 /\ size >= req /\ size \in Nat /\ req \in Nat
    BY <1>6, TakeIs
  <2>2. \A c \in blocks \ {cur} :
          hdr'[c].size = hdr[c].size /\ hdr'[c].free = hdr[c].free
    BY <1>2, <2>1, TakeEffect
  <2>3. p - HDR # cur
    BY <1>1, <2>1
  <2>4. p # cur + HDR
    <3>1. cur \in Nat
      BY <1>2, <2>1 DEF Layout, Typed, Addr
    <3> QED BY <1>1, <2>3, <3>1, Constants
  <2> QED BY <1>1, <2>1, <2>2, <2>3, <2>4
<1>7. ASSUME NEW q \in DOMAIN live \cup freed \cup {Null}, kfree(q)
      PROVE  /\ live'[p] = live[p]
             /\ hdr'[p - HDR].size = hdr[p - HDR].size
             /\ ~hdr'[p - HDR].free
  <2>1. CASE UNCHANGED vars
    BY <1>4, <2>1
  <2>2. CASE /\ q \in DOMAIN live /\ q - HDR \in blocks /\ ~hdr[q - HDR].free
             /\ hdr' = MergedBoth(hdr, q - HDR)
             /\ DOMAIN live' = DOMAIN live \ {q}
             /\ \A x \in DOMAIN live \ {q} : live'[x] = live[x]
    <3>1. PICK b \in blocks : b = q - HDR /\ ~hdr[b].free
                              /\ hdr' = MergedBoth(hdr, b)
      BY <2>2
    <3>2. \A c \in blocks : c # b /\ ~hdr[c].free =>
            ~hdr'[c].free /\ hdr'[c].size = hdr[c].size
      <4>1. \A c \in blocks : c # b /\ ~hdr[c].free =>
              /\ c \in BlocksAfter(hdr, blocks, b)
              /\ ~MergedBoth(hdr, b)[c].free
              /\ MergedBoth(hdr, b)[c].size = hdr[c].size
        <5>1. ~hdr[b].free
          BY <3>1
        <5> QED BY <1>2, <5>1, ReleaseEffect
      <4> QED BY <3>1, <4>1, Zenon
    <3>3. p # q /\ q \in Nat
      BY <2>2 DEF IInv, Scalars, Addr
    <3>4. p - HDR # b
      BY <1>1, <3>1, <3>3, Constants
    <3> QED BY <1>1, <2>2, <3>2, <3>3, <3>4
  <2> QED BY <1>7, <2>1, <2>2, FreeIs
<1> QED BY <1>4, <1>5, <1>6, <1>7 DEF Next

(* kmalloc fails only after it has passed every block. *)
LEMMA OomStep ==
  ASSUME IInv, [Next]_vars, pc = "walk", pc' = "idle", live' = live
  PROVE  \A b \in blocks : hdr[b].free => hdr[b].size < size
<1>1. \/ kmalloc_take \/ kmalloc_fail
  BY DEF Next, vars, heap_init, kmalloc, kmalloc_next, kfree
<1>2. CASE kmalloc_take
  <2>1. cur \in blocks /\ hdr[cur].free /\ cur + HDR \in DOMAIN live
    BY <1>2, TakeIs
  <2>2. cur \in Nat
    BY <2>1 DEF IInv, Layout, Typed, Addr
  <2>3. (cur + HDR) - HDR = cur
    BY <2>2, Constants
  <2>4. ~hdr[cur].free
    BY <2>1, <2>3 DEF IInv, Owned
  <2> QED BY <2>1, <2>4
<1>3. CASE kmalloc_fail
  <2>1. cur \in blocks \cup {Null} /\ cur \notin DOMAIN hdr
    BY <1>3 DEF IInv, WalkSoFar, kmalloc_fail
  <2>2. cur = Null
    BY <2>1 DEF IInv, Layout, Typed
  <2>3. \A b \in blocks : ~Fits(b)
    BY <2>2 DEF IInv, WalkSoFar
  <2>4. \A b \in blocks : hdr[b].size \in Nat /\ size \in Nat
    <3>1. Typed(hdr, blocks) /\ Linked(hdr, blocks)
      BY DEF IInv, Layout
    <3> QED BY <3>1, BlockBounds DEF IInv, Scalars
  <2> QED BY <2>3, <2>4 DEF Fits
<1> QED BY <1>1, <1>2, <1>3

-----------------------------------------------------------------------------
(* The theorems.  They need that no request wraps round when rounded up:   *)
(* with such a request kmalloc gives out an empty block for it, and the    *)
(* caller's writes destroy the list.                                       *)

(* The inductive invariant holds in every reachable state. *)
THEOREM Invariant == ASSUME RequestsFit PROVE Spec => []IInv
<1>1. IInv /\ [Next]_vars => IInv'
  BY NextPreserves
<1> QED BY <1>1, InitEstablishes, PTL DEF Spec

(* The headers keep their types: no size goes below zero, no link leaves   *)
(* the pool.                                                               *)
THEOREM TypeCorrect == ASSUME RequestsFit PROVE Spec => []TypeOK
  BY Invariant, TypesFollow, PTL

(* After any sequence of kmalloc and kfree, with blocks freed twice, the   *)
(* list of blocks covers the pool without gap or overlap.                  *)
THEOREM ListTilesPool == ASSUME RequestsFit PROVE Spec => []Tiling
  BY Invariant, TilingFollows, PTL

(* A block is marked used exactly while a caller owns it. *)
THEOREM BlocksAreOwned == ASSUME RequestsFit PROVE Spec => []UsedIffOwned
<1>1. IInv => UsedIffOwned
  BY OwnershipFollows DEF IInv
<1> QED BY <1>1, Invariant, PTL

(* An owned block has room for what its owner asked for. *)
THEOREM BlocksAreLargeEnough == ASSUME RequestsFit PROVE Spec => []AtLeastSize
<1>1. IInv => AtLeastSize
  BY DEF IInv
<1> QED BY <1>1, Invariant, PTL

(* Two merges per kfree are enough: free neighbours never stay apart, and  *)
(* an unused heap is one block.                                            *)
THEOREM FreeBlocksMerge == ASSUME RequestsFit PROVE Spec => []Coalesced
  BY Invariant, CoalescedFollows, PTL

(* No step changes the size, the owner or the flag of an owned block. *)
THEOREM OwnersUndisturbed == ASSUME RequestsFit PROVE Spec => OwnedUntouched
<1>1. IInv /\ [Next]_vars =>
        [\A p \in DOMAIN live \cap DOMAIN live' :
           /\ live'[p] = live[p]
           /\ hdr'[p - HDR].size = hdr[p - HDR].size
           /\ ~hdr'[p - HDR].free]_vars
  BY OwnedStep
<1> QED BY <1>1, Invariant, PTL DEF Spec, OwnedUntouched

(* When kmalloc returns nullptr no free block is large enough. *)
THEOREM OomIsReal == ASSUME RequestsFit PROVE Spec => NoFalseOom
<1>1. IInv /\ [Next]_vars =>
        [pc = "walk" /\ pc' = "idle" /\ live' = live =>
           \A b \in blocks : hdr[b].free => hdr[b].size < size]_vars
  BY OomStep
<1> QED BY <1>1, Invariant, PTL DEF Spec, NoFalseOom
==============================================================================

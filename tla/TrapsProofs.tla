------------------------------ MODULE TrapsProofs ------------------------------
(***************************************************************************)
(* Proofs, for any addresses, any number of tasks, stacks of either        *)
(* alignment and any exceptions, that gdt_init and idt_init build tables   *)
(* the CPU can use, that every trap reaches its stub, that the stubs call  *)
(* C++ on an aligned stack, that the register dump is true, and that every *)
(* task keeps a CPU of its own.                                            *)
(***************************************************************************)
EXTENDS Traps, NumberLemmas, SequenceTheorems

-----------------------------------------------------------------------------
(* Sequences.                                                              *)

(* u is s with t behind it. *)
IsJoin(S, u, s, t) ==
  /\ u \in Seq(S)
  /\ Len(u) = Len(s) + Len(t)
  /\ \A i \in 1 .. Len(s) : u[i] = s[i]
  /\ \A j \in 1 .. Len(t) : u[Len(s) + j] = t[j]

(* u is s from m to n. *)
IsPart(S, u, s, m, n) ==
  /\ u \in Seq(S)
  /\ Len(u) = n - m + 1
  /\ \A i \in 1 .. n - m + 1 : u[i] = s[m + i - 1]

(* A function on 1 .. n is a sequence of length n. *)
LEMMA FunctionsAreSequences ==
  ASSUME NEW S, NEW n \in Nat, NEW u \in [1 .. n -> S]
  PROVE  u \in Seq(S) /\ Len(u) = n
<1>1. u \in Seq(S)
  BY SeqDef
<1>2. Len(u) \in Nat /\ DOMAIN u = 1 .. Len(u)
  BY <1>1, LenProperties
<1>3. DOMAIN u = 1 .. n
  OBVIOUS
<1>4. PICK m \in Nat : m = Len(u) /\ 1 .. m = 1 .. n
  BY <1>2, <1>3
<1>5. m = n
  BY <1>4
<1> QED BY <1>1, <1>4, <1>5

(* What is put behind s, and that s stays. *)
LEMMA Joined ==
  ASSUME NEW S, NEW s \in Seq(S), NEW t \in Seq(S)
  PROVE  IsJoin(S, s \o t, s, t)
<1>1. /\ s \o t \in Seq(S)
      /\ Len(s \o t) = Len(s) + Len(t)
      /\ \A i \in 1 .. Len(s) + Len(t) :
           (s \o t)[i] = IF i <= Len(s) THEN s[i] ELSE t[i - Len(s)]
  BY ConcatProperties
<1>2. Len(s) \in Nat /\ Len(t) \in Nat
  OBVIOUS
<1>3. \A i \in 1 .. Len(s) : (s \o t)[i] = s[i]
  BY <1>1, <1>2
<1>4. ASSUME NEW j \in 1 .. Len(t)
      PROVE  (s \o t)[Len(s) + j] = t[j]
  <2>1. PICK i \in 1 .. Len(s) + Len(t) : i = Len(s) + j /\ ~(i <= Len(s)) /\ i - Len(s) = j
    BY <1>2
  <2> QED BY <1>1, <2>1
<1> QED BY <1>1, <1>3, <1>4 DEF IsJoin

(* Two words. *)
LEMMA Pair ==
  ASSUME NEW x, NEW y
  PROVE  <<x>> \o <<y>> = <<x, y>>
<1>1. PICK a, b, c : a = <<x>> /\ b = <<y>> /\ c = <<x, y>>
  OBVIOUS
<1>2. /\ a \in Seq({x, y}) /\ Len(a) = 1 /\ a[1] = x
      /\ b \in Seq({x, y}) /\ Len(b) = 1 /\ b[1] = y
      /\ c \in Seq({x, y}) /\ Len(c) = 2 /\ c[1] = x /\ c[2] = y
  BY <1>1
<1>3. PICK d : d = a \o b
  OBVIOUS
<1>4. IsJoin({x, y}, d, a, b)
  BY <1>2, <1>3, Joined
<1>5. d \in Seq({x, y}) /\ Len(d) = 2 /\ d[1] = x /\ d[1 + 1] = y
  BY <1>2, <1>4 DEF IsJoin
<1>6. \A i \in 1 .. 2 : d[i] = c[i]
  BY <1>2, <1>5
<1>7. d = c
  BY <1>2, <1>5, <1>6, SeqEqual
<1> QED BY <1>1, <1>3, <1>7, Zenon

(* A part of a sequence. *)
LEMMA Part ==
  ASSUME NEW S, NEW s \in Seq(S), NEW m \in Nat \ {0}, NEW n \in Nat,
         n <= Len(s), m <= n + 1
  PROVE  IsPart(S, SubSeq(s, m, n), s, m, n)
<1>1. \A i \in m .. n : s[i] \in S
  <2>1. \A i \in m .. n : i \in 1 .. Len(s)
    OBVIOUS
  <2> QED BY <2>1, ElementOfSeq
<1>2. /\ SubSeq(s, m, n) \in Seq(S)
      /\ Len(SubSeq(s, m, n)) = IF m <= n THEN n - m + 1 ELSE 0
      /\ \A i \in 1 .. n - m + 1 : SubSeq(s, m, n)[i] = s[m + i - 1]
  BY <1>1, SubSeqProperties
<1> QED BY <1>2 DEF IsPart

-----------------------------------------------------------------------------
(* The bytes of the descriptor tables.                                     *)

Bytes == Seq(D!Byte)

(* An address is eight bytes. *)
LEMMA Address ==
  /\ \A s \in DOMAIN Addr : Addr[s] \in Bytes /\ Len(Addr[s]) = 8
  /\ \A s, r \in DOMAIN Addr : Addr[r] = Addr[s] => r = s
  /\ D!Stubs \cup {<<"kernel_tss", 0>>, <<"kernel_stack_end", 0>>} \subseteq DOMAIN Addr
  /\ VECTORS \in 34 .. 4096
  BY TrapAssumption DEF D!ConstantsOK, Bytes

LEMMA ZeroBytes ==
  ASSUME NEW n \in Nat
  PROVE  /\ D!Zeros(n) \in Bytes /\ Len(D!Zeros(n)) = n
         /\ \A i \in 1 .. n : D!Zeros(n)[i] = 0
<1>1. 0 \in D!Byte
  BY DEF D!Byte
<1>2. D!Zeros(n) \in [1 .. n -> D!Byte]
  BY <1>1 DEF D!Zeros
<1>3. D!Zeros(n) \in Seq(D!Byte)
  BY <1>2, SeqDef
<1> QED BY <1>2, <1>3 DEF Bytes, D!Zeros

(* A limit of up to 16 bits, lowest byte first. *)
LEMMA LowBytes ==
  ASSUME NEW n \in Nat
  PROVE  /\ D!Low16(n) \in Bytes /\ Len(D!Low16(n)) = 2
         /\ D!Low16(n)[1] = n % 256 /\ D!Low16(n)[2] = (n \div 256) % 256
<1>1. n % 256 \in D!Byte /\ (n \div 256) % 256 \in D!Byte
  BY DEF D!Byte
<1> QED BY <1>1 DEF D!Low16, Bytes

(* Limit, access and flags of a segment descriptor of base 0. *)
Flags(limit, g, f) == f = ((g \div 16) * 16) + ((limit \div 2^16) % 16)

LEMMA EntryBytes ==
  ASSUME NEW limit \in Nat, NEW access \in D!Byte, NEW g, NEW f \in D!Byte,
         Flags(limit, g, f)
  PROVE  LET e == D!set_gdt_entry(0, limit, access, g)
         IN  e \in Bytes /\ Len(e) = 8 /\ e[6] = access /\ e[7] = f
<1> DEFINE a == D!Low16(limit)
           b == D!Low16(0)
           t == <<0, access, f, 0>>
<1>1. t \in Seq(D!Byte) /\ Len(t) = 4 /\ t[2] = access /\ t[3] = f
  <2>1. 0 \in D!Byte
    BY DEF D!Byte
  <2> QED BY <2>1
<1>2. a \in Seq(D!Byte) /\ b \in Seq(D!Byte) /\ Len(a) = 2 /\ Len(b) = 2
  BY LowBytes DEF Bytes
<1>3. D!set_gdt_entry(0, limit, access, g) = (a \o b) \o t
  <2>1. (0 \div 2^16) % 256 = 0 /\ (0 \div 2^24) % 256 = 0
    OBVIOUS
  <2> QED BY <2>1, Zenon DEF D!set_gdt_entry, Flags
<1> HIDE DEF a, b, t
<1>4. IsJoin(D!Byte, a \o b, a, b)
  BY <1>2, Joined
<1>5. PICK ab : ab = a \o b
  OBVIOUS
<1>6. ab \in Seq(D!Byte) /\ Len(ab) = 4
  BY <1>2, <1>4, <1>5 DEF IsJoin
<1>7. PICK e : e = ab \o t
  OBVIOUS
<1>8. IsJoin(D!Byte, e, ab, t)
  BY <1>1, <1>6, <1>7, Joined
<1>9. e \in Seq(D!Byte) /\ Len(e) = 8 /\ e[4 + 2] = t[2] /\ e[4 + 3] = t[3]
  BY <1>1, <1>6, <1>8 DEF IsJoin
<1>10. e = D!set_gdt_entry(0, limit, access, g)
  BY <1>3, <1>5, <1>7, Zenon
<1> QED BY <1>1, <1>9, <1>10 DEF Bytes

(* The TSS's descriptor. *)
LEMMA TssBytes ==
  ASSUME NEW base \in Bytes, Len(base) = 8
  PROVE  LET e == D!set_tss_descriptor(base, 103)
         IN  /\ e \in Bytes /\ Len(e) = 16
             /\ e[1] = 103 /\ e[2] = 0 /\ e[6] = 137 /\ e[7] = 0
             /\ \A i \in 1 .. 3 : e[2 + i] = base[i]
             /\ e[8] = base[4]
             /\ \A i \in 1 .. 4 : e[8 + i] = base[4 + i]
<1> DEFINE a == D!Low16(103)
           b == SubSeq(base, 1, 3)
           c == <<137, 0, base[4]>>
           d == SubSeq(base, 5, 8)
           z == D!Zeros(4)
<1>0. base \in Seq(D!Byte)
  BY DEF Bytes
<1>1. a \in Seq(D!Byte) /\ Len(a) = 2 /\ a[1] = 103 /\ a[2] = 0
  <2>1. PICK n \in Nat : n = 103 /\ n % 256 = 103 /\ (n \div 256) % 256 = 0
    OBVIOUS
  <2>2. /\ D!Low16(n) \in Bytes /\ Len(D!Low16(n)) = 2
        /\ D!Low16(n)[1] = n % 256 /\ D!Low16(n)[2] = (n \div 256) % 256
    BY LowBytes
  <2> QED BY <2>1, <2>2, Zenon DEF Bytes
<1>2. b \in Seq(D!Byte) /\ Len(b) = 3 /\ \A i \in 1 .. 3 : b[i] = base[i]
  <2>1. 1 \in Nat \ {0} /\ 3 \in Nat /\ 3 <= Len(base) /\ 1 <= 3 + 1
    OBVIOUS
  <2>2. IsPart(D!Byte, b, base, 1, 3)
    BY <1>0, <2>1, Part, Zenon
  <2> HIDE DEF b
  <2> QED BY <2>2 DEF IsPart
<1>3. c \in Seq(D!Byte) /\ Len(c) = 3 /\ c[1] = 137 /\ c[2] = 0 /\ c[3] = base[4]
  <2>1. 4 \in 1 .. Len(base)
    OBVIOUS
  <2>2. base[4] \in D!Byte
    BY <1>0, <2>1, ElementOfSeq, Zenon
  <2>3. 137 \in D!Byte /\ 0 \in D!Byte
    BY DEF D!Byte
  <2> QED BY <2>2, <2>3
<1>4. d \in Seq(D!Byte) /\ Len(d) = 4 /\ \A i \in 1 .. 4 : d[i] = base[4 + i]
  <2>1. 5 \in Nat \ {0} /\ 8 \in Nat /\ 8 <= Len(base) /\ 5 <= 8 + 1
    OBVIOUS
  <2>2. IsPart(D!Byte, d, base, 5, 8)
    BY <1>0, <2>1, Part, Zenon
  <2> HIDE DEF d
  <2> QED BY <2>2 DEF IsPart
<1>5. z \in Seq(D!Byte) /\ Len(z) = 4
  BY ZeroBytes DEF Bytes
<1>6. D!set_tss_descriptor(base, 103) = (((a \o b) \o c) \o d) \o z
  <2>1. (103 \div 2^16) % 16 = 0 /\ 128 + 9 = 137
    OBVIOUS
  <2> QED BY <2>1, Zenon DEF D!set_tss_descriptor
<1> HIDE DEF a, b, c, d, z
<1>7. PICK p : p = a \o b
  OBVIOUS
<1>8. IsJoin(D!Byte, p, a, b)
  BY <1>1, <1>2, <1>7, Joined
<1>9. /\ p \in Seq(D!Byte) /\ Len(p) = 5
      /\ p[1] = a[1] /\ p[2] = a[2] /\ \A i \in 1 .. 3 : p[2 + i] = b[i]
  BY <1>1, <1>2, <1>8 DEF IsJoin
<1>10. PICK q : q = p \o c
  OBVIOUS
<1>11. IsJoin(D!Byte, q, p, c)
  BY <1>3, <1>9, <1>10, Joined
<1>12. /\ q \in Seq(D!Byte) /\ Len(q) = 8
       /\ \A i \in 1 .. 5 : q[i] = p[i]
       /\ q[5 + 1] = c[1] /\ q[5 + 2] = c[2] /\ q[5 + 3] = c[3]
  BY <1>3, <1>9, <1>11 DEF IsJoin
<1>13. PICK r : r = q \o d
  OBVIOUS
<1>14. IsJoin(D!Byte, r, q, d)
  BY <1>4, <1>12, <1>13, Joined
<1>15. /\ r \in Seq(D!Byte) /\ Len(r) = 12
       /\ \A i \in 1 .. 8 : r[i] = q[i]
       /\ \A i \in 1 .. 4 : r[8 + i] = d[i]
  BY <1>4, <1>12, <1>14 DEF IsJoin
<1>16. PICK e : e = r \o z
  OBVIOUS
<1>17. IsJoin(D!Byte, e, r, z)
  BY <1>5, <1>15, <1>16, Joined
<1>18. e \in Seq(D!Byte) /\ Len(e) = 16 /\ \A i \in 1 .. 12 : e[i] = r[i]
  BY <1>5, <1>15, <1>17 DEF IsJoin
<1>19. \A i \in 1 .. 8 : e[i] = q[i]
  BY <1>15, <1>18
<1>20. e[1] = 103 /\ e[2] = 0 /\ e[6] = 137 /\ e[7] = 0 /\ e[8] = base[4]
  BY <1>1, <1>3, <1>9, <1>12, <1>19
<1>21. \A i \in 1 .. 3 : e[2 + i] = base[i]
  BY <1>2, <1>9, <1>12, <1>19
<1>22. \A i \in 1 .. 4 : e[8 + i] = base[4 + i]
  BY <1>4, <1>15, <1>18
<1>23. e = D!set_tss_descriptor(base, 103)
  BY <1>6, <1>7, <1>10, <1>13, <1>16, Zenon
<1> QED BY <1>18, <1>20, <1>21, <1>22, <1>23 DEF Bytes

(* The bytes of the table that the CPU tests: access and flags of the four *)
(* segments.                                                               *)
SegmentBytes(g) ==
  /\ g \in Seq(D!Byte) /\ Len(g) = 56
  /\ g[14] = 154 /\ g[15] = 175
  /\ g[22] = 146 /\ g[23] = 207
  /\ g[30] = 250 /\ g[31] = 175
  /\ g[38] = 242 /\ g[39] = 207

(* And the descriptor of the TSS at base, behind them. *)
TssAt(g, base) ==
  /\ g[41] = 103 /\ g[42] = 0 /\ g[46] = 137 /\ g[47] = 0
  /\ \A i \in 1 .. 3 : g[42 + i] = base[i]
  /\ g[48] = base[4]
  /\ \A i \in 1 .. 4 : g[48 + i] = base[4 + i]

Tss == Addr[<<"kernel_tss", 0>>]

LEMMA TableBytes == SegmentBytes(D!FullGDT) /\ TssAt(D!FullGDT, Tss)
<1> DEFINE e0 == D!set_gdt_entry(0, 0, 0, 0)
           e1 == D!set_gdt_entry(0, 2^20 - 1, 128 + 16 + 8 + 2, 32 + 128)
           e2 == D!set_gdt_entry(0, 2^20 - 1, 128 + 16 + 2, 128 + 64)
           e3 == D!set_gdt_entry(0, 2^20 - 1, 128 + 96 + 16 + 8 + 2, 32 + 128)
           e4 == D!set_gdt_entry(0, 2^20 - 1, 128 + 96 + 16 + 2, 128 + 64)
           e5 == D!set_tss_descriptor(Tss, 103)
<1>1. D!FullGDT = ((((e0 \o e1) \o e2) \o e3) \o e4) \o e5
  <2>1. D!sizeof_TSS - 1 = 103
    BY DEF D!sizeof_TSS
  <2> QED BY <2>1, Zenon DEF D!FullGDT, Tss
<1>2. {0, 154, 146, 250, 242, 175, 207} \subseteq D!Byte
  BY DEF D!Byte
<1>3. 0 \in Nat
  OBVIOUS
<1>l. PICK l \in Nat : l = 2^20 - 1
  OBVIOUS
<1>m. PICK m : m = 32 + 128
  OBVIOUS
<1>n. PICK n : n = 128 + 64
  OBVIOUS
<1>4. /\ 128 + 16 + 8 + 2 = 154 /\ 128 + 16 + 2 = 146
      /\ 128 + 96 + 16 + 8 + 2 = 250 /\ 128 + 96 + 16 + 2 = 242
  OBVIOUS
<1>5. /\ Flags(0, 0, 0)
      /\ Flags(l, m, 175) /\ Flags(l, n, 207)
  BY <1>l, <1>m, <1>n DEF Flags
<1>6. e0 \in Seq(D!Byte) /\ Len(e0) = 8
  BY <1>2, <1>3, <1>5, EntryBytes DEF Bytes
<1>7. e1 \in Seq(D!Byte) /\ Len(e1) = 8 /\ e1[6] = 154 /\ e1[7] = 175
  <2>1. PICK e : e = D!set_gdt_entry(0, l, 154, m)
    OBVIOUS
  <2>a. 154 \in D!Byte /\ 175 \in D!Byte /\ Flags(l, m, 175)
    BY <1>2, <1>5
  <2>2. e \in Seq(D!Byte) /\ Len(e) = 8 /\ e[6] = 154 /\ e[7] = 175
    BY <2>a, <2>1, EntryBytes DEF Bytes
  <2>3. e = e1
    BY <1>l, <1>m, <1>n, <1>4, <2>1, Zenon
  <2> QED BY <2>2, <2>3, Zenon
<1>8. e2 \in Seq(D!Byte) /\ Len(e2) = 8 /\ e2[6] = 146 /\ e2[7] = 207
  <2>1. PICK e : e = D!set_gdt_entry(0, l, 146, n)
    OBVIOUS
  <2>a. 146 \in D!Byte /\ 207 \in D!Byte /\ Flags(l, n, 207)
    BY <1>2, <1>5
  <2>2. e \in Seq(D!Byte) /\ Len(e) = 8 /\ e[6] = 146 /\ e[7] = 207
    BY <2>a, <2>1, EntryBytes DEF Bytes
  <2>3. e = e2
    BY <1>l, <1>m, <1>n, <1>4, <2>1, Zenon
  <2> QED BY <2>2, <2>3, Zenon
<1>9. e3 \in Seq(D!Byte) /\ Len(e3) = 8 /\ e3[6] = 250 /\ e3[7] = 175
  <2>1. PICK e : e = D!set_gdt_entry(0, l, 250, m)
    OBVIOUS
  <2>a. 250 \in D!Byte /\ 175 \in D!Byte /\ Flags(l, m, 175)
    BY <1>2, <1>5
  <2>2. e \in Seq(D!Byte) /\ Len(e) = 8 /\ e[6] = 250 /\ e[7] = 175
    BY <2>a, <2>1, EntryBytes DEF Bytes
  <2>3. e = e3
    BY <1>l, <1>m, <1>n, <1>4, <2>1, Zenon
  <2> QED BY <2>2, <2>3, Zenon
<1>10. e4 \in Seq(D!Byte) /\ Len(e4) = 8 /\ e4[6] = 242 /\ e4[7] = 207
  <2>1. PICK e : e = D!set_gdt_entry(0, l, 242, n)
    OBVIOUS
  <2>a. 242 \in D!Byte /\ 207 \in D!Byte /\ Flags(l, n, 207)
    BY <1>2, <1>5
  <2>2. e \in Seq(D!Byte) /\ Len(e) = 8 /\ e[6] = 242 /\ e[7] = 207
    BY <2>a, <2>1, EntryBytes DEF Bytes
  <2>3. e = e4
    BY <1>l, <1>m, <1>n, <1>4, <2>1, Zenon
  <2> QED BY <2>2, <2>3, Zenon
<1>11. /\ e5 \in Seq(D!Byte) /\ Len(e5) = 16
       /\ e5[1] = 103 /\ e5[2] = 0 /\ e5[6] = 137 /\ e5[7] = 0
       /\ \A i \in 1 .. 3 : e5[2 + i] = Tss[i]
       /\ e5[8] = Tss[4]
       /\ \A i \in 1 .. 4 : e5[8 + i] = Tss[4 + i]
  <2>1. Tss \in Bytes /\ Len(Tss) = 8
    BY Address DEF Tss
  <2> QED BY <2>1, TssBytes DEF Bytes
<1> HIDE DEF e0, e1, e2, e3, e4, e5
<1>12. PICK a : a = e0 \o e1
  OBVIOUS
<1>13. IsJoin(D!Byte, a, e0, e1)
  BY <1>6, <1>7, <1>12, Joined
<1>14. a \in Seq(D!Byte) /\ Len(a) = 16 /\ a[14] = 154 /\ a[15] = 175
  <2>1. a \in Seq(D!Byte) /\ Len(a) = 16 /\ a[8 + 6] = e1[6] /\ a[8 + 7] = e1[7]
    BY <1>6, <1>7, <1>13 DEF IsJoin
  <2> QED BY <1>7, <2>1
<1>15. PICK b : b = a \o e2
  OBVIOUS
<1>16. IsJoin(D!Byte, b, a, e2)
  BY <1>8, <1>14, <1>15, Joined
<1>17. /\ b \in Seq(D!Byte) /\ Len(b) = 24 /\ b[14] = 154 /\ b[15] = 175
       /\ b[22] = 146 /\ b[23] = 207
  <2>1. /\ b \in Seq(D!Byte) /\ Len(b) = 24 /\ b[14] = a[14] /\ b[15] = a[15]
        /\ b[16 + 6] = e2[6] /\ b[16 + 7] = e2[7]
    BY <1>8, <1>14, <1>16 DEF IsJoin
  <2> QED BY <1>8, <1>14, <2>1
<1>18. PICK c : c = b \o e3
  OBVIOUS
<1>19. IsJoin(D!Byte, c, b, e3)
  BY <1>9, <1>17, <1>18, Joined
<1>20. /\ c \in Seq(D!Byte) /\ Len(c) = 32 /\ c[14] = 154 /\ c[15] = 175
       /\ c[22] = 146 /\ c[23] = 207 /\ c[30] = 250 /\ c[31] = 175
  <2>1. /\ c \in Seq(D!Byte) /\ Len(c) = 32
        /\ \A i \in 1 .. 24 : c[i] = b[i]
        /\ c[24 + 6] = e3[6] /\ c[24 + 7] = e3[7]
    BY <1>9, <1>17, <1>19 DEF IsJoin
  <2> QED BY <1>9, <1>17, <2>1
<1>21. PICK d : d = c \o e4
  OBVIOUS
<1>22. IsJoin(D!Byte, d, c, e4)
  BY <1>10, <1>20, <1>21, Joined
<1>23. /\ d \in Seq(D!Byte) /\ Len(d) = 40 /\ d[14] = 154 /\ d[15] = 175
       /\ d[22] = 146 /\ d[23] = 207 /\ d[30] = 250 /\ d[31] = 175
       /\ d[38] = 242 /\ d[39] = 207
  <2>1. /\ d \in Seq(D!Byte) /\ Len(d) = 40
        /\ \A i \in 1 .. 32 : d[i] = c[i]
        /\ d[32 + 6] = e4[6] /\ d[32 + 7] = e4[7]
    BY <1>10, <1>20, <1>22 DEF IsJoin
  <2> QED BY <1>10, <1>20, <2>1
<1>24. PICK f : f = d \o e5
  OBVIOUS
<1>25. IsJoin(D!Byte, f, d, e5)
  BY <1>11, <1>23, <1>24, Joined
<1>26. /\ f \in Seq(D!Byte) /\ Len(f) = 56
       /\ \A i \in 1 .. 40 : f[i] = d[i]
       /\ \A j \in 1 .. 16 : f[40 + j] = e5[j]
  BY <1>11, <1>23, <1>25 DEF IsJoin
<1>27. SegmentBytes(f)
  BY <1>23, <1>26 DEF SegmentBytes
<1>28. TssAt(f, Tss)
  <2>1. /\ f[41] = e5[1] /\ f[42] = e5[2] /\ f[46] = e5[6] /\ f[47] = e5[7]
        /\ f[48] = e5[8]
        /\ \A i \in 1 .. 3 : f[42 + i] = e5[2 + i]
        /\ \A i \in 1 .. 4 : f[48 + i] = e5[8 + i]
    BY <1>26
  <2>2. f[41] = 103 /\ f[42] = 0 /\ f[46] = 137 /\ f[47] = 0 /\ f[48] = Tss[4]
    BY <1>11, <2>1, Zenon
  <2>3. \A i \in 1 .. 3 : f[42 + i] = Tss[i]
    BY <1>11, <2>1, Zenon
  <2>4. \A i \in 1 .. 4 : f[48 + i] = Tss[4 + i]
    BY <1>11, <2>1, Zenon
  <2> QED BY <2>2, <2>3, <2>4, Zenon DEF TssAt
<1>29. f = D!FullGDT
  BY <1>1, <1>12, <1>15, <1>18, <1>21, <1>24, Zenon
<1> QED BY <1>27, <1>28, <1>29

-----------------------------------------------------------------------------
(* The gates.                                                              *)

(* A gate that leads to the handler at a: present, ring 0, interrupt gate, *)
(* no interrupt stack, the kernel's code segment.                          *)
GateTo(g, a) ==
  /\ g \in Seq(D!Byte) /\ Len(g) = 16
  /\ g[3] = 8 /\ g[4] = 0 /\ g[5] = 0 /\ g[6] = 142
  /\ \A i \in 1 .. 2 : g[i] = a[i]
  /\ \A i \in 1 .. 6 : g[6 + i] = a[2 + i]

LEMMA GateBytes ==
  ASSUME NEW addr \in Bytes, Len(addr) = 8
  PROVE  GateTo(D!idt_set_gate(addr, 128 + 14), addr)
<1> DEFINE a == SubSeq(addr, 1, 2)
           b == D!Low16(8)
           c == <<0, 142>>
           d == SubSeq(addr, 3, 8)
           z == D!Zeros(4)
<1>0. addr \in Seq(D!Byte)
  BY DEF Bytes
<1>1. a \in Seq(D!Byte) /\ Len(a) = 2 /\ \A i \in 1 .. 2 : a[i] = addr[i]
  <2>1. 1 \in Nat \ {0} /\ 2 \in Nat /\ 2 <= Len(addr) /\ 1 <= 2 + 1
    OBVIOUS
  <2>2. IsPart(D!Byte, a, addr, 1, 2)
    BY <1>0, <2>1, Part, Zenon
  <2> HIDE DEF a
  <2> QED BY <2>2 DEF IsPart
<1>2. b \in Seq(D!Byte) /\ Len(b) = 2 /\ b[1] = 8 /\ b[2] = 0
  <2>1. PICK n \in Nat : n = 8 /\ n % 256 = 8 /\ (n \div 256) % 256 = 0
    OBVIOUS
  <2>2. /\ D!Low16(n) \in Bytes /\ Len(D!Low16(n)) = 2
        /\ D!Low16(n)[1] = n % 256 /\ D!Low16(n)[2] = (n \div 256) % 256
    BY LowBytes
  <2> QED BY <2>1, <2>2, Zenon DEF Bytes
<1>3. c \in Seq(D!Byte) /\ Len(c) = 2 /\ c[1] = 0 /\ c[2] = 142
  <2>1. 142 \in D!Byte /\ 0 \in D!Byte
    BY DEF D!Byte
  <2> QED BY <2>1
<1>4. d \in Seq(D!Byte) /\ Len(d) = 6 /\ \A i \in 1 .. 6 : d[i] = addr[2 + i]
  <2>1. 3 \in Nat \ {0} /\ 8 \in Nat /\ 8 <= Len(addr) /\ 3 <= 8 + 1
    OBVIOUS
  <2>2. IsPart(D!Byte, d, addr, 3, 8)
    BY <1>0, <2>1, Part, Zenon
  <2> HIDE DEF d
  <2> QED BY <2>2 DEF IsPart
<1>5. z \in Seq(D!Byte) /\ Len(z) = 4
  BY ZeroBytes DEF Bytes
<1>6. D!idt_set_gate(addr, 128 + 14) = (((a \o b) \o c) \o d) \o z
  <2>1. 128 + 14 = 142
    OBVIOUS
  <2> QED BY <2>1, Zenon DEF D!idt_set_gate, D!GDT_KERNEL_CODE
<1> HIDE DEF a, b, c, d, z
<1>7. PICK p : p = a \o b
  OBVIOUS
<1>8. IsJoin(D!Byte, p, a, b)
  BY <1>1, <1>2, <1>7, Joined
<1>9. /\ p \in Seq(D!Byte) /\ Len(p) = 4
      /\ \A i \in 1 .. 2 : p[i] = a[i]
      /\ p[2 + 1] = b[1] /\ p[2 + 2] = b[2]
  BY <1>1, <1>2, <1>8 DEF IsJoin
<1>10. PICK q : q = p \o c
  OBVIOUS
<1>11. IsJoin(D!Byte, q, p, c)
  BY <1>3, <1>9, <1>10, Joined
<1>12. /\ q \in Seq(D!Byte) /\ Len(q) = 6
       /\ \A i \in 1 .. 4 : q[i] = p[i]
       /\ q[4 + 1] = c[1] /\ q[4 + 2] = c[2]
  BY <1>3, <1>9, <1>11 DEF IsJoin
<1>13. PICK r : r = q \o d
  OBVIOUS
<1>14. IsJoin(D!Byte, r, q, d)
  BY <1>4, <1>12, <1>13, Joined
<1>15. /\ r \in Seq(D!Byte) /\ Len(r) = 12
       /\ \A i \in 1 .. 6 : r[i] = q[i]
       /\ \A i \in 1 .. 6 : r[6 + i] = d[i]
  BY <1>4, <1>12, <1>14 DEF IsJoin
<1>16. PICK e : e = r \o z
  OBVIOUS
<1>17. IsJoin(D!Byte, e, r, z)
  BY <1>5, <1>15, <1>16, Joined
<1>18. e \in Seq(D!Byte) /\ Len(e) = 16 /\ \A i \in 1 .. 12 : e[i] = r[i]
  BY <1>5, <1>15, <1>17 DEF IsJoin
<1>19. \A i \in 1 .. 6 : e[i] = q[i]
  BY <1>15, <1>18
<1>20. e[3] = 8 /\ e[4] = 0 /\ e[5] = 0 /\ e[6] = 142
  BY <1>2, <1>3, <1>9, <1>12, <1>19
<1>21. \A i \in 1 .. 2 : e[i] = addr[i]
  BY <1>1, <1>9, <1>12, <1>19
<1>22. \A i \in 1 .. 6 : e[6 + i] = addr[2 + i]
  BY <1>4, <1>15, <1>18
<1>23. e = D!idt_set_gate(addr, 128 + 14)
  BY <1>6, <1>7, <1>10, <1>13, <1>16, Zenon
<1> QED BY <1>18, <1>20, <1>21, <1>22, <1>23 DEF GateTo

(* The CPU finds the handler's address in its gate. *)
LEMMA GateReads ==
  ASSUME NEW addr \in Bytes, Len(addr) = 8, NEW g, GateTo(g, addr)
  PROVE  /\ D!Present(g) /\ g[6] % 32 = 14 /\ g[5] = 0
         /\ D!GateSelector(g) = 8
         /\ D!GateOffset(g) = addr
<1>0. addr \in Seq(D!Byte) /\ g \in Seq(D!Byte) /\ Len(g) = 16
  BY DEF Bytes, GateTo
<1>1. g[6] = 142 /\ g[5] = 0 /\ g[3] = 8 /\ g[4] = 0
  BY DEF GateTo
<1>2. D!Present(g) /\ g[6] % 32 = 14
  BY <1>1 DEF D!Present, D!Bit
<1>3. D!GateSelector(g) = 8
  BY <1>1 DEF D!GateSelector
<1>4. IsPart(D!Byte, SubSeq(g, 1, 2), g, 1, 2)
  <2>1. 1 \in Nat \ {0} /\ 2 \in Nat /\ 2 <= Len(g) /\ 1 <= 2 + 1
    BY <1>0
  <2> QED BY <1>0, <2>1, Part, Zenon
<1>5. IsPart(D!Byte, SubSeq(g, 7, 12), g, 7, 12)
  <2>1. 7 \in Nat \ {0} /\ 12 \in Nat /\ 12 <= Len(g) /\ 7 <= 12 + 1
    BY <1>0
  <2> QED BY <1>0, <2>1, Part, Zenon
<1>6. PICK a, b : a = SubSeq(g, 1, 2) /\ b = SubSeq(g, 7, 12)
  OBVIOUS
<1>7. a \in Seq(D!Byte) /\ Len(a) = 2 /\ \A i \in 1 .. 2 : a[i] = g[i]
  BY <1>4, <1>6 DEF IsPart
<1>8. b \in Seq(D!Byte) /\ Len(b) = 6 /\ \A i \in 1 .. 6 : b[i] = g[6 + i]
  <2>1. IsPart(D!Byte, b, g, 7, 12)
    BY <1>5, <1>6
  <2> QED BY <2>1 DEF IsPart
<1>9. PICK c : c = a \o b
  OBVIOUS
<1>10. IsJoin(D!Byte, c, a, b)
  BY <1>7, <1>8, <1>9, Joined
<1>11. /\ c \in Seq(D!Byte) /\ Len(c) = 8
       /\ \A i \in 1 .. 2 : c[i] = a[i]
       /\ \A i \in 1 .. 6 : c[2 + i] = b[i]
  BY <1>7, <1>8, <1>10 DEF IsJoin
<1>12. \A i \in 1 .. 2 : c[i] = addr[i]
  BY <1>7, <1>11 DEF GateTo
<1>13. \A i \in 1 .. 6 : c[2 + i] = addr[2 + i]
  BY <1>8, <1>11 DEF GateTo
<1>14. \A i \in 1 .. 8 : c[i] = addr[i]
  <2>1. \A i \in 3 .. 8 : i - 2 \in 1 .. 6 /\ 2 + (i - 2) = i
    OBVIOUS
  <2>2. \A i \in 3 .. 8 : c[i] = addr[i]
    BY <1>13, <2>1
  <2> QED BY <1>12, <2>2
<1>15. c = addr
  BY <1>0, <1>11, <1>14, SeqEqual
<1>16. D!GateOffset(g) = addr
  BY <1>6, <1>9, <1>15 DEF D!GateOffset
<1> QED BY <1>1, <1>2, <1>3, <1>16

-----------------------------------------------------------------------------
(* What the CPU reads in the table of the segments.                        *)

(* The descriptor of a TSS at base. *)
IsTss(d, base) ==
  /\ d \in Seq(D!Byte) /\ Len(d) = 16
  /\ d[1] = 103 /\ d[2] = 0 /\ d[7] = 0
  /\ \A i \in 1 .. 3 : d[2 + i] = base[i]
  /\ d[8] = base[4]
  /\ \A i \in 1 .. 4 : d[8 + i] = base[4 + i]

LEMMA TssReads ==
  ASSUME NEW base \in Bytes, Len(base) = 8, NEW d, IsTss(d, base)
  PROVE  D!TssBase(d) = base /\ D!TssLimit(d) = 103
<1>0. base \in Seq(D!Byte) /\ d \in Seq(D!Byte) /\ Len(d) = 16
  BY DEF Bytes, IsTss
<1>1. d[1] = 103 /\ d[2] = 0 /\ d[7] = 0
  BY DEF IsTss
<1>2. D!TssLimit(d) = 103
  BY <1>1 DEF D!TssLimit
<1>3. IsPart(D!Byte, SubSeq(d, 3, 5), d, 3, 5)
  <2>1. 3 \in Nat \ {0} /\ 5 \in Nat /\ 5 <= Len(d) /\ 3 <= 5 + 1
    BY <1>0
  <2> QED BY <1>0, <2>1, Part, Zenon
<1>4. IsPart(D!Byte, SubSeq(d, 8, 12), d, 8, 12)
  <2>1. 8 \in Nat \ {0} /\ 12 \in Nat /\ 12 <= Len(d) /\ 8 <= 12 + 1
    BY <1>0
  <2> QED BY <1>0, <2>1, Part, Zenon
<1>5. PICK a, b : a = SubSeq(d, 3, 5) /\ b = SubSeq(d, 8, 12)
  OBVIOUS
<1>6. a \in Seq(D!Byte) /\ Len(a) = 3 /\ \A i \in 1 .. 3 : a[i] = d[2 + i]
  <2>1. IsPart(D!Byte, a, d, 3, 5)
    BY <1>3, <1>5
  <2> QED BY <2>1 DEF IsPart
<1>7. b \in Seq(D!Byte) /\ Len(b) = 5 /\ \A i \in 1 .. 5 : b[i] = d[7 + i]
  <2>1. IsPart(D!Byte, b, d, 8, 12)
    BY <1>4, <1>5
  <2> QED BY <2>1 DEF IsPart
<1>8. PICK c : c = a \o b
  OBVIOUS
<1>9. IsJoin(D!Byte, c, a, b)
  BY <1>6, <1>7, <1>8, Joined
<1>10. /\ c \in Seq(D!Byte) /\ Len(c) = 8
       /\ \A i \in 1 .. 3 : c[i] = a[i]
       /\ \A i \in 1 .. 5 : c[3 + i] = b[i]
  BY <1>6, <1>7, <1>9 DEF IsJoin
<1>11. \A i \in 1 .. 3 : c[i] = base[i]
  BY <1>6, <1>10 DEF IsTss
<1>12. c[4] = base[4]
  <2>1. c[3 + 1] = b[1] /\ b[1] = d[7 + 1]
    BY <1>7, <1>10
  <2> QED BY <2>1 DEF IsTss
<1>13. \A i \in 1 .. 4 : c[4 + i] = base[4 + i]
  <2>1. ASSUME NEW i \in 1 .. 4
        PROVE  c[4 + i] = base[4 + i]
    <3>1. PICK j \in 1 .. 5 : j = i + 1 /\ 3 + j = 4 + i /\ 7 + j = 8 + i
      OBVIOUS
    <3>2. c[4 + i] = d[8 + i]
      BY <1>7, <1>10, <3>1
    <3> QED BY <3>2 DEF IsTss
  <2> QED BY <2>1
<1>14. \A i \in 1 .. 8 : c[i] = base[i]
  <2>1. \A i \in 5 .. 8 : i - 4 \in 1 .. 4 /\ 4 + (i - 4) = i
    OBVIOUS
  <2>2. \A i \in 5 .. 8 : c[i] = base[i]
    BY <1>13, <2>1
  <2> QED BY <1>11, <1>12, <2>2
<1>15. c = base
  BY <1>0, <1>10, <1>14, SeqEqual
<1>16. D!TssBase(d) = base
  BY <1>5, <1>8, <1>15 DEF D!TssBase
<1> QED BY <1>2, <1>16

(* Access byte and flags say what a segment is. *)
LEMMA Kinds ==
  ASSUME NEW d
  PROVE  /\ d[6] = 154 /\ d[7] = 175 => D!IsCode64(d) /\ D!Dpl(d) = 0
         /\ d[6] = 250 /\ d[7] = 175 => D!IsCode64(d) /\ D!Dpl(d) = 3
         /\ d[6] = 146 => D!IsData(d) /\ D!Dpl(d) = 0
         /\ d[6] = 242 => D!IsData(d) /\ D!Dpl(d) = 3
         /\ d[6] = 137 => D!Present(d) /\ D!TssType(d) = 9
  BY DEF D!IsCode64, D!IsData, D!Dpl, D!Present, D!TssType, D!Bit

(* The descriptor at a selector. *)
LEMMA Entry ==
  ASSUME full_gdt \in Seq(D!Byte), Len(full_gdt) = 56,
         NEW sel \in Nat, NEW n \in Nat, sel + n <= 56
  PROVE  /\ D!At(sel, n) \in Seq(D!Byte) /\ Len(D!At(sel, n)) = n
         /\ \A i \in 1 .. n : D!At(sel, n)[i] = full_gdt[sel + i]
<1>1. PICK m \in Nat \ {0} : m = sel + 1
  OBVIOUS
<1>2. PICK k \in Nat : k = sel + n /\ k <= Len(full_gdt) /\ m <= k + 1
  BY <1>1
<1>3. IsPart(D!Byte, SubSeq(full_gdt, m, k), full_gdt, m, k)
  BY <1>2, Part
<1>4. PICK u : u = SubSeq(full_gdt, m, k)
  OBVIOUS
<1>5. u \in Seq(D!Byte) /\ Len(u) = n /\ \A i \in 1 .. n : u[i] = full_gdt[sel + i]
  <2>1. IsPart(D!Byte, u, full_gdt, m, k)
    BY <1>3, <1>4
  <2>2. k - m + 1 = n /\ \A i \in 1 .. n : m + i - 1 = sel + i
    BY <1>1, <1>2
  <2>3. u \in Seq(D!Byte) /\ Len(u) = n /\ \A i \in 1 .. n : u[i] = full_gdt[m + i - 1]
    BY <2>1, <2>2, Zenon DEF IsPart
  <2> QED BY <2>2, <2>3, Zenon
<1>6. u = D!At(sel, n)
  BY <1>1, <1>2, <1>4 DEF D!At
<1> QED BY <1>5, <1>6

(* The four segments. *)
LEMMA SegmentReads ==
  ASSUME SegmentBytes(full_gdt)
  PROVE  /\ D!IsCode64(D!At(8, 8)) /\ D!Dpl(D!At(8, 8)) = 0
         /\ D!IsData(D!At(16, 8)) /\ D!Dpl(D!At(16, 8)) = 0
         /\ D!IsCode64(D!At(24, 8)) /\ D!Dpl(D!At(24, 8)) = 3
         /\ D!IsData(D!At(32, 8)) /\ D!Dpl(D!At(32, 8)) = 3
<1>1. full_gdt \in Seq(D!Byte) /\ Len(full_gdt) = 56
  BY DEF SegmentBytes
<1>2. ASSUME NEW sel \in {8, 16, 24, 32}
      PROVE  D!At(sel, 8)[6] = full_gdt[sel + 6] /\ D!At(sel, 8)[7] = full_gdt[sel + 7]
  <2>1. sel \in Nat /\ 8 \in Nat /\ sel + 8 <= 56
    OBVIOUS
  <2>2. \A i \in 1 .. 8 : D!At(sel, 8)[i] = full_gdt[sel + i]
    BY <1>1, <2>1, Entry, Zenon
  <2> QED BY <2>2
<1>3. PICK a, b, c, d : a = D!At(8, 8) /\ b = D!At(16, 8) /\ c = D!At(24, 8) /\ d = D!At(32, 8)
  OBVIOUS
<1>4. /\ a[6] = 154 /\ a[7] = 175 /\ b[6] = 146
      /\ c[6] = 250 /\ c[7] = 175 /\ d[6] = 242
  <2>1. /\ a[6] = full_gdt[8 + 6] /\ a[7] = full_gdt[8 + 7]
        /\ b[6] = full_gdt[16 + 6]
        /\ c[6] = full_gdt[24 + 6] /\ c[7] = full_gdt[24 + 7]
        /\ d[6] = full_gdt[32 + 6]
    BY <1>2, <1>3, Zenon
  <2> QED BY <2>1 DEF SegmentBytes
<1>5. D!IsCode64(a) /\ D!Dpl(a) = 0
  BY <1>4, Kinds, Zenon
<1>6. D!IsData(b) /\ D!Dpl(b) = 0
  BY <1>4, Kinds, Zenon
<1>7. D!IsCode64(c) /\ D!Dpl(c) = 3
  BY <1>4, Kinds, Zenon
<1>8. D!IsData(d) /\ D!Dpl(d) = 3
  BY <1>4, Kinds, Zenon
<1> QED BY <1>3, <1>5, <1>6, <1>7, <1>8, Zenon

(* The descriptor of the TSS. *)
LEMMA TssEntry ==
  ASSUME SegmentBytes(full_gdt), TssAt(full_gdt, Tss)
  PROVE  IsTss(D!At(40, 16), Tss)
<1>1. full_gdt \in Seq(D!Byte) /\ Len(full_gdt) = 56
  BY DEF SegmentBytes
<1>2. 40 \in Nat /\ 16 \in Nat /\ 40 + 16 <= 56
  OBVIOUS
<1>3. PICK d : d = D!At(40, 16)
  OBVIOUS
<1>4. /\ d \in Seq(D!Byte) /\ Len(d) = 16
      /\ \A i \in 1 .. 16 : d[i] = full_gdt[40 + i]
  BY <1>1, <1>2, <1>3, Entry, Zenon
<1>5. /\ d[1] = full_gdt[41] /\ d[2] = full_gdt[42] /\ d[7] = full_gdt[47]
      /\ d[8] = full_gdt[48]
      /\ \A i \in 1 .. 3 : d[2 + i] = full_gdt[42 + i]
      /\ \A i \in 1 .. 4 : d[8 + i] = full_gdt[48 + i]
  BY <1>4
<1>6. d[1] = 103 /\ d[2] = 0 /\ d[7] = 0 /\ d[8] = Tss[4]
  BY <1>5, Zenon DEF TssAt
<1>7. \A i \in 1 .. 3 : d[2 + i] = Tss[i]
  BY <1>5 DEF TssAt
<1>8. \A i \in 1 .. 4 : d[8 + i] = Tss[4 + i]
  BY <1>5 DEF TssAt
<1> QED BY <1>3, <1>4, <1>6, <1>7, <1>8, Zenon DEF IsTss

-----------------------------------------------------------------------------
(* The inductive invariant of gdt_init and idt_init: what every piece has  *)
(* built when it is over.                                                  *)

Built == {"idt_fill", "lidt", "done"}

Phases == boot \in {"gdt_build", "lgdt", "reload_data", "reload_cs", "ltr"} \cup Built

GdtRight ==
  IF boot = "gdt_build"
  THEN /\ full_gdt = D!Zeros(56)
       /\ kernel_tss = [rsp0 |-> D!Zeros(8), iomap_base |-> 0]
  ELSE /\ SegmentBytes(full_gdt)
       /\ boot \notin Built => TssAt(full_gdt, Tss)
       /\ kernel_tss = [rsp0 |-> Addr[<<"kernel_stack_end", 0>>], iomap_base |-> 104]

GdtrRight ==
  gdtr = IF boot \in {"gdt_build", "lgdt"} THEN [limit |-> -1, ours |-> FALSE]
                                           ELSE [limit |-> 55, ours |-> TRUE]

(* A register holds the selector and what the table has there. *)
Holds(r, sel) ==
  /\ seg[r].sel = sel
  /\ seg[r].desc \in Seq(D!Byte) /\ Len(seg[r].desc) = 8
  /\ \A i \in 1 .. 8 : seg[r].desc[i] = full_gdt[sel + i]

SegRight ==
  /\ DOMAIN seg = D!Data \cup {"cs"}
  /\ boot \in {"reload_cs", "ltr"} \cup Built => \A r \in D!Data : Holds(r, 16)
  /\ boot \in {"ltr"} \cup Built => Holds("cs", 8)

TrRight == boot \in Built => IsTss(tr.desc, Tss)

(* The stub of a vector. *)
StubOf(v) ==
  IF v = 32 THEN <<"irq_stub_0", 0>>
  ELSE IF v = 33 THEN <<"irq_stub_1", 0>>
  ELSE <<"isr_stub", v>>

IdtRight ==
  /\ DOMAIN idt = 0 .. VECTORS - 1
  /\ \A v \in 0 .. VECTORS - 1 :
       IF boot \in {"lidt", "done"} /\ v < 34 THEN GateTo(idt[v], Addr[StubOf(v)])
                                              ELSE idt[v] = D!Zeros(16)
  /\ idtr = IF boot = "done" THEN (16 * VECTORS) - 1 ELSE -1

TablesInv == Phases /\ GdtRight /\ GdtrRight /\ SegRight /\ TrRight /\ IdtRight

LEMMA StubAddress ==
  ASSUME NEW v \in 0 .. 33
  PROVE  StubOf(v) \in D!Stubs /\ Addr[StubOf(v)] \in Bytes /\ Len(Addr[StubOf(v)]) = 8
<1>1. StubOf(v) \in D!Stubs
  <2>1. CASE v \in 32 .. 33
    BY <2>1 DEF StubOf, D!Stubs
  <2>2. CASE v \in D!Exceptions
    BY <2>2 DEF StubOf, D!Stubs, D!Exceptions
  <2> QED BY <2>1, <2>2 DEF D!Exceptions
<1> QED BY <1>1, Address

LEMMA TablesInit == D!Init => TablesInv
<1> SUFFICES ASSUME D!Init PROVE TablesInv
  OBVIOUS
<1> USE DEF D!Init
<1>1. Phases /\ TrRight
  BY DEF Phases, TrRight, Built
<1>2. GdtRight
  <2>1. 5 * 8 + 16 = 56
    OBVIOUS
  <2> QED BY <2>1, Zenon DEF GdtRight
<1>3. GdtrRight
  BY DEF GdtrRight
<1>4. SegRight
  BY DEF SegRight, Built
<1>5. IdtRight
  BY DEF IdtRight
<1> QED BY <1>1, <1>2, <1>3, <1>4, <1>5 DEF TablesInv

(* A step that keeps the table and the segments keeps what they hold. *)
LEMMA TablesNext == TablesInv /\ D!Next => TablesInv'
<1> SUFFICES ASSUME TablesInv, D!Next PROVE TablesInv'
  OBVIOUS
<1>0. \A v \in 0 .. VECTORS - 1 :
        /\ v < 34 => v \in 0 .. 33
        /\ ~(v < 34) => v \notin D!Exceptions /\ v # 32 /\ v # 33
  BY Address DEF D!Exceptions
<1> USE DEF TablesInv
<1>1. CASE D!gdt_build
  <2> USE <1>1 DEF D!gdt_build
  <2>1. Phases' /\ TrRight'
    BY DEF Phases, TrRight, Built
  <2>2. GdtRight'
    <3>1. SegmentBytes(full_gdt') /\ TssAt(full_gdt', Tss)
      BY TableBytes
    <3>2. D!sizeof_TSS = 104
      BY DEF D!sizeof_TSS
    <3> QED BY <3>1, <3>2, Zenon DEF GdtRight
  <2>3. GdtrRight'
    BY DEF GdtrRight
  <2>4. SegRight'
    BY DEF SegRight, Built
  <2>5. IdtRight'
    BY DEF IdtRight
  <2> QED BY <2>1, <2>2, <2>3, <2>4, <2>5
<1>2. CASE D!lgdt
  <2> USE <1>2 DEF D!lgdt
  <2>1. Phases' /\ TrRight'
    BY DEF Phases, TrRight, Built
  <2>2. GdtRight'
    BY DEF GdtRight, Built
  <2>3. GdtrRight'
    <3>1. Len(full_gdt) - 1 = 55
      BY DEF GdtRight, SegmentBytes
    <3> QED BY <3>1 DEF GdtrRight
  <2>4. SegRight'
    BY DEF SegRight, Built
  <2>5. IdtRight'
    BY DEF IdtRight
  <2> QED BY <2>1, <2>2, <2>3, <2>4, <2>5
<1>3. CASE D!reload_data
  <2> USE <1>3 DEF D!reload_data
  <2>1. SegmentBytes(full_gdt) /\ gdtr.limit = 55
    BY DEF GdtRight, GdtrRight
  <2>2. D!DataLoads(16)
    BY <2>1, SegmentReads DEF D!DataLoads, D!InTable
  <2>3. boot' = "reload_cs"
    BY <2>2 DEF D!GDT_KERNEL_DATA
  <2>4. Phases' /\ TrRight' /\ GdtrRight'
    BY <2>3 DEF Phases, TrRight, GdtrRight, Built
  <2>5. GdtRight'
    BY <2>3 DEF GdtRight, Built
  <2>6. SegRight'
    <3>1. /\ D!At(16, 8) \in Seq(D!Byte) /\ Len(D!At(16, 8)) = 8
          /\ \A i \in 1 .. 8 : D!At(16, 8)[i] = full_gdt[16 + i]
      <4>1. 16 \in Nat /\ 8 \in Nat /\ 16 + 8 <= 56
        OBVIOUS
      <4>2. full_gdt \in Seq(D!Byte) /\ Len(full_gdt) = 56
        BY <2>1 DEF SegmentBytes
      <4> QED BY <4>1, <4>2, Entry, Zenon
    <3>2. DOMAIN seg' = D!Data \cup {"cs"}
      BY DEF SegRight
    <3>3. ASSUME NEW r \in D!Data
          PROVE  seg'[r].sel = 16 /\ seg'[r].desc = D!At(16, 8)
      BY DEF SegRight, D!Loaded, D!GDT_KERNEL_DATA
    <3>4. \A r \in D!Data : Holds(r, 16)'
      BY <3>1, <3>3, Zenon DEF Holds
    <3> QED BY <2>3, <3>2, <3>4 DEF SegRight, Built
  <2>7. IdtRight'
    BY <2>3 DEF IdtRight
  <2> QED BY <2>4, <2>5, <2>6, <2>7
<1>4. CASE D!reload_cs
  <2> USE <1>4 DEF D!reload_cs
  <2>1. SegmentBytes(full_gdt) /\ gdtr.limit = 55
    BY DEF GdtRight, GdtrRight
  <2>2. D!CodeLoads(8)
    BY <2>1, SegmentReads DEF D!CodeLoads, D!InTable
  <2>3. boot' = "ltr"
    BY <2>2 DEF D!GDT_KERNEL_CODE
  <2>4. Phases' /\ TrRight' /\ GdtrRight'
    BY <2>3 DEF Phases, TrRight, GdtrRight, Built
  <2>5. GdtRight'
    BY <2>3 DEF GdtRight, Built
  <2>6. SegRight'
    <3>1. /\ D!At(8, 8) \in Seq(D!Byte) /\ Len(D!At(8, 8)) = 8
          /\ \A i \in 1 .. 8 : D!At(8, 8)[i] = full_gdt[8 + i]
      <4>1. 8 \in Nat /\ 8 + 8 <= 56
        OBVIOUS
      <4>2. full_gdt \in Seq(D!Byte) /\ Len(full_gdt) = 56
        BY <2>1 DEF SegmentBytes
      <4> QED BY <4>1, <4>2, Entry, Zenon
    <3>2. DOMAIN seg' = D!Data \cup {"cs"}
      BY DEF SegRight
    <3>3. seg'["cs"].sel = 8 /\ seg'["cs"].desc = D!At(8, 8)
      BY DEF SegRight, D!Loaded, D!GDT_KERNEL_CODE
    <3>4. Holds("cs", 8)'
      BY <3>1, <3>3, Zenon DEF Holds
    <3>5. \A r \in D!Data : seg'[r] = seg[r]
      BY DEF SegRight, D!Data
    <3>6. \A r \in D!Data : Holds(r, 16)
      BY DEF SegRight
    <3>7. \A r \in D!Data : Holds(r, 16)'
      BY <3>5, <3>6, Zenon DEF Holds
    <3> QED BY <3>2, <3>4, <3>7, Zenon DEF SegRight
  <2>7. IdtRight'
    BY <2>3 DEF IdtRight
  <2> QED BY <2>4, <2>5, <2>6, <2>7
<1>5. CASE D!ltr
  <2> USE <1>5 DEF D!ltr
  <2>1. SegmentBytes(full_gdt) /\ TssAt(full_gdt, Tss) /\ gdtr.limit = 55
    BY DEF GdtRight, GdtrRight, Built
  <2>2. full_gdt \in Seq(D!Byte) /\ Len(full_gdt) = 56
    BY <2>1 DEF SegmentBytes
  <2>3. D!TssLoads(40)
    <3>1. 40 \in Nat /\ 8 \in Nat /\ 40 + 8 <= 56 /\ 6 \in 1 .. 8
      OBVIOUS
    <3>2. D!At(40, 8)[6] = full_gdt[40 + 6]
      BY <2>2, <3>1, Entry, Zenon
    <3>3. PICK d : d = D!At(40, 8)
      OBVIOUS
    <3>4. d[6] = 137
      BY <2>1, <3>2, <3>3 DEF TssAt
    <3>5. D!Present(d) /\ D!TssType(d) = 9
      BY <3>4, Kinds, Zenon
    <3>6. D!InTable(40, 16)
      BY <2>1 DEF D!InTable
    <3> QED BY <3>3, <3>5, <3>6 DEF D!TssLoads
  <2>4. boot' = "idt_fill"
    BY <2>3 DEF D!GDT_TSS_SEL
  <2>5. /\ DOMAIN full_gdt' = 1 .. 56
        /\ full_gdt'[46] = 139
        /\ \A i \in 1 .. 56 : i # 46 => full_gdt'[i] = full_gdt[i]
    <3>1. full_gdt' = [full_gdt EXCEPT ![46] = full_gdt[46] + 2]
      BY DEF D!GDT_TSS_SEL
    <3>2. DOMAIN full_gdt = 1 .. 56 /\ full_gdt[46] = 137
      BY <2>1, <2>2 DEF TssAt
    <3> QED BY <3>1, <3>2
  <2>6. SegmentBytes(full_gdt')
    <3>1. \A i \in 1 .. 56 : full_gdt'[i] \in D!Byte
      <4>1. \A i \in 1 .. 56 : full_gdt[i] \in D!Byte
        BY <2>2, ElementOfSeq
      <4>2. 139 \in D!Byte
        BY DEF D!Byte
      <4> QED BY <2>5, <4>1, <4>2
    <3>2. full_gdt' \in Seq(D!Byte) /\ Len(full_gdt') = 56
      <4>1. full_gdt' = [i \in 1 .. 56 |-> full_gdt'[i]]
        BY <2>5
      <4>2. full_gdt' \in [1 .. 56 -> D!Byte]
        BY <3>1, <4>1
      <4>3. full_gdt' \in Seq(D!Byte)
        BY <4>2, SeqDef
      <4>4. Len(full_gdt') \in Nat /\ DOMAIN full_gdt' = 1 .. Len(full_gdt')
        BY <4>3, LenProperties
      <4> QED BY <2>5, <4>3, <4>4
    <3> QED BY <2>1, <2>5, <3>2 DEF SegmentBytes
  <2>7. Phases' /\ GdtrRight'
    BY <2>4 DEF Phases, GdtrRight, Built
  <2>8. GdtRight'
    BY <2>4, <2>6 DEF GdtRight, Built
  <2>9. SegRight'
    <3>1. DOMAIN seg = D!Data \cup {"cs"} /\ Holds("cs", 8) /\ \A r \in D!Data : Holds(r, 16)
      BY DEF SegRight
    <3>2. \A i \in 1 .. 8 : full_gdt'[8 + i] = full_gdt[8 + i] /\ full_gdt'[16 + i] = full_gdt[16 + i]
      BY <2>5
    <3>3. Holds("cs", 8)' /\ \A r \in D!Data : Holds(r, 16)'
      BY <3>1, <3>2, Zenon DEF Holds
    <3> QED BY <3>1, <3>3, Zenon DEF SegRight
  <2>10. TrRight'
    <3>1. tr'.desc = D!At(40, 16)
      BY DEF D!Loaded, D!GDT_TSS_SEL
    <3> QED BY <2>1, <3>1, TssEntry, Zenon DEF TrRight
  <2>11. IdtRight'
    BY <2>4 DEF IdtRight
  <2> QED BY <2>7, <2>8, <2>9, <2>10, <2>11
<1>6. CASE D!idt_fill
  <2> USE <1>6 DEF D!idt_fill
  <2>1. Phases' /\ GdtrRight'
    BY DEF Phases, GdtrRight, Built
  <2>2. GdtRight'
    BY DEF GdtRight, Built
  <2>3. SegRight'
    BY DEF SegRight, Built, Holds
  <2>4. TrRight'
    BY DEF TrRight, Built
  <2>5. IdtRight'
    <3>1. DOMAIN idt = 0 .. VECTORS - 1 /\ VECTORS \in 34 .. 4096
      BY Address DEF IdtRight
    <3>2. DOMAIN idt' = 0 .. VECTORS - 1
      BY <3>1
    <3>3. ASSUME NEW v \in 0 .. VECTORS - 1, v < 34
          PROVE  GateTo(idt'[v], Addr[StubOf(v)])
      <4>1. v \in 0 .. 33 /\ v \in DOMAIN idt
        BY <1>0, <3>1, <3>3
      <4>2. idt'[v] = D!idt_set_gate(Addr[StubOf(v)], 128 + 14)
        <5>1. CASE v = 32
          BY <4>1, <5>1 DEF StubOf, D!Exceptions
        <5>2. CASE v = 33
          BY <4>1, <5>2 DEF StubOf, D!Exceptions
        <5>3. CASE v \in D!Exceptions
          BY <4>1, <5>3 DEF StubOf, D!Exceptions, D!isr_stub_table
        <5> QED BY <4>1, <5>1, <5>2, <5>3 DEF D!Exceptions
      <4> QED BY <4>1, <4>2, StubAddress, GateBytes, Zenon
    <3>4. ASSUME NEW v \in 0 .. VECTORS - 1, ~(v < 34)
          PROVE  idt'[v] = D!Zeros(16)
      <4>1. v \in DOMAIN idt /\ v \notin D!Exceptions /\ v # 32 /\ v # 33
        BY <1>0, <3>1, <3>4
      <4> QED BY <4>1
    <3>5. idtr' = -1
      BY DEF IdtRight
    <3> QED BY <3>2, <3>3, <3>4, <3>5 DEF IdtRight
  <2> QED BY <2>1, <2>2, <2>3, <2>4, <2>5
<1>7. CASE D!lidt
  <2> USE <1>7 DEF D!lidt
  <2>1. Phases' /\ GdtrRight'
    BY DEF Phases, GdtrRight, Built
  <2>2. GdtRight'
    BY DEF GdtRight, Built
  <2>3. SegRight'
    BY DEF SegRight, Built, Holds
  <2>4. TrRight'
    BY DEF TrRight, Built
  <2>5. IdtRight'
    BY DEF IdtRight
  <2> QED BY <2>1, <2>2, <2>3, <2>4, <2>5
<1> QED BY <1>1, <1>2, <1>3, <1>4, <1>5, <1>6, <1>7 DEF D!Next

(* Steps that are not gdt_init's and idt_init's leave the tables alone. *)
LEMMA TablesStay == TablesInv /\ UNCHANGED tables => TablesInv'
  BY DEF TablesInv, tables, Phases, GdtRight, GdtrRight, SegRight, Holds, TrRight, IdtRight

(* Every variable of Descriptors keeps its type. *)
LEMMA TablesTyped == TablesInv => D!TypeOK
<1> SUFFICES ASSUME TablesInv PROVE D!TypeOK
  OBVIOUS
<1>0. Phases /\ GdtRight /\ GdtrRight /\ SegRight /\ TrRight /\ IdtRight
  BY DEF TablesInv
<1>1. full_gdt \in Seq(D!Byte) /\ Len(full_gdt) = 56
  <2>1. CASE boot = "gdt_build"
    BY <1>0, <2>1, ZeroBytes DEF GdtRight, Bytes
  <2>2. CASE boot # "gdt_build"
    BY <1>0, <2>2 DEF GdtRight, SegmentBytes
  <2> QED BY <2>1, <2>2
<1>2. \A s \in Seq(D!Byte) : D!ToSet(s) \subseteq D!Byte
  BY ElementOfSeq DEF D!ToSet
<1>3. kernel_tss \in [rsp0 : {D!Zeros(8), Addr[<<"kernel_stack_end", 0>>]}, iomap_base : Nat]
  BY <1>0 DEF GdtRight
<1>4. gdtr \in [limit : -1 .. 2^16 - 1, ours : BOOLEAN]
  <2>1. -1 \in -1 .. 2^16 - 1 /\ 55 \in -1 .. 2^16 - 1
    OBVIOUS
  <2> QED BY <1>0, <2>1 DEF GdtrRight
<1>5. ASSUME NEW v \in DOMAIN idt
      PROVE  idt[v] \in Seq(D!Byte) /\ Len(idt[v]) = 16
  <2>1. CASE idt[v] = D!Zeros(16)
    BY <2>1, ZeroBytes DEF Bytes
  <2>2. CASE GateTo(idt[v], Addr[StubOf(v)])
    BY <2>2 DEF GateTo
  <2> QED BY <1>0, <2>1, <2>2 DEF IdtRight
<1>6. DOMAIN idt = 0 .. VECTORS - 1
  BY <1>0 DEF IdtRight
<1>7. idtr \in -1 .. 2^16 - 1
  BY <1>0, Address DEF IdtRight
<1>8. boot \in {"gdt_build", "lgdt", "reload_data", "reload_cs", "ltr",
                "idt_fill", "lidt", "done", "fault"}
  BY <1>0 DEF Phases, Built
<1>9. Len(full_gdt) = 56 /\ D!ToSet(full_gdt) \subseteq D!Byte
  BY <1>1, <1>2, Zenon
<1>10. \A v \in DOMAIN idt : Len(idt[v]) = 16 /\ D!ToSet(idt[v]) \subseteq D!Byte
  BY <1>2, <1>5, Zenon
<1> QED BY <1>3, <1>4, <1>6, <1>7, <1>8, <1>9, <1>10, Zenon DEF D!TypeOK

(* A register's descriptor is the one its selector picks. *)
LEMMA HoldsEntry ==
  ASSUME SegmentBytes(full_gdt), NEW r, NEW sel \in {8, 16}, Holds(r, sel)
  PROVE  seg[r].sel = sel /\ seg[r].desc = D!At(sel, 8)
<1>1. full_gdt \in Seq(D!Byte) /\ Len(full_gdt) = 56
  BY DEF SegmentBytes
<1>2. sel \in Nat /\ 8 \in Nat /\ sel + 8 <= 56
  OBVIOUS
<1>3. PICK d : d = D!At(sel, 8)
  OBVIOUS
<1>4. d \in Seq(D!Byte) /\ Len(d) = 8 /\ \A i \in 1 .. 8 : d[i] = full_gdt[sel + i]
  BY <1>1, <1>2, <1>3, Entry, Zenon
<1>5. PICK e : e = seg[r].desc
  OBVIOUS
<1>6. e \in Seq(D!Byte) /\ Len(e) = 8 /\ \A i \in 1 .. 8 : e[i] = full_gdt[sel + i]
  BY <1>5, Zenon DEF Holds
<1>7. e = d
  <2>1. \A i \in 1 .. 8 : e[i] = d[i]
    BY <1>4, <1>6, Zenon
  <2>2. Len(e) = Len(d) /\ \A i \in 1 .. Len(d) : e[i] = d[i]
    BY <1>4, <1>6, <2>1, Zenon
  <2> QED BY <1>4, <1>6, <2>2, SeqEqual
<1> QED BY <1>3, <1>5, <1>7 DEF Holds

LEMMA TablesValid == TablesInv => SegmentsValid
<1> SUFFICES ASSUME TablesInv PROVE D!SegmentsValid
  BY DEF SegmentsValid
<1>0. Phases /\ GdtRight /\ GdtrRight /\ SegRight /\ TrRight
  BY DEF TablesInv
<1>1. boot # "fault"
  BY <1>0 DEF Phases, Built
<1>2. ASSUME boot \in Built
      PROVE  /\ gdtr.ours
             /\ \A r \in D!Data \cup {"cs"} : seg[r].desc = D!At(seg[r].sel, 8)
             /\ D!CodeLoads(seg["cs"].sel) /\ \A r \in D!Data : D!DataLoads(seg[r].sel)
             /\ D!IsCode64(D!At(24, 8)) /\ D!Dpl(D!At(24, 8)) = 3
             /\ D!IsData(D!At(32, 8)) /\ D!Dpl(D!At(32, 8)) = 3
             /\ D!TssBase(tr.desc) = Tss
             /\ D!TssLimit(tr.desc) = 103
             /\ kernel_tss.iomap_base > D!TssLimit(tr.desc)
  <2>1. gdtr.ours /\ gdtr.limit = 55
    BY <1>0, <1>2 DEF GdtrRight, Built
  <2>2. SegmentBytes(full_gdt) /\ kernel_tss.iomap_base = 104
    BY <1>0, <1>2 DEF GdtRight, Built
  <2>3. /\ D!IsCode64(D!At(8, 8)) /\ D!Dpl(D!At(8, 8)) = 0
        /\ D!IsData(D!At(16, 8)) /\ D!Dpl(D!At(16, 8)) = 0
        /\ D!IsCode64(D!At(24, 8)) /\ D!Dpl(D!At(24, 8)) = 3
        /\ D!IsData(D!At(32, 8)) /\ D!Dpl(D!At(32, 8)) = 3
    BY <2>2, SegmentReads, Zenon
  <2>4. D!InTable(8, 8) /\ D!InTable(16, 8)
    BY <2>1 DEF D!InTable
  <2>5. D!CodeLoads(8) /\ D!DataLoads(16)
    BY <2>3, <2>4, Zenon DEF D!CodeLoads, D!DataLoads
  <2>6. Holds("cs", 8) /\ \A r \in D!Data : Holds(r, 16)
    BY <1>0, <1>2 DEF SegRight
  <2>7. 8 \in {8, 16} /\ 16 \in {8, 16}
    OBVIOUS
  <2>8. seg["cs"].sel = 8 /\ seg["cs"].desc = D!At(8, 8)
    BY <2>2, <2>6, <2>7, HoldsEntry, Zenon
  <2>9. \A r \in D!Data : seg[r].sel = 16 /\ seg[r].desc = D!At(16, 8)
    BY <2>2, <2>6, <2>7, HoldsEntry, Zenon
  <2>10. \A r \in D!Data \cup {"cs"} : seg[r].desc = D!At(seg[r].sel, 8)
    BY <2>8, <2>9, Zenon
  <2>11. D!CodeLoads(seg["cs"].sel) /\ \A r \in D!Data : D!DataLoads(seg[r].sel)
    BY <2>5, <2>8, <2>9, Zenon
  <2>12. Tss \in Bytes /\ Len(Tss) = 8
    BY Address DEF Tss
  <2>13. IsTss(tr.desc, Tss)
    BY <1>0, <1>2 DEF TrRight
  <2>14. D!TssBase(tr.desc) = Tss /\ D!TssLimit(tr.desc) = 103
    <3>1. PICK d : d = tr.desc
      OBVIOUS
    <3>2. IsTss(d, Tss)
      BY <2>13, <3>1
    <3> QED BY <2>12, <3>1, <3>2, TssReads
  <2>15. kernel_tss.iomap_base > D!TssLimit(tr.desc)
    BY <2>2, <2>14
  <2> QED BY <2>1, <2>3, <2>10, <2>11, <2>14, <2>15, Zenon
<1>3. D!sizeof_TSS - 1 = 103 /\ D!GDT_USER_CODE = 24 /\ D!GDT_USER_DATA = 32
  BY DEF D!sizeof_TSS, D!GDT_USER_CODE, D!GDT_USER_DATA
<1> QED BY <1>1, <1>2, <1>3, Zenon DEF D!SegmentsValid, Built, Tss

(* When the tables are loaded every vector in use leads to its stub. *)
LEMMA HandlerIs ==
  ASSUME TablesInv, boot = "done", NEW v \in 0 .. 33
  PROVE  D!Handler(v) = StubOf(v)
<1>0. GdtRight /\ GdtrRight /\ IdtRight
  BY DEF TablesInv
<1>1. gdtr.limit = 55 /\ SegmentBytes(full_gdt)
  BY <1>0 DEF GdtRight, GdtrRight
<1>2. D!CodeLoads(8)
  <2>1. D!InTable(8, 8)
    BY <1>1 DEF D!InTable
  <2> QED BY <1>1, <2>1, SegmentReads, Zenon DEF D!CodeLoads
<1>3. v \in 0 .. VECTORS - 1 /\ v < VECTORS /\ v < 34 /\ 16 * v + 15 <= idtr
  BY <1>0, Address DEF IdtRight
<1>4. GateTo(idt[v], Addr[StubOf(v)])
  BY <1>0, <1>3, Zenon DEF IdtRight
<1>5. StubOf(v) \in D!Stubs /\ Addr[StubOf(v)] \in Bytes /\ Len(Addr[StubOf(v)]) = 8
  BY StubAddress
<1>6. /\ D!Present(idt[v]) /\ idt[v][6] % 32 = 14 /\ idt[v][5] = 0
      /\ D!GateSelector(idt[v]) = 8
      /\ D!GateOffset(idt[v]) = Addr[StubOf(v)]
  BY <1>4, <1>5, GateReads, Zenon
<1>7. D!Deliverable(v)
  BY <1>2, <1>3, <1>6, Zenon DEF D!Deliverable
<1>8. \A s \in D!Stubs : Addr[s] = D!GateOffset(idt[v]) <=> s = StubOf(v)
  <2>1. D!Stubs \subseteq DOMAIN Addr
    BY Address
  <2>2. \A s \in D!Stubs : Addr[s] = Addr[StubOf(v)] => s = StubOf(v)
    BY <1>5, <2>1, Address
  <2> QED BY <1>6, <2>2
<1>9. (CHOOSE s \in D!Stubs : Addr[s] = D!GateOffset(idt[v])) = StubOf(v)
  BY <1>5, <1>8
<1> QED BY <1>5, <1>7, <1>8, <1>9, Zenon DEF D!Handler

-----------------------------------------------------------------------------
(* The inductive invariant of the stubs and of context_switch: what is on  *)
(* every stack, for every place the CPU can be in.                         *)

Words == Int \X Names \X (0 .. Epochs - 1)

Stubbed == {"irq_stub_0", "irq_stub_1", "sched_tick", "leave"}
Switching == {"context_switch", "sched_tick_end"}
Faulting == {"isr_handler", "panic"}

(* What s_tasks[t].rsp may be: a task that is switched away from has one   *)
(* interrupt frame and one call of sched_tick on its stack.                *)
Heights == 0 .. 30 + Len(SchedUses)

CpuTypes ==
  /\ regs \in [Regs -> Words] /\ rip \in Words /\ if_flag \in BOOLEAN
  /\ pc \in {"task"} \cup Stubbed \cup Switching \cup Faulting
  /\ s_current \in Tasks
  /\ stack \in [Tasks -> Seq(Words)]
  /\ rsp \in [Tasks -> Heights]
  /\ at \in [Tasks -> 0 .. 2]
  /\ started \in [Tasks -> BOOLEAN]

(* An interrupt frame at a, on an even address, that says where the task's *)
(* own words end.                                                          *)
FrameAt(t, s, a) ==
  /\ (Top[t] + a) % 2 = 0
  /\ s[a + 2][1] \in 0 .. 1 /\ s[a + 2][1] <= a

(* Of the task the CPU is in, or was in when it entered the kernel. *)
CurrentStack ==
  LET a == at[s_current]
  IN  /\ started[s_current]
      /\ pc = "task" => Len(Here) <= 1
      /\ pc # "task" => FrameAt(s_current, Here, a)
      /\ pc \in Stubbed => Len(Here) = a + 20
      /\ pc \in Switching => /\ Len(Here) = a + 21 + Len(SchedUses)
                             /\ Here[a + 21] = Code("leave")
      /\ pc \in Faulting => Len(Here) = a + 22

(* A task that was switched away from. *)
Waiting(t) ==
  /\ FrameAt(t, stack[t], at[t])
  /\ Len(stack[t]) = at[t] + 28 + Len(SchedUses)
  /\ rsp[t] = Len(stack[t])
  /\ stack[t][at[t] + 21] = Code("leave")
  /\ stack[t][at[t] + 22 + Len(SchedUses)] = Code("sched_tick_end")

(* A task that has not run yet. *)
Fresh(t) == stack[t] = setup_initial_stack(t) /\ rsp[t] = 7

OtherStacks ==
  \A t \in Tasks : IF started[t] THEN t # s_current => Waiting(t) ELSE Fresh(t)

(* In the kernel interrupts are off; sched_tick and context_switch find    *)
(* nothing in the caller-saved registers.                                  *)
KernelRegs ==
  /\ pc # "task" => ~if_flag
  /\ pc \in {"sched_tick", "context_switch"} =>
       \A r \in Regs \ CalleeSaved : regs[r] = T!Junk

(* The frame of an exception is the structure isr_handler reads. *)
FaultShown ==
  /\ pc \in Faulting <=> fault # <<>>
  /\ pc = "isr_handler" =>
       /\ fault = [f \in ToSet(InterruptFrame) |-> fault[f]]
       /\ \A p \in 1 .. 22 : Here[at[s_current] + 23 - p] = fault[InterruptFrame[p]]
  /\ pc = "panic" => dump = fault

CpuInv == CpuTypes /\ CurrentStack /\ OtherStacks /\ KernelRegs /\ FaultShown

TrapsInv == TablesInv /\ CpuInv

-----------------------------------------------------------------------------
(* Registers, words, pushes and pops.                                      *)

LEMMA Orders ==
  /\ StubPush \in Seq(Regs) /\ Len(StubPush) = 15
  /\ StubPop \in Seq(Regs) /\ Len(StubPop) = 15
  /\ SwitchPush \in Seq(Regs) /\ Len(SwitchPush) = 6
  /\ SwitchPop \in Seq(Regs) /\ Len(SwitchPop) = 6
  /\ ToSet(StubPop) = Regs /\ ToSet(SwitchPop) = CalleeSaved
  /\ CalleeSaved \subseteq Regs
  /\ SchedUses \in Seq(Regs) /\ Len(SchedUses) \in Nat
  /\ Len(InterruptFrame) = 22
<1>1. Regs = {"rax", "rbx", "rcx", "rdx", "rsi", "rdi", "rbp", "r8", "r9",
              "r10", "r11", "r12", "r13", "r14", "r15"}
  BY DEF Regs, ToSet, StubPush
<1>2. ToSet(StubPop) = {"rax", "rbx", "rcx", "rdx", "rsi", "rdi", "rbp", "r8", "r9",
                        "r10", "r11", "r12", "r13", "r14", "r15"}
  BY DEF ToSet, StubPop
<1>3. CalleeSaved = {"rbx", "rbp", "r12", "r13", "r14", "r15"}
  BY DEF CalleeSaved, ToSet, SwitchPush
<1>4. ToSet(SwitchPop) = {"rbx", "rbp", "r12", "r13", "r14", "r15"}
  BY DEF ToSet, SwitchPop
<1>5. /\ StubPush \in Seq(Regs) /\ Len(StubPush) = 15
  BY <1>1 DEF StubPush
<1>6. StubPop \in Seq(Regs) /\ Len(StubPop) = 15
  BY <1>1 DEF StubPop
<1>7. SwitchPush \in Seq(Regs) /\ Len(SwitchPush) = 6
  BY <1>1 DEF SwitchPush
<1>8. SwitchPop \in Seq(Regs) /\ Len(SwitchPop) = 6
  BY <1>1 DEF SwitchPop
<1>9. CalleeSaved \subseteq Regs
  BY <1>1, <1>3
<1>10. SchedUses \in Seq(CalleeSaved)
  BY ContextAssumption
<1>11. SchedUses \in Seq(Regs)
  BY <1>9, <1>10, SeqMonotonic
<1>12. Len(SchedUses) \in Nat
  BY <1>11, LenProperties
<1>13. Len(InterruptFrame) = 22
  BY DEF InterruptFrame
<1> QED BY <1>1, <1>2, <1>3, <1>4, <1>5, <1>6, <1>7, <1>8, <1>9, <1>11, <1>12, <1>13

(* The position of an element. *)
LEMMA Position ==
  ASSUME NEW s, NEW e \in ToSet(s)
  PROVE  IndexOf(s, e) \in DOMAIN s /\ s[IndexOf(s, e)] = e
<1>1. \E k \in DOMAIN s : s[k] = e
  BY DEF ToSet
<1> QED BY <1>1 DEF IndexOf

(* The stubs push every register once, and pop them in the other order. *)
LEMMA PushedOnce ==
  /\ \A j, k \in 1 .. 15 : StubPush[j] = StubPush[k] => j = k
  /\ \A k \in 1 .. 15 : StubPop[k] = StubPush[16 - k]
<1>1. \A j, k \in 1 .. 15 : StubPush[j] = StubPush[k] => j = k
  BY DEF StubPush
<1>2. \A k \in 1 .. 15 : StubPop[k] = StubPush[16 - k]
  BY DEF StubPush, StubPop
<1> QED BY <1>1, <1>2

LEMMA Popped1 ==
  ASSUME NEW r \in Regs
  PROVE  /\ IndexOf(StubPush, r) \in 1 .. 15 /\ StubPush[IndexOf(StubPush, r)] = r
         /\ IndexOf(StubPop, r) = 16 - IndexOf(StubPush, r)
<1>1. DOMAIN StubPush = 1 .. 15 /\ DOMAIN StubPop = 1 .. 15
  BY Orders, LenProperties
<1>2. IndexOf(StubPush, r) \in 1 .. 15 /\ StubPush[IndexOf(StubPush, r)] = r
  BY <1>1, Position DEF Regs
<1>3. IndexOf(StubPop, r) \in 1 .. 15 /\ StubPop[IndexOf(StubPop, r)] = r
  BY <1>1, Position, Orders
<1>4. PICK j \in 1 .. 15 : j = IndexOf(StubPop, r)
  BY <1>3
<1>5. PICK k \in 1 .. 15 : k = IndexOf(StubPush, r)
  BY <1>2
<1>6. StubPush[16 - j] = StubPush[k] /\ 16 - j \in 1 .. 15
  BY <1>2, <1>3, <1>4, <1>5, PushedOnce
<1>7. 16 - j = k
  BY <1>6, PushedOnce
<1> QED BY <1>2, <1>4, <1>5, <1>7

(* What a stack can hold. *)
LEMMA WordsAre ==
  /\ T!Zero \in Words /\ T!Junk \in Words
  /\ \A t \in Tasks, e \in 0 .. Epochs - 1 :
       \A n \in Names : T!Val(t, n, e) \in Words
  /\ \A n \in Names : Code(n) \in Words
  /\ \A b : Flag(b) \in Words
  /\ \A b \in BOOLEAN : (Flag(b)[1] = 1) = b
  /\ \A k \in Int : \A n \in Names : <<k, n, 0>> \in Words
  /\ \A w \in Words : IsWord(w)
<1>1. 0 \in 0 .. Epochs - 1
  BY ContextAssumption
<1>2. \A k \in Int : \A n \in Names : \A e \in 0 .. Epochs - 1 : <<k, n, e>> \in Words
  BY DEF Words
<1>3. \A k \in Int : \A n \in Names : <<k, n, 0>> \in Words
  BY <1>1, <1>2
<1>4. -1 \in Int
  OBVIOUS
<1>5. {"zero", "junk", "rflags"} \subseteq Names
  BY DEF Names
<1>6. T!Zero \in Words /\ T!Junk \in Words
  BY <1>3, <1>4, <1>5, Zenon DEF T!Zero, T!Junk
<1>7. \A t \in Tasks, e \in 0 .. Epochs - 1 :
        \A n \in Names : T!Val(t, n, e) \in Words
  <2>1. Tasks \subseteq Int
    BY ContextAssumption
  <2> QED BY <1>2, <2>1 DEF T!Val
<1>8. \A n \in Names : Code(n) \in Words
  BY <1>3, <1>4, Zenon DEF Code
<1>9. \A b : Flag(b) \in Words
  <2>1. \A b : (IF b THEN 1 ELSE 0) \in Int
    OBVIOUS
  <2> QED BY <1>3, <1>5, <2>1, Zenon DEF Flag
<1>10. ASSUME NEW b \in BOOLEAN
       PROVE  (Flag(b)[1] = 1) = b
  <2>1. CASE b = TRUE
    BY <2>1 DEF Flag
  <2>2. CASE b = FALSE
    BY <2>2 DEF Flag
  <2> QED BY <2>1, <2>2
<1>11. \A w \in Words : IsWord(w)
  BY DEF Words, IsWord
<1> QED BY <1>3, <1>6, <1>7, <1>8, <1>9, <1>10, <1>11

(* Pushed registers. *)
LEMMA Saving ==
  ASSUME regs \in [Regs -> Words], NEW order \in Seq(Regs)
  PROVE  /\ Saved(order) \in Seq(Words) /\ Len(Saved(order)) = Len(order)
         /\ \A k \in 1 .. Len(order) : Saved(order)[k] = regs[order[k]]
<1>1. Len(order) \in Nat /\ DOMAIN order = 1 .. Len(order)
  BY LenProperties
<1>2. \A k \in 1 .. Len(order) : order[k] \in Regs
  BY ElementOfSeq
<1>3. PICK n, u : n \in Nat /\ n = Len(order) /\ u = Saved(order)
  BY <1>1
<1>4. u \in [1 .. n -> Words] /\ \A k \in 1 .. n : u[k] = regs[order[k]]
  BY <1>1, <1>2, <1>3 DEF Saved
<1>5. u \in Seq(Words) /\ Len(u) = n
  BY <1>3, <1>4, FunctionsAreSequences
<1> QED BY <1>3, <1>4, <1>5

(* Registers popped from a stack, and lost in a C++ function. *)
LEMMA Popping ==
  ASSUME regs \in [Regs -> Words], NEW order \in Seq(Regs), NEW s \in Seq(Words),
         Len(order) <= Len(s)
  PROVE  Popped(order, s) \in [Regs -> Words]
<1>1. ASSUME NEW r \in Regs, r \in ToSet(order)
      PROVE  s[Len(s) + 1 - IndexOf(order, r)] \in Words
  <2>1. IndexOf(order, r) \in 1 .. Len(order)
    BY <1>1, Position, LenProperties
  <2>2. Len(s) + 1 - IndexOf(order, r) \in 1 .. Len(s)
    BY <2>1, LenProperties
  <2> QED BY <2>2, ElementOfSeq
<1> QED BY <1>1 DEF Popped

LEMMA Losing ==
  ASSUME regs \in [Regs -> Words], NEW used
  PROVE  /\ Lost(used) \in [Regs -> Words]
         /\ \A r \in Regs \ CalleeSaved : Lost(used)[r] = T!Junk
<1>1. T!Junk \in Words
  BY WordsAre
<1> QED BY <1>1 DEF Lost

(* What is left of a stack. *)
LEMMA Dropping ==
  ASSUME NEW S, NEW s \in Seq(S), NEW n \in Nat, n <= Len(s)
  PROVE  /\ Drop(s, n) \in Seq(S) /\ Len(Drop(s, n)) = Len(s) - n
         /\ \A i \in 1 .. Len(s) - n : Drop(s, n)[i] = s[i]
<1>1. Len(s) \in Nat
  BY LenProperties
<1>2. PICK k \in Nat : k = Len(s) - n /\ k <= Len(s) /\ 1 <= k + 1
  BY <1>1
<1>3. 1 \in Nat \ {0}
  OBVIOUS
<1>4. IsPart(S, SubSeq(s, 1, k), s, 1, k)
  BY <1>2, <1>3, Part, Zenon
<1>5. PICK u : u = SubSeq(s, 1, k)
  OBVIOUS
<1>6. IsPart(S, u, s, 1, k)
  BY <1>4, <1>5
<1>7. u \in Seq(S) /\ Len(u) = k /\ \A i \in 1 .. k : u[i] = s[i]
  BY <1>6 DEF IsPart
<1>8. u = Drop(s, n)
  BY <1>2, <1>5 DEF Drop
<1> QED BY <1>2, <1>7, <1>8

-----------------------------------------------------------------------------
(* Entering the kernel.                                                    *)

(* u stands in s above k. *)
Within(s, k, u) == k + Len(u) <= Len(s) /\ \A i \in 1 .. Len(u) : s[k + i] = u[i]

(* What is pushed stands above what was there, which stays. *)
LEMMA Stacking ==
  ASSUME NEW S, NEW s \in Seq(S), NEW t \in Seq(S), NEW v, IsJoin(S, v, s, t)
  PROVE  /\ v \in Seq(S) /\ Len(v) = Len(s) + Len(t)
         /\ Within(v, 0, s) /\ Within(v, Len(s), t)
         /\ \A u \in Seq(S), k \in Nat : Within(s, k, u) => Within(v, k, u)
<1>1. Len(s) \in Nat /\ Len(t) \in Nat
  BY LenProperties
<1>2. v \in Seq(S) /\ Len(v) = Len(s) + Len(t)
  BY DEF IsJoin
<1>3. Within(v, 0, s)
  BY <1>1 DEF IsJoin, Within
<1>4. Within(v, Len(s), t)
  BY <1>1 DEF IsJoin, Within
<1>5. ASSUME NEW u \in Seq(S), NEW k \in Nat, Within(s, k, u)
      PROVE  Within(v, k, u)
  <2>1. Len(u) \in Nat
    BY LenProperties
  <2>2. ASSUME NEW i \in 1 .. Len(u)
        PROVE  v[k + i] = u[i]
    <3>1. k + i \in 1 .. Len(s)
      BY <1>1, <1>5, <2>1 DEF Within
    <3>2. v[k + i] = s[k + i]
      BY <3>1 DEF IsJoin
    <3> QED BY <1>5, <3>2 DEF Within
  <2>3. k + Len(u) <= Len(v)
    BY <1>1, <1>2, <1>5, <2>1 DEF Within
  <2> QED BY <2>2, <2>3 DEF Within
<1> QED BY <1>2, <1>3, <1>4, <1>5

(* The six pieces of a stub's stack. *)
IsHeight(a, h, p) == a = Len(h \o p)
IsStack(s, h, p, c, e, w, r) == s = ((((h \o p) \o c) \o e) \o w) \o r

StackOf(S, s, a, h, p, c, e, w, r) ==
  /\ s \in Seq(S)
  /\ Len(h \o p) = a
  /\ Len(s) = a + Len(c) + Len(e) + Len(w) + Len(r)
  /\ Within(s, 0, h) /\ Within(s, a, c) /\ Within(s, a + Len(c), e)
  /\ Within(s, a + Len(c) + Len(e), w)
  /\ Within(s, a + Len(c) + Len(e) + Len(w), r)

LEMMA Stacked ==
  ASSUME NEW S, NEW h \in Seq(S), NEW p \in Seq(S), NEW c \in Seq(S),
         NEW e \in Seq(S), NEW w \in Seq(S), NEW r \in Seq(S),
         NEW s, IsStack(s, h, p, c, e, w, r),
         NEW a \in Nat, a = Len(h) + Len(p)
  PROVE  StackOf(S, s, a, h, p, c, e, w, r)
<1>0. /\ Len(h) \in Nat /\ Len(p) \in Nat /\ Len(c) \in Nat
      /\ Len(e) \in Nat /\ Len(w) \in Nat /\ Len(r) \in Nat
  BY LenProperties
<1>1. PICK s1 : s1 = h \o p
  OBVIOUS
<1>2. PICK s2 : s2 = s1 \o c
  OBVIOUS
<1>3. PICK s3 : s3 = s2 \o e
  OBVIOUS
<1>4. PICK s4 : s4 = s3 \o w
  OBVIOUS
<1>5. s = s4 \o r
  BY <1>1, <1>2, <1>3, <1>4, Zenon DEF IsStack
<1>6. s1 \in Seq(S) /\ Len(s1) = a /\ Within(s1, 0, h)
  <2>1. IsJoin(S, s1, h, p)
    BY <1>1, Joined
  <2> QED BY <2>1, Stacking
<1>7. /\ s2 \in Seq(S) /\ Len(s2) = a + Len(c)
      /\ Within(s2, 0, h) /\ Within(s2, a, c)
  <2>1. IsJoin(S, s2, s1, c)
    BY <1>2, <1>6, Joined
  <2> QED BY <1>6, <2>1, Stacking
<1>8. /\ s3 \in Seq(S) /\ Len(s3) = a + Len(c) + Len(e)
      /\ Within(s3, 0, h) /\ Within(s3, a, c) /\ Within(s3, a + Len(c), e)
  <2>1. IsJoin(S, s3, s2, e)
    BY <1>3, <1>7, Joined
  <2>2. /\ s3 \in Seq(S) /\ Len(s3) = Len(s2) + Len(e)
        /\ Within(s3, Len(s2), e)
        /\ \A u \in Seq(S), k \in Nat : Within(s2, k, u) => Within(s3, k, u)
    BY <1>7, <2>1, Stacking
  <2>3. 0 \in Nat
    OBVIOUS
  <2>4. Within(s3, 0, h) /\ Within(s3, a, c)
    BY <1>7, <2>2, <2>3, Zenon
  <2> QED BY <1>7, <2>2, <2>4
<1>9. /\ s4 \in Seq(S) /\ Len(s4) = a + Len(c) + Len(e) + Len(w)
      /\ Within(s4, 0, h) /\ Within(s4, a, c) /\ Within(s4, a + Len(c), e)
      /\ Within(s4, a + Len(c) + Len(e), w)
  <2>1. IsJoin(S, s4, s3, w)
    BY <1>4, <1>8, Joined
  <2>2. /\ s4 \in Seq(S) /\ Len(s4) = Len(s3) + Len(w)
        /\ Within(s4, Len(s3), w)
        /\ \A u \in Seq(S), k \in Nat : Within(s3, k, u) => Within(s4, k, u)
    BY <1>8, <2>1, Stacking
  <2>3. 0 \in Nat /\ a + Len(c) \in Nat
    BY <1>0
  <2>4. Within(s4, 0, h) /\ Within(s4, a, c) /\ Within(s4, a + Len(c), e)
    BY <1>8, <2>2, <2>3, Zenon
  <2> QED BY <1>8, <2>2, <2>4
<1>10. IsJoin(S, s, s4, r)
  BY <1>5, <1>9, Joined
<1>11. /\ s \in Seq(S) /\ Len(s) = Len(s4) + Len(r)
       /\ Within(s, Len(s4), r)
       /\ \A u \in Seq(S), k \in Nat : Within(s4, k, u) => Within(s, k, u)
  BY <1>9, <1>10, Stacking
<1>12. a + Len(c) \in Nat /\ a + Len(c) + Len(e) \in Nat /\ 0 \in Nat
  BY <1>0
<1>13. /\ Within(s, 0, h) /\ Within(s, a, c) /\ Within(s, a + Len(c), e)
       /\ Within(s, a + Len(c) + Len(e), w)
  BY <1>9, <1>11, <1>12, Zenon
<1>14. Len(h \o p) = a
  BY <1>1, <1>6, Zenon
<1>15. Len(s) = a + Len(c) + Len(e) + Len(w) + Len(r)
  BY <1>9, <1>11, Zenon
<1>16. Within(s, a + Len(c) + Len(e) + Len(w), r)
  BY <1>9, <1>11, Zenon
<1> QED BY <1>11, <1>13, <1>14, <1>15, <1>16, Zenon DEF StackOf

(* What the stub of v pushes above the frame of the CPU. *)
CpuError(v) == IF v \in CpuErrorCode THEN <<ErrorOf(v)>> ELSE <<>>
ErrorWord(v) == IF v \in CpuErrorCode THEN ErrorOf(v) ELSE T!Zero

LEMMA StubWordsAre ==
  ASSUME NEW v \in 0 .. 33
  PROVE  /\ CpuError(v) \in Seq(Words) /\ StubWords(StubOf(v)) \in Seq(Words)
         /\ v \in 32 .. 33 => CpuError(v) = <<>> /\ StubWords(StubOf(v)) = <<>>
         /\ v \in 0 .. 31 /\ v \in CpuErrorCode =>
              /\ CpuError(v) = <<ErrorWord(v)>>
              /\ StubWords(StubOf(v)) = <<<<v, "vector", 0>>>>
         /\ v \in 0 .. 31 /\ v \notin CpuErrorCode =>
              /\ CpuError(v) = <<>>
              /\ StubWords(StubOf(v)) = <<ErrorWord(v), <<v, "vector", 0>>>>
<1>1. PICK x \in Words : x = <<v, "vector", 0>>
  <2>1. "vector" \in Names /\ v \in Int
    BY DEF Names
  <2> QED BY <2>1, WordsAre, Zenon
<1>2. ErrorOf(v) \in Words
  <2>1. "error_code" \in Names /\ v \in Int
    BY DEF Names
  <2> QED BY <2>1, WordsAre, Zenon DEF ErrorOf
<1>3. T!Zero \in Words
  BY WordsAre
<1>4. CASE v \in 32 .. 33
  <2>1. CpuError(v) = <<>>
    BY <1>4 DEF CpuError, CpuErrorCode
  <2>2. StubWords(StubOf(v)) = <<>>
    BY <1>4 DEF StubWords, StubOf
  <2>3. ~(v \in 0 .. 31)
    BY <1>4
  <2> QED BY <1>4, <2>1, <2>2, <2>3
<1>5. CASE v \in 0 .. 31 /\ v \in CpuErrorCode
  <2>1. CpuError(v) = <<ErrorWord(v)>> /\ ErrorWord(v) = ErrorOf(v)
    BY <1>5 DEF CpuError, ErrorWord
  <2>2. StubOf(v)[1] = "isr_stub" /\ StubOf(v)[2] = v
    BY <1>5 DEF StubOf
  <2>3. v \in ISR_ERRCODE
    BY <1>5 DEF ISR_ERRCODE, CpuErrorCode
  <2>4. StubWords(StubOf(v)) = <<>> \o <<x>>
    BY <1>1, <2>2, <2>3, Zenon DEF StubWords
  <2>5. StubWords(StubOf(v)) = <<x>>
    BY <2>4
  <2>6. CpuError(v) \in Seq(Words)
    BY <1>2, <2>1
  <2>7. ~(v \in 32 .. 33)
    BY <1>5
  <2> QED BY <1>1, <1>5, <2>1, <2>5, <2>6, <2>7
<1>6. CASE v \in 0 .. 31 /\ v \notin CpuErrorCode
  <2>1. CpuError(v) = <<>> /\ ErrorWord(v) = T!Zero
    BY <1>6 DEF CpuError, ErrorWord
  <2>2. StubOf(v)[1] = "isr_stub" /\ StubOf(v)[2] = v
    BY <1>6 DEF StubOf
  <2>3. v \notin ISR_ERRCODE
    BY <1>6 DEF ISR_ERRCODE, CpuErrorCode
  <2>4. PICK z \in Words : z = T!Zero
    BY <1>3
  <2>5. StubWords(StubOf(v)) = <<z>> \o <<x>>
    BY <1>1, <2>2, <2>3, <2>4, Zenon DEF StubWords
  <2>6. StubWords(StubOf(v)) = <<z, x>>
    BY <2>5, Pair
  <2>7. ~(v \in 32 .. 33)
    BY <1>6
  <2> QED BY <1>1, <1>6, <2>1, <2>4, <2>6, <2>7
<1>7. v \in 32 .. 33 \/ v \in 0 .. 31
  OBVIOUS
<1> QED BY <1>4, <1>5, <1>6, <1>7

LEMMA UpToOne == \A n \in Nat : n <= 1 => n \in 0 .. 1
  OBVIOUS

(* The stack of the task the CPU was in when it took v. *)
Entered(v, s, a) ==
  /\ s \in Seq(Words) /\ Len(Here) <= a /\ Within(s, 0, Here)
  /\ a \in 0 .. 2 /\ (Top[s_current] + a) % 2 = 0
  /\ s[a + 1] = Code("ss") /\ s[a + 2] = <<Len(Here), "rsp", 0>>
  /\ s[a + 3] = Flag(if_flag) /\ s[a + 4] = Code("cs") /\ s[a + 5] = rip
  /\ v \in 32 .. 33 =>
       Len(s) = a + 20 /\ \A k \in 1 .. 15 : s[a + 5 + k] = regs[StubPush[k]]
  /\ v \in 0 .. 31 =>
       /\ Len(s) = a + 22
       /\ s[a + 6] = ErrorWord(v) /\ s[a + 7] = <<v, "vector", 0>>
       /\ \A k \in 1 .. 15 : s[a + 7 + k] = regs[StubPush[k]]

Pushed(v, s, a) ==
  /\ IsStack(s, Here, Pad(Here), CpuFrame(Here), CpuError(v),
             StubWords(StubOf(v)), Saved(StubPush))
  /\ IsHeight(a, Here, Pad(Here))

LEMMA Entering ==
  ASSUME CpuInv, pc = "task", NEW v \in 0 .. 33, NEW s, NEW a, Pushed(v, s, a)
  PROVE  Entered(v, s, a)
<1>1. PICK h \in Seq(Words) : h = Here /\ Len(h) \in 0 .. 1
  <2>1. Here \in Seq(Words)
    BY DEF CpuInv, CpuTypes, Here
  <2>2. Len(Here) \in Nat /\ Len(Here) <= 1
    BY <2>1, LenProperties DEF CpuInv, CurrentStack
  <2>3. Len(Here) \in 0 .. 1
    BY <2>2, UpToOne, Zenon
  <2> QED BY <2>1, <2>3, Zenon
<1>2. PICK top \in {0, 1} : top = Top[s_current]
  BY ContextAssumption DEF CpuInv, CpuTypes
<1>3. PICK p \in Seq(Words) : p = Pad(Here) /\ Len(p) \in 0 .. 1 /\ (top + Len(h) + Len(p)) % 2 = 0
  <2>1. PICK w \in Words : w = Code("pad")
    BY WordsAre DEF Names
  <2>2. CASE (top + Len(h)) % 2 = 1
    <3>1. Pad(Here) = <<w>>
      BY <1>1, <1>2, <2>1, <2>2, Zenon DEF Pad
    <3>2. (top + Len(h) + 1) % 2 = 0
      BY <1>1, <2>2
    <3>3. Len(<<w>>) = 1 /\ <<w>> \in Seq(Words) /\ 1 \in 0 .. 1
      OBVIOUS
    <3> QED BY <3>1, <3>2, <3>3, Zenon
  <2>3. CASE (top + Len(h)) % 2 # 1
    <3>1. Pad(Here) = <<>>
      BY <1>1, <1>2, <2>3, Zenon DEF Pad
    <3>2. (top + Len(h) + 0) % 2 = 0
      BY <1>1, <2>3
    <3>3. Len(<<>>) = 0 /\ <<>> \in Seq(Words) /\ 0 \in 0 .. 1
      OBVIOUS
    <3> QED BY <3>1, <3>2, <3>3, Zenon
  <2> QED BY <2>2, <2>3
<1>4. PICK n \in Words : n = <<Len(Here), "rsp", 0>>
  <2>1. "rsp" \in Names /\ Len(Here) \in Int
    BY <1>1 DEF Names
  <2> QED BY <2>1, WordsAre, Zenon
<1>5. PICK ss \in Words, fl \in Words, cs \in Words :
        ss = Code("ss") /\ fl = Flag(if_flag) /\ cs = Code("cs")
  <2>1. "ss" \in Names /\ "cs" \in Names
    BY DEF Names
  <2> QED BY <2>1, WordsAre, Zenon
<1>6. rip \in Words /\ regs \in [Regs -> Words]
  BY DEF CpuInv, CpuTypes
<1>7. PICK c \in Seq(Words) :
        /\ c = CpuFrame(Here) /\ Len(c) = 5
        /\ c[1] = ss /\ c[2] = n /\ c[3] = fl /\ c[4] = cs /\ c[5] = rip
  <2>1. CpuFrame(Here) = <<ss, n, fl, cs, rip>>
    BY <1>4, <1>5, Zenon DEF CpuFrame
  <2>2. PICK c : c = <<ss, n, fl, cs, rip>>
    OBVIOUS
  <2>3. /\ c \in Seq(Words) /\ Len(c) = 5
        /\ c[1] = ss /\ c[2] = n /\ c[3] = fl /\ c[4] = cs /\ c[5] = rip
    BY <1>6, <2>2
  <2> QED BY <2>1, <2>2, <2>3, Zenon
<1>8. PICK e \in Seq(Words), w \in Seq(Words) : e = CpuError(v) /\ w = StubWords(StubOf(v))
  BY StubWordsAre
<1>9. PICK r \in Seq(Words) :
        /\ r = Saved(StubPush) /\ Len(r) = 15
        /\ \A k \in 1 .. 15 : r[k] = regs[StubPush[k]]
  <2>1. StubPush \in Seq(Regs) /\ Len(StubPush) = 15
    BY Orders
  <2>2. /\ Saved(StubPush) \in Seq(Words) /\ Len(Saved(StubPush)) = Len(StubPush)
        /\ \A k \in 1 .. Len(StubPush) : Saved(StubPush)[k] = regs[StubPush[k]]
    BY <1>6, <2>1, Saving
  <2> QED BY <2>1, <2>2
<1>10. IsStack(s, h, p, c, e, w, r)
  BY <1>1, <1>3, <1>7, <1>8, <1>9, Zenon DEF Pushed
<1>11. PICK b \in Nat : b = Len(h) + Len(p)
  BY <1>1, <1>3
<1>12. /\ s \in Seq(Words) /\ Len(h \o p) = b
       /\ Len(s) = b + Len(c) + Len(e) + Len(w) + Len(r)
       /\ Within(s, 0, h) /\ Within(s, b, c) /\ Within(s, b + Len(c), e)
       /\ Within(s, b + Len(c) + Len(e), w)
       /\ Within(s, b + Len(c) + Len(e) + Len(w), r)
  <2>1. StackOf(Words, s, b, h, p, c, e, w, r)
    BY <1>10, <1>11, Stacked, Zenon
  <2> QED BY <2>1, Zenon DEF StackOf
<1>13. a = b
  BY <1>1, <1>3, <1>12, Zenon DEF Pushed, IsHeight
<1>14. b \in 0 .. 2 /\ (top + b) % 2 = 0 /\ Len(h) <= b
  <2>1. top + b = top + Len(h) + Len(p)
    BY <1>1, <1>3, <1>11
  <2>2. (top + b) % 2 = 0
    BY <1>3, <2>1, Zenon
  <2>3. b \in 0 .. 2 /\ Len(h) <= b
    <3>1. PICK i \in 0 .. 1, j \in 0 .. 1 : i = Len(h) /\ j = Len(p)
      BY <1>1, <1>3, Zenon
    <3>2. i + j \in 0 .. 2 /\ i <= i + j
      OBVIOUS
    <3>3. b = i + j
      BY <1>11, <3>1, Zenon
    <3> QED BY <3>1, <3>2, <3>3, Zenon
  <2> QED BY <2>2, <2>3
<1>15. /\ s[b + 1] = ss /\ s[b + 2] = n /\ s[b + 3] = fl
       /\ s[b + 4] = cs /\ s[b + 5] = rip
  <2>1. \A i \in 1 .. 5 : s[b + i] = c[i]
    BY <1>7, <1>12 DEF Within
  <2> QED BY <1>7, <2>1
<1>16. ASSUME v \in 32 .. 33
       PROVE  Len(s) = b + 20 /\ \A k \in 1 .. 15 : s[b + 5 + k] = regs[StubPush[k]]
  <2>1. e = <<>> /\ w = <<>>
    BY <1>8, <1>16, StubWordsAre
  <2>2. Len(e) = 0 /\ Len(w) = 0
    BY <2>1
  <2>3. b + Len(c) + Len(e) + Len(w) = b + 5
    BY <1>7, <2>2
  <2>4. Within(s, b + 5, r)
    BY <1>12, <2>3, Zenon
  <2>5. \A k \in 1 .. 15 : s[b + 5 + k] = r[k]
    BY <1>9, <2>4, Zenon DEF Within
  <2>6. Len(s) = b + 20
    BY <1>7, <1>9, <1>12, <2>2
  <2> QED BY <1>9, <2>5, <2>6, Zenon
<1>17. ASSUME v \in 0 .. 31
       PROVE  /\ Len(s) = b + 22
              /\ s[b + 6] = ErrorWord(v) /\ s[b + 7] = <<v, "vector", 0>>
              /\ \A k \in 1 .. 15 : s[b + 7 + k] = regs[StubPush[k]]
  <2>1. /\ Len(e) + Len(w) = 2
        /\ s[b + 6] = ErrorWord(v) /\ s[b + 7] = <<v, "vector", 0>>
    <3>1. CASE v \in CpuErrorCode
      <4>1. e = <<ErrorWord(v)>> /\ w = <<<<v, "vector", 0>>>>
        BY <1>8, <1>17, <3>1, StubWordsAre
      <4>2. Len(e) = 1 /\ Len(w) = 1 /\ e[1] = ErrorWord(v) /\ w[1] = <<v, "vector", 0>>
        BY <4>1
      <4>3. Within(s, b + 5, e) /\ Within(s, b + 6, w)
        <5>1. b + Len(c) = b + 5 /\ b + Len(c) + Len(e) = b + 6
          BY <1>7, <4>2
        <5> QED BY <1>12, <5>1, Zenon
      <4>4. s[b + 5 + 1] = e[1] /\ s[b + 6 + 1] = w[1]
        BY <4>2, <4>3 DEF Within
      <4>5. b + 5 + 1 = b + 6 /\ b + 6 + 1 = b + 7 /\ Len(e) + Len(w) = 2
        BY <4>2
      <4> QED BY <4>2, <4>4, <4>5, Zenon
    <3>2. CASE v \notin CpuErrorCode
      <4>1. e = <<>> /\ w = <<ErrorWord(v), <<v, "vector", 0>>>>
        BY <1>8, <1>17, <3>2, StubWordsAre
      <4>2. Len(e) = 0 /\ Len(w) = 2 /\ w[1] = ErrorWord(v) /\ w[2] = <<v, "vector", 0>>
        BY <4>1
      <4>3. Within(s, b + 5, w)
        <5>1. b + Len(c) + Len(e) = b + 5
          BY <1>7, <4>2
        <5> QED BY <1>12, <5>1, Zenon
      <4>4. s[b + 5 + 1] = w[1] /\ s[b + 5 + 2] = w[2]
        BY <4>2, <4>3 DEF Within
      <4>5. b + 5 + 1 = b + 6 /\ b + 5 + 2 = b + 7 /\ Len(e) + Len(w) = 2
        BY <4>2
      <4> QED BY <4>2, <4>4, <4>5, Zenon
    <3> QED BY <3>1, <3>2
  <2>2. Len(e) \in Nat /\ Len(w) \in Nat
    BY LenProperties
  <2>3. b + Len(c) + Len(e) + Len(w) = b + 7
    BY <1>7, <2>1, <2>2
  <2>4. Within(s, b + 7, r)
    BY <1>12, <2>3, Zenon
  <2>5. \A k \in 1 .. 15 : s[b + 7 + k] = r[k]
    BY <1>9, <2>4, Zenon DEF Within
  <2>6. Len(s) = b + 22
    BY <1>9, <1>12, <2>3
  <2> QED BY <1>9, <2>1, <2>5, <2>6, Zenon
<1> QED BY <1>1, <1>2, <1>4, <1>5, <1>12, <1>13, <1>14, <1>15, <1>16, <1>17, Zenon DEF Entered

-----------------------------------------------------------------------------
(* Every step keeps the invariant of the stacks.                           *)

(* The first stack of a task: its entry function below six zeros. *)
LEMMA FirstStack ==
  ASSUME NEW t \in Tasks
  PROVE  /\ setup_initial_stack(t) \in Seq(Words) /\ Len(setup_initial_stack(t)) = 7
         /\ setup_initial_stack(t)[1] = T!Val(t, "rip", 0)
         /\ \A i \in 2 .. 7 : setup_initial_stack(t)[i] = T!Zero
<1>1. PICK e \in Words : e = T!Val(t, "rip", 0)
  <2>1. "rip" \in Names /\ 0 \in 0 .. Epochs - 1
    BY ContextAssumption DEF Names
  <2> QED BY <2>1, WordsAre, Zenon
<1>2. PICK a : a = <<e>>
  OBVIOUS
<1>3. a \in Seq(Words) /\ Len(a) = 1 /\ a[1] = e
  BY <1>2
<1>4. PICK z : z = Zeros(6)
  OBVIOUS
<1>5. z \in Seq(Words) /\ Len(z) = 6 /\ \A i \in 1 .. 6 : z[i] = T!Zero
  <2>1. z \in [1 .. 6 -> Words] /\ \A i \in 1 .. 6 : z[i] = T!Zero
    BY <1>4, WordsAre DEF Zeros
  <2>2. 6 \in Nat
    OBVIOUS
  <2>3. z \in Seq(Words) /\ Len(z) = 6
    BY <2>1, <2>2, FunctionsAreSequences, Zenon
  <2> QED BY <2>1, <2>3
<1>6. PICK s : s = a \o z
  OBVIOUS
<1>7. IsJoin(Words, s, a, z)
  BY <1>3, <1>5, <1>6, Joined
<1>8. /\ s \in Seq(Words) /\ Len(s) = 7 /\ s[1] = e
      /\ \A j \in 1 .. 6 : s[1 + j] = T!Zero
  BY <1>3, <1>5, <1>7 DEF IsJoin
<1>9. \A i \in 2 .. 7 : s[i] = T!Zero
  <2>1. \A i \in 2 .. 7 : i - 1 \in 1 .. 6 /\ 1 + (i - 1) = i
    OBVIOUS
  <2> QED BY <1>8, <2>1
<1>10. s = setup_initial_stack(t)
  BY <1>1, <1>2, <1>4, <1>6, Zenon DEF setup_initial_stack
<1> QED BY <1>1, <1>8, <1>9, <1>10

LEMMA CpuStart == Init => CpuInv
<1> SUFFICES ASSUME Init PROVE CpuInv
  OBVIOUS
<1>1. 0 \in Tasks /\ 0 \in 0 .. Epochs - 1
  BY ContextAssumption
<1>2. /\ regs = T!RegsOf(0, 0) /\ rip = T!Val(0, "rip", 0) /\ if_flag = TRUE
      /\ pc = "task" /\ s_current = 0 /\ dump = <<>> /\ fault = <<>>
      /\ started = [t \in Tasks |-> t = 0] /\ at = [t \in Tasks |-> 0]
  BY DEF Init
<1>3. /\ stack = [t \in Tasks |-> IF t = 0 THEN <<>> ELSE setup_initial_stack(t)]
      /\ rsp = [t \in Tasks |-> Len(stack[t])]
  BY DEF Init
<1>4. stack[0] = <<>> /\ \A t \in Tasks : t # 0 => stack[t] = setup_initial_stack(t)
  BY <1>1, <1>3, Zenon
<1>5. <<>> \in Seq(Words) /\ Len(<<>>) = 0
  OBVIOUS
<1>6. ASSUME NEW t \in Tasks
      PROVE  stack[t] \in Seq(Words) /\ Len(stack[t]) \in Nat
  <2>1. stack[t] \in Seq(Words)
    BY <1>4, <1>5, FirstStack, Zenon
  <2> QED BY <2>1, LenProperties, Zenon
<1>7. CpuTypes
  <2>1. regs \in [Regs -> Words]
    <3>1. \A r \in Regs : T!Val(0, r, 0) \in Words
      BY <1>1, WordsAre DEF Names
    <3> QED BY <1>2, <3>1 DEF T!RegsOf
  <2>2. rip \in Words
    BY <1>1, <1>2, WordsAre DEF Names
  <2>3. stack \in [Tasks -> Seq(Words)]
    <3>1. stack = [t \in Tasks |-> stack[t]]
      BY <1>3, Zenon
    <3> QED BY <1>6, <3>1, Zenon
  <2>4. rsp \in [Tasks -> Heights]
    <3>1. 0 \in Heights /\ 7 \in Heights
      BY Orders DEF Heights
    <3>2. \A t \in Tasks : Len(stack[t]) \in Heights
      BY <1>4, <1>5, <3>1, FirstStack, Zenon
    <3> QED BY <1>3, <3>2, Zenon
  <2>5. at \in [Tasks -> 0 .. 2] /\ started \in [Tasks -> BOOLEAN]
    BY <1>2
  <2>6. pc \in {"task"} \cup Stubbed \cup Switching \cup Faulting
    BY <1>2
  <2> QED BY <1>1, <1>2, <2>1, <2>2, <2>3, <2>4, <2>5, <2>6, Zenon DEF CpuTypes
<1>8. CurrentStack
  <2>1. Len(Here) <= 1
    BY <1>2, <1>4, <1>5 DEF Here
  <2>2. started[s_current] /\ pc = "task"
    BY <1>1, <1>2
  <2> QED BY <2>1, <2>2 DEF CurrentStack, Stubbed, Switching, Faulting
<1>9. OtherStacks
  <2>1. ASSUME NEW t \in Tasks, t # 0
        PROVE  Fresh(t)
    <3>1. stack[t] = setup_initial_stack(t) /\ Len(stack[t]) = 7
      BY <1>4, <2>1, FirstStack, Zenon
    <3>2. rsp[t] = Len(stack[t])
      BY <1>3, Zenon
    <3> QED BY <3>1, <3>2, Zenon DEF Fresh
  <2>2. \A t \in Tasks : started[t] <=> t = 0
    BY <1>2
  <2> QED BY <1>2, <2>1, <2>2, Zenon DEF OtherStacks
<1>10. KernelRegs /\ FaultShown
  BY <1>2 DEF KernelRegs, FaultShown, Faulting
<1> QED BY <1>7, <1>8, <1>9, <1>10 DEF CpuInv

(* The other tasks' stacks while only the current one's changes. *)
LEMMA OthersStay ==
  ASSUME CpuInv, UNCHANGED tasks,
         \A t \in Tasks : t # s_current => stack'[t] = stack[t] /\ at'[t] = at[t]
  PROVE  OtherStacks'
<1>1. OtherStacks /\ started[s_current]
  BY DEF CpuInv, CurrentStack
<1>2. s_current' = s_current /\ rsp' = rsp /\ started' = started
  BY DEF tasks
<1>3. ASSUME NEW t \in Tasks, t # s_current, Waiting(t)
      PROVE  Waiting(t)'
  BY <1>2, <1>3 DEF Waiting, FrameAt
<1>4. ASSUME NEW t \in Tasks, t # s_current, Fresh(t)
      PROVE  Fresh(t)'
  BY <1>2, <1>4 DEF Fresh, setup_initial_stack, Zeros
<1> QED BY <1>1, <1>2, <1>3, <1>4, Zenon DEF OtherStacks

LEMMA IrqKeeps == CpuInv /\ (irq_stub_0 \/ irq_stub_1) => CpuInv'
<1> SUFFICES ASSUME CpuInv, irq_stub_0 \/ irq_stub_1 PROVE CpuInv'
  OBVIOUS
<1>1. /\ regs' = Lost({}) /\ rip' = rip /\ if_flag' = if_flag /\ UNCHANGED tasks
      /\ stack' = stack /\ dump' = dump /\ at' = at /\ fault' = fault
      /\ pc \in {"irq_stub_0", "irq_stub_1"} /\ pc' \in {"sched_tick", "leave"}
  BY DEF irq_stub_0, irq_stub_1
<1>2. CpuTypes /\ CurrentStack /\ OtherStacks /\ KernelRegs /\ FaultShown
  BY DEF CpuInv
<1>3. s_current' = s_current /\ rsp' = rsp /\ started' = started
  BY <1>1 DEF tasks
<1>4. Lost({}) \in [Regs -> Words] /\ \A r \in Regs \ CalleeSaved : Lost({})[r] = T!Junk
  BY <1>2, Losing DEF CpuTypes
<1>5. CpuTypes'
  BY <1>1, <1>2, <1>3, <1>4 DEF CpuTypes, Stubbed
<1>6. CurrentStack'
  BY <1>1, <1>2, <1>3 DEF CurrentStack, Here, FrameAt, Stubbed, Switching, Faulting
<1>7. OtherStacks'
  BY <1>1, OthersStay
<1>8. KernelRegs'
  BY <1>1, <1>2, <1>4 DEF KernelRegs
<1>9. FaultShown'
  BY <1>1, <1>2 DEF FaultShown, Faulting
<1> QED BY <1>5, <1>6, <1>7, <1>8, <1>9 DEF CpuInv

LEMMA RunKeeps == CpuInv /\ run => CpuInv'
<1> SUFFICES ASSUME CpuInv, run PROVE CpuInv'
  OBVIOUS
<1>1. PICK e, own :
        /\ e = (rip[3] + 1) % Epochs /\ own \in T!OwnOf(s_current, e)
        /\ regs' = T!RegsOf(s_current, e) /\ rip' = T!Val(s_current, "rip", e)
        /\ stack' = [stack EXCEPT ![s_current] = own]
        /\ at' = [at EXCEPT ![s_current] = Len(own)]
  BY Zenon DEF run
<1>2. /\ if_flag' \in {if_flag, TRUE} /\ pc = "task" /\ pc' = "task"
      /\ UNCHANGED tasks /\ dump' = dump /\ fault' = fault
  BY DEF run
<1>3. CpuTypes /\ CurrentStack /\ FaultShown
  BY DEF CpuInv
<1>4. s_current' = s_current /\ rsp' = rsp /\ started' = started
  BY <1>2 DEF tasks
<1>5. s_current \in Tasks /\ stack \in [Tasks -> Seq(Words)] /\ at \in [Tasks -> 0 .. 2]
  BY <1>3 DEF CpuTypes
<1>6. e \in 0 .. Epochs - 1
  <2>1. rip[3] \in 0 .. Epochs - 1
    BY <1>3 DEF CpuTypes, Words
  <2> QED BY <1>1, <2>1, ContextAssumption
<1>7. own \in Seq(Words) /\ Len(own) \in 0 .. 1
  <2>1. CASE own = <<>>
    BY <2>1
  <2>2. CASE own = <<T!Val(s_current, "local", e)>>
    <3>1. PICK w \in Words : w = T!Val(s_current, "local", e)
      BY <1>5, <1>6, WordsAre DEF Names
    <3> QED BY <2>2, <3>1
  <2> QED BY <1>1, <2>1, <2>2 DEF T!OwnOf
<1>8. /\ stack' \in [Tasks -> Seq(Words)] /\ stack'[s_current] = own
      /\ at' \in [Tasks -> 0 .. 2]
      /\ \A t \in Tasks : t # s_current => stack'[t] = stack[t] /\ at'[t] = at[t]
  <2>1. Len(own) \in 0 .. 2
    BY <1>7
  <2> QED BY <1>1, <1>5, <1>7, <2>1
<1>9. CpuTypes'
  <2>1. regs' \in [Regs -> Words]
    <3>1. \A r \in Regs : T!Val(s_current, r, e) \in Words
      BY <1>5, <1>6, WordsAre DEF Names
    <3> QED BY <1>1, <3>1 DEF T!RegsOf
  <2>2. rip' \in Words
    BY <1>1, <1>5, <1>6, WordsAre DEF Names
  <2> QED BY <1>2, <1>3, <1>4, <1>8, <2>1, <2>2 DEF CpuTypes
<1>10. CurrentStack'
  <2>1. Len(Here') <= 1
    <3>1. Here' = own
      BY <1>4, <1>8 DEF Here
    <3>2. Len(own) <= 1
      BY <1>7
    <3> QED BY <3>1, <3>2, Zenon
  <2> QED BY <1>2, <1>3, <1>4, <2>1 DEF CurrentStack, Stubbed, Switching, Faulting
<1>11. OtherStacks'
  BY <1>2, <1>8, OthersStay
<1>12. KernelRegs'
  BY <1>2 DEF KernelRegs
<1>13. FaultShown'
  BY <1>2, <1>3 DEF FaultShown, Faulting
<1> QED BY <1>9, <1>10, <1>11, <1>12, <1>13 DEF CpuInv

(* sched_tick's stack: the return address and its registers, above the     *)
(* stub's words.                                                           *)
IsCall(S, v, s, w, r) ==
  /\ v \in Seq(S) /\ Len(v) = Len(s) + 1 + Len(r)
  /\ \A i \in 1 .. Len(s) : v[i] = s[i]
  /\ v[Len(s) + 1] = w
  /\ \A i \in 1 .. Len(r) : v[Len(s) + 1 + i] = r[i]

LEMMA Calling ==
  ASSUME NEW S, NEW s \in Seq(S), NEW w \in S, NEW r \in Seq(S), NEW v,
         v = (s \o <<w>>) \o r
  PROVE  IsCall(S, v, s, w, r)
<1>1. PICK a : a = <<w>>
  OBVIOUS
<1>2. a \in Seq(S) /\ Len(a) = 1 /\ a[1] = w
  BY <1>1
<1>3. PICK b : b = s \o a
  OBVIOUS
<1>4. v = b \o r
  BY <1>1, <1>3, Zenon
<1> HIDE <1>1, <1>3
<1>5. Len(s) \in Nat /\ Len(r) \in Nat
  BY LenProperties
<1>6. IsJoin(S, b, s, a)
  BY <1>2, <1>3, Joined
<1>7. /\ b \in Seq(S) /\ Len(b) = Len(s) + 1
      /\ \A i \in 1 .. Len(s) : b[i] = s[i]
      /\ b[Len(s) + 1] = w
  BY <1>2, <1>5, <1>6 DEF IsJoin
<1>8. IsJoin(S, v, b, r)
  BY <1>4, <1>7, Joined
<1>9. /\ v \in Seq(S) /\ Len(v) = Len(b) + Len(r)
      /\ \A i \in 1 .. Len(b) : v[i] = b[i]
      /\ \A i \in 1 .. Len(r) : v[Len(b) + i] = r[i]
  BY <1>8, Zenon DEF IsJoin
<1>10. \A i \in 1 .. Len(s) : i \in 1 .. Len(b)
  BY <1>5, <1>7
<1>11. Len(s) + 1 \in 1 .. Len(b)
  BY <1>5, <1>7
<1>12. /\ \A i \in 1 .. Len(s) : v[i] = s[i]
       /\ v[Len(s) + 1] = w
  BY <1>7, <1>9, <1>10, <1>11, Zenon
<1> QED BY <1>7, <1>9, <1>12, Zenon DEF IsCall

(* The frame of the interrupt stays while the kernel works above it. *)
KeepsFrame ==
  /\ UNCHANGED tasks /\ at' = at /\ fault' = fault
  /\ \A t \in Tasks : t # s_current => stack'[t] = stack[t]
  /\ \A i \in 1 .. at[s_current] + 20 : stack'[s_current][i] = Here[i]

LEMMA TickKeeps == CpuInv /\ sched_tick => CpuInv' /\ KeepsFrame
<1> SUFFICES ASSUME CpuInv, sched_tick PROVE CpuInv' /\ KeepsFrame
  OBVIOUS
<1>1. /\ regs' = Lost(ToSet(SchedUses)) /\ rip' = rip /\ if_flag' = if_flag
      /\ UNCHANGED tasks /\ dump' = dump /\ at' = at /\ fault' = fault
      /\ pc = "sched_tick" /\ pc' \in Switching
  BY DEF sched_tick, Switching
<1>2. PICK v : v = (Here \o <<Code("leave")>>) \o Saved(SchedUses)
  OBVIOUS
<1>3. stack' = [stack EXCEPT ![s_current] = v]
  BY <1>2, Zenon DEF sched_tick
<1>4. CpuTypes /\ CurrentStack /\ KernelRegs /\ FaultShown
  BY DEF CpuInv
<1>5. s_current' = s_current /\ rsp' = rsp /\ started' = started
  BY <1>1 DEF tasks
<1>6. /\ s_current \in Tasks /\ stack \in [Tasks -> Seq(Words)]
      /\ Here \in Seq(Words) /\ regs \in [Regs -> Words]
  BY <1>4 DEF CpuTypes, Here
<1>7. Code("leave") \in Words
  BY WordsAre DEF Names
<1>8. Saved(SchedUses) \in Seq(Words) /\ Len(Saved(SchedUses)) = Len(SchedUses)
  BY <1>6, Orders, Saving
<1>9. /\ v \in Seq(Words) /\ Len(v) = Len(Here) + 1 + Len(SchedUses)
      /\ \A i \in 1 .. Len(Here) : v[i] = Here[i]
      /\ v[Len(Here) + 1] = Code("leave")
  <2>1. IsCall(Words, v, Here, Code("leave"), Saved(SchedUses))
    BY <1>2, <1>6, <1>7, <1>8, Calling, Zenon
  <2> QED BY <1>8, <2>1, Zenon DEF IsCall
<1>10. PICK a \in 0 .. 2 : a = at[s_current]
  BY <1>4 DEF CpuTypes
<1>11. Len(Here) = a + 20 /\ FrameAt(s_current, Here, a) /\ started[s_current]
  BY <1>1, <1>4, <1>10 DEF CurrentStack, Stubbed
<1>12. v[a + 2] = Here[a + 2]
  BY <1>9, <1>11
<1>13. Len(v) = a + 21 + Len(SchedUses) /\ v[a + 21] = Code("leave")
  <2>1. Len(SchedUses) \in Nat
    BY Orders
  <2>2. Len(Here) + 1 = a + 21 /\ Len(Here) + 1 + Len(SchedUses) = a + 21 + Len(SchedUses)
    BY <1>11, <2>1
  <2> QED BY <1>9, <2>2, Zenon
<1>14. /\ stack' \in [Tasks -> Seq(Words)] /\ stack'[s_current] = v
       /\ \A t \in Tasks : t # s_current => stack'[t] = stack[t] /\ at'[t] = at[t]
  BY <1>1, <1>3, <1>6, <1>9
<1>15. CpuTypes'
  <2>1. regs' \in [Regs -> Words]
    BY <1>1, <1>6, Losing
  <2> QED BY <1>1, <1>4, <1>5, <1>14, <2>1 DEF CpuTypes
<1>16. CurrentStack'
  <2>1. Here' = v /\ at'[s_current'] = a
    BY <1>1, <1>5, <1>10, <1>14 DEF Here
  <2>2. FrameAt(s_current, v, a)
    BY <1>11, <1>12 DEF FrameAt
  <2>3. started'[s_current'] /\ s_current' = s_current
    BY <1>5, <1>11
  <2>4. pc' # "task" /\ pc' \notin Stubbed /\ pc' \notin Faulting
    BY <1>1 DEF Switching, Stubbed, Faulting
  <2> QED BY <1>13, <2>1, <2>2, <2>3, <2>4, Zenon DEF CurrentStack
<1>17. OtherStacks'
  BY <1>1, <1>14, OthersStay
<1>18. KernelRegs'
  <2>1. \A r \in Regs \ CalleeSaved : regs'[r] = T!Junk
    BY <1>1, <1>6, Losing
  <2> QED BY <1>1, <1>4, <2>1 DEF KernelRegs, Switching
<1>19. FaultShown'
  BY <1>1, <1>4 DEF FaultShown, Faulting, Switching
<1>20. KeepsFrame
  <2>1. \A i \in 1 .. a + 20 : v[i] = Here[i]
    BY <1>9, <1>11, Zenon
  <2> QED BY <1>1, <1>10, <1>14, <2>1, Zenon DEF KeepsFrame
<1> QED BY <1>15, <1>16, <1>17, <1>18, <1>19, <1>20, Zenon DEF CpuInv

LEMMA IsrKeeps == CpuInv /\ isr_handler => CpuInv'
<1> SUFFICES ASSUME CpuInv, isr_handler PROVE CpuInv'
  OBVIOUS
<1>1. /\ pc = "isr_handler" /\ pc' = "panic"
      /\ dump' = [f \in ToSet(InterruptFrame) |->
                    Here[Len(Here) + 1 - IndexOf(InterruptFrame, f)]]
      /\ regs' = regs /\ rip' = rip /\ if_flag' = if_flag /\ UNCHANGED tasks
      /\ stack' = stack /\ at' = at /\ fault' = fault
  BY DEF isr_handler
<1>2. CpuTypes /\ CurrentStack /\ KernelRegs /\ FaultShown
  BY DEF CpuInv
<1>3. s_current' = s_current /\ rsp' = rsp /\ started' = started
  BY <1>1 DEF tasks
<1>4. PICK a \in 0 .. 2 : a = at[s_current]
  BY <1>2 DEF CpuTypes
<1>5. Len(Here) = a + 22
  BY <1>1, <1>2, <1>4 DEF CurrentStack, Faulting
<1>6. dump' = fault
  <2>1. /\ fault = [f \in ToSet(InterruptFrame) |-> fault[f]]
        /\ \A p \in 1 .. 22 : Here[a + 23 - p] = fault[InterruptFrame[p]]
    BY <1>1, <1>2, <1>4 DEF FaultShown
  <2>2. DOMAIN InterruptFrame = 1 .. 22
    BY DEF InterruptFrame
  <2>3. ASSUME NEW f \in ToSet(InterruptFrame)
        PROVE  Here[Len(Here) + 1 - IndexOf(InterruptFrame, f)] = fault[f]
    <3>1. PICK p \in 1 .. 22 : p = IndexOf(InterruptFrame, f) /\ InterruptFrame[p] = f
      BY <2>2, Position
    <3>2. Len(Here) + 1 - p = a + 23 - p
      BY <1>5
    <3> QED BY <2>1, <3>1, <3>2, Zenon
  <2>4. dump' = [f \in ToSet(InterruptFrame) |-> fault[f]]
    BY <1>1, <2>3, Zenon
  <2> QED BY <2>1, <2>4, Zenon
<1>7. CpuTypes'
  BY <1>1, <1>2, <1>3 DEF CpuTypes, Faulting
<1>8. CurrentStack'
  BY <1>1, <1>2, <1>3 DEF CurrentStack, Here, FrameAt, Stubbed, Switching, Faulting
<1>9. OtherStacks'
  BY <1>1, OthersStay
<1>10. KernelRegs'
  BY <1>1, <1>2 DEF KernelRegs
<1>11. FaultShown'
  BY <1>1, <1>2, <1>6 DEF FaultShown, Faulting
<1> QED BY <1>7, <1>8, <1>9, <1>10, <1>11 DEF CpuInv

LEMMA Reversing ==
  ASSUME NEW S, NEW s \in Seq(S)
  PROVE  Reverse(s) \in Seq(S) /\ Len(Reverse(s)) = Len(s)
<1>1. PICK n \in Nat : n = Len(s)
  BY LenProperties
<1>2. \A i \in 1 .. n : (n - i) + 1 \in 1 .. n
  OBVIOUS
<1>3. \A i \in 1 .. n : s[(n - i) + 1] \in S
  BY <1>1, <1>2, ElementOfSeq
<1>4. PICK u : u = [i \in 1 .. n |-> s[(n - i) + 1]]
  OBVIOUS
<1>5. u \in [1 .. n -> S]
  BY <1>3, <1>4
<1>6. u \in Seq(S) /\ Len(u) = n
  BY <1>5, FunctionsAreSequences
<1>7. u = Reverse(s)
  BY <1>1, <1>4 DEF Reverse
<1> QED BY <1>1, <1>6, <1>7

LEMMA TickEndKeeps == CpuInv /\ sched_tick_end => CpuInv' /\ KeepsFrame /\ pc' = "leave"
<1> SUFFICES ASSUME CpuInv, sched_tick_end PROVE CpuInv' /\ KeepsFrame /\ pc' = "leave"
  OBVIOUS
<1>1. /\ regs' = Popped(Reverse(SchedUses), Here) /\ rip' = rip /\ if_flag' = if_flag
      /\ UNCHANGED tasks /\ dump' = dump /\ at' = at /\ fault' = fault
      /\ pc = "sched_tick_end"
  BY DEF sched_tick_end
<1>2. PICK ret, v :
        /\ ret = Drop(Here, Len(SchedUses)) /\ v = Drop(ret, 1)
        /\ pc' = Last(ret)[2] /\ stack' = [stack EXCEPT ![s_current] = v]
  BY Zenon DEF sched_tick_end
<1>3. CpuTypes /\ CurrentStack /\ KernelRegs /\ FaultShown
  BY DEF CpuInv
<1>4. s_current' = s_current /\ rsp' = rsp /\ started' = started
  BY <1>1 DEF tasks
<1>5. /\ s_current \in Tasks /\ stack \in [Tasks -> Seq(Words)]
      /\ Here \in Seq(Words) /\ regs \in [Regs -> Words]
  BY <1>3 DEF CpuTypes, Here
<1>6. PICK a \in 0 .. 2 : a = at[s_current]
  BY <1>3 DEF CpuTypes
<1>7. /\ Len(Here) = a + 21 + Len(SchedUses) /\ Here[a + 21] = Code("leave")
      /\ FrameAt(s_current, Here, a) /\ started[s_current]
  BY <1>1, <1>3, <1>6 DEF CurrentStack, Switching
<1>8. Len(SchedUses) \in Nat /\ SchedUses \in Seq(Regs)
  BY Orders
<1>9. /\ ret \in Seq(Words) /\ Len(ret) = a + 21
      /\ \A i \in 1 .. a + 21 : ret[i] = Here[i]
  <2>1. Len(SchedUses) <= Len(Here) /\ Len(Here) - Len(SchedUses) = a + 21
    BY <1>7, <1>8
  <2>2. /\ Drop(Here, Len(SchedUses)) \in Seq(Words)
        /\ Len(Drop(Here, Len(SchedUses))) = Len(Here) - Len(SchedUses)
        /\ \A i \in 1 .. Len(Here) - Len(SchedUses) : Drop(Here, Len(SchedUses))[i] = Here[i]
    BY <1>5, <1>8, <2>1, Dropping, Zenon
  <2> QED BY <1>2, <2>1, <2>2, Zenon
<1>10. /\ v \in Seq(Words) /\ Len(v) = a + 20
       /\ \A i \in 1 .. a + 20 : v[i] = ret[i]
  <2>1. 1 \in Nat /\ 1 <= Len(ret) /\ Len(ret) - 1 = a + 20
    BY <1>9
  <2>2. /\ Drop(ret, 1) \in Seq(Words) /\ Len(Drop(ret, 1)) = Len(ret) - 1
        /\ \A i \in 1 .. Len(ret) - 1 : Drop(ret, 1)[i] = ret[i]
    BY <1>9, <2>1, Dropping, Zenon
  <2> QED BY <1>2, <2>1, <2>2, Zenon
<1>11. pc' = "leave"
  <2>1. a + 21 \in 1 .. a + 21
    OBVIOUS
  <2>2. Last(ret) = Code("leave")
    BY <1>7, <1>9, <2>1, Zenon DEF Last
  <2> QED BY <1>2, <2>2 DEF Code
<1>12. v[a + 2] = Here[a + 2]
  BY <1>9, <1>10
<1>13. /\ stack' \in [Tasks -> Seq(Words)] /\ stack'[s_current] = v
       /\ \A t \in Tasks : t # s_current => stack'[t] = stack[t] /\ at'[t] = at[t]
  BY <1>1, <1>2, <1>5, <1>10
<1>14. CpuTypes'
  <2>1. Reverse(SchedUses) \in Seq(Regs) /\ Len(Reverse(SchedUses)) <= Len(Here)
    BY <1>7, <1>8, Reversing
  <2>2. regs' \in [Regs -> Words]
    BY <1>1, <1>5, <2>1, Popping
  <2> QED BY <1>1, <1>3, <1>4, <1>11, <1>13, <2>2 DEF CpuTypes, Stubbed
<1>15. CurrentStack'
  <2>1. Here' = v /\ at'[s_current'] = a
    BY <1>1, <1>4, <1>6, <1>13 DEF Here
  <2>2. FrameAt(s_current, v, a)
    BY <1>7, <1>12 DEF FrameAt
  <2>3. started'[s_current'] /\ s_current' = s_current
    BY <1>4, <1>7
  <2>4. pc' # "task" /\ pc' \notin Switching /\ pc' \notin Faulting
    BY <1>11 DEF Switching, Faulting
  <2> QED BY <1>10, <2>1, <2>2, <2>3, <2>4, Zenon DEF CurrentStack
<1>16. OtherStacks'
  BY <1>1, <1>13, OthersStay
<1>17. KernelRegs'
  BY <1>1, <1>3, <1>11 DEF KernelRegs
<1>18. FaultShown'
  BY <1>1, <1>3, <1>11 DEF FaultShown, Faulting
<1>19. KeepsFrame
  <2>1. \A i \in 1 .. a + 20 : i \in 1 .. a + 21
    BY <1>6
  <2>2. \A i \in 1 .. a + 20 : v[i] = Here[i]
    BY <1>9, <1>10, <2>1, Zenon
  <2> QED BY <1>1, <1>6, <1>13, <2>2, Zenon DEF KeepsFrame
<1> QED BY <1>11, <1>14, <1>15, <1>16, <1>17, <1>18, <1>19, Zenon DEF CpuInv

(* The frame that leave takes off the stack is the task's CPU. *)
Left(a) ==
  /\ a \in 0 .. 2 /\ Here \in Seq(Words) /\ Len(Here) = a + 20
  /\ FrameAt(s_current, Here, a)
  /\ regs' = [r \in Regs |-> Here[a + 5 + IndexOf(StubPush, r)]]
  /\ rip' = Here[a + 5]
  /\ if_flag' = (Here[a + 3][1] = 1)
  /\ stack' = [stack EXCEPT ![s_current] = SubSeq(Here, 1, Here[a + 2][1])]
  /\ at' = [at EXCEPT ![s_current] = Len(SubSeq(Here, 1, Here[a + 2][1]))]
  /\ IsPart(Words, SubSeq(Here, 1, Here[a + 2][1]), Here, 1, Here[a + 2][1])
  /\ UNCHANGED tasks /\ dump' = dump /\ fault' = fault
  /\ pc = "leave" /\ pc' = "task"

LEMMA Leaving ==
  ASSUME CpuInv, leave, NEW a, a = at[s_current]
  PROVE  Left(a)
<1>1. CpuTypes /\ CurrentStack /\ pc = "leave"
  BY DEF CpuInv, leave
<1>2. a \in 0 .. 2 /\ Here \in Seq(Words) /\ s_current \in Tasks
  BY <1>1 DEF CpuTypes, Here
<1>3. Len(Here) = a + 20 /\ FrameAt(s_current, Here, a)
  BY <1>1 DEF CurrentStack, Stubbed
<1>4. PICK f : f = Drop(Here, Len(StubPop))
  OBVIOUS
<1>5. f \in Seq(Words) /\ Len(f) = a + 5 /\ \A i \in 1 .. a + 5 : f[i] = Here[i]
  <2>1. 15 \in Nat /\ 15 <= Len(Here) /\ Len(Here) - 15 = a + 5
    BY <1>2, <1>3
  <2>2. /\ Drop(Here, 15) \in Seq(Words) /\ Len(Drop(Here, 15)) = Len(Here) - 15
        /\ \A i \in 1 .. Len(Here) - 15 : Drop(Here, 15)[i] = Here[i]
    BY <1>2, <2>1, Dropping, Zenon
  <2>3. Len(StubPop) = 15
    BY Orders
  <2> QED BY <1>4, <2>1, <2>2, <2>3, Zenon
<1>6. PICK h \in 0 .. 1 : h = Here[a + 2][1] /\ h <= a
  BY <1>3, Zenon DEF FrameAt
<1>7. /\ f[Len(f) + 1 - 1] = Here[a + 5]
      /\ f[Len(f) + 1 - 3] = Here[a + 3]
      /\ f[Len(f) + 1 - 4] = Here[a + 2]
  <2>1. Len(f) + 1 - 1 = a + 5 /\ Len(f) + 1 - 3 = a + 3 /\ Len(f) + 1 - 4 = a + 2
    BY <1>2, <1>5
  <2>2. a + 5 \in 1 .. a + 5 /\ a + 3 \in 1 .. a + 5 /\ a + 2 \in 1 .. a + 5
    BY <1>2
  <2> QED BY <1>5, <2>1, <2>2, Zenon
<1>8. IsPart(Words, SubSeq(f, 1, h), f, 1, h) /\ IsPart(Words, SubSeq(Here, 1, h), Here, 1, h)
  <2>1. 1 \in Nat \ {0} /\ h \in Nat /\ h <= Len(f) /\ h <= Len(Here) /\ 1 <= h + 1
    BY <1>2, <1>3, <1>5, <1>6
  <2> QED BY <1>2, <1>5, <2>1, Part, Zenon
<1>9. SubSeq(f, 1, h) = SubSeq(Here, 1, h)
  <2>1. PICK u, w : u = SubSeq(f, 1, h) /\ w = SubSeq(Here, 1, h)
    OBVIOUS
  <2>2. IsPart(Words, u, f, 1, h) /\ IsPart(Words, w, Here, 1, h)
    BY <1>8, <2>1
  <2>3. /\ u \in Seq(Words) /\ Len(u) = h /\ \A i \in 1 .. h : u[i] = f[i]
        /\ w \in Seq(Words) /\ Len(w) = h /\ \A i \in 1 .. h : w[i] = Here[i]
    BY <1>6, <2>2 DEF IsPart
  <2>4. \A i \in 1 .. h : i \in 1 .. a + 5
    BY <1>2, <1>6
  <2>5. \A i \in 1 .. h : u[i] = w[i]
    BY <1>5, <2>3, <2>4, Zenon
  <2>6. u = w
    BY <2>3, <2>5, SeqEqual
  <2> QED BY <2>1, <2>6
<1>10. /\ regs' = Popped(StubPop, Here)
       /\ rip' = f[Len(f) + 1 - 1] /\ if_flag' = (f[Len(f) + 1 - 3][1] = 1)
       /\ stack' = [stack EXCEPT ![s_current] = SubSeq(f, 1, f[Len(f) + 1 - 4][1])]
       /\ at' = [at EXCEPT ![s_current] = Len(SubSeq(f, 1, f[Len(f) + 1 - 4][1]))]
       /\ UNCHANGED tasks /\ dump' = dump /\ fault' = fault /\ pc' = "task"
  BY <1>4, Zenon DEF leave
<1>11. Popped(StubPop, Here) = [r \in Regs |-> Here[a + 5 + IndexOf(StubPush, r)]]
  <2>1. ASSUME NEW r \in Regs
        PROVE  /\ r \in ToSet(StubPop)
               /\ Len(Here) + 1 - IndexOf(StubPop, r) = a + 5 + IndexOf(StubPush, r)
    <3>1. IndexOf(StubPush, r) \in 1 .. 15 /\ IndexOf(StubPop, r) = 16 - IndexOf(StubPush, r)
      BY Popped1
    <3>2. PICK k \in 1 .. 15 : k = IndexOf(StubPush, r)
      BY <3>1
    <3>3. Len(Here) + 1 - (16 - k) = a + 5 + k
      BY <1>2, <1>3
    <3>4. r \in ToSet(StubPop)
      BY Orders
    <3> QED BY <3>1, <3>2, <3>3, <3>4, Zenon
  <2> QED BY <2>1, Zenon DEF Popped
<1>12. f[Len(f) + 1 - 4][1] = h
  BY <1>6, <1>7, Zenon
<1>13. SubSeq(f, 1, f[Len(f) + 1 - 4][1]) = SubSeq(Here, 1, Here[a + 2][1])
  BY <1>6, <1>9, <1>12, Zenon
<1>14. /\ stack' = [stack EXCEPT ![s_current] = SubSeq(Here, 1, Here[a + 2][1])]
       /\ at' = [at EXCEPT ![s_current] = Len(SubSeq(Here, 1, Here[a + 2][1]))]
  BY <1>10, <1>13, Zenon
<1>15. IsPart(Words, SubSeq(Here, 1, Here[a + 2][1]), Here, 1, Here[a + 2][1])
  BY <1>6, <1>8, Zenon
<1>16. rip' = Here[a + 5] /\ if_flag' = (Here[a + 3][1] = 1)
  BY <1>7, <1>10, Zenon
<1> QED BY <1>1, <1>2, <1>3, <1>10, <1>11, <1>14, <1>15, <1>16, Zenon DEF Left

LEMMA LeaveKeeps == CpuInv /\ leave => CpuInv'
<1> SUFFICES ASSUME CpuInv, leave PROVE CpuInv'
  OBVIOUS
<1>1. PICK a, own : a = at[s_current] /\ own = SubSeq(Here, 1, Here[a + 2][1])
  OBVIOUS
<1>2. /\ a \in 0 .. 2 /\ Here \in Seq(Words) /\ Len(Here) = a + 20
      /\ FrameAt(s_current, Here, a)
      /\ regs' = [r \in Regs |-> Here[a + 5 + IndexOf(StubPush, r)]]
      /\ rip' = Here[a + 5]
      /\ if_flag' = (Here[a + 3][1] = 1)
      /\ stack' = [stack EXCEPT ![s_current] = own]
      /\ at' = [at EXCEPT ![s_current] = Len(own)]
      /\ IsPart(Words, own, Here, 1, Here[a + 2][1])
      /\ UNCHANGED tasks /\ dump' = dump /\ fault' = fault
      /\ pc = "leave" /\ pc' = "task"
  <2>1. Left(a)
    BY <1>1, Leaving, Zenon
  <2> QED BY <1>1, <2>1, Zenon DEF Left
<1>3. CpuTypes /\ CurrentStack /\ FaultShown
  BY DEF CpuInv
<1>4. s_current' = s_current /\ rsp' = rsp /\ started' = started
  BY <1>2 DEF tasks
<1>5. s_current \in Tasks /\ stack \in [Tasks -> Seq(Words)] /\ at \in [Tasks -> 0 .. 2]
  BY <1>3 DEF CpuTypes
<1>6. PICK h \in 0 .. 1 : h = Here[a + 2][1]
  BY <1>2, Zenon DEF FrameAt
<1>7. own \in Seq(Words) /\ Len(own) = h
  <2>1. IsPart(Words, own, Here, 1, h)
    BY <1>2, <1>6, Zenon
  <2> HIDE <1>1, <1>2
  <2> QED BY <1>6, <2>1 DEF IsPart
<1>8. /\ stack' \in [Tasks -> Seq(Words)] /\ stack'[s_current] = own
      /\ at' \in [Tasks -> 0 .. 2]
      /\ \A t \in Tasks : t # s_current => stack'[t] = stack[t] /\ at'[t] = at[t]
  <2>1. Len(own) \in 0 .. 2
    BY <1>7
  <2> QED BY <1>2, <1>5, <1>7, <2>1
<1>9. CpuTypes'
  <2>1. \A i \in 1 .. a + 20 : Here[i] \in Words
    BY <1>2, ElementOfSeq
  <2>2. regs' \in [Regs -> Words]
    <3>1. ASSUME NEW r \in Regs
          PROVE  Here[a + 5 + IndexOf(StubPush, r)] \in Words
      <4>1. PICK k \in 1 .. 15 : k = IndexOf(StubPush, r)
        BY Popped1
      <4>2. a + 5 + k \in 1 .. a + 20
        BY <1>2
      <4> QED BY <2>1, <4>1, <4>2
    <3> QED BY <1>2, <3>1
  <2>3. rip' \in Words
    <3>1. a + 5 \in 1 .. a + 20
      BY <1>2
    <3> QED BY <1>2, <2>1, <3>1, Zenon
  <2>4. if_flag' \in BOOLEAN
    BY <1>2, Zenon
  <2> QED BY <1>2, <1>3, <1>4, <1>8, <2>2, <2>3, <2>4 DEF CpuTypes
<1>10. CurrentStack'
  <2>1. Here' = own /\ Len(own) <= 1
    BY <1>4, <1>6, <1>7, <1>8 DEF Here
  <2>2. started'[s_current']
    BY <1>3, <1>4 DEF CurrentStack
  <2> QED BY <1>2, <2>1, <2>2 DEF CurrentStack, Stubbed, Switching, Faulting
<1>11. OtherStacks'
  BY <1>2, <1>8, OthersStay
<1>12. KernelRegs'
  BY <1>2 DEF KernelRegs
<1>13. FaultShown'
  BY <1>2, <1>3 DEF FaultShown, Faulting
<1> QED BY <1>9, <1>10, <1>11, <1>12, <1>13 DEF CpuInv

(* What context_switch does: out is left on the old stack, back on the new *)
(* one.                                                                    *)
Switched(next, out, back) ==
  /\ pc = "context_switch" /\ next # s_current /\ s_current' = next
  /\ IsCall(Words, out, Here, Code("sched_tick_end"), Saved(SwitchPush))
  /\ rsp' = [rsp EXCEPT ![s_current] = Len(out)]
  /\ stack' = [stack EXCEPT ![s_current] = out, ![next] = back]
  /\ started' = [started EXCEPT ![next] = TRUE]
  /\ if_flag' = if_flag /\ dump' = dump /\ fault' = fault
  /\ regs' \in [Regs -> Words] /\ back \in Seq(Words)

(* To a task that waits, or to a new one. *)
Resumed(next, back) ==
  LET n == at[next] + 21 + Len(SchedUses)
  IN  /\ pc' = "sched_tick_end" /\ rip' = rip /\ at' = at
      /\ Len(back) = n /\ \A i \in 1 .. n : back[i] = stack[next][i]

Began(next, back) ==
  /\ pc' = "task" /\ rip' = T!Val(next, "rip", 0)
  /\ at' = [at EXCEPT ![next] = 0]
  /\ regs' = [r \in Regs |-> IF r \in CalleeSaved THEN T!Zero ELSE T!Junk]
  /\ Len(back) = 0

Off(S, s, n, ret, back) ==
  /\ Len(ret) = n /\ Last(ret) = s[n]
  /\ back \in Seq(S) /\ Len(back) = n - 1
  /\ \A i \in 1 .. n - 1 : back[i] = s[i]

LEMMA Popped6 ==
  ASSUME NEW S, NEW s \in Seq(S), NEW n \in Nat \ {0}, Len(s) = n + 6,
         NEW ret, ret = Drop(s, Len(SwitchPop)), NEW back, back = Drop(ret, 1)
  PROVE  Off(S, s, n, ret, back)
<1>1. Len(SwitchPop) = 6
  BY Orders
<1>2. ret \in Seq(S) /\ Len(ret) = n /\ \A i \in 1 .. n : ret[i] = s[i]
  <2>1. 6 \in Nat /\ 6 <= Len(s) /\ Len(s) - 6 = n
    OBVIOUS
  <2>2. /\ Drop(s, 6) \in Seq(S) /\ Len(Drop(s, 6)) = Len(s) - 6
        /\ \A i \in 1 .. Len(s) - 6 : Drop(s, 6)[i] = s[i]
    BY <2>1, Dropping, Zenon
  <2> QED BY <1>1, <2>1, <2>2, Zenon
<1>3. back \in Seq(S) /\ Len(back) = n - 1 /\ \A i \in 1 .. n - 1 : back[i] = ret[i]
  <2>1. 1 \in Nat /\ 1 <= Len(ret)
    BY <1>2
  <2>2. /\ Drop(ret, 1) \in Seq(S) /\ Len(Drop(ret, 1)) = Len(ret) - 1
        /\ \A i \in 1 .. Len(ret) - 1 : Drop(ret, 1)[i] = ret[i]
    BY <1>2, <2>1, Dropping, Zenon
  <2> QED BY <1>2, <2>2, Zenon
<1>4. n \in 1 .. n /\ \A i \in 1 .. n - 1 : i \in 1 .. n
  OBVIOUS
<1>5. Last(ret) = s[n]
  BY <1>2, <1>4, Zenon DEF Last
<1>6. \A i \in 1 .. n - 1 : back[i] = s[i]
  BY <1>2, <1>3, <1>4, Zenon
<1> QED BY <1>2, <1>3, <1>5, <1>6, Zenon DEF Off

LEMMA SwitchIs ==
  ASSUME CpuInv, NEW next \in Tasks, context_switch(next)
  PROVE  \E out, back :
           /\ Switched(next, out, back)
           /\ IF started[next] THEN Resumed(next, back) ELSE Began(next, back)
<1>1. CpuTypes /\ CurrentStack /\ OtherStacks /\ KernelRegs
  BY DEF CpuInv
<1>2. PICK out, in, ret, back :
        /\ out = (Here \o <<Code("sched_tick_end")>>) \o Saved(SwitchPush)
        /\ in = SubSeq(stack[next], 1, rsp[next])
        /\ ret = Drop(in, Len(SwitchPop))
        /\ back = Drop(ret, 1)
  OBVIOUS
<1>3. /\ rsp' = [rsp EXCEPT ![s_current] = Len(out)]
      /\ regs' = Popped(SwitchPop, in)
      /\ stack' = [stack EXCEPT ![s_current] = out, ![next] = back]
      /\ IF started[next] THEN pc' = Last(ret)[2] /\ UNCHANGED <<rip, at>>
         ELSE /\ pc' = "task" /\ rip' = Last(ret)
              /\ at' = [at EXCEPT ![next] = Len(ret) - 1]
      /\ started' = [started EXCEPT ![next] = TRUE]
  BY <1>2, Zenon DEF context_switch, SavedRsp
<1>4. /\ pc = "context_switch" /\ next # s_current /\ s_current' = next
      /\ if_flag' = if_flag /\ dump' = dump /\ fault' = fault
  BY Zenon DEF context_switch
<1>5. /\ Here \in Seq(Words) /\ regs \in [Regs -> Words] /\ stack[next] \in Seq(Words)
  BY <1>1 DEF CpuTypes, Here
<1>6. Code("sched_tick_end") \in Words
  BY WordsAre DEF Names
<1>7. Saved(SwitchPush) \in Seq(Words)
  BY <1>5, Orders, Saving
<1>8. IsCall(Words, out, Here, Code("sched_tick_end"), Saved(SwitchPush))
  BY <1>2, <1>5, <1>6, <1>7, Calling, Zenon
<1>9. PICK n \in Nat \ {0} :
        /\ Len(stack[next]) = n + 6 /\ rsp[next] = Len(stack[next])
        /\ started[next] => /\ n = at[next] + 22 + Len(SchedUses)
                            /\ stack[next][n] = Code("sched_tick_end")
        /\ ~started[next] => n = 1 /\ stack[next] = setup_initial_stack(next)
  <2>1. CASE started[next]
    <3>1. Waiting(next)
      BY <1>1, <1>4, <2>1, Zenon DEF OtherStacks
    <3>2. at[next] \in 0 .. 2 /\ Len(SchedUses) \in Nat
      BY <1>1, Orders DEF CpuTypes
    <3>3. PICK n \in Nat \ {0} : n = at[next] + 22 + Len(SchedUses)
      BY <3>2
    <3>4. Len(stack[next]) = n + 6 /\ rsp[next] = Len(stack[next])
      BY <3>1, <3>2, <3>3 DEF Waiting
    <3>5. stack[next][n] = Code("sched_tick_end")
      BY <3>1, <3>3, Zenon DEF Waiting
    <3> QED BY <2>1, <3>3, <3>4, <3>5, Zenon
  <2>2. CASE ~started[next]
    <3>1. Fresh(next)
      BY <1>1, <2>2, Zenon DEF OtherStacks
    <3>2. Len(setup_initial_stack(next)) = 7
      BY FirstStack
    <3>3. 1 \in Nat \ {0} /\ 1 + 6 = 7
      OBVIOUS
    <3> QED BY <2>2, <3>1, <3>2, <3>3, Zenon DEF Fresh
  <2> QED BY <2>1, <2>2
<1>10. in = stack[next]
  BY <1>2, <1>5, <1>9, SubSeqFull
<1>11. /\ Len(ret) = n /\ Last(ret) = stack[next][n]
       /\ back \in Seq(Words) /\ Len(back) = n - 1
       /\ \A i \in 1 .. n - 1 : back[i] = stack[next][i]
  <2>1. PICK s \in Seq(Words) : s = stack[next]
    BY <1>5
  <2>2. Len(s) = n + 6 /\ ret = Drop(s, Len(SwitchPop)) /\ back = Drop(ret, 1)
    BY <1>2, <1>9, <1>10, <2>1, Zenon
  <2>3. Off(Words, s, n, ret, back)
    BY <2>2, Popped6, Zenon
  <2> QED BY <2>1, <2>3, Zenon DEF Off
<1>12. regs' \in [Regs -> Words]
  <2>1. Len(SwitchPop) <= Len(stack[next])
    <3>1. n + 6 >= 6
      OBVIOUS
    <3> QED BY <1>9, <3>1, Orders
  <2> QED BY <1>3, <1>5, <1>10, <2>1, Orders, Popping, Zenon
<1>13. Switched(next, out, back)
  BY <1>3, <1>4, <1>8, <1>11, <1>12, Zenon DEF Switched
<1>14. ASSUME started[next]
       PROVE  Resumed(next, back)
  <2>1. Last(ret) = Code("sched_tick_end")
    BY <1>9, <1>11, <1>14, Zenon
  <2>2. pc' = "sched_tick_end"
    <3>1. Code("sched_tick_end")[2] = "sched_tick_end"
      BY DEF Code
    <3> QED BY <1>3, <1>14, <2>1, <3>1, Zenon
  <2>3. rip' = rip /\ at' = at
    BY <1>3, <1>14
  <2>4. n - 1 = at[next] + 21 + Len(SchedUses)
    <3>1. at[next] \in 0 .. 2 /\ Len(SchedUses) \in Nat
      BY <1>1, Orders DEF CpuTypes
    <3>2. PICK x \in Nat, y \in Nat : x = at[next] /\ y = Len(SchedUses)
      BY <3>1
    <3>3. n = x + 22 + y
      BY <1>9, <1>14, <3>2, Zenon
    <3>4. n - 1 = x + 21 + y
      BY <3>3
    <3> QED BY <3>2, <3>4, Zenon
  <2> QED BY <1>11, <2>2, <2>3, <2>4, Zenon DEF Resumed
<1>15. ASSUME ~started[next]
       PROVE  Began(next, back)
  <2>1. n = 1 /\ stack[next] = setup_initial_stack(next)
    BY <1>9, <1>15, Zenon
  <2>2. Last(ret) = T!Val(next, "rip", 0) /\ Len(ret) - 1 = 0 /\ Len(back) = 0
    <3>1. setup_initial_stack(next)[1] = T!Val(next, "rip", 0) /\ 1 - 1 = 0
      BY FirstStack
    <3> QED BY <1>11, <2>1, <3>1, Zenon
  <2>3. pc' = "task" /\ rip' = T!Val(next, "rip", 0) /\ at' = [at EXCEPT ![next] = 0]
    BY <1>3, <1>15, <2>2, Zenon
  <2>4. ASSUME NEW r \in Regs
        PROVE  Popped(SwitchPop, in)[r] = IF r \in CalleeSaved THEN T!Zero ELSE T!Junk
    <3>1. CASE r \in CalleeSaved
      <4>1. r \in ToSet(SwitchPop) /\ DOMAIN SwitchPop = 1 .. 6
        BY <3>1, Orders, LenProperties
      <4>2. PICK k \in 1 .. 6 : k = IndexOf(SwitchPop, r)
        BY <4>1, Position
      <4>3. Popped(SwitchPop, in)[r] = in[Len(in) + 1 - k]
        BY <4>1, <4>2, Zenon DEF Popped
      <4>4. Len(in) = 7
        BY <1>10, <2>1, FirstStack, Zenon
      <4>5. 7 + 1 - k \in 2 .. 7
        OBVIOUS
      <4>6. in[7 + 1 - k] = T!Zero
        BY <1>10, <2>1, <4>5, FirstStack, Zenon
      <4> QED BY <3>1, <4>3, <4>4, <4>6, Zenon
    <3>2. CASE r \notin CalleeSaved
      <4>1. r \notin ToSet(SwitchPop)
        BY <3>2, Orders
      <4>2. Popped(SwitchPop, in)[r] = regs[r]
        BY <4>1, Zenon DEF Popped
      <4>3. regs[r] = T!Junk
        BY <1>1, <1>4, <3>2 DEF KernelRegs
      <4> QED BY <3>2, <4>2, <4>3, Zenon
    <3> QED BY <3>1, <3>2
  <2>5. Popped(SwitchPop, in) = [r \in Regs |-> Popped(SwitchPop, in)[r]]
    BY Zenon DEF Popped
  <2>6. regs' = [r \in Regs |-> IF r \in CalleeSaved THEN T!Zero ELSE T!Junk]
    BY <1>3, <2>4, <2>5, Zenon
  <2> QED BY <2>2, <2>3, <2>6, Zenon DEF Began
<1> QED BY <1>13, <1>14, <1>15, Zenon

LEMMA SwitchKeeps ==
  ASSUME CpuInv, NEW next \in Tasks, context_switch(next)
  PROVE  CpuInv'
<1>1. PICK out, back :
        /\ Switched(next, out, back)
        /\ IF started[next] THEN Resumed(next, back) ELSE Began(next, back)
  BY SwitchIs
<1>2. CpuTypes /\ CurrentStack /\ OtherStacks /\ KernelRegs /\ FaultShown
  BY DEF CpuInv
<1>3. /\ pc = "context_switch" /\ next # s_current /\ s_current' = next
      /\ IsCall(Words, out, Here, Code("sched_tick_end"), Saved(SwitchPush))
      /\ rsp' = [rsp EXCEPT ![s_current] = Len(out)]
      /\ stack' = [stack EXCEPT ![s_current] = out, ![next] = back]
      /\ started' = [started EXCEPT ![next] = TRUE]
      /\ if_flag' = if_flag /\ dump' = dump /\ fault' = fault
      /\ regs' \in [Regs -> Words] /\ back \in Seq(Words)
  BY <1>1, Zenon DEF Switched
<1>4. /\ s_current \in Tasks /\ stack \in [Tasks -> Seq(Words)] /\ rsp \in [Tasks -> Heights]
      /\ at \in [Tasks -> 0 .. 2] /\ started \in [Tasks -> BOOLEAN]
      /\ Here \in Seq(Words) /\ rip \in Words /\ if_flag \in BOOLEAN
      /\ regs \in [Regs -> Words]
  BY <1>2 DEF CpuTypes, Here
<1>5. PICK a \in 0 .. 2 : a = at[s_current]
  BY <1>4
<1>6. PICK u \in Nat : u = Len(SchedUses)
  BY Orders
<1>7. /\ started[s_current] /\ FrameAt(s_current, Here, a)
      /\ Len(Here) = a + 21 + u /\ Here[a + 21] = Code("leave")
  BY <1>2, <1>3, <1>5, <1>6 DEF CurrentStack, Switching
<1>8. Len(Saved(SwitchPush)) = 6
  BY <1>4, Orders, Saving
<1>9. /\ out \in Seq(Words) /\ Len(out) = a + 28 + u
      /\ \A i \in 1 .. a + 21 + u : out[i] = Here[i]
      /\ out[a + 22 + u] = Code("sched_tick_end")
  <2>1. /\ out \in Seq(Words) /\ Len(out) = Len(Here) + 1 + 6
        /\ \A i \in 1 .. Len(Here) : out[i] = Here[i]
        /\ out[Len(Here) + 1] = Code("sched_tick_end")
    BY <1>3, <1>8, Zenon DEF IsCall
  <2>2. Len(Here) + 1 = a + 22 + u /\ Len(Here) + 1 + 6 = a + 28 + u
    BY <1>5, <1>6, <1>7
  <2> QED BY <1>7, <2>1, <2>2, Zenon
<1>10. out[a + 2] = Here[a + 2] /\ out[a + 21] = Here[a + 21]
  <2>1. a + 2 \in 1 .. a + 21 + u /\ a + 21 \in 1 .. a + 21 + u
    BY <1>5, <1>6
  <2> QED BY <1>9, <2>1, Zenon
<1>11. /\ stack' \in [Tasks -> Seq(Words)] /\ stack'[s_current] = out /\ stack'[next] = back
       /\ \A t \in Tasks : t # s_current /\ t # next => stack'[t] = stack[t]
  BY <1>3, <1>4, <1>9
<1>12. /\ rsp' \in [Tasks -> Heights] /\ rsp'[s_current] = Len(out)
       /\ \A t \in Tasks : t # s_current => rsp'[t] = rsp[t]
  <2>1. a + 28 + u \in 0 .. 30 + u
    BY <1>5, <1>6
  <2>2. Len(out) \in Heights
    BY <1>6, <1>9, <2>1, Zenon DEF Heights
  <2> QED BY <1>3, <1>4, <2>2, Zenon
<1>13. /\ started' \in [Tasks -> BOOLEAN] /\ started'[next]
       /\ \A t \in Tasks : t # next => started'[t] = started[t]
  BY <1>3, <1>4
<1>14. /\ at' \in [Tasks -> 0 .. 2]
       /\ \A t \in Tasks : t # next => at'[t] = at[t]
  <2>1. CASE started[next]
    <3>1. at' = at
      BY <1>1, <2>1, Zenon DEF Resumed
    <3> QED BY <1>4, <3>1
  <2>2. CASE ~started[next]
    <3>1. at' = [at EXCEPT ![next] = 0]
      BY <1>1, <2>2, Zenon DEF Began
    <3> QED BY <1>4, <3>1
  <2> QED BY <2>1, <2>2
<1>15. rip' \in Words /\ pc' \in {"task", "sched_tick_end"}
  <2>1. CASE started[next]
    BY <1>1, <1>4, <2>1 DEF Resumed
  <2>2. CASE ~started[next]
    <3>1. rip' = T!Val(next, "rip", 0) /\ pc' = "task"
      BY <1>1, <2>2, Zenon DEF Began
    <3>2. "rip" \in Names /\ 0 \in 0 .. Epochs - 1
      BY ContextAssumption DEF Names
    <3>3. T!Val(next, "rip", 0) \in Words
      BY <3>2, WordsAre, Zenon
    <3> QED BY <3>1, <3>3
  <2> QED BY <2>1, <2>2
<1>16. CpuTypes'
  BY <1>3, <1>4, <1>11, <1>12, <1>13, <1>14, <1>15 DEF CpuTypes, Switching
<1>17. CurrentStack'
  <2>1. Here' = back /\ started'[s_current']
    BY <1>3, <1>11, <1>13 DEF Here
  <2>2. CASE started[next]
    <3>1. /\ pc' = "sched_tick_end" /\ at' = at
          /\ Len(back) = at[next] + 21 + Len(SchedUses)
          /\ \A i \in 1 .. at[next] + 21 + Len(SchedUses) : back[i] = stack[next][i]
      BY <1>1, <2>2, Zenon DEF Resumed
    <3>2. PICK b \in 0 .. 2 : b = at[next]
      BY <1>4
    <3>3. Waiting(next)
      BY <1>2, <1>3, <2>2, Zenon DEF OtherStacks
    <3>4. FrameAt(next, stack[next], b) /\ stack[next][b + 21] = Code("leave")
      BY <3>2, <3>3, Zenon DEF Waiting
    <3>5. b + 2 \in 1 .. b + 21 + u /\ b + 21 \in 1 .. b + 21 + u
      BY <1>6, <3>2
    <3>6. back[b + 2] = stack[next][b + 2] /\ back[b + 21] = stack[next][b + 21]
      BY <1>6, <3>1, <3>2, <3>5, Zenon
    <3>7. FrameAt(next, back, b) /\ back[b + 21] = Code("leave")
      BY <3>4, <3>6, Zenon DEF FrameAt
    <3>8. at'[s_current'] = b
      BY <1>3, <3>1, <3>2
    <3>9. pc' \in Switching /\ pc' \notin Stubbed /\ pc' \notin Faulting /\ pc' # "task"
      BY <3>1 DEF Switching, Stubbed, Faulting
    <3> QED BY <1>3, <2>1, <3>1, <3>2, <3>7, <3>8, <3>9, Zenon DEF CurrentStack
  <2>3. CASE ~started[next]
    <3>1. pc' = "task" /\ Len(back) = 0
      BY <1>1, <2>3, Zenon DEF Began
    <3>2. 0 <= 1
      OBVIOUS
    <3>3. pc' \notin Stubbed /\ pc' \notin Switching /\ pc' \notin Faulting
      BY <3>1 DEF Switching, Stubbed, Faulting
    <3> QED BY <2>1, <3>1, <3>2, <3>3, Zenon DEF CurrentStack
  <2> QED BY <2>2, <2>3
<1>18. OtherStacks'
  <2>1. ASSUME NEW t \in Tasks, t = s_current
        PROVE  Waiting(t)'
    <3>1. stack'[t] = out /\ rsp'[t] = Len(out) /\ at'[t] = a
      BY <1>3, <1>4, <1>5, <1>11, <1>12, <1>14, <2>1
    <3>2. FrameAt(t, out, a)
      BY <1>7, <1>10, <2>1, Zenon DEF FrameAt
    <3>3. /\ out[a + 21] = Code("leave")
          /\ out[a + 22 + Len(SchedUses)] = Code("sched_tick_end")
          /\ Len(out) = a + 28 + Len(SchedUses)
      BY <1>6, <1>7, <1>9, <1>10, Zenon
    <3> QED BY <3>1, <3>2, <3>3, Zenon DEF Waiting
  <2>2. ASSUME NEW t \in Tasks, t # s_current, t # next, Waiting(t)
        PROVE  Waiting(t)'
    <3>1. stack'[t] = stack[t] /\ rsp'[t] = rsp[t] /\ at'[t] = at[t]
      BY <1>11, <1>12, <1>14, <2>2
    <3> QED BY <2>2, <3>1, Zenon DEF Waiting
  <2>3. ASSUME NEW t \in Tasks, t # s_current, t # next, Fresh(t)
        PROVE  Fresh(t)'
    <3>1. stack'[t] = stack[t] /\ rsp'[t] = rsp[t]
      BY <1>11, <1>12, <2>3
    <3> QED BY <2>3, <3>1 DEF Fresh, setup_initial_stack, Zeros
  <2>4. ASSUME NEW t \in Tasks
        PROVE  IF started'[t] THEN t # s_current' => Waiting(t)' ELSE Fresh(t)'
    <3>1. CASE t = next
      BY <1>3, <1>13, <3>1
    <3>2. CASE t = s_current
      BY <1>3, <1>7, <1>13, <2>1, <3>2
    <3>3. CASE t # next /\ t # s_current
      BY <1>2, <1>13, <2>2, <2>3, <3>3, Zenon DEF OtherStacks
    <3> QED BY <3>1, <3>2, <3>3
  <2> QED BY <2>4, Zenon DEF OtherStacks
<1>19. KernelRegs'
  BY <1>2, <1>3, <1>15 DEF KernelRegs
<1>20. FaultShown'
  BY <1>2, <1>3, <1>15 DEF FaultShown, Faulting
<1> QED BY <1>16, <1>17, <1>18, <1>19, <1>20 DEF CpuInv

(* The stubs' half of an entry. *)
LEMMA Enters ==
  ASSUME CpuInv, NEW v \in 0 .. 33, Enter(v, StubOf(v))
  PROVE  \E s, a :
           /\ Entered(v, s, a)
           /\ stack' = [stack EXCEPT ![s_current] = s]
           /\ at' = [at EXCEPT ![s_current] = a]
<1>1. PICK s : IsStack(s, Here, Pad(Here), CpuFrame(Here), CpuError(v),
                      StubWords(StubOf(v)), Saved(StubPush))
  BY Zenon DEF IsStack
<1>2. PICK a : IsHeight(a, Here, Pad(Here))
  BY Zenon DEF IsHeight
<1>3. pc = "task"
  BY DEF Enter
<1>4. Pushed(v, s, a)
  BY <1>1, <1>2, Zenon DEF Pushed
<1>5. Entered(v, s, a)
  BY <1>3, <1>4, Entering, Zenon
<1>6. stack' = [stack EXCEPT ![s_current] = s]
  BY <1>1, Zenon DEF Enter, IsStack, CpuError
<1>7. at' = [at EXCEPT ![s_current] = a]
  BY <1>2, Zenon DEF Enter, IsHeight
<1> QED BY <1>5, <1>6, <1>7, Zenon

LEMMA EnterKeeps ==
  ASSUME CpuInv, NEW v \in 0 .. 33, Enter(v, StubOf(v)), NEW s, NEW a,
         Entered(v, s, a),
         stack' = [stack EXCEPT ![s_current] = s],
         at' = [at EXCEPT ![s_current] = a]
  PROVE  /\ CpuTypes' /\ CurrentStack' /\ OtherStacks' /\ KernelRegs'
         /\ Here' = s /\ s_current' = s_current /\ at'[s_current] = a
         /\ pc = "task"
         /\ v \in 0 .. 31 => pc' = "isr_handler"
         /\ v \in 32 .. 33 => pc' \in {"irq_stub_0", "irq_stub_1"}
<1>1. /\ pc = "task" /\ if_flag' = FALSE /\ regs' = regs /\ rip' = rip
      /\ UNCHANGED tasks /\ dump' = dump
      /\ pc' = IF StubOf(v)[1] = "isr_stub" THEN "isr_handler" ELSE StubOf(v)[1]
  BY DEF Enter
<1>2. CpuTypes /\ CurrentStack
  BY DEF CpuInv
<1>3. s_current' = s_current /\ rsp' = rsp /\ started' = started
  BY <1>1 DEF tasks
<1>4. s_current \in Tasks /\ stack \in [Tasks -> Seq(Words)] /\ at \in [Tasks -> 0 .. 2]
  BY <1>2 DEF CpuTypes
<1>5. v \in 0 .. 31 => pc' = "isr_handler"
  <2>1. v \in 0 .. 31 => StubOf(v)[1] = "isr_stub"
    BY DEF StubOf
  <2> QED BY <1>1, <2>1
<1>6. v \in 32 .. 33 => pc' \in {"irq_stub_0", "irq_stub_1"}
  <2>1. v = 32 => StubOf(v)[1] = "irq_stub_0"
    BY DEF StubOf
  <2>2. v = 33 => StubOf(v)[1] = "irq_stub_1"
    BY DEF StubOf
  <2> QED BY <1>1, <2>1, <2>2
<1>7. v \in 0 .. 31 \/ v \in 32 .. 33
  OBVIOUS
<1>8. s \in Seq(Words) /\ a \in 0 .. 2
  BY Zenon DEF Entered
<1>9. /\ stack' \in [Tasks -> Seq(Words)] /\ stack'[s_current] = s
      /\ at' \in [Tasks -> 0 .. 2] /\ at'[s_current] = a
      /\ \A t \in Tasks : t # s_current => stack'[t] = stack[t] /\ at'[t] = at[t]
  BY <1>4, <1>8
<1>10. CpuTypes'
  BY <1>1, <1>2, <1>3, <1>5, <1>6, <1>7, <1>9 DEF CpuTypes, Stubbed, Faulting
<1>11. Here' = s
  BY <1>3, <1>9 DEF Here
<1>12. FrameAt(s_current, s, a)
  <2>1. (Top[s_current] + a) % 2 = 0 /\ s[a + 2] = <<Len(Here), "rsp", 0>> /\ Len(Here) <= a
    BY Zenon DEF Entered
  <2>2. Len(Here) \in 0 .. 1
    <3>1. Here \in Seq(Words) /\ Len(Here) <= 1
      BY <1>1, <1>2 DEF CpuTypes, Here, CurrentStack
    <3>2. Len(Here) \in Nat
      BY <3>1, LenProperties
    <3> QED BY <3>1, <3>2, UpToOne, Zenon
  <2>3. PICK h \in 0 .. 1 : h = Len(Here)
    BY <2>2
  <2>4. s[a + 2][1] = h
    <3>1. s[a + 2] = <<h, "rsp", 0>>
      BY <2>1, <2>3
    <3>2. <<h, "rsp", 0>>[1] = h
      OBVIOUS
    <3> QED BY <3>1, <3>2, Zenon
  <2> QED BY <2>1, <2>3, <2>4, Zenon DEF FrameAt
<1>13. CurrentStack'
  <2>1. started'[s_current'] /\ pc' # "task" /\ pc' \notin Switching
    BY <1>2, <1>3, <1>5, <1>6, <1>7 DEF CurrentStack, Switching
  <2>2. pc' \in Stubbed => Len(s) = a + 20
    <3>1. pc' \in Stubbed => v \in 32 .. 33
      BY <1>5, <1>7 DEF Stubbed
    <3> QED BY <3>1, Zenon DEF Entered
  <2>3. pc' \in Faulting => Len(s) = a + 22
    <3>1. pc' \in Faulting => v \in 0 .. 31
      BY <1>6, <1>7 DEF Faulting
    <3> QED BY <3>1, Zenon DEF Entered
  <2> QED BY <1>3, <1>9, <1>11, <1>12, <2>1, <2>2, <2>3, Zenon DEF CurrentStack
<1>14. OtherStacks'
  BY <1>1, <1>9, OthersStay
<1>15. KernelRegs'
  BY <1>1, <1>5, <1>6, <1>7 DEF KernelRegs
<1> QED BY <1>1, <1>3, <1>5, <1>6, <1>9, <1>10, <1>11, <1>13, <1>14, <1>15

LEMMA InterruptKeeps ==
  ASSUME CpuInv, NEW v \in {32, 33}, interrupt(v, StubOf(v))
  PROVE  CpuInv'
<1>1. Enter(v, StubOf(v)) /\ fault' = fault
  BY DEF interrupt
<1>2. v \in 0 .. 33 /\ v \in 32 .. 33
  OBVIOUS
<1>3. PICK s, a : /\ Entered(v, s, a)
                  /\ stack' = [stack EXCEPT ![s_current] = s]
                  /\ at' = [at EXCEPT ![s_current] = a]
  BY <1>1, <1>2, Enters, Zenon
<1>4. /\ CpuTypes' /\ CurrentStack' /\ OtherStacks' /\ KernelRegs'
      /\ pc = "task" /\ pc' \in {"irq_stub_0", "irq_stub_1"}
  BY <1>1, <1>2, <1>3, EnterKeeps, Zenon
<1>5. FaultShown'
  BY <1>1, <1>4 DEF CpuInv, FaultShown, Faulting
<1> QED BY <1>4, <1>5 DEF CpuInv

LEMMA ExceptionKeeps ==
  ASSUME CpuInv, NEW v \in 0 .. 31, exception(v, StubOf(v))
  PROVE  CpuInv'
<1>1. Enter(v, StubOf(v))
  BY DEF exception
<1>2. v \in 0 .. 33
  OBVIOUS
<1>3. PICK s, a : /\ Entered(v, s, a)
                  /\ stack' = [stack EXCEPT ![s_current] = s]
                  /\ at' = [at EXCEPT ![s_current] = a]
  BY <1>1, <1>2, Enters, Zenon
<1>4. /\ CpuTypes' /\ CurrentStack' /\ OtherStacks' /\ KernelRegs'
      /\ Here' = s /\ s_current' = s_current /\ at'[s_current] = a
      /\ pc = "task" /\ pc' = "isr_handler"
  BY <1>1, <1>2, <1>3, EnterKeeps, Zenon
<1>5. FaultShown'
  <2>1. fault' = [f \in ToSet(InterruptFrame) |->
          CASE f \in Regs -> regs[f]
            [] f = "interrupt_number" -> <<v, "vector", 0>>
            [] f = "error_code" -> ErrorWord(v)
            [] f = "rip" -> rip
            [] f = "rflags" -> Flag(if_flag)
            [] f = "rsp" -> <<Len(Here), "rsp", 0>>
            [] OTHER -> Code(f)]
    BY Zenon DEF exception, ErrorWord
  <2>2. DOMAIN InterruptFrame = 1 .. 22
    BY DEF InterruptFrame
  <2>3. /\ InterruptFrame[16] = "interrupt_number" /\ InterruptFrame[17] = "error_code"
        /\ InterruptFrame[18] = "rip" /\ InterruptFrame[19] = "cs"
        /\ InterruptFrame[20] = "rflags" /\ InterruptFrame[21] = "rsp"
        /\ InterruptFrame[22] = "ss"
        /\ \A p \in 1 .. 15 : InterruptFrame[p] = StubPush[16 - p]
    BY DEF InterruptFrame, StubPush
  <2>4. /\ s[a + 1] = Code("ss") /\ s[a + 2] = <<Len(Here), "rsp", 0>>
        /\ s[a + 3] = Flag(if_flag) /\ s[a + 4] = Code("cs") /\ s[a + 5] = rip
        /\ s[a + 6] = ErrorWord(v) /\ s[a + 7] = <<v, "vector", 0>>
        /\ \A k \in 1 .. 15 : s[a + 7 + k] = regs[StubPush[k]]
        /\ a \in 0 .. 2
    BY <1>3, Zenon DEF Entered
  <2>5. \A p \in 1 .. 22 : InterruptFrame[p] \in ToSet(InterruptFrame)
    BY <2>2 DEF ToSet
  <2>6. {"interrupt_number", "error_code", "rip", "cs", "rflags", "rsp", "ss"} \cap Regs = {}
    BY DEF Regs, ToSet, StubPush
  <2>7. ASSUME NEW f \in ToSet(InterruptFrame), f \in Regs
         PROVE  fault'[f] = regs[f]
    <3>1. /\ f # "interrupt_number" /\ f # "error_code" /\ f # "rip" /\ f # "cs"
          /\ f # "rflags" /\ f # "rsp" /\ f # "ss"
      BY <2>6, <2>7, Zenon
    <3> QED BY <2>1, <2>7, <3>1
  <2>8. ASSUME NEW p \in 1 .. 15
        PROVE  s[a + 23 - p] = fault'[InterruptFrame[p]]
    <3>1. PICK k \in 1 .. 15 : k = 16 - p /\ a + 7 + k = a + 23 - p
      BY <2>4
    <3>2. StubPush[k] \in Regs
      BY Orders, ElementOfSeq
    <3>3. InterruptFrame[p] = StubPush[k] /\ p \in 1 .. 22
      BY <2>3, <3>1
    <3>4. fault'[InterruptFrame[p]] = regs[StubPush[k]]
      <4>1. StubPush[k] \in ToSet(InterruptFrame)
        BY <2>5, <3>3, Zenon
      <4>2. fault'[StubPush[k]] = regs[StubPush[k]]
        BY <2>7, <3>2, <4>1, Zenon
      <4> QED BY <3>3, <4>2, Zenon
    <3> QED BY <2>4, <3>1, <3>4, Zenon
  <2>9. /\ fault'["interrupt_number"] = <<v, "vector", 0>>
        /\ fault'["error_code"] = ErrorWord(v) /\ fault'["rip"] = rip
        /\ fault'["rflags"] = Flag(if_flag) /\ fault'["rsp"] = <<Len(Here), "rsp", 0>>
        /\ fault'["cs"] = Code("cs") /\ fault'["ss"] = Code("ss")
    <3>1. {"interrupt_number", "error_code", "rip", "cs", "rflags", "rsp", "ss"}
            \subseteq ToSet(InterruptFrame)
      BY <2>3, <2>5
    <3> QED BY <2>1, <2>6, <3>1
  <2>10. ASSUME NEW p \in 16 .. 22
        PROVE  s[a + 23 - p] = fault'[InterruptFrame[p]]
    <3>1. /\ a + 23 - 16 = a + 7 /\ a + 23 - 17 = a + 6 /\ a + 23 - 18 = a + 5
          /\ a + 23 - 19 = a + 4 /\ a + 23 - 20 = a + 3 /\ a + 23 - 21 = a + 2
          /\ a + 23 - 22 = a + 1
      BY <2>4
    <3>2. p = 16 \/ p = 17 \/ p = 18 \/ p = 19 \/ p = 20 \/ p = 21 \/ p = 22
      OBVIOUS
    <3>3. CASE p = 16
      BY <2>3, <2>4, <2>9, <3>1, <3>3, Zenon
    <3>4. CASE p = 17
      BY <2>3, <2>4, <2>9, <3>1, <3>4, Zenon
    <3>5. CASE p = 18
      BY <2>3, <2>4, <2>9, <3>1, <3>5, Zenon
    <3>6. CASE p = 19
      BY <2>3, <2>4, <2>9, <3>1, <3>6, Zenon
    <3>7. CASE p = 20
      BY <2>3, <2>4, <2>9, <3>1, <3>7, Zenon
    <3>8. CASE p = 21
      BY <2>3, <2>4, <2>9, <3>1, <3>8, Zenon
    <3>9. CASE p = 22
      BY <2>3, <2>4, <2>9, <3>1, <3>9, Zenon
    <3> QED BY <3>2, <3>3, <3>4, <3>5, <3>6, <3>7, <3>8, <3>9, Zenon
  <2>11. \A p \in 1 .. 22 : s[a + 23 - p] = fault'[InterruptFrame[p]]
    <3>1. \A p \in 1 .. 22 : p \in 1 .. 15 \/ p \in 16 .. 22
      OBVIOUS
    <3> QED BY <2>8, <2>10, <3>1, Zenon
  <2>12. DOMAIN fault' = ToSet(InterruptFrame) /\ fault' = [f \in ToSet(InterruptFrame) |-> fault'[f]]
    BY <2>1
  <2>13. fault' # <<>>
    <3>1. "rip" \in DOMAIN fault'
      BY <2>3, <2>5, <2>12
    <3>2. DOMAIN <<>> = {}
      OBVIOUS
    <3> QED BY <3>1, <3>2, Zenon
  <2>14. pc' \in Faulting /\ pc' # "panic"
    BY <1>4 DEF Faulting
  <2> QED BY <1>4, <2>11, <2>12, <2>13, <2>14, Zenon DEF FaultShown
<1> QED BY <1>4, <1>5 DEF CpuInv

LEMMA CpuStays == CpuInv /\ UNCHANGED vars => CpuInv'
<1> SUFFICES ASSUME CpuInv, UNCHANGED vars PROVE CpuInv'
  OBVIOUS
<1>1. /\ regs' = regs /\ rip' = rip /\ if_flag' = if_flag /\ pc' = pc /\ UNCHANGED tasks
      /\ stack' = stack /\ dump' = dump /\ at' = at /\ fault' = fault
  BY DEF vars
<1>2. CpuTypes /\ CurrentStack /\ KernelRegs /\ FaultShown
  BY DEF CpuInv
<1>3. s_current' = s_current /\ rsp' = rsp /\ started' = started
  BY <1>1 DEF tasks
<1>4. CpuTypes'
  BY <1>1, <1>2, <1>3 DEF CpuTypes
<1>5. CurrentStack'
  BY <1>1, <1>2, <1>3 DEF CurrentStack, Here, FrameAt
<1>6. OtherStacks'
  BY <1>1, OthersStay
<1>7. KernelRegs'
  BY <1>1, <1>2 DEF KernelRegs
<1>8. FaultShown'
  BY <1>1, <1>2, <1>3 DEF FaultShown, Here
<1> QED BY <1>4, <1>5, <1>6, <1>7, <1>8 DEF CpuInv

-----------------------------------------------------------------------------
(* The theorems.                                                           *)

(* The vectors that are taken, and the stubs they lead to. *)
LEMMA TrapIs ==
  ASSUME TrapsInv, Trap
  PROVE  \/ \E v \in {32, 33} : interrupt(v, StubOf(v))
         \/ \E v \in 0 .. 31 : exception(v, StubOf(v))
<1>1. TablesInv /\ boot = "done"
  BY DEF TrapsInv, Trap
<1>2. ASSUME NEW v \in {32, 33}, interrupt(v, D!Handler(v))
      PROVE  interrupt(v, StubOf(v))
  <2>1. v \in 0 .. 33
    OBVIOUS
  <2> QED BY <1>1, <1>2, <2>1, HandlerIs, Zenon
<1>3. ASSUME NEW v \in Raised, exception(v, D!Handler(v))
      PROVE  v \in 0 .. 31 /\ exception(v, StubOf(v))
  <2>1. v \in 0 .. 33 /\ v \in 0 .. 31
    BY TrapAssumption DEF D!Exceptions
  <2> QED BY <1>1, <1>3, <2>1, HandlerIs, Zenon
<1> QED BY <1>2, <1>3, Zenon DEF Trap

(* The invariants of the tables and of the stacks hold together: the       *)
(* gates lead to the stubs whose frames the rest of the kernel takes off.  *)
LEMMA TrapsStep == TrapsInv /\ [TrapNext]_<<vars, tables>> => TrapsInv'
<1> SUFFICES ASSUME TrapsInv, [TrapNext]_<<vars, tables>> PROVE TrapsInv'
  OBVIOUS
<1>0. TablesInv /\ CpuInv
  BY DEF TrapsInv
<1>1. CASE Boot
  BY <1>0, <1>1, TablesNext, CpuStays DEF Boot, TrapsInv
<1>2. CASE Trap
  <2>1. UNCHANGED tables
    BY <1>2 DEF Trap
  <2>2. TablesInv'
    BY <1>0, <2>1, TablesStay
  <2>3. ASSUME NEW v \in {32, 33}, interrupt(v, StubOf(v))
        PROVE  CpuInv'
    BY <1>0, <2>3, InterruptKeeps
  <2>4. ASSUME NEW v \in 0 .. 31, exception(v, StubOf(v))
        PROVE  CpuInv'
    BY <1>0, <2>4, ExceptionKeeps
  <2> QED BY <1>2, <2>2, <2>3, <2>4, TrapIs, Zenon DEF TrapsInv
<1>3. CASE Run
  <2>1. TablesInv'
    BY <1>0, <1>3, TablesStay DEF Run
  <2>2. ASSUME NEW next \in Tasks, context_switch(next)
        PROVE  CpuInv'
    BY <1>0, <2>2, SwitchKeeps
  <2>3. Next
    BY <1>3 DEF Run
  <2>4. CpuInv'
    BY <1>0, <2>2, <2>3, RunKeeps, IrqKeeps, TickKeeps, TickEndKeeps, LeaveKeeps,
       IsrKeeps, Zenon DEF Next
  <2> QED BY <2>1, <2>4 DEF TrapsInv
<1>4. CASE UNCHANGED <<vars, tables>>
  BY <1>0, <1>4, TablesStay, CpuStays DEF TrapsInv
<1> QED BY <1>1, <1>2, <1>3, <1>4 DEF TrapNext

(* At every step the descriptor tables are what gdt_init and idt_init have *)
(* built so far, and every stack is what the stubs, sched_tick and         *)
(* context_switch have pushed.                                             *)
THEOREM TrapInvariant == Spec => []TrapsInv
<1>1. TrapInit => TrapsInv
  BY TablesInit, CpuStart DEF TrapInit, TrapsInv
<1> QED BY <1>1, TrapsStep, PTL DEF Spec

(* gdt_init never loads a descriptor the CPU refuses, and what it loads is *)
(* what the kernel's own table says, for any address of the TSS.           *)
THEOREM SegmentsAreValid == Spec => []SegmentsValid
<1>1. TrapsInv => SegmentsValid
  BY TablesValid DEF TrapsInv
<1> QED BY <1>1, TrapInvariant, PTL

(* Once idt_init is over every exception and both lines reach their own    *)
(* stub, for any addresses of the stubs and any size of the IDT, and the   *)
(* CPU never shuts down.                                                   *)
THEOREM TrapsAreHandled == Spec => []EveryTrapHandled
<1>1. TrapsInv => EveryTrapHandled
  <2> SUFFICES ASSUME TrapsInv PROVE EveryTrapHandled
    OBVIOUS
  <2>1. pc # "shutdown"
    BY DEF TrapsInv, CpuInv, CpuTypes, Stubbed, Switching, Faulting
  <2>2. ASSUME boot = "done", NEW v \in 0 .. 33
        PROVE  D!Handler(v) = StubOf(v)
    BY <2>2, HandlerIs DEF TrapsInv
  <2>3. /\ \A v \in D!Exceptions : v \in 0 .. 33 /\ StubOf(v) = <<"isr_stub", v>>
        /\ StubOf(32) = <<"irq_stub_0", 0>> /\ StubOf(33) = <<"irq_stub_1", 0>>
        /\ 32 \in 0 .. 33 /\ 33 \in 0 .. 33
    BY DEF D!Exceptions, StubOf
  <2> QED BY <2>1, <2>2, <2>3, Zenon DEF EveryTrapHandled
<1> QED BY <1>1, TrapInvariant, PTL

(* The stubs call C++ functions on a 16-byte boundary, whatever the        *)
(* alignment of the stack they are entered on.                             *)
THEOREM StubCallsAligned == Spec => []CallsAligned
<1>1. TrapsInv => CallsAligned
  <2> SUFFICES ASSUME TrapsInv,
                      pc \in {"irq_stub_0", "irq_stub_1", "sched_tick", "isr_handler"}
               PROVE  (Top[s_current] + Len(Here)) % 2 = 0
    BY DEF CallsAligned
  <2>1. CpuTypes /\ CurrentStack
    BY DEF TrapsInv, CpuInv
  <2>2. PICK a \in 0 .. 2, top \in {0, 1} : a = at[s_current] /\ top = Top[s_current]
    BY <2>1, ContextAssumption DEF CpuTypes
  <2>3. pc # "task" /\ (pc \in Stubbed \/ pc \in Faulting)
    BY DEF Stubbed, Faulting
  <2>4. FrameAt(s_current, Here, a) /\ (Len(Here) = a + 20 \/ Len(Here) = a + 22)
    BY <2>1, <2>2, <2>3, Zenon DEF CurrentStack
  <2>5. (top + a) % 2 = 0
    BY <2>2, <2>4, Zenon DEF FrameAt
  <2>6. (top + (a + 20)) % 2 = 0 /\ (top + (a + 22)) % 2 = 0
    BY <2>2, <2>5
  <2> QED BY <2>2, <2>4, <2>6, Zenon
<1> QED BY <1>1, TrapInvariant, PTL

(* The register dump shows the CPU as it was when the exception was raised.*)
THEOREM DumpIsTrue == Spec => []DumpTrue
<1>1. TrapsInv => DumpTrue
  BY DEF TrapsInv, CpuInv, FaultShown, DumpTrue
<1> QED BY <1>1, TrapInvariant, PTL

(* Every variable keeps its type; no stack grows with the number of        *)
(* interrupts and switches.                                                *)
THEOREM TrapTypes == Spec => []TrapTypeOK
<1>1. CpuInv => TypeOK
  <2> SUFFICES ASSUME CpuInv PROVE TypeOK
    OBVIOUS
  <2>1. CpuTypes /\ CurrentStack /\ OtherStacks
    BY DEF CpuInv
  <2>2. \A w \in Words : IsWord(w)
    BY WordsAre
  <2>3. PICK u \in Nat : u = Len(SchedUses)
    BY Orders
  <2>4. StackDepth = 32 + u
    <3>1. Len(SwitchPush) = 6
      BY Orders
    <3>2. 1 + 1 + 22 + 1 + u + 1 + 6 = 32 + u
      BY <2>3
    <3> QED BY <2>3, <3>1, <3>2, Zenon DEF StackDepth
  <2>5. ASSUME NEW t \in Tasks
        PROVE  Len(stack[t]) \in Nat /\ Len(stack[t]) <= 32 + u
    <3>1. stack[t] \in Seq(Words) /\ at[t] \in 0 .. 2
      BY <2>1 DEF CpuTypes
    <3>2. Len(stack[t]) \in Nat
      BY <3>1, LenProperties
    <3>3. CASE ~started[t]
      <4>1. Len(stack[t]) = 7
        BY <2>1, <3>3, FirstStack, Zenon DEF OtherStacks, Fresh
      <4> QED BY <2>3, <4>1
    <3>4. CASE started[t] /\ t # s_current
      <4>1. Len(stack[t]) = at[t] + 28 + u
        BY <2>1, <2>3, <3>4, Zenon DEF OtherStacks, Waiting
      <4> QED BY <2>3, <3>1, <4>1
    <3>5. CASE t = s_current
      <4>1. PICK n \in Nat, a \in 0 .. 2 : n = Len(stack[t]) /\ a = at[t]
        BY <3>1, <3>2
      <4>2. n <= 1 \/ n = a + 20 \/ n = a + 21 + u \/ n = a + 22
        BY <2>1, <2>3, <3>5, <4>1, Zenon DEF CurrentStack, Here, CpuTypes
      <4>3. n <= 32 + u
        BY <2>3, <4>1, <4>2
      <4> QED BY <4>1, <4>3
    <3> QED BY <3>3, <3>4, <3>5
  <2>6. ASSUME NEW t \in Tasks
        PROVE  rsp[t] \in 0 .. 32 + u /\ at[t] \in 0 .. 32 + u
    <3>1. rsp[t] \in 0 .. 30 + u /\ at[t] \in 0 .. 2
      BY <2>1, <2>3 DEF CpuTypes, Heights
    <3> QED BY <2>3, <3>1
  <2>7. ASSUME NEW t \in Tasks, NEW k \in DOMAIN stack[t]
        PROVE  IsWord(stack[t][k])
    <3>1. stack[t] \in Seq(Words)
      BY <2>1 DEF CpuTypes
    <3>2. k \in 1 .. Len(stack[t])
      BY <3>1, LenProperties
    <3>3. stack[t][k] \in Words
      BY <3>1, <3>2, ElementOfSeq
    <3> QED BY <2>2, <3>3
  <2>8. DOMAIN regs = Regs /\ \A r \in Regs : IsWord(regs[r])
    <3>1. regs \in [Regs -> Words]
      BY <2>1 DEF CpuTypes
    <3>2. DOMAIN regs = Regs /\ \A r \in Regs : regs[r] \in Words
      BY <3>1
    <3> QED BY <2>2, <3>2, Zenon
  <2>9. /\ IsWord(rip) /\ if_flag \in BOOLEAN /\ s_current \in Tasks
        /\ started \in [Tasks -> BOOLEAN]
    BY <2>1, <2>2 DEF CpuTypes
  <2>10. DOMAIN stack = Tasks
    BY <2>1 DEF CpuTypes
  <2>11. pc \in {"task", "irq_stub_0", "irq_stub_1", "sched_tick", "sched_tick_end",
                 "context_switch", "leave", "isr_handler", "panic", "shutdown"}
    BY <2>1 DEF CpuTypes, Stubbed, Switching, Faulting
  <2>12. \A t \in Tasks : /\ Len(stack[t]) <= StackDepth
                          /\ \A k \in DOMAIN stack[t] : IsWord(stack[t][k])
                          /\ rsp[t] \in 0 .. StackDepth
                          /\ at[t] \in 0 .. StackDepth
    BY <2>4, <2>5, <2>6, <2>7, Zenon
  <2> QED BY <2>8, <2>9, <2>10, <2>11, <2>12, Zenon DEF TypeOK
<1>2. TrapsInv => TrapTypeOK
  BY <1>1, TablesTyped DEF TrapsInv, TrapTypeOK
<1> QED BY <1>2, TrapInvariant, PTL

-----------------------------------------------------------------------------
(* Every task has a CPU of its own.                                        *)

(* The CPU that a frame at a holds, its registers behind `first' words. *)
Seen(s, a, first) ==
  T!State([r \in Regs |-> s[a + (first + IndexOf(StubPush, r))]],
          s[a + 5], s[a + 3][1] = 1, SubSeq(s, 1, s[a + 2][1]))

LEMMA VirtualIs ==
  ASSUME NEW t
  PROVE  /\ Virtual(t) = IF ~started[t] THEN T!New
                         ELSE IF t = s_current /\ pc = "task"
                         THEN T!State(regs, rip, if_flag, stack[t])
                         ELSE Seen(stack[t], at[t],
                                   IF t = s_current /\ fault # <<>> THEN 7 ELSE 5)
         /\ Virtual(t)' = IF ~started'[t] THEN T!New
                          ELSE IF t = s_current' /\ pc' = "task"
                          THEN T!State(regs', rip', if_flag', stack'[t])
                          ELSE Seen(stack'[t], at'[t],
                                    IF t = s_current' /\ fault' # <<>> THEN 7 ELSE 5)
BY Zenon DEF Virtual, Seen, T!State, T!New

(* Words above the frame do not matter. *)
LEMMA SameSeen ==
  ASSUME NEW s \in Seq(Words), NEW v \in Seq(Words), NEW a \in 0 .. 2,
         a + 20 <= Len(s), a + 20 <= Len(v),
         \A i \in 1 .. a + 20 : v[i] = s[i],
         s[a + 2][1] \in 0 .. 1
  PROVE  Seen(v, a, 5) = Seen(s, a, 5)
<1>1. PICK h \in 0 .. 1 : h = s[a + 2][1]
  OBVIOUS
<1>2. /\ a + 2 \in 1 .. a + 20 /\ a + 3 \in 1 .. a + 20 /\ a + 5 \in 1 .. a + 20
      /\ \A k \in 1 .. 15 : a + (5 + k) \in 1 .. a + 20
      /\ \A i \in 1 .. h : i \in 1 .. a + 20
  BY <1>1
<1>3. v[a + 2] = s[a + 2] /\ v[a + 3] = s[a + 3] /\ v[a + 5] = s[a + 5]
  BY <1>2, Zenon
<1>4. \A r \in Regs : v[a + (5 + IndexOf(StubPush, r))] = s[a + (5 + IndexOf(StubPush, r))]
  <2>1. \A r \in Regs : IndexOf(StubPush, r) \in 1 .. 15
    BY Popped1
  <2> QED BY <1>2, <2>1, Zenon
<1>5. SubSeq(v, 1, h) = SubSeq(s, 1, h)
  <2>1. PICK u, w : u = SubSeq(v, 1, h) /\ w = SubSeq(s, 1, h)
    OBVIOUS
  <2>2. 1 \in Nat \ {0} /\ h \in Nat /\ h <= Len(v) /\ h <= Len(s) /\ 1 <= h + 1
    <3>1. Len(v) \in Nat /\ Len(s) \in Nat
      BY LenProperties
    <3> QED BY <1>1, <3>1
  <2>3. IsPart(Words, u, v, 1, h) /\ IsPart(Words, w, s, 1, h)
    BY <2>1, <2>2, Part, Zenon
  <2>4. /\ u \in Seq(Words) /\ Len(u) = h /\ \A i \in 1 .. h : u[i] = v[i]
        /\ w \in Seq(Words) /\ Len(w) = h /\ \A i \in 1 .. h : w[i] = s[i]
    BY <1>1, <2>3 DEF IsPart
  <2>5. \A i \in 1 .. h : u[i] = w[i]
    BY <1>2, <2>4, Zenon
  <2>6. u = w
    BY <2>4, <2>5, SeqEqual
  <2> QED BY <2>1, <2>6
<1> QED BY <1>1, <1>3, <1>4, <1>5, Zenon DEF Seen

(* A task that does not run, and whose stack stays. *)
LEMMA SameVirtual ==
  ASSUME NEW t, t # s_current, t # s_current', started'[t] = started[t],
         stack'[t] = stack[t], at'[t] = at[t]
  PROVE  Virtual(t)' = Virtual(t)
BY VirtualIs, Zenon

(* The kernel at work on the stack of the task it interrupted. *)
LEMMA FrameSeen ==
  ASSUME CpuInv, CpuInv', KeepsFrame, pc \in Stubbed \cup Switching,
         pc' \in Stubbed \cup Switching, NEW t \in Tasks
  PROVE  Virtual(t)' = Virtual(t)
<1>1. /\ s_current' = s_current /\ started' = started /\ at' = at /\ fault' = fault
      /\ \A x \in Tasks : x # s_current => stack'[x] = stack[x]
  BY DEF KeepsFrame, tasks
<1>2. CASE t # s_current
  BY <1>1, <1>2, SameVirtual, Zenon
<1>3. CASE t = s_current
  <2>1. pc # "task" /\ pc' # "task" /\ fault = <<>> /\ fault' = <<>>
    <3>1. pc # "task" /\ pc' # "task" /\ pc \notin Faulting
      BY DEF Stubbed, Switching, Faulting
    <3>2. fault = <<>>
      BY <3>1 DEF CpuInv, FaultShown
    <3> QED BY <1>1, <3>1, <3>2
  <2>2. started[t] /\ FrameAt(t, stack[t], at[t])
    BY <1>3, <2>1 DEF CpuInv, CurrentStack, Here
  <2>3. PICK a \in 0 .. 2 : a = at[t]
    BY DEF CpuInv, CpuTypes
  <2>4. stack[t] \in Seq(Words) /\ stack'[t] \in Seq(Words)
    BY DEF CpuInv, CpuTypes
  <2>5. a + 20 <= a + 21 + Len(SchedUses) /\ a + 20 <= a + 20
    BY <2>3, Orders
  <2>6. a + 20 <= Len(stack[t])
    BY <1>3, <2>3, <2>5, Zenon DEF CpuInv, CurrentStack, Here
  <2>7. a + 20 <= Len(stack'[t])
    <3>1. t = s_current' /\ a = at'[t]
      BY <1>1, <1>3, <2>3
    <3> QED BY <2>5, <3>1, Zenon DEF CpuInv, CurrentStack, Here
  <2>8. \A i \in 1 .. a + 20 : stack'[t][i] = stack[t][i]
    BY <1>3, <2>3, Zenon DEF KeepsFrame, Here
  <2>9. stack[t][a + 2][1] \in 0 .. 1
    BY <2>2, <2>3, Zenon DEF FrameAt
  <2>10. Seen(stack'[t], a, 5) = Seen(stack[t], a, 5)
    BY <2>3, <2>4, <2>6, <2>7, <2>8, <2>9, SameSeen, Zenon
  <2>11. at'[t] = a /\ started'[t]
    BY <1>1, <2>2, <2>3
  <2> QED BY <2>1, <2>2, <2>3, <2>10, <2>11, VirtualIs, Zenon
<1> QED BY <1>2, <1>3

(* Steps of the kernel that leave the stacks as they are. *)
LEMMA StillSeen ==
  ASSUME CpuInv, irq_stub_0 \/ irq_stub_1 \/ isr_handler, NEW t
  PROVE  Virtual(t)' = Virtual(t)
<1>1. /\ stack' = stack /\ at' = at /\ fault' = fault /\ UNCHANGED tasks
      /\ pc # "task" /\ pc' # "task"
  BY DEF irq_stub_0, irq_stub_1, isr_handler
<1>2. s_current' = s_current /\ started' = started
  BY <1>1 DEF tasks
<1> QED BY <1>1, <1>2, VirtualIs, Zenon

(* iretq gives the task what its frame holds. *)
LEMMA LeaveSeen ==
  ASSUME CpuInv, leave, NEW t \in Tasks
  PROVE  Virtual(t)' = Virtual(t)
<1>1. PICK a : a = at[s_current]
  OBVIOUS
<1>2. Left(a)
  BY <1>1, Leaving, Zenon
<1>3. /\ a \in 0 .. 2
      /\ regs' = [r \in Regs |-> Here[(a + 5) + IndexOf(StubPush, r)]]
      /\ rip' = Here[a + 5] /\ if_flag' = (Here[a + 3][1] = 1)
      /\ stack' = [stack EXCEPT ![s_current] = SubSeq(Here, 1, Here[a + 2][1])]
      /\ at' = [at EXCEPT ![s_current] = Len(SubSeq(Here, 1, Here[a + 2][1]))]
      /\ UNCHANGED tasks /\ fault' = fault /\ pc = "leave" /\ pc' = "task"
  BY <1>2, Zenon DEF Left
<1>4. s_current' = s_current /\ started' = started
  BY <1>3 DEF tasks
<1>5. /\ stack \in [Tasks -> Seq(Words)] /\ at \in [Tasks -> 0 .. 2] /\ s_current \in Tasks
      /\ started[s_current]
  BY DEF CpuInv, CpuTypes, CurrentStack
<1>6. CASE t # s_current
  <2>1. stack'[t] = stack[t] /\ at'[t] = at[t]
    BY <1>3, <1>5, <1>6, Zenon
  <2> QED BY <1>4, <1>6, <2>1, SameVirtual, Zenon
<1>7. CASE t = s_current
  <2>1. pc # "task" /\ fault = <<>>
    <3>1. pc # "task" /\ pc \notin Faulting
      BY <1>3 DEF Faulting
    <3> QED BY <3>1 DEF CpuInv, FaultShown
  <2>2. stack'[t] = SubSeq(Here, 1, Here[a + 2][1])
    BY <1>3, <1>5, <1>7, Zenon
  <2>3. \A r \in Regs : (a + 5) + IndexOf(StubPush, r) = a + (5 + IndexOf(StubPush, r))
    <3>1. \A r \in Regs : IndexOf(StubPush, r) \in 1 .. 15
      BY Popped1
    <3>2. \A k \in 1 .. 15 : (a + 5) + k = a + (5 + k)
      BY <1>3
    <3> QED BY <3>1, <3>2, Zenon
  <2>4. regs' = [r \in Regs |-> Here[a + (5 + IndexOf(StubPush, r))]]
    BY <1>3, <2>3, Zenon
  <2>5. T!State(regs', rip', if_flag', stack'[t]) = Seen(Here, a, 5)
    BY <1>3, <2>2, <2>4, Zenon DEF Seen
  <2>6. Virtual(t) = Seen(Here, a, 5)
    BY <1>1, <1>5, <1>7, <2>1, VirtualIs, Zenon DEF Here
  <2>7. Virtual(t)' = T!State(regs', rip', if_flag', stack'[t])
    BY <1>3, <1>4, <1>5, <1>7, VirtualIs, Zenon
  <2> QED BY <2>5, <2>6, <2>7, Zenon
<1> QED BY <1>6, <1>7

(* The frame that a stub leaves holds the CPU of the task. *)
LEMMA EnterSeen ==
  ASSUME CpuInv, NEW v \in 0 .. 33, Enter(v, StubOf(v)), NEW t \in Tasks,
         v \in 0 .. 31 => fault' # <<>>, v \in 32 .. 33 => fault' = <<>>
  PROVE  Virtual(t)' = Virtual(t)
<1>1. PICK s, a : /\ Entered(v, s, a)
                  /\ stack' = [stack EXCEPT ![s_current] = s]
                  /\ at' = [at EXCEPT ![s_current] = a]
  BY Enters, Zenon
<1>2. /\ Here' = s /\ s_current' = s_current /\ at'[s_current] = a /\ pc = "task"
      /\ v \in 0 .. 31 => pc' = "isr_handler"
      /\ v \in 32 .. 33 => pc' \in {"irq_stub_0", "irq_stub_1"}
  BY <1>1, EnterKeeps, Zenon
<1>3. started' = started
  BY DEF Enter, tasks
<1>4. /\ stack \in [Tasks -> Seq(Words)] /\ at \in [Tasks -> 0 .. 2] /\ s_current \in Tasks
      /\ started[s_current] /\ regs \in [Regs -> Words] /\ if_flag \in BOOLEAN
  BY DEF CpuInv, CpuTypes, CurrentStack
<1>5. CASE t # s_current
  <2>1. stack'[t] = stack[t] /\ at'[t] = at[t]
    BY <1>1, <1>4, <1>5, Zenon
  <2> QED BY <1>2, <1>3, <1>5, <2>1, SameVirtual, Zenon
<1>6. CASE t = s_current
  <2>1. v \in 0 .. 31 \/ v \in 32 .. 33
    OBVIOUS
  <2>2. pc' # "task"
    BY <1>2, <2>1
  <2>3. /\ s \in Seq(Words) /\ Len(Here) <= a /\ Within(s, 0, Here) /\ a \in 0 .. 2
        /\ s[a + 2] = <<Len(Here), "rsp", 0>> /\ s[a + 3] = Flag(if_flag) /\ s[a + 5] = rip
        /\ v \in 32 .. 33 =>
             Len(s) = a + 20 /\ \A k \in 1 .. 15 : s[a + 5 + k] = regs[StubPush[k]]
        /\ v \in 0 .. 31 =>
             Len(s) = a + 22 /\ \A k \in 1 .. 15 : s[a + 7 + k] = regs[StubPush[k]]
    BY <1>1, Zenon DEF Entered
  <2>4. PICK first \in {5, 7} :
          /\ first = (IF fault' # <<>> THEN 7 ELSE 5)
          /\ \A k \in 1 .. 15 : s[a + first + k] = regs[StubPush[k]]
    <3>1. CASE v \in 0 .. 31
      BY <2>3, <3>1, Zenon
    <3>2. CASE v \in 32 .. 33
      BY <2>3, <3>2, Zenon
    <3> QED BY <2>1, <3>1, <3>2
  <2>5. regs = [r \in Regs |-> s[a + (first + IndexOf(StubPush, r))]]
    <3>1. ASSUME NEW r \in Regs
          PROVE  s[a + (first + IndexOf(StubPush, r))] = regs[r]
      <4>1. IndexOf(StubPush, r) \in 1 .. 15
        BY Popped1
      <4>2. StubPush[IndexOf(StubPush, r)] = r
        BY Position DEF Regs
      <4>3. PICK k \in 1 .. 15 : k = IndexOf(StubPush, r)
        BY <4>1
      <4>4. a + first + k = a + (first + k)
        BY <2>3
      <4> QED BY <2>4, <4>2, <4>3, <4>4, Zenon
    <3>2. regs = [r \in Regs |-> regs[r]]
      BY <1>4
    <3> QED BY <3>1, <3>2, Zenon
  <2>6. (s[a + 3][1] = 1) = if_flag
    BY <1>4, <2>3, WordsAre, Zenon
  <2>7. SubSeq(s, 1, s[a + 2][1]) = Here
    <3>1. Here \in Seq(Words)
      BY <1>4 DEF Here
    <3>2. PICK h \in Nat : h = Len(Here)
      BY <3>1, LenProperties
    <3>3. s[a + 2][1] = h
      <4>1. <<h, "rsp", 0>>[1] = h
        OBVIOUS
      <4> QED BY <2>3, <3>2, <4>1, Zenon
    <3>4. PICK u : u = SubSeq(s, 1, h)
      OBVIOUS
    <3>5. h <= Len(s) /\ \A i \in 1 .. h : s[0 + i] = Here[i]
      <4>1. 0 + h <= Len(s) /\ \A i \in 1 .. h : s[0 + i] = Here[i]
        BY <2>3, <3>2, Zenon DEF Within
      <4> QED BY <4>1
    <3>6. 1 \in Nat \ {0} /\ 1 <= h + 1
      OBVIOUS
    <3>7. IsPart(Words, u, s, 1, h)
      BY <2>3, <3>2, <3>4, <3>5, <3>6, Part, Zenon
    <3>8. u \in Seq(Words) /\ Len(u) = h /\ \A i \in 1 .. h : u[i] = s[i]
      BY <3>2, <3>7 DEF IsPart
    <3>9. \A i \in 1 .. h : 0 + i = i
      OBVIOUS
    <3>10. \A i \in 1 .. h : u[i] = Here[i]
      BY <3>5, <3>8, <3>9, Zenon
    <3>11. u = Here
      BY <3>1, <3>2, <3>8, <3>10, SeqEqual
    <3> QED BY <3>3, <3>4, <3>11, Zenon
  <2>8. Seen(s, a, first) = T!State(regs, rip, if_flag, Here)
    BY <2>3, <2>5, <2>6, <2>7, Zenon DEF Seen
  <2>9. Virtual(t) = T!State(regs, rip, if_flag, Here)
    BY <1>2, <1>4, <1>6, VirtualIs, Zenon DEF Here
  <2>10. stack'[t] = s /\ at'[t] = a
    BY <1>1, <1>2, <1>4, <1>6, Zenon
  <2>11. Virtual(t)' = Seen(s, a, first)
    BY <1>2, <1>3, <1>4, <1>6, <2>2, <2>4, <2>10, VirtualIs, Zenon
  <2> QED BY <2>8, <2>9, <2>11, Zenon
<1> QED BY <1>5, <1>6

(* context_switch leaves every task that has run its CPU. *)
LEMMA SwitchSeen ==
  ASSUME CpuInv, CpuInv', NEW next \in Tasks, context_switch(next),
         NEW t \in Tasks, started[next] \/ t # next
  PROVE  Virtual(t)' = Virtual(t)
<1>1. PICK out, back :
        /\ Switched(next, out, back)
        /\ IF started[next] THEN Resumed(next, back) ELSE Began(next, back)
  BY SwitchIs
<1>2. /\ pc = "context_switch" /\ next # s_current /\ s_current' = next
      /\ IsCall(Words, out, Here, Code("sched_tick_end"), Saved(SwitchPush))
      /\ stack' = [stack EXCEPT ![s_current] = out, ![next] = back]
      /\ started' = [started EXCEPT ![next] = TRUE]
      /\ fault' = fault /\ back \in Seq(Words)
  BY <1>1, Zenon DEF Switched
<1>3. CpuTypes /\ CurrentStack /\ OtherStacks /\ FaultShown
  BY DEF CpuInv
<1>4. /\ s_current \in Tasks /\ stack \in [Tasks -> Seq(Words)] /\ Here \in Seq(Words)
      /\ at \in [Tasks -> 0 .. 2] /\ started \in [Tasks -> BOOLEAN]
  BY <1>3 DEF CpuTypes, Here
<1>5. pc # "task" /\ fault = <<>> /\ pc \in Switching
  BY <1>2, <1>3 DEF FaultShown, Faulting, Switching
<1>6. out \in Seq(Words) /\ \A i \in 1 .. Len(Here) : out[i] = Here[i]
  BY <1>2, Zenon DEF IsCall
<1>7. /\ stack'[s_current] = out /\ stack'[next] = back
      /\ \A x \in Tasks : x # s_current /\ x # next => stack'[x] = stack[x]
  BY <1>2, <1>4, <1>6
<1>8. \A x \in Tasks : x # next => at'[x] = at[x] /\ started'[x] = started[x]
  <2>1. \A x \in Tasks : x # next => started'[x] = started[x]
    BY <1>2, <1>4
  <2>2. CASE started[next]
    BY <1>1, <2>1, <2>2, Zenon DEF Resumed
  <2>3. CASE ~started[next]
    <3>1. at' = [at EXCEPT ![next] = 0]
      BY <1>1, <2>3, Zenon DEF Began
    <3> QED BY <1>4, <2>1, <3>1
  <2> QED BY <2>2, <2>3
<1>9. PICK a \in 0 .. 2, u \in Nat : a = at[t] /\ u = Len(SchedUses)
  BY <1>4, Orders
<1>10. /\ a + 20 <= a + 21 + u /\ a + 20 <= a + 28 + u
       /\ \A i \in 1 .. a + 20 : i \in 1 .. a + 21 + u
  BY <1>9
<1>11. CASE t # s_current /\ t # next
  BY <1>2, <1>7, <1>8, <1>11, SameVirtual, Zenon
<1>12. CASE t = s_current
  <2>1. t # next /\ t # s_current' /\ started[t] /\ started'[t] /\ at'[t] = a
    BY <1>2, <1>3, <1>8, <1>9, <1>12, Zenon DEF CurrentStack
  <2>2. Len(Here) = a + 21 + u /\ FrameAt(t, Here, a)
    BY <1>3, <1>5, <1>9, <1>12, Zenon DEF CurrentStack
  <2>3. Waiting(t)'
    <3>1. OtherStacks'
      BY DEF CpuInv
    <3> QED BY <2>1, <3>1, Zenon DEF OtherStacks
  <2>4. Len(out) = a + 28 + u
    <3>1. Len(stack'[t]) = at'[t] + 28 + Len(SchedUses)
      BY <2>3, Zenon DEF Waiting
    <3> QED BY <1>7, <1>9, <1>12, <2>1, <3>1, Zenon
  <2>5. \A i \in 1 .. a + 20 : out[i] = Here[i]
    BY <1>6, <1>10, <2>2, Zenon
  <2>6. a + 20 <= Len(Here) /\ a + 20 <= Len(out) /\ Here[a + 2][1] \in 0 .. 1
    BY <1>10, <2>2, <2>4, Zenon DEF FrameAt
  <2>7. Seen(out, a, 5) = Seen(Here, a, 5)
    BY <1>4, <1>6, <1>9, <2>5, <2>6, SameSeen, Zenon
  <2>8. Virtual(t) = Seen(Here, a, 5)
    BY <1>5, <1>9, <1>12, <2>1, VirtualIs, Zenon DEF Here
  <2>9. Virtual(t)' = Seen(out, a, 5)
    BY <1>7, <1>12, <2>1, VirtualIs, Zenon
  <2> QED BY <2>7, <2>8, <2>9, Zenon
<1>13. CASE t = next
  <2>1. started[next] /\ Resumed(next, back)
    BY <1>1, <1>13, Zenon
  <2>2. /\ pc' = "sched_tick_end" /\ at' = at
        /\ Len(back) = a + 21 + u /\ \A i \in 1 .. a + 21 + u : back[i] = stack[t][i]
    BY <1>9, <1>13, <2>1, Zenon DEF Resumed
  <2>3. Waiting(t)
    BY <1>2, <1>3, <1>13, <2>1, Zenon DEF OtherStacks
  <2>4. Len(stack[t]) = a + 28 + u /\ FrameAt(t, stack[t], a)
    BY <1>9, <2>3, Zenon DEF Waiting
  <2>5. \A i \in 1 .. a + 20 : back[i] = stack[t][i]
    BY <1>10, <2>2, Zenon
  <2>6. /\ a + 20 <= Len(stack[t]) /\ a + 20 <= Len(back) /\ stack[t][a + 2][1] \in 0 .. 1
        /\ stack[t] \in Seq(Words)
    BY <1>4, <1>10, <2>2, <2>4, Zenon DEF FrameAt
  <2>7. Seen(back, a, 5) = Seen(stack[t], a, 5)
    BY <1>2, <1>9, <2>5, <2>6, SameSeen, Zenon
  <2>8. Virtual(t) = Seen(stack[t], a, 5)
    BY <1>2, <1>9, <1>13, <2>1, VirtualIs, Zenon
  <2>9. started'[t] /\ pc' # "task" /\ fault' = <<>>
    BY <1>2, <1>4, <1>5, <1>13, <2>2
  <2>10. Virtual(t)' = Seen(back, a, 5)
    BY <1>7, <1>9, <1>13, <2>2, <2>9, VirtualIs, Zenon
  <2> QED BY <2>7, <2>8, <2>10, Zenon
<1> QED BY <1>11, <1>12, <1>13

(* A task switched to for the first time starts. *)
LEMMA StartSeen ==
  ASSUME CpuInv, CpuInv', NEW next \in Tasks, context_switch(next), ~started[next]
  PROVE  /\ Virtual(next) = T!New
         /\ Virtual(next)' =
              T!State([r \in Regs |-> IF r \in CalleeSaved THEN T!Zero ELSE T!Junk],
                      T!Val(next, "rip", 0), FALSE, <<>>)
<1>1. PICK out, back : Switched(next, out, back) /\ Began(next, back)
  <2>1. \E out, back :
          /\ Switched(next, out, back)
          /\ IF started[next] THEN Resumed(next, back) ELSE Began(next, back)
    BY SwitchIs
  <2> QED BY <2>1, Zenon
<1>2. /\ pc = "context_switch" /\ next # s_current /\ s_current' = next
      /\ stack' = [stack EXCEPT ![s_current] = out, ![next] = back]
      /\ started' = [started EXCEPT ![next] = TRUE]
      /\ if_flag' = if_flag /\ back \in Seq(Words)
  BY <1>1, Zenon DEF Switched
<1>3. /\ pc' = "task" /\ rip' = T!Val(next, "rip", 0)
      /\ regs' = [r \in Regs |-> IF r \in CalleeSaved THEN T!Zero ELSE T!Junk]
      /\ Len(back) = 0
  BY <1>1, Zenon DEF Began
<1>4. stack \in [Tasks -> Seq(Words)] /\ started \in [Tasks -> BOOLEAN] /\ if_flag \in BOOLEAN
  BY DEF CpuInv, CpuTypes
<1>5. if_flag' = FALSE
  BY <1>2, <1>4 DEF CpuInv, KernelRegs
<1>6. stack'[next] = <<>>
  <2>1. back = <<>>
    BY <1>2, <1>3, EmptySeq
  <2>2. stack'[next] = back
    BY <1>2, <1>4
  <2> QED BY <2>1, <2>2, Zenon
<1>7. started'[next]
  BY <1>2, <1>4
<1> QED BY <1>2, <1>3, <1>5, <1>6, <1>7, VirtualIs, Zenon

(* A task's own step is its own. *)
LEMMA RunSeen ==
  ASSUME CpuInv, run, NEW t \in Tasks, t = s_current
  PROVE  /\ \A x \in Tasks : x # t => Virtual(x)' = Virtual(x)
         /\ Virtual(t) = T!State(regs, rip, if_flag, stack[t])
         /\ \E e, own, if :
              /\ e = (rip[3] + 1) % Epochs /\ own \in T!OwnOf(t, e) /\ if \in BOOLEAN
              /\ Virtual(t)' = T!State(T!RegsOf(t, e), T!Val(t, "rip", e), if, own)
<1>1. PICK e, own :
        /\ e = (rip[3] + 1) % Epochs /\ own \in T!OwnOf(s_current, e)
        /\ regs' = T!RegsOf(s_current, e) /\ rip' = T!Val(s_current, "rip", e)
        /\ stack' = [stack EXCEPT ![s_current] = own]
        /\ at' = [at EXCEPT ![s_current] = Len(own)]
  BY Zenon DEF run
<1>2. /\ if_flag' \in {if_flag, TRUE} /\ pc = "task" /\ pc' = "task"
      /\ s_current' = s_current /\ started' = started
  BY DEF run, tasks
<1>3. /\ stack \in [Tasks -> Seq(Words)] /\ at \in [Tasks -> 0 .. 2] /\ s_current \in Tasks
      /\ started[s_current] /\ if_flag \in BOOLEAN
  BY DEF CpuInv, CpuTypes, CurrentStack
<1>4. if_flag' \in BOOLEAN
  BY <1>2, <1>3
<1>5. /\ stack'[t] = own
      /\ \A x \in Tasks : x # t => stack'[x] = stack[x] /\ at'[x] = at[x]
  BY <1>1, <1>3, Zenon
<1>6. \A x \in Tasks : x # t => Virtual(x)' = Virtual(x)
  BY <1>2, <1>5, SameVirtual, Zenon
<1>7. Virtual(t) = T!State(regs, rip, if_flag, stack[t])
  BY <1>2, <1>3, VirtualIs, Zenon
<1>8. Virtual(t)' = T!State(regs', rip', if_flag', own)
  BY <1>2, <1>3, <1>5, VirtualIs, Zenon
<1> QED BY <1>1, <1>4, <1>6, <1>7, <1>8, Zenon

(* One task's CPU changes and the others' do not. *)
LEMMA OneCpu ==
  ASSUME NEW t \in Tasks, NEW x, Virtual(t)' = x,
         \A s \in Tasks : s # t => Virtual(s)' = Virtual(s)
  PROVE  [s \in Tasks |-> Virtual(s)]' = [[s \in Tasks |-> Virtual(s)] EXCEPT ![t] = x]
BY Zenon

(* Every step is a step of one task's CPU, or none. *)
LEMMA CpuStep ==
  ASSUME TrapsInv, TrapsInv', [TrapNext]_<<vars, tables>>
  PROVE  [C!Next]_([t \in Tasks |-> Virtual(t)])
<1>1. CpuInv /\ CpuInv'
  BY DEF TrapsInv
<1>2. ASSUME \A t \in Tasks : Virtual(t)' = Virtual(t)
      PROVE  UNCHANGED [t \in Tasks |-> Virtual(t)]
  BY <1>2, Zenon
<1>3. ASSUME UNCHANGED vars
      PROVE  \A t \in Tasks : Virtual(t)' = Virtual(t)
  <2>1. /\ regs' = regs /\ rip' = rip /\ if_flag' = if_flag /\ pc' = pc /\ stack' = stack
        /\ at' = at /\ fault' = fault /\ s_current' = s_current /\ started' = started
    BY <1>3 DEF vars, tasks
  <2> QED BY <2>1, VirtualIs, Zenon
<1>4. CASE Boot \/ UNCHANGED <<vars, tables>>
  <2>1. UNCHANGED vars
    BY <1>4 DEF Boot
  <2> QED BY <1>2, <1>3, <2>1, Zenon
<1>5. CASE Trap
  <2>1. ASSUME NEW v \in {32, 33}, interrupt(v, StubOf(v))
        PROVE  \A t \in Tasks : Virtual(t)' = Virtual(t)
    <3>1. Enter(v, StubOf(v)) /\ v \in 0 .. 33 /\ v \notin 0 .. 31
      BY <2>1 DEF interrupt
    <3>2. fault' = <<>>
      BY <1>1, <2>1 DEF interrupt, Enter, CpuInv, FaultShown, Faulting
    <3> QED BY <1>1, <3>1, <3>2, EnterSeen, Zenon
  <2>2. ASSUME NEW v \in 0 .. 31, exception(v, StubOf(v))
        PROVE  \A t \in Tasks : Virtual(t)' = Virtual(t)
    <3>1. Enter(v, StubOf(v)) /\ v \in 0 .. 33 /\ v \notin 32 .. 33
      <4>1. Enter(v, StubOf(v))
        BY <2>2, Zenon DEF exception
      <4>2. v \in 0 .. 33 /\ v \notin 32 .. 33
        OBVIOUS
      <4> QED BY <4>1, <4>2
    <3>2. pc' = "isr_handler"
      <4>1. StubOf(v)[1] = "isr_stub"
        BY DEF StubOf
      <4> QED BY <3>1, <4>1 DEF Enter
    <3>3. fault' # <<>>
      BY <1>1, <3>2 DEF CpuInv, FaultShown, Faulting
    <3> QED BY <1>1, <3>1, <3>3, EnterSeen, Zenon
  <2> QED BY <1>2, <1>5, <2>1, <2>2, TrapIs, Zenon
<1>6. CASE Run
  <2>1. Next
    BY <1>6 DEF Run
  <2>2. CASE irq_stub_0 \/ irq_stub_1 \/ isr_handler
    BY <1>1, <1>2, <2>2, StillSeen, Zenon
  <2>3. CASE leave
    BY <1>1, <1>2, <2>3, LeaveSeen, Zenon
  <2>4. CASE sched_tick
    <3>1. pc \in Stubbed \cup Switching /\ pc' \in Stubbed \cup Switching
      BY <2>4 DEF sched_tick, Stubbed, Switching
    <3>2. KeepsFrame
      BY <1>1, <2>4, TickKeeps
    <3> QED BY <1>1, <1>2, <3>1, <3>2, FrameSeen, Zenon
  <2>5. CASE sched_tick_end
    <3>1. KeepsFrame /\ pc' = "leave"
      BY <1>1, <2>5, TickEndKeeps
    <3>2. pc \in Stubbed \cup Switching /\ pc' \in Stubbed \cup Switching
      BY <2>5, <3>1 DEF sched_tick_end, Stubbed, Switching
    <3> QED BY <1>1, <1>2, <3>1, <3>2, FrameSeen, Zenon
  <2>6. ASSUME NEW next \in Tasks, context_switch(next)
        PROVE  [C!Next]_([t \in Tasks |-> Virtual(t)])
    <3>1. CASE started[next]
      BY <1>1, <1>2, <2>6, <3>1, SwitchSeen, Zenon
    <3>2. CASE ~started[next]
      <4>1. PICK x : x = T!State([r \in Regs |-> IF r \in CalleeSaved THEN T!Zero ELSE T!Junk],
                                 T!Val(next, "rip", 0), FALSE, <<>>)
        OBVIOUS
      <4>2. Virtual(next) = T!New /\ Virtual(next)' = x
        BY <1>1, <2>6, <3>2, <4>1, StartSeen, Zenon
      <4>3. \A t \in Tasks : t # next => Virtual(t)' = Virtual(t)
        BY <1>1, <2>6, SwitchSeen, Zenon
      <4>4. [t \in Tasks |-> Virtual(t)]' = [[t \in Tasks |-> Virtual(t)] EXCEPT ![next] = x]
        BY <4>2, <4>3, OneCpu, Zenon
      <4>5. C!Start(next)
        BY <4>1, <4>2, <4>4, Zenon DEF C!Start, C!New, C!State, C!Zero, C!Junk, C!Val,
           T!New, T!State, T!Zero, T!Junk, T!Val
      <4> QED BY <4>5, Zenon DEF C!Next
    <3> QED BY <3>1, <3>2
  <2>7. CASE run
    <3>1. PICK t \in Tasks : t = s_current
      BY <1>1 DEF CpuInv, CpuTypes
    <3>2. PICK e, own, if :
            /\ e = (rip[3] + 1) % Epochs /\ own \in T!OwnOf(t, e) /\ if \in BOOLEAN
            /\ Virtual(t)' = T!State(T!RegsOf(t, e), T!Val(t, "rip", e), if, own)
      BY <1>1, <2>7, <3>1, RunSeen, Zenon
    <3>3. Virtual(t) = T!State(regs, rip, if_flag, stack[t])
      BY <1>1, <2>7, <3>1, RunSeen, Zenon
    <3>4. \A x \in Tasks : x # t => Virtual(x)' = Virtual(x)
      BY <1>1, <2>7, <3>1, RunSeen, Zenon
    <3>5. [x \in Tasks |-> Virtual(x)]' =
            [[x \in Tasks |-> Virtual(x)] EXCEPT ![t] =
               T!State(T!RegsOf(t, e), T!Val(t, "rip", e), if, own)]
      BY <3>2, <3>4, OneCpu, Zenon
    <3>6. Virtual(t).on = TRUE /\ Virtual(t).rip = rip
      BY <3>3 DEF T!State
    <3>7. [x \in Tasks |-> Virtual(x)][t] = Virtual(t)
      OBVIOUS
    <3>8. own \in C!OwnOf(t, e)
      BY <3>2, Zenon DEF C!OwnOf, T!OwnOf, C!Val, T!Val
    <3>9. T!State(T!RegsOf(t, e), T!Val(t, "rip", e), if, own) =
            C!State(C!RegsOf(t, e), C!Val(t, "rip", e), if, own)
      BY Zenon DEF T!State, C!State, T!RegsOf, C!RegsOf, T!Val, C!Val
    <3>10. C!Step(t)
      <4>1. /\ [x \in Tasks |-> Virtual(x)][t].on
            /\ e = ([x \in Tasks |-> Virtual(x)][t].rip[3] + 1) % Epochs
        BY <3>2, <3>6, <3>7, Zenon
      <4>2. [x \in Tasks |-> Virtual(x)]' =
              [[x \in Tasks |-> Virtual(x)] EXCEPT ![t] =
                 C!State(C!RegsOf(t, e), C!Val(t, "rip", e), if, own)]
        BY <3>5, <3>9, Zenon
      <4> QED BY <3>2, <3>8, <4>1, <4>2, Zenon DEF C!Step
    <3> QED BY <3>10, Zenon DEF C!Next
  <2> QED BY <2>1, <2>2, <2>3, <2>4, <2>5, <2>6, <2>7, Zenon DEF Next
<1> QED BY <1>4, <1>5, <1>6 DEF TrapNext

LEMMA CpuBegins == TrapInit => C!Init
<1> SUFFICES ASSUME TrapInit PROVE C!Init
  OBVIOUS
<1>1. /\ regs = T!RegsOf(0, 0) /\ rip = T!Val(0, "rip", 0) /\ if_flag = TRUE
      /\ pc = "task" /\ s_current = 0
      /\ stack = [t \in Tasks |-> IF t = 0 THEN <<>> ELSE setup_initial_stack(t)]
      /\ started = [t \in Tasks |-> t = 0]
  BY DEF TrapInit, Init
<1>2. ASSUME NEW t \in Tasks
      PROVE  Virtual(t) = IF t = 0 THEN T!State(T!RegsOf(0, 0), T!Val(0, "rip", 0), TRUE, <<>>)
                                   ELSE T!New
  <2>1. (started[t] <=> t = 0) /\ (t = 0 => stack[t] = <<>>)
    BY <1>1, Zenon
  <2> QED BY <1>1, <2>1, VirtualIs, Zenon
<1> QED BY <1>2, Zenon DEF C!Init, C!State, C!RegsOf, C!Val, C!New,
       T!State, T!RegsOf, T!Val, T!New

(* Preemption gives every task a CPU of its own: whatever the stubs,       *)
(* sched_tick and context_switch push comes back to the register, the task *)
(* and the place it came from, for any number of tasks, whichever          *)
(* registers the compiled sched_tick uses.                                 *)
THEOREM TasksKeepTheirCpus == Spec => ImplementsTaskCpus
<1>1. TrapInit => C!Init
  BY CpuBegins
<1>2. TrapsInv /\ TrapsInv' /\ [TrapNext]_<<vars, tables>>
        => [C!Next]_([t \in Tasks |-> Virtual(t)])
  BY CpuStep
<1> QED BY <1>1, <1>2, TrapInvariant, PTL DEF Spec, ImplementsTaskCpus, C!Spec
==============================================================================

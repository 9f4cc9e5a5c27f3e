----------------------------- MODULE Descriptors -----------------------------
(***************************************************************************)
(* The tables of gdt.cpp and idt.cpp, byte by byte, as gdt_init and        *)
(* idt_init build and load them, and as the CPU reads them.                *)
(*                                                                         *)
(* Numbers of up to 31 bits are integers; an address is the sequence of    *)
(* its eight bytes, lowest first, given by the linker (Addr).              *)
(***************************************************************************)
EXTENDS Integers, SequencesExt

CONSTANTS
  Addr,          (* symbol |-> its address                                 *)
  VECTORS        (* entries of the IDT (256)                               *)

Byte == 0 .. 255
Exceptions == 0 .. 31
Stubs == {<<"isr_stub", v>> : v \in Exceptions} \cup
         {<<"irq_stub_0", 0>>, <<"irq_stub_1", 0>>}

(* What the linker and the size of the table guarantee; the limit of the   *)
(* IDT has 16 bits.                                                        *)
ConstantsOK ==
  /\ VECTORS \in 34 .. 4096
  /\ Stubs \cup {<<"kernel_tss", 0>>, <<"kernel_stack_end", 0>>} \subseteq DOMAIN Addr
  /\ \A s \in DOMAIN Addr :
       /\ Addr[s] \in Seq(Byte) /\ Len(Addr[s]) = 8
       /\ \A r \in DOMAIN Addr : Addr[r] = Addr[s] => r = s

VARIABLES
  boot,          (* the next piece of gdt_init and idt_init                *)
  kernel_tss,
  full_gdt,      (* the bytes of the table                                 *)
  gdtr,          (* its limit, and whether it is full_gdt the CPU uses     *)
  seg,           (* segment register |-> selector and cached descriptor    *)
  tr,            (* selector and cached descriptor                         *)
  idt,           (* vector |-> bytes of the gate                           *)
  idtr

vars == <<boot, kernel_tss, full_gdt, gdtr, seg, tr, idt, idtr>>

-----------------------------------------------------------------------------
(* Encoding.                                                               *)

Low16(n) == <<n % 256, (n \div 256) % 256>>
Zeros(n) == [k \in 1 .. n |-> 0]

set_gdt_entry(base, limit, access, granularity) ==
  Low16(limit) \o Low16(base)
    \o <<(base \div 2^16) % 256, access,
         ((granularity \div 16) * 16) + ((limit \div 2^16) % 16),
         (base \div 2^24) % 256>>

(* Mutant: The upper half of the address is left out. *)
set_tss_descriptor_low(base, limit) ==
  Low16(limit) \o SubSeq(base, 1, 3)
    \o <<128 + 9, (limit \div 2^16) % 16, base[4]>>
    \o Zeros(4) \o Zeros(4)

(* Present, ring 0, an available 64-bit TSS. *)
set_tss_descriptor(base, limit) ==
  Low16(limit) \o SubSeq(base, 1, 3)
    \o <<128 + 9, (limit \div 2^16) % 16, base[4]>>
    \o SubSeq(base, 5, 8) \o Zeros(4)

GDT_KERNEL_CODE == 8
GDT_KERNEL_DATA == 16
GDT_USER_CODE == 24
GDT_USER_DATA == 32
GDT_TSS_SEL == 40

sizeof_TSS == 4 + 3 * 8 + 8 + 7 * 8 + 8 + 2 + 2

(* Present 80, ring 3 60, segment 10, executable 08, read/write 02 in hex; *)
(* long mode 20, pages 80, D/B 40.                                         *)
FullGDT ==
  set_gdt_entry(0, 0, 0, 0)
    \o set_gdt_entry(0, 2^20 - 1, 128 + 16 + 8 + 2, 32 + 128)
    \o set_gdt_entry(0, 2^20 - 1, 128 + 16 + 2, 128 + 64)
    \o set_gdt_entry(0, 2^20 - 1, 128 + 96 + 16 + 8 + 2, 32 + 128)
    \o set_gdt_entry(0, 2^20 - 1, 128 + 96 + 16 + 2, 128 + 64)
    \o set_tss_descriptor(Addr[<<"kernel_tss", 0>>], sizeof_TSS - 1)

(* The bytes of a gate: offset_low, selector, ist, type_attr, offset_mid,  *)
(* offset_high, reserved.                                                  *)
idt_set_gate(handler_addr, flags) ==
  SubSeq(handler_addr, 1, 2) \o Low16(GDT_KERNEL_CODE) \o <<0, flags>>
    \o SubSeq(handler_addr, 3, 8) \o Zeros(4)

(* Mutant: Two entries of the table have changed places. *)
isr_stub_table_swapped ==
  [v \in Exceptions |->
     Addr[<<"isr_stub", CASE v = 13 -> 14 [] v = 14 -> 13 [] OTHER -> v>>]]

isr_stub_table == [v \in Exceptions |-> Addr[<<"isr_stub", v>>]]

-----------------------------------------------------------------------------
(* What the CPU reads.                                                     *)

(* The n bytes at a selector, if the table has that many there. *)
InTable(sel, n) == sel # 0 /\ sel + n - 1 <= gdtr.limit
At(sel, n) == SubSeq(full_gdt, sel + 1, sel + n)

Bit(byte, k) == (byte \div 2^k) % 2 = 1
Present(d) == Bit(d[6], 7)
Dpl(d) == (d[6] \div 32) % 4
IsCode64(d) ==
  /\ Present(d) /\ Bit(d[6], 4) /\ Bit(d[6], 3)
  /\ Bit(d[7], 5) /\ ~Bit(d[7], 6)
IsData(d) == Present(d) /\ Bit(d[6], 4) /\ ~Bit(d[6], 3) /\ Bit(d[6], 1)
TssType(d) == d[6] % 32
TssBase(d) == SubSeq(d, 3, 5) \o SubSeq(d, 8, 12)
TssLimit(d) == d[1] + (256 * d[2]) + (2^16 * (d[7] % 16))

(* Loading a selector faults unless the descriptor is of its kind. *)
CodeLoads(sel) ==
  InTable(sel, 8) /\ LET d == At(sel, 8) IN IsCode64(d) /\ Dpl(d) = 0
DataLoads(sel) ==
  InTable(sel, 8) /\ LET d == At(sel, 8) IN IsData(d) /\ Dpl(d) = 0
TssLoads(sel) ==
  InTable(sel, 16) /\ LET d == At(sel, 8) IN Present(d) /\ TssType(d) = 9

(* The handler an interrupt gate leads to.  Every interrupt stack of the   *)
(* TSS is null, so a gate must not ask for one.                            *)
GateSelector(g) == g[3] + 256 * g[4]
GateOffset(g) == SubSeq(g, 1, 2) \o SubSeq(g, 7, 12)
Deliverable(v) ==
  /\ v < VECTORS
  /\ 16 * v + 15 <= idtr
  /\ Present(idt[v]) /\ idt[v][6] % 32 = 14
  /\ idt[v][5] = 0
  /\ CodeLoads(GateSelector(idt[v]))

(* The stub that runs, or none. *)
Handler(v) ==
  IF Deliverable(v) /\ \E s \in Stubs : Addr[s] = GateOffset(idt[v])
  THEN CHOOSE s \in Stubs : Addr[s] = GateOffset(idt[v])
  ELSE <<"shutdown", 0>>

-----------------------------------------------------------------------------

Data == {"ds", "es", "fs", "gs", "ss"}
Loaded(sel, d) == [sel |-> sel, desc |-> d]

(* The boot loader's table and selectors are still in use; the static      *)
(* variables are zero.                                                     *)
Init ==
  /\ boot = "gdt_build"
  /\ kernel_tss = [rsp0 |-> Zeros(8), iomap_base |-> 0]
  /\ full_gdt = Zeros(5 * 8 + 16)
  /\ gdtr = [limit |-> -1, ours |-> FALSE]
  /\ seg = [r \in Data \cup {"cs"} |-> Loaded(0, Zeros(8))]
  /\ tr = Loaded(0, Zeros(16))
  /\ idt = [v \in 0 .. VECTORS - 1 |-> Zeros(16)]
  /\ idtr = -1

gdt_build ==
  /\ boot = "gdt_build"
  /\ boot' = "lgdt"
  /\ kernel_tss' = [rsp0 |-> Addr[<<"kernel_stack_end", 0>>],
                    iomap_base |-> sizeof_TSS]
  /\ full_gdt' = FullGDT
  /\ UNCHANGED <<gdtr, seg, tr, idt, idtr>>

lgdt ==
  /\ boot = "lgdt"
  /\ boot' = "reload_data"
  /\ gdtr' = [limit |-> Len(full_gdt) - 1, ours |-> TRUE]
  /\ UNCHANGED <<kernel_tss, full_gdt, seg, tr, idt, idtr>>

(* A load that faults ends the boot: there is no handler yet. *)
reload_data ==
  /\ boot = "reload_data"
  /\ boot' = IF DataLoads(GDT_KERNEL_DATA) THEN "reload_cs" ELSE "fault"
  /\ seg' = [r \in DOMAIN seg |->
               IF r \in Data THEN Loaded(GDT_KERNEL_DATA, At(GDT_KERNEL_DATA, 8))
                             ELSE seg[r]]
  /\ UNCHANGED <<kernel_tss, full_gdt, gdtr, tr, idt, idtr>>

(* The far return. *)
reload_cs ==
  /\ boot = "reload_cs"
  /\ boot' = IF CodeLoads(GDT_KERNEL_CODE) THEN "ltr" ELSE "fault"
  /\ seg' = [seg EXCEPT !["cs"] = Loaded(GDT_KERNEL_CODE, At(GDT_KERNEL_CODE, 8))]
  /\ UNCHANGED <<kernel_tss, full_gdt, gdtr, tr, idt, idtr>>

(* The CPU marks the descriptor it loads busy. *)
ltr ==
  /\ boot = "ltr"
  /\ boot' = IF TssLoads(GDT_TSS_SEL) THEN "idt_fill" ELSE "fault"
  /\ tr' = Loaded(GDT_TSS_SEL, At(GDT_TSS_SEL, 16))
  /\ full_gdt' = [full_gdt EXCEPT ![GDT_TSS_SEL + 6] = @ + 2]
  /\ UNCHANGED <<kernel_tss, gdtr, seg, idt, idtr>>

(* All gates are cleared, then the exceptions' and two lines' are set:     *)
(* present, ring 0, interrupt gate.                                        *)
idt_fill ==
  /\ boot = "idt_fill"
  /\ boot' = "lidt"
  /\ LET flags == 128 + 14
     IN  idt' = [v \in DOMAIN idt |->
           CASE v \in Exceptions -> idt_set_gate(isr_stub_table[v], flags)
             [] v = 32 -> idt_set_gate(Addr[<<"irq_stub_0", 0>>], flags)
             [] v = 33 -> idt_set_gate(Addr[<<"irq_stub_1", 0>>], flags)
             [] OTHER -> Zeros(16)]
  /\ UNCHANGED <<kernel_tss, full_gdt, gdtr, seg, tr, idtr>>

lidt ==
  /\ boot = "lidt"
  /\ boot' = "done"
  /\ idtr' = 16 * VECTORS - 1
  /\ UNCHANGED <<kernel_tss, full_gdt, gdtr, seg, tr, idt>>

Next ==
  gdt_build \/ lgdt \/ reload_data \/ reload_cs \/ ltr \/ idt_fill \/ lidt

-----------------------------------------------------------------------------

(* Every variable keeps its type; the tables are made of bytes. *)
TypeOK ==
  /\ boot \in {"gdt_build", "lgdt", "reload_data", "reload_cs", "ltr",
               "idt_fill", "lidt", "done", "fault"}
  /\ Len(full_gdt) = 56 /\ ToSet(full_gdt) \subseteq Byte
  /\ kernel_tss \in [rsp0 : {Zeros(8), Addr[<<"kernel_stack_end", 0>>]},
                     iomap_base : Nat]
  /\ gdtr \in [limit : -1 .. 2^16 - 1, ours : BOOLEAN]
  /\ DOMAIN idt = 0 .. VECTORS - 1
  /\ \A v \in DOMAIN idt : Len(idt[v]) = 16 /\ ToSet(idt[v]) \subseteq Byte
  /\ idtr \in -1 .. 2^16 - 1

(* No load of gdt_init faults, and once it is over every register holds    *)
(* what its selector now picks in the kernel's own table: ring-0 code and  *)
(* data, ring-3 code and data behind the user selectors, and a TSS that is *)
(* kernel_tss, of the structure's length, without an I/O bitmap inside it. *)
SegmentsValid ==
  /\ boot # "fault"
  /\ boot \in {"idt_fill", "lidt", "done"} =>
       /\ gdtr.ours
       /\ \A r \in Data \cup {"cs"} : seg[r].desc = At(seg[r].sel, 8)
       /\ CodeLoads(seg["cs"].sel) /\ \A r \in Data : DataLoads(seg[r].sel)
       /\ IsCode64(At(GDT_USER_CODE, 8)) /\ Dpl(At(GDT_USER_CODE, 8)) = 3
       /\ IsData(At(GDT_USER_DATA, 8)) /\ Dpl(At(GDT_USER_DATA, 8)) = 3
       /\ TssBase(tr.desc) = Addr[<<"kernel_tss", 0>>]
       /\ TssLimit(tr.desc) = sizeof_TSS - 1
       /\ kernel_tss.iomap_base > TssLimit(tr.desc)
==============================================================================

----------------------------------- MODULE Gdt ----------------------------------
(***************************************************************************)
(* The global descriptor table: how the constructor of a descriptor        *)
(* spreads a base and a limit over its eight bytes, how Base and Limit put *)
(* them together again, and the table kernelMain makes of them.            *)
(***************************************************************************)
EXTENDS Integers

\* The values of a uint32_t.
IsWord(n) == n \in Nat /\ n <= 4294967295

\* limit & 0xFF, (limit >> 8) & 0xFF, ...
Byte0(n) == n % 256
Byte1(n) == (n \div 256) % 256
Byte2(n) == (n \div 65536) % 256
Byte3(n) == (n \div 16777216) % 256

\* The number that is put into the limit's field of twenty bits: a large limit
\* is counted in pages, and one less unless it ends with a page.
Field(limit) ==
  IF limit <= 65536 THEN limit
  ELSE IF limit % 4096 # 4095 THEN limit \div 4096 - 1
  ELSE limit \div 4096

\* 0x40, and 0xC0 with the bit for a limit in pages.
Flags(limit) == IF limit <= 65536 THEN 64 ELSE 192

\* SegmentDescriptor(base, limit, type), as the eight bytes it writes.
SegmentDescriptor(base, limit, type) ==
  [t0 |-> Byte0(Field(limit)), t1 |-> Byte1(Field(limit)),
   t2 |-> Byte0(base), t3 |-> Byte1(base), t4 |-> Byte2(base),
   t5 |-> type,
   t6 |-> Flags(limit) + (Byte2(Field(limit)) % 16),
   t7 |-> Byte3(base)]

Base(target) ==
  ((target.t7 * 256 + target.t4) * 256 + target.t3) * 256 + target.t2

Limit(target) ==
  LET result == ((target.t6 % 16) * 256 + target.t1) * 256 + target.t0 IN
  IF target.t6 >= 192 THEN result * 4096 + 4095 ELSE result

\* GlobalDescriptorTable(): the five descriptors, null, code, data and the two
\* of user mode.
GlobalDescriptorTable ==
  <<SegmentDescriptor(0, 0, 0),
    SegmentDescriptor(0, 4294967295, 154), SegmentDescriptor(0, 4294967295, 146),
    SegmentDescriptor(0, 4294967295, 250), SegmentDescriptor(0, 4294967295, 242)>>

\* The offset of a descriptor, of eight bytes, in the table.
CodeSegmentDescriptor == 8
DataSegmentDescriptor == 16

================================================================================

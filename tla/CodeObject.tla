----------------------------- MODULE CodeObject -----------------------------
(***************************************************************************)
(* What the loader reads of an AMDHSA code object: its load segments and   *)
(* its dynamic table (light-rocr/loader).                                  *)
(*                                                                         *)
(* A uint64 is a number up to WordMax and takes two cells of the file or   *)
(* of memory, a cell being a digit of base Base.  A code object f has      *)
(* f.size cells.  The tables in it (program headers, dynamic entries,      *)
(* symbols, relocations, kernel metadata) are records, what their place in *)
(* the file would hold; where they lie, and whether that is inside the     *)
(* file, is a matter of offsets and sizes.                                 *)
(***************************************************************************)
EXTENDS Integers, Sequences, FiniteSets, FiniteSetsExt, Functions

CONSTANTS
  Base,              \* values of a cell
  Cells,             \* what a code object holds at each offset
  PageSize,          \* kExecutableImagePageSize
  DescriptorSize,    \* a kernel descriptor, which is also its alignment
  HeaderSize, ProgramHeaderSize, DynamicSize, SymbolSize,
  RelSize, RelaSize  \* entries of the tables, in cells

ASSUME CellAssumption ==
  /\ Base \in Nat \ {0, 1}
  /\ PageSize \in Nat \ {0} /\ RelSize \in Nat \ {0} /\ RelaSize \in Nat \ {0}
  /\ DescriptorSize \in Nat /\ HeaderSize \in Nat /\ ProgramHeaderSize \in Nat
  /\ DynamicSize \in Nat \ {0} /\ SymbolSize \in Nat

\* Entries of the tables, and code objects
ProgramHeaders ==
  [type : STRING, flags : SUBSET STRING, file_offset : Nat, virtual_address : Nat,
   file_size : Nat, memory_size : Nat, alignment : Nat]
RelocationEntries == [target : Nat, type : STRING, symbol : Nat, addend : Int]
DynamicEntries == [tag : STRING, value : Nat]
SymbolEntries ==
  [name : STRING, name_offset : Nat, value : Nat, section : STRING, object : BOOLEAN, size : Nat]
KernelArguments == [kind : STRING, dim : 1 .. 3, offset : Nat, size : Nat]
KernelEntries ==
  [symbol : STRING, kernarg_size : Nat, args : Seq(KernelArguments), entry : Int, descriptor : BOOLEAN]
CodeObjects ==
  [size : Nat, ident : BOOLEAN, header_offset : Nat, headers : Seq(ProgramHeaders),
   dynamic : Seq(DynamicEntries), hash : [buckets : Nat, symbols : Nat], symbols : Seq(SymbolEntries),
   rel : Seq(RelocationEntries), rela : Seq(RelocationEntries),
   notes : Seq([amdgpu : BOOLEAN, size : Nat]), document : BOOLEAN,
   kernels : Seq(KernelEntries)]

WordSize == 2
WordMax == Base * Base - 1
HashHeaderSize == 2
HashWordSize == 1

\* checked_add succeeds
Adds(a, b) == b <= WordMax - a

range_is_in_file(offset, length, size) == offset <= size /\ length <= size - offset

is_power_of_two(v) == \E k \in 0 .. 16 : v = 2 ^ k

\* What std::sort by a field may make of the elements of s at the indices I
Sortings(s, I, key) ==
  LET n == Cardinality(I)
  IN  {o \in {[k \in 1 .. n |-> s[p[k]]] : p \in Injection(1 .. n, I)} :
         \A k \in 2 .. n : o[k - 1][key] <= o[k][key]}

\* Indices of the elements whose field is not zero
Sized(s, field) == {i \in DOMAIN s : s[i][field] # 0}

\* The lowest and the highest of some indices, or 0
Lowest(I) == IF I = {} THEN 0 ELSE Min(I)
Highest(I) == IF I = {} THEN 0 ELSE Max(I)

-----------------------------------------------------------------------------
(* Load segments *)

\* The program headers of a type, at their places in the table
Kind(f, type) == Restrict(f.headers, {i \in DOMAIN f.headers : f.headers[i].type = type})
load_segments(f) == Kind(f, "load")

validate_load_segment(s, size) ==
  /\ s.flags \subseteq {"r", "w", "x"}
  /\ s.file_size <= s.memory_size
  /\ range_is_in_file(s.file_offset, s.file_size, size)
  /\ Adds(s.virtual_address, s.memory_size)
  /\ s.alignment > 1 => /\ is_power_of_two(s.alignment)
                        /\ s.file_offset % s.alignment = s.virtual_address % s.alignment

\* Empty ranges overlap nothing.  The code compares the others with their
\* predecessor in the order of their offsets, and finds an overlap there
\* exactly when some two overlap.  offset and size are fields.
find_overlapping_segment(segments, offset, size) ==
  \E i, j \in Sized(segments, size) :
    LET a == segments[i] b == segments[j]
    IN  i # j /\ a[offset] <= b[offset] /\ b[offset] < a[offset] + a[size]

\* parse_code_object up to the metadata.  f.ident: identification, machine,
\* target and header sizes are the supported ones.
parse_segments(f) ==
  LET s == load_segments(f)
  IN  /\ f.size >= HeaderSize /\ f.ident
      /\ f.headers # <<>>
      /\ range_is_in_file(f.header_offset, Len(f.headers) * ProgramHeaderSize, f.size)
      /\ \A i \in DOMAIN s : validate_load_segment(s[i], f.size)
      /\ DOMAIN s # {}
      /\ ~find_overlapping_segment(s, "file_offset", "file_size")
      /\ ~find_overlapping_segment(s, "virtual_address", "memory_size")

-----------------------------------------------------------------------------
(* Addresses *)

Outside == -1

(* Mutation: the end of the range is not compared. *)
BackedAtStart(segments, address, length) ==
  LET i == Lowest({j \in DOMAIN segments :
                    /\ address >= segments[j].virtual_address
                    /\ address - segments[j].virtual_address <= segments[j].file_size})
  IN  IF i = 0 THEN Outside
      ELSE segments[i].file_offset + (address - segments[i].virtual_address)

\* The file offset of the first segment whose file part holds the range
virtual_address_to_file(segments, address, length) ==
  LET i == Lowest({j \in DOMAIN segments :
                    /\ address >= segments[j].virtual_address
                    /\ range_is_in_file(address - segments[j].virtual_address, length, segments[j].file_size)})
  IN  IF i = 0 THEN Outside
      ELSE segments[i].file_offset + (address - segments[i].virtual_address)

virtual_address_in_memory(segments, address, length) ==
  \E i \in DOMAIN segments :
    /\ address >= segments[i].virtual_address
    /\ range_is_in_file(address - segments[i].virtual_address, length, segments[i].memory_size)

-----------------------------------------------------------------------------
(* The dynamic table, read once for the metadata and once for relocations *)

HasDynamic(f) == DOMAIN Kind(f, "dynamic") # {}

\* Every PT_DYNAMIC seen must be the only one, and hold whole entries.
dynamic_segment_valid(f) ==
  LET d == Kind(f, "dynamic")
  IN  /\ Cardinality(DOMAIN d) <= 1
      /\ \A i \in DOMAIN d : /\ range_is_in_file(d[i].file_offset, d[i].file_size, f.size)
                             /\ d[i].file_size # 0 /\ d[i].file_size % DynamicSize = 0

DynamicCount(f) ==
  LET d == Kind(f, "dynamic") IN IF HasDynamic(f) THEN d[Min(DOMAIN d)].file_size \div DynamicSize ELSE 0

\* The index of DT_NULL in the table, or 0
Terminator(f) == Lowest({i \in 1 .. DynamicCount(f) : f.dynamic[i].tag = "NULL"})

Tagged(f, tag) ==
  LET end == Terminator(f) IN {i \in DOMAIN f.dynamic : i < end /\ f.dynamic[i].tag = tag}

\* set_dynamic_value refuses a tag that is set already.
dynamic_table_valid(f, tags) ==
  /\ Terminator(f) # 0
  /\ \A tag \in tags : Cardinality(Tagged(f, tag)) <= 1

Present(f, tag) == Tagged(f, tag) # {}
Value(f, tag) == IF Present(f, tag) THEN f.dynamic[CHOOSE i \in Tagged(f, tag) : TRUE].value ELSE 0
-----------------------------------------------------------------------------
(***************************************************************************)
(* The load plan of a code object (light-rocr/loader/load_plan_reader.cpp):*)
(* copies, zero fills and protections from the segments, relocations from  *)
(* the DT_REL and DT_RELA tables.                                          *)
(***************************************************************************)

RelocationTags == {"HASH", "SYMTAB", "SYMENT", "REL", "RELSZ", "RELENT", "RELCOUNT",
                   "RELA", "RELASZ", "RELAENT", "RELACOUNT"}
RefusedTags == {"JMPREL", "RELR"}

Tags(encoding) == IF encoding = "rel"
                  THEN [address |-> "REL", size |-> "RELSZ", entry |-> "RELENT", count |-> "RELCOUNT"]
                  ELSE [address |-> "RELA", size |-> "RELASZ", entry |-> "RELAENT", count |-> "RELACOUNT"]
EntrySize(encoding) == IF encoding = "rel" THEN RelSize ELSE RelaSize
Encodings == {"rel", "rela"}

\* No PT_DYNAMIC is a code object without relocations.
read_dynamic_relocation_info(f) ==
  /\ dynamic_segment_valid(f)
  /\ HasDynamic(f) =>
       /\ dynamic_table_valid(f, RelocationTags)
       /\ \A tag \in RefusedTags : ~Present(f, tag)

table_is_present(f, e) ==
  \E tag \in {Tags(e).address, Tags(e).size, Tags(e).entry} : Present(f, tag)

validate_relocation_table_info(f, e) ==
  LET t == Tags(e)
  IN  IF table_is_present(f, e)
      THEN /\ \A tag \in {t.address, t.size, t.entry} : Present(f, tag)
           /\ Value(f, t.entry) = EntrySize(e)
           /\ Value(f, t.size) % EntrySize(e) = 0
           /\ Value(f, t.count) <= Value(f, t.size) \div EntrySize(e)
      ELSE Value(f, t.count) = 0

HasEntries(f, e) == table_is_present(f, e) /\ Value(f, Tags(e).size) # 0

validate_disjoint_relocation_tables(f) ==
  (\A e \in Encodings : HasEntries(f, e)) =>
    LET a == Value(f, "REL")
        b == Value(f, "RELA")
        n == Value(f, "RELSZ")
        m == Value(f, "RELASZ")
    IN  Adds(a, n) /\ Adds(b, m) /\ ~(a < b + m /\ b < a + n)

-----------------------------------------------------------------------------
(* Symbols *)

HashOffset(f, length) == virtual_address_to_file(load_segments(f), Value(f, "HASH"), length)
HashSize(f) == HashHeaderSize + (f.hash.buckets + f.hash.symbols) * HashWordSize
SymbolsOffset(f) ==
  virtual_address_to_file(load_segments(f), Value(f, "SYMTAB"), f.hash.symbols * SymbolSize)

read_symbol_count(f) ==
  /\ Present(f, "HASH")
  /\ HashOffset(f, HashHeaderSize) # Outside
  /\ f.hash.buckets # 0
  /\ HashOffset(f, HashSize(f)) # Outside

read_dynamic_symbols(f) ==
  /\ Present(f, "SYMTAB") /\ Present(f, "SYMENT") /\ Value(f, "SYMENT") = SymbolSize
  /\ SymbolsOffset(f) # Outside

\* The dynamic symbol of an index, counted from zero
Symbol(f, i) == f.symbols[i + 1]

-----------------------------------------------------------------------------
(* Relocations *)

\* Of the known types ABS64, REL64 and RELATIVE64 are a word wide, ABS32
\* half a word.
relocation_width(type) == CASE type \in {"ABS64", "REL64", "RELATIVE64"} -> WordSize
                            [] type = "ABS32" -> 1
                            [] OTHER -> 0
relocation_uses_symbol(type) == type \notin {"NONE", "RELATIVE64"}

EntryCount(f, e) == IF HasEntries(f, e) THEN Value(f, Tags(e).size) \div EntrySize(e) ELSE 0

TableOffset(f, e) ==
  virtual_address_to_file(load_segments(f), Value(f, Tags(e).address), Value(f, Tags(e).size))

\* One round of the loop of read_relocation_table
valid_entry(f, e, i) ==
  LET r == f[e][i]
      s == Symbol(f, r.symbol)
  IN  /\ r.type # "unknown"
      /\ r.symbol < f.hash.symbols
      /\ i <= Value(f, Tags(e).count) => r.type = "RELATIVE64" /\ r.symbol = 0
      /\ relocation_uses_symbol(r.type) =>
           /\ s.section # "undefined"
           /\ s.section = "absolute" \/ virtual_address_in_memory(load_segments(f), s.value, 1)
      /\ relocation_width(r.type) # 0 =>
           virtual_address_in_memory(load_segments(f), r.target, relocation_width(r.type))

read_relocation_table(f, e) ==
  HasEntries(f, e) => /\ TableOffset(f, e) # Outside
                      /\ \A i \in 1 .. EntryCount(f, e) : valid_entry(f, e, i)

\* The Relocation an entry becomes
Relocation(f, e, i) ==
  LET r == f[e][i]
      s == Symbol(f, r.symbol)
      uses == relocation_uses_symbol(r.type)
  IN  [encoding |-> e, target |-> r.target, type |-> r.type, symbol |-> r.symbol,
       addend |-> IF e = "rela" THEN r.addend ELSE 0,
       symbol_value |-> IF uses THEN s.value ELSE 0,
       absolute |-> uses /\ s.section = "absolute"]

Relocations(f, e) == [i \in 1 .. EntryCount(f, e) |-> Relocation(f, e, i)]

\* Entries of one target keep any order here: two that write are refused
\* later, and NONE writes nothing.
append_relocations(f) ==
  LET r == Relocations(f, "rel") \o Relocations(f, "rela")
  IN  Sortings(r, DOMAIN r, "target")

-----------------------------------------------------------------------------
ZeroFill(s) == [virtual_address |-> s.virtual_address + s.file_size,
                size |-> s.memory_size - s.file_size]

image_base(s) ==
  LET I == Sized(s, "memory_size") IN IF I = {} THEN 0 ELSE Min({s[i].virtual_address : i \in I})

image_size(s) ==
  LET I == Sized(s, "memory_size")
  IN  IF I = {} THEN 0 ELSE Max({s[i].virtual_address + s[i].memory_size : i \in I}) - image_base(s)

\* build_load_plan before append_relocations.  A copy is the file part of
\* its segment, a protection its memory.
build_load_plan(f) ==
  LET s == load_segments(f)
      I == Sized(s, "memory_size")
      z == [i \in DOMAIN s |-> ZeroFill(s[i])]
  IN  [base : {image_base(s)}, size : {image_size(s)},
       alignment : {Max({1} \cup {s[i].alignment : i \in I})},
       copies : Sortings(s, I \cap Sized(s, "file_size"), "virtual_address"),
       zero_fills : Sortings(z, Sized(z, "size"), "virtual_address"),
       protections : Sortings(s, I, "virtual_address"),
       relocations : {<<>>}]
=============================================================================

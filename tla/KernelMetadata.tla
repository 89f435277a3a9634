--------------------------- MODULE KernelMetadata ---------------------------
(***************************************************************************)
(* Kernels of a code object: the AMDHSA metadata note, the descriptor each *)
(* kernel symbol names, and the layout of the kernel's arguments           *)
(* (light-rocr/loader/metadata_reader.cpp).                                *)
(***************************************************************************)
EXTENDS CodeObject

MetadataTags == {"HASH", "STRTAB", "STRSZ", "SYMTAB", "SYMENT"}

\* The notes fill their PT_NOTE segment, and at most one is AMDGPU metadata.
find_metadata_note(f) ==
  /\ \A i \in DOMAIN Kind(f, "note") :
       LET h == Kind(f, "note")[i]
       IN  /\ range_is_in_file(h.file_offset, h.file_size, f.size)
           /\ SumFunction([j \in DOMAIN f.notes |-> f.notes[j].size]) = h.file_size
  /\ Cardinality({i \in DOMAIN f.notes : f.notes[i].amdgpu}) <= 1

-----------------------------------------------------------------------------
(* Arguments *)

Hidden(a) == a.kind # "value"

\* A kernarg segment is counted in uint16.  Zero: any size will do.
required_hidden_argument_size(kind) ==
  CASE kind \in {"block_count", "dynamic_lds_size", "private_base"} -> 2
    [] kind \in {"group_size", "remainder", "grid_dims"} -> 1
    [] kind = "pointer" -> 4
    [] OTHER -> 0

first_hidden_offset(k) == Min({k.kernarg_size} \cup {a.offset : a \in {x \in Range(k.args) : Hidden(x)}})

SortedArguments(k) == Sortings(k.args, DOMAIN k.args, "offset")

\* Arguments lie inside the segment, do not overlap, and the hidden ones
\* follow the explicit ones.
decode_kernel_arguments(k) ==
  /\ \A i \in DOMAIN k.args :
       LET a == k.args[i]
       IN  /\ a.size # 0 /\ range_is_in_file(a.offset, a.size, k.kernarg_size)
           /\ required_hidden_argument_size(a.kind) \in {0, a.size}
           /\ Hidden(a) \/ a.offset + a.size <= first_hidden_offset(k)
  /\ \A s \in SortedArguments(k), i \in 2 .. Len(k.args) :
       s[i].offset >= s[i - 1].offset + s[i - 1].size

\* f.document: the MessagePack decodes, version and target are the supported
\* ones, and the fields of every kernel are there.
decode_metadata_document(f) ==
  /\ f.document /\ f.kernels # <<>>
  /\ \A i \in DOMAIN f.kernels : decode_kernel_arguments(f.kernels[i])
  /\ \A i, j \in DOMAIN f.kernels : i # j => f.kernels[i].symbol # f.kernels[j].symbol

-----------------------------------------------------------------------------
(* Symbols and descriptors *)

StringsOffset(f) ==
  virtual_address_to_file(load_segments(f), Value(f, "STRTAB"), Value(f, "STRSZ"))

read_kernel_symbols(f) ==
  /\ dynamic_segment_valid(f) /\ HasDynamic(f)
  /\ dynamic_table_valid(f, MetadataTags)
  /\ \A tag \in MetadataTags : Present(f, tag)
  /\ read_symbol_count(f) /\ read_dynamic_symbols(f)
  /\ Value(f, "STRSZ") # 0 /\ StringsOffset(f) # Outside
  /\ \A i \in 1 .. f.hash.symbols : f.symbols[i].name_offset < Value(f, "STRSZ")

Named(f, name) == {i \in 1 .. f.hash.symbols : f.symbols[i].name = name}

find_kernel_symbol(f, k) ==
  \E i \in Named(f, k.symbol) :
    /\ Named(f, k.symbol) = {i}
    /\ f.symbols[i].object /\ f.symbols[i].section = "section" /\ f.symbols[i].size = DescriptorSize

KernelSymbol(f, k) == f.symbols[CHOOSE i \in Named(f, k.symbol) : TRUE]

address_has_executable_bytes(f, address) ==
  \E i \in DOMAIN load_segments(f) :
    LET s == load_segments(f)[i]
    IN  /\ "x" \in s.flags /\ address >= s.virtual_address
        /\ address - s.virtual_address < s.file_size

DescriptorOffset(f, k) ==
  virtual_address_to_file(load_segments(f), KernelSymbol(f, k).value, DescriptorSize)

\* k.descriptor: the reserved bytes are zero and sizes and properties agree
\* with the metadata.  k.entry is the signed offset in the descriptor.
decode_kernel_descriptor(f, k) ==
  LET d == KernelSymbol(f, k).value
  IN  /\ DescriptorOffset(f, k) # Outside
      /\ d % DescriptorSize = 0 /\ k.descriptor
      /\ d + k.entry \in 0 .. WordMax
      /\ address_has_executable_bytes(f, d + k.entry)

\* The KernelInfo of a decoded kernel
Kernel(f, k, arguments) ==
  LET d == KernelSymbol(f, k).value
  IN  [descriptor |-> d, entry_offset |-> k.entry, entry |-> d + k.entry,
       kernarg_size |-> k.kernarg_size,
       arguments |-> arguments, explicit |-> first_hidden_offset(k)]

Kernels(f) ==
  LET K(k) == {Kernel(f, k, s) : s \in SortedArguments(k)}
  IN  {d \in [DOMAIN f.kernels -> UNION {K(k) : k \in Range(f.kernels)}] :
         \A i \in DOMAIN f.kernels : d[i] \in K(f.kernels[i])}

-----------------------------------------------------------------------------
(* Hidden arguments of a launch: populate_light_rocr_hidden_kernargs *)

dispatch_dimensions(c) == IF c.grid[3] > 1 \/ c.block[3] > 1 THEN 3
                          ELSE IF c.grid[2] > 1 \/ c.block[2] > 1 THEN 2 ELSE 1

\* A block dimension is a uint16, here one cell.
valid_config(c) ==
  \A d \in 1 .. 3 : c.grid[d] # 0 /\ c.block[d] \in 1 .. Base - 1 /\ c.grid[d] >= c.block[d]

Written(kind) == kind \in {"block_count", "dynamic_lds_size", "group_size", "remainder", "grid_dims"}

HiddenValue(a, c) ==
  CASE a.kind = "block_count" -> c.grid[a.dim] \div c.block[a.dim]
    [] a.kind = "group_size" -> c.block[a.dim]
    [] a.kind = "remainder" -> c.grid[a.dim] % c.block[a.dim]
    [] a.kind = "grid_dims" -> dispatch_dimensions(c)
    [] a.kind = "dynamic_lds_size" -> c.lds

(* Mutation: the first argument after the explicit ones is skipped. *)
FirstHiddenAfter(k) == Lowest({i \in DOMAIN k.arguments : k.arguments[i].offset > k.explicit})

\* lower_bound over the sorted arguments; 0 when there is none
first_hidden(k) == Lowest({i \in DOMAIN k.arguments : k.arguments[i].offset >= k.explicit})

\* Cells of a value
Digit(v, i) == (v \div Base ^ i) % Base

argument_fits(k, a) == /\ a.size = required_hidden_argument_size(a.kind)
                       /\ range_is_in_file(a.offset, a.size, k.kernarg_size)

write_argument(buffer, a, v) ==
  [x \in DOMAIN buffer |-> IF x \in a.offset .. a.offset + a.size - 1
                           THEN Digit(v, x - a.offset) ELSE buffer[x]]

\* The caller's bytes, and zeros behind them
materialize_kernarg_buffer(k, args) ==
  [x \in 0 .. k.kernarg_size - 1 |-> IF x < Len(args) THEN args[x + 1] ELSE 0]
=============================================================================

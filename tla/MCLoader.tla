------------------------------ MODULE MCLoader ------------------------------
(***************************************************************************)
(* Code objects for the loader: one that loads, and variations of it       *)
(* around the boundaries of its segments, its dynamic table, its           *)
(* relocations and its kernels.                                            *)
(***************************************************************************)
EXTENDS Loader, SequencesExt

Header(type, flags, offset, address, file, memory, alignment) ==
  [type |-> type, flags |-> flags, file_offset |-> offset, virtual_address |-> address,
   file_size |-> file, memory_size |-> memory, alignment |-> alignment]

Text == Header("load", {"r", "x"}, 0, 8, 16, 16, 4)
Data == Header("load", {"r", "w"}, 16, 28, 6, 10, 4)
Notes == Header("note", {"r"}, 36, 0, 2, 0, 1)
Dynamic(n) == Header("dynamic", {"r"}, 22, 0, n, 0, 1)

D(tag, value) == [tag |-> tag, value |-> value]
Tables == <<D("HASH", 13), D("SYMTAB", 19), D("SYMENT", 1), D("STRTAB", 22), D("STRSZ", 1)>>
RelTable(n) == <<D("REL", 30), D("RELSZ", n), D("RELENT", 1)>>
RelaTable(n) == <<D("RELA", 31), D("RELASZ", n), D("RELAENT", 1)>>
End == <<D("NULL", 0)>>

S(name, value, section, object_, size) ==
  [name |-> name, name_offset |-> 0, value |-> value, section |-> section,
   object |-> object_, size |-> size]
KernelEntry == S("k.kd", 28, "section", TRUE, 2)
Symbols(x) == <<S("", 0, "undefined", FALSE, 0), KernelEntry, x>>
Variable == S("x", 36, "section", TRUE, 2)

A(kind, dim, offset, size) == [kind |-> kind, dim |-> dim, offset |-> offset, size |-> size]
K(args) == [symbol |-> "k.kd", kernarg_size |-> 6, args |-> args, entry |-> -5, descriptor |-> TRUE]

Whole ==
  [size |-> 38, ident |-> TRUE,
   header_offset |-> 1,
   headers |-> <<Text, Data, Dynamic(6), Notes>>,
   dynamic |-> Tables \o End,
   hash |-> [buckets |-> 1, symbols |-> 3], symbols |-> Symbols(Variable),
   rel |-> <<>>, rela |-> <<>>,
   notes |-> <<[amdgpu |-> TRUE, size |-> 2]>>, document |-> TRUE,
   kernels |-> <<K(<<A("value", 1, 0, 2)>>)>>]

-----------------------------------------------------------------------------
\* Two segments side by side, in either order, with no kernels
Segments ==
  {[Whole EXCEPT !.headers = h, !.dynamic = <<>>, !.notes = <<>>] :
     h \in UNION {{<<a, b>>, <<b, a>>} :
             a \in {Header("load", {"r"}, 4, 8, 4, m, 4) : m \in {4, 6}},
             b \in {Header("load", {"r", "x"}, o, v, n, m, l) :
                      o \in {0, 6, 8, 36}, v \in {4, 12, 14, 62}, n \in {0, 2},
                      m \in {0, 2, 3}, l \in {0, 3, 4, 8}}}}

\* Images as large as the address space, and the empty one
Extremes ==
  {[Whole EXCEPT !.headers = <<Header("load", f, 0, v, n, m, 1)>>, !.dynamic = <<>>, !.notes = <<>>,
                 !.header_offset = o] :
     f \in {{"r"}, {"r", "s"}}, v \in {0, 1, 3}, n \in {0, 2}, m \in {0, 59, 60, 61, 62, 63}, o \in {1, 37, 38}}

\* One entry of the dynamic table changed, dropped or repeated
Tampered(t) ==
  {[t EXCEPT ![i].value = v] : i \in DOMAIN t, v \in {0, 1, 2, 7, 12, 14, 23, 32, 33, 34, 63}}
    \cup {RemoveAt(t, i) : i \in DOMAIN t}
    \cup {<<t[i]>> \o t : i \in DOMAIN t}
    \cup {<<D("RELCOUNT", v)>> \o t : v \in {1, 2}}
    \cup {<<D("JMPREL", 0)>> \o t}

R(target, type, symbol, addend) == [target |-> target, type |-> type, symbol |-> symbol, addend |-> addend]

DynamicTables ==
  {[Whole EXCEPT !.headers = <<Text, Data, Dynamic(Len(t) + d), Notes>>,
                 !.dynamic = t, !.hash.symbols = 3,
                 !.rel = [i \in 1 .. Whole.size |-> R(32, "RELATIVE64", 0, 0)],
                 !.rela = [i \in 1 .. Whole.size |-> R(34, "ABS64", 2, 5)]] :
     t \in Tampered(Tables \o RelTable(1) \o RelaTable(1) \o End), d \in {-1, 0}}

Hashes ==
  {[Whole EXCEPT !.hash = [buckets |-> b, symbols |-> n],
                 !.symbols = [i \in 1 .. 10 |-> IF i <= 3 THEN Whole.symbols[i] ELSE Variable]] :
     b \in {0, 1, 8, 9}, n \in {1, 3, 4, 5, 6}}

\* Relocations of both tables, whose targets meet, cross segments or leave them
Relocated ==
  {[Whole EXCEPT !.headers = <<Data, Text, Dynamic(12), Notes>>,
                 !.dynamic = Tables \o RelTable(1) \o RelaTable(2) \o End,
                 !.symbols = Symbols(x), !.rel = <<a>>, !.rela = <<b, c>>] :
     x \in {Variable, S("x", 60, "absolute", FALSE, 0), S("x", 30, "undefined", FALSE, 0)},
     a \in {R(t, y, 0, 0) : t \in {32, 33}, y \in {"NONE", "RELATIVE64"}} \cup {R(23, "RELATIVE64", 0, 0)},
     b \in {R(t, y, s, 5) : t \in {27, 34, 36, 37}, y \in {"ABS64", "REL64", "RELATIVE64"}, s \in {0, 2}},
     c \in {R(t, "ABS64", s, -3) : t \in {8, 34}, s \in {2, 3}} \cup {R(20, "unknown", 0, 0)}}

\* Kernel symbols, descriptors and entries
KernelSymbols ==
  {[Whole EXCEPT !.symbols[2] = S("k.kd", v, c, o, n), !.kernels[1].entry = e] :
     v \in {8, 28, 31, 32, 34}, c \in {"section", "absolute"}, o \in BOOLEAN, n \in {1, 2},
     e \in {-29, -20, -5, -4, 0}}
    \cup {[Whole EXCEPT !.symbols[3] = KernelEntry], [Whole EXCEPT !.kernels[1].descriptor = FALSE],
          [Whole EXCEPT !.document = FALSE]}
    \cup {[Whole EXCEPT !.headers[1].virtual_address = 9, !.headers[1].file_offset = 1,
                        !.headers[1].file_size = 15]}
    \cup {[Whole EXCEPT !.headers[1] = Header("load", {"r", "x"}, 1, 9, 15, 15, 1),
                        !.headers[2] = Header("load", {"r", "w"}, 16, 28, 6, 10, 1)]}
    \cup {[Whole EXCEPT !.notes = n] : n \in {<<>>, <<[amdgpu |-> FALSE, size |-> 2]>>,
                                              <<[amdgpu |-> TRUE, size |-> 1], [amdgpu |-> TRUE, size |-> 1]>>}}

\* Argument layouts, in every order
Arguments == {A("value", 1, 0, 2), A("value", 1, 3, 1), A("block_count", 1, 2, 2), A("block_count", 2, 3, 2),
              A("group_size", 1, 2, 1), A("remainder", 1, 4, 1), A("grid_dims", 1, 5, 1),
              A("pointer", 1, 2, 4), A("dynamic_lds_size", 1, 4, 1), A("none", 1, 4, 1), A("value", 1, 5, 0)}
Layouts ==
  {[Whole EXCEPT !.kernels = <<K(a)>>] : a \in UNION {[1 .. n -> Arguments] : n \in 0 .. 3}}
    \cup {[Whole EXCEPT !.kernels = <<K(<<>>), K(<<>>)>>], [Whole EXCEPT !.kernels = <<>>]}

MCObjects == UNION {Segments, Extremes, DynamicTables, Hashes, Relocated, KernelSymbols, Layouts}

MCCells == [i \in 0 .. 37 |-> (3 * i + 1) % Base]

MCPlaces == {4, 8, 28, 32}

Config(grid, block, lds) == [grid |-> grid, block |-> block, lds |-> lds]
MCLaunches ==
  {[args |-> a, config |-> c] :
     a \in {<<>>, <<5, 6>>, <<5, 6, 7>>},
     c \in {Config(<<47, 1, 1>>, <<5, 1, 1>>, 0), Config(<<6, 9, 1>>, <<3, 4, 1>>, 11),
            Config(<<2, 1, 1>>, <<3, 1, 1>>, 0)}}
=============================================================================

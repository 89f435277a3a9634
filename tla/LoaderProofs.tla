---------------------------- MODULE LoaderProofs ----------------------------
(***************************************************************************)
(* The accesses of the loader stay in bounds for every code object, every  *)
(* width of a word and a page, every place the allocator returns and every *)
(* launch.                                                                 *)
(***************************************************************************)
EXTENDS Loader, TLAPS, WellFoundedInduction

-----------------------------------------------------------------------------
(* Numbers *)

\* A set of natural numbers has its minimum.
LEMMA MinNat ==
  ASSUME NEW S \in SUBSET Nat, S # {}
  PROVE  Min(S) \in S /\ \A y \in S : Min(S) <= y
<1>1. PICK x \in S : \A y \in S : ~(<<y, x>> \in OpToRel(<, Nat))
  BY NatLessThanWellFounded, WFMin, Zenon
<1>2. \A y \in S : x <= y
  <2> TAKE y \in S
  <2>1. <<y, x>> \notin {ss \in Nat \X Nat : ss[1] < ss[2]}
    BY <1>1, Zenon DEF OpToRel
  <2>2. x \in Nat /\ y \in Nat
    OBVIOUS
  <2>3. ~(y < x)
    BY <2>1, <2>2
  <2> QED
    BY <2>2, <2>3
<1> QED
  BY <1>2, Zenon DEF Min

\* A bounded set of natural numbers has its maximum.
LEMMA MaxNat ==
  ASSUME NEW B \in Nat, NEW S \in SUBSET (0 .. B), S # {}
  PROVE  Max(S) \in S /\ \A y \in S : y <= Max(S)
<1> DEFINE T == {B - x : x \in S}
<1>1. T \in SUBSET Nat /\ T # {}
  <2>1. \A x \in S : B - x \in Nat
    OBVIOUS
  <2>2. T \in SUBSET Nat
    BY <2>1
  <2>3. PICK x \in S : TRUE
    BY Zenon
  <2>4. B - x \in T
    OBVIOUS
  <2> QED
    BY <2>2, <2>4
<1>2. Min(T) \in T /\ \A y \in T : Min(T) <= y
  BY <1>1, MinNat, Zenon
<1>3. PICK x \in S : Min(T) = B - x
  BY <1>2, Zenon
<1>4. \A y \in S : x >= y
  <2> TAKE y \in S
  <2>1. B - x <= B - y
    BY <1>2, <1>3, Zenon
  <2> QED
    BY <2>1
<1>5. Max(S) \in S /\ \A y \in S : Max(S) >= y
  BY <1>4, Zenon DEF Max
<1> QED
  BY <1>5

\* Rounding up to pages does not shrink.
LEMMA RoundUp ==
  ASSUME NEW n \in Nat, NEW P \in Nat \ {0}
  PROVE  ((n + P - 1) \div P) * P \in Nat /\ n <= ((n + P - 1) \div P) * P
<1> DEFINE q == (n + P - 1) \div P
<1>1. q \in Nat /\ n + P - 1 < P * q + P
  OBVIOUS
<1> QED
  BY <1>1

\* Lowest is one of the indices, and 0 only when there is none.
LEMMA LowestIndex ==
  ASSUME NEW I \in SUBSET (Nat \ {0})
  PROVE  IF I = {} THEN Lowest(I) = 0 ELSE Lowest(I) \in I
<1>1. I # {} => Min(I) \in I
  BY MinNat
<1> QED
  BY <1>1 DEF Lowest

-----------------------------------------------------------------------------
(* The file *)

InFile(f, offset, size) == offset \in Nat /\ size \in Nat /\ offset + size <= f.size

FileRanges(f, ranges) == \A a \in ranges : a.space = "file" /\ InFile(f, a.offset, a.size)

\* Headers of a type are headers.
LEMMA KindTyped ==
  ASSUME NEW f \in CodeObjects, NEW t
  PROVE  /\ DOMAIN Kind(f, t) \in SUBSET (Nat \ {0})
         /\ \A i \in DOMAIN Kind(f, t) : Kind(f, t)[i] \in ProgramHeaders
<1>1. f.headers \in Seq(ProgramHeaders)
  BY DEF CodeObjects
<1> QED
  BY <1>1 DEF Kind, Restrict

\* A range inside a part of a range that starts at o
LEMMA PartOfRange ==
  ASSUME NEW size \in Nat, NEW o \in Nat, NEW z \in Nat, range_is_in_file(o, z, size),
         NEW v \in Nat, NEW a \in Nat, NEW n \in Nat, a >= v, range_is_in_file(a - v, n, z)
  PROVE  o + (a - v) \in Nat /\ o + (a - v) + n <= size
  BY DEF range_is_in_file

\* A range inside a file part of a parsed object is inside the file.
LEMMA Lookup ==
  ASSUME NEW f \in CodeObjects, parse_segments(f), NEW a \in Nat, NEW n \in Nat,
         virtual_address_to_file(load_segments(f), a, n) # Outside
  PROVE  InFile(f, virtual_address_to_file(load_segments(f), a, n), n)
<1> DEFINE s == load_segments(f)
           I == {j \in DOMAIN s : /\ a >= s[j].virtual_address
                                  /\ range_is_in_file(a - s[j].virtual_address, n, s[j].file_size)}
<1>1. /\ DOMAIN s \in SUBSET (Nat \ {0})
      /\ \A i \in DOMAIN s : s[i] \in ProgramHeaders
  BY KindTyped DEF load_segments
<1>2. \A i \in DOMAIN s : range_is_in_file(s[i].file_offset, s[i].file_size, f.size)
  BY DEF parse_segments, validate_load_segment
<1>3. Lowest(I) # 0
  BY DEF virtual_address_to_file
<1>4. Lowest(I) \in I
  BY <1>1, <1>3, LowestIndex, SMTT(20)
<1>5. virtual_address_to_file(s, a, n) = s[Lowest(I)].file_offset + (a - s[Lowest(I)].virtual_address)
  BY <1>3 DEF virtual_address_to_file
<1> HIDE DEF s
<1>6. PICK i \in DOMAIN s : i = Lowest(I) /\ a >= s[i].virtual_address
                            /\ range_is_in_file(a - s[i].virtual_address, n, s[i].file_size)
  BY <1>4, Zenon
<1>7. f.size \in Nat /\ s[i].file_offset \in Nat /\ s[i].virtual_address \in Nat /\ s[i].file_size \in Nat
  BY <1>1, Zenon DEF CodeObjects, ProgramHeaders
<1>8. range_is_in_file(s[i].file_offset, s[i].file_size, f.size)
  BY <1>2
<1>9. LET o == s[i].file_offset + (a - s[i].virtual_address) IN o \in Nat /\ o + n <= f.size
  BY <1>6, <1>7, <1>8, PartOfRange
<1>10. virtual_address_to_file(s, a, n) = s[i].file_offset + (a - s[i].virtual_address)
  BY <1>5, <1>6
<1>11. InFile(f, virtual_address_to_file(s, a, n), n)
  BY <1>9, <1>10 DEF InFile
<1> QED
  BY <1>11 DEF s

\* Values of the dynamic table are natural numbers.
LEMMA ValueNat ==
  ASSUME NEW f \in CodeObjects, NEW tag
  PROVE  Value(f, tag) \in Nat
<1>1. f.dynamic \in Seq(DynamicEntries)
  BY DEF CodeObjects
<1>2. CASE Present(f, tag)
  <2>1. PICK i \in DOMAIN f.dynamic : i = CHOOSE j \in Tagged(f, tag) : TRUE
    BY <1>2 DEF Present, Tagged
  <2>2. f.dynamic[i] \in DynamicEntries
    BY <1>1
  <2>3. Value(f, tag) = f.dynamic[i].value
    BY <1>2, <2>1 DEF Value
  <2> QED
    BY <2>2, <2>3 DEF DynamicEntries
<1>3. CASE ~Present(f, tag)
  BY <1>3 DEF Value
<1> QED
  BY <1>2, <1>3

\* The dynamic, hash and symbol tables of a parsed object lie in the file.
LEMMA TablesInFile ==
  ASSUME NEW f \in CodeObjects, parse_segments(f), dynamic_segment_valid(f),
         read_symbol_count(f), read_dynamic_symbols(f)
  PROVE  FileRanges(f, TableRanges(f))
<1> DEFINE d == Kind(f, "dynamic")
<1>1. f.size \in Nat /\ f.hash.symbols \in Nat
  BY DEF CodeObjects
<1>2. ASSUME NEW h \in Range(d)
      PROVE  InFile(f, h.file_offset, h.file_size)
  <2>1. PICK i \in DOMAIN d : h = d[i]
    BY <1>2 DEF Range
  <2>2. h \in ProgramHeaders /\ range_is_in_file(h.file_offset, h.file_size, f.size)
    BY <2>1, KindTyped DEF dynamic_segment_valid
  <2> QED
    BY <1>1, <2>2 DEF InFile, range_is_in_file, ProgramHeaders
<1>3. InFile(f, HashOffset(f, HashHeaderSize), HashHeaderSize)
  BY Lookup, ValueNat DEF read_symbol_count, HashOffset, HashHeaderSize
<1>4. f.hash.symbols * SymbolSize \in Nat
  BY <1>1, CellAssumption
<1>5. InFile(f, SymbolsOffset(f), f.hash.symbols * SymbolSize)
  BY <1>4, Lookup, ValueNat DEF read_dynamic_symbols, SymbolsOffset
<1> QED
  BY <1>2, <1>3, <1>5 DEF FileRanges, TableRanges, Span

-----------------------------------------------------------------------------
(* The plan *)

ZeroFills == [virtual_address : Nat, size : Nat]

PlanTyped(p) ==
  /\ p.base \in Nat /\ p.size \in Nat
  /\ \A i \in DOMAIN p.copies : p.copies[i] \in ProgramHeaders
  /\ \A i \in DOMAIN p.zero_fills : p.zero_fills[i] \in ZeroFills
  /\ \A i \in DOMAIN p.relocations : p.relocations[i].target \in Nat

\* Sorting makes up no elements.
LEMMA SortingElements ==
  ASSUME NEW s, NEW I, NEW key, NEW o \in Sortings(s, I, key), NEW k \in DOMAIN o
  PROVE  \E i \in I : o[k] = s[i]
<1>1. PICK p \in [1 .. Cardinality(I) -> I] : o = [j \in 1 .. Cardinality(I) |-> s[p[j]]]
  BY DEF Sortings, Injection
<1> QED
  BY <1>1

\* Base and size of the image of a parsed object
LEMMA ImageTyped ==
  ASSUME NEW f \in CodeObjects, parse_segments(f)
  PROVE  image_base(load_segments(f)) \in Nat /\ image_size(load_segments(f)) \in Nat
<1> DEFINE s == load_segments(f)
           I == Sized(s, "memory_size")
           V == {s[i].virtual_address : i \in I}
           E == {s[i].virtual_address + s[i].memory_size : i \in I}
<1>1. \A i \in DOMAIN s : /\ s[i].virtual_address \in Nat /\ s[i].memory_size \in Nat
                          /\ s[i].virtual_address + s[i].memory_size <= WordMax
  <2>1. \A i \in DOMAIN s : s[i] \in ProgramHeaders
    BY KindTyped DEF load_segments
  <2>2. \A i \in DOMAIN s : s[i].memory_size <= WordMax - s[i].virtual_address
    BY DEF parse_segments, validate_load_segment, Adds
  <2>3. WordMax \in Int
    BY CellAssumption DEF WordMax
  <2> HIDE DEF s
  <2>4. \A i \in DOMAIN s : s[i].virtual_address \in Nat /\ s[i].memory_size \in Nat
    BY <2>1 DEF ProgramHeaders
  <2> QED
    BY <2>2, <2>3, <2>4
<1>2. I \subseteq DOMAIN s
  BY DEF Sized
<1>3. WordMax \in Nat
  BY CellAssumption DEF WordMax
<1>4. CASE I = {}
  BY <1>4 DEF image_base, image_size
<1>5. CASE I # {}
  <2> HIDE DEF s, I
  <2>1. V \in SUBSET Nat /\ V # {}
    BY <1>1, <1>2, <1>5
  <2>2. E \in SUBSET (0 .. WordMax) /\ E # {}
    BY <1>1, <1>2, <1>3, <1>5
  <2>3. Min(V) \in V
    BY <2>1, MinNat, Zenon
  <2>4. Max(E) \in E /\ \A y \in E : y <= Max(E)
    BY <1>3, <2>2, MaxNat, Zenon
  <2>5. PICK i \in I : Min(V) = s[i].virtual_address
    BY <2>3, Zenon
  <2>6. s[i].virtual_address + s[i].memory_size <= Max(E)
    BY <2>4
  <2>7. Min(V) \in Nat /\ Max(E) - Min(V) \in Nat
    BY <1>1, <1>2, <2>2, <2>4, <2>5, <2>6
  <2>8. image_base(s) = Min(V) /\ image_size(s) = Max(E) - Min(V)
    BY <1>5 DEF image_base, image_size, I
  <2> QED
    BY <2>7, <2>8 DEF s
<1> QED
  BY <1>4, <1>5

\* Relocations carry the targets of entries of the tables.
LEMMA RelocationTargets ==
  ASSUME NEW f \in Objects, parse_segments(f), NEW r \in append_relocations(f), NEW k \in DOMAIN r,
         \A e \in Encodings : HasEntries(f, e) => TableOffset(f, e) # Outside
  PROVE  r[k].target \in Nat
<1> DEFINE A == Relocations(f, "rel")
           B == Relocations(f, "rela")
           C == A \o B
           X == {x \in {Relocation(f, e, i) : e \in Encodings, i \in Nat} : x.target \in Nat}
<1>1. f \in CodeObjects
  BY ObjectAssumption
<1>2. ASSUME NEW e \in Encodings
      PROVE  Relocations(f, e) \in Seq(X)
  <2>1. EntryCount(f, e) \in Nat
    <3>1. EntrySize(e) \in Nat \ {0}
      BY CellAssumption DEF EntrySize
    <3>2. Value(f, Tags(e).size) \in Nat
      BY <1>1, ValueNat
    <3>3. Value(f, Tags(e).size) \div EntrySize(e) \in Nat
      BY <3>1, <3>2
    <3> QED
      BY <3>3 DEF EntryCount
  <2>2. f[e] \in Seq(RelocationEntries)
    BY <1>1 DEF CodeObjects, Encodings
  <2>3. EntryCount(f, e) <= Len(f[e])
    <3>1. CASE HasEntries(f, e)
      <4>1. Value(f, Tags(e).address) \in Nat /\ Value(f, Tags(e).size) \in Nat /\ f.size \in Nat
        BY <1>1, ValueNat DEF CodeObjects
      <4>2. InFile(f, TableOffset(f, e), Value(f, Tags(e).size))
        BY <1>1, <3>1, <4>1, Lookup DEF TableOffset
      <4>3. Value(f, Tags(e).size) <= f.size
        BY <4>1, <4>2 DEF InFile
      <4> QED
        BY <4>3, ObjectAssumption
    <3>2. CASE ~HasEntries(f, e)
      BY <2>2, <3>2 DEF EntryCount
    <3> QED
      BY <3>1, <3>2
  <2>4. ASSUME NEW i \in 1 .. EntryCount(f, e)
        PROVE  Relocation(f, e, i) \in X
    <3>1. f[e][i] \in RelocationEntries
      BY <2>1, <2>2, <2>3
    <3>2. Relocation(f, e, i).target \in Nat
      BY <3>1 DEF Relocation, RelocationEntries
    <3> QED
      BY <2>1, <3>2
  <2> HIDE DEF X
  <2>5. Relocations(f, e) \in [1 .. EntryCount(f, e) -> X]
    BY <2>4 DEF Relocations
  <2> QED
    BY <2>1, <2>5
<1>3. A \in Seq(X) /\ B \in Seq(X)
  BY <1>2 DEF Encodings
<1>4. r \in Sortings(C, DOMAIN C, "target")
  BY Zenon DEF append_relocations
<1> HIDE DEF A, B, X
<1>5. C \in Seq(X)
  BY <1>3
<1> HIDE DEF C
<1>6. PICK i \in DOMAIN C : r[k] = C[i]
  BY <1>4, SortingElements
<1>7. r[k] \in X
  BY <1>5, <1>6
<1> QED
  BY <1>7 DEF X

\* The plan of a parsed object is typed.
LEMMA PlanOfObject ==
  ASSUME NEW f \in CodeObjects, parse_segments(f), NEW p \in build_load_plan(f), NEW r,
         \A k \in DOMAIN r : r[k].target \in Nat
  PROVE  PlanTyped([p EXCEPT !.relocations = r])
<1> DEFINE s == load_segments(f)
           I == Sized(s, "memory_size")
           z == [i \in DOMAIN s |-> ZeroFill(s[i])]
           c == p.copies
           zero == p.zero_fills
<1>1. /\ p.base = image_base(s) /\ p.size = image_size(s)
      /\ c \in Sortings(s, I \cap Sized(s, "file_size"), "virtual_address")
      /\ zero \in Sortings(z, Sized(z, "size"), "virtual_address")
  BY DEF build_load_plan
<1>2. image_base(s) \in Nat /\ image_size(s) \in Nat
  BY ImageTyped
<1>3. \A i \in DOMAIN s : s[i] \in ProgramHeaders
  BY KindTyped DEF load_segments
<1>4. \A k \in DOMAIN c : c[k] \in ProgramHeaders
  <2> TAKE k \in DOMAIN c
  <2>1. PICK i \in I \cap Sized(s, "file_size") : c[k] = s[i]
    BY <1>1, SortingElements
  <2> QED
    BY <1>3, <2>1 DEF Sized
<1>5. \A k \in DOMAIN zero : zero[k] \in ZeroFills
  <2> TAKE k \in DOMAIN zero
  <2>1. PICK i \in Sized(z, "size") : zero[k] = z[i]
    BY <1>1, SortingElements
  <2>2. i \in DOMAIN s /\ zero[k] = ZeroFill(s[i])
    BY <2>1 DEF Sized
  <2>3. s[i].file_size <= s[i].memory_size
    BY <2>2 DEF parse_segments, validate_load_segment
  <2>4. /\ s[i].virtual_address \in Nat
        /\ s[i].file_size \in Nat /\ s[i].memory_size \in Nat
    BY <1>3, <2>2 DEF ProgramHeaders
  <2> HIDE DEF s
  <2> QED
    BY <2>2, <2>3, <2>4 DEF ZeroFill, ZeroFills
<1>6. LET q == [p EXCEPT !.relocations = r]
      IN  q.base = p.base /\ q.size = p.size /\ q.copies = c /\ q.zero_fills = zero /\ q.relocations = r
  BY DEF build_load_plan
<1> HIDE DEF s, I, z
<1> QED
  BY <1>1, <1>2, <1>4, <1>5, <1>6 DEF PlanTyped

\* A plan that passes validate_plan writes inside the image.
LEMMA ValidPlan ==
  ASSUME NEW p, NEW k, NEW size, validate_plan(p, k, size) = "none"
  PROVE  /\ \A i \in DOMAIN p.copies :
              /\ range_is_in_file(p.copies[i].file_offset, p.copies[i].file_size, size)
              /\ image_in(p, p.copies[i].virtual_address, p.copies[i].file_size)
         /\ \A i \in DOMAIN p.zero_fills : image_in(p, p.zero_fills[i].virtual_address, p.zero_fills[i].size)
         /\ \A i \in DOMAIN p.relocations : relocation_accepted(p, p.relocations[i])
<1> DEFINE c == PlanChecks(p, k, size)
           I == {j \in DOMAIN c : ~c[j].ok}
<1>1. DOMAIN c = 1 .. 10
  BY DEF PlanChecks
<1>2. \A j \in 1 .. 10 : c[j].error # "none"
  <2>1. /\ c[1].error # "none" /\ c[2].error # "none" /\ c[3].error # "none" /\ c[4].error # "none"
        /\ c[5].error # "none" /\ c[6].error # "none" /\ c[7].error # "none" /\ c[8].error # "none"
        /\ c[9].error # "none" /\ c[10].error # "none"
    BY ZenonT(30) DEF PlanChecks
  <2> HIDE DEF c
  <2> QED
    BY <2>1
<1>3. I = {}
  <2>1. Lowest(I) = 0
    <3>1. I # {} => Lowest(I) \in I
      BY <1>1, LowestIndex
    <3>2. Lowest(I) # 0 => c[Lowest(I)].error = "none"
      BY DEF validate_plan
    <3>3. Lowest(I) # 0 => I # {}
      BY DEF Lowest
    <3> QED
      BY <1>1, <1>2, <3>1, <3>2, <3>3
  <2> QED
    BY <1>1, <2>1, LowestIndex
<1>4. c[5].ok /\ c[6].ok /\ c[7].ok
  BY <1>1, <1>3
<1> QED
  BY <1>4, Zenon DEF PlanChecks, relocations_accepted, Range

-----------------------------------------------------------------------------
(* Kernels *)

KernelTyped(k) ==
  /\ k.kernarg_size \in Nat /\ k.explicit \in Nat /\ k.explicit <= k.kernarg_size
  /\ \A i \in DOMAIN k.arguments : k.arguments[i] \in KernelArguments

\* Explicit arguments end inside the kernarg segment of every kernel decoded.
LEMMA KernelsTyped ==
  ASSUME NEW f \in CodeObjects, NEW d \in Kernels(f), NEW i \in DOMAIN d
  PROVE  KernelTyped(d[i])
<1> DEFINE k == f.kernels[i]
<1>1. i \in DOMAIN f.kernels /\ \E s \in SortedArguments(k) : d[i] = Kernel(f, k, s)
  BY DEF Kernels
<1>2. PICK s \in SortedArguments(k) : d[i] = Kernel(f, k, s)
  BY <1>1
<1>3. k.kernarg_size \in Nat /\ k.args \in Seq(KernelArguments)
  <2>1. f.kernels \in Seq(KernelEntries)
    BY DEF CodeObjects
  <2>2. k \in KernelEntries
    BY <1>1, <2>1
  <2> HIDE DEF k
  <2> QED
    BY <2>2 DEF KernelEntries
<1> HIDE DEF k
<1>4. first_hidden_offset(k) \in Nat /\ first_hidden_offset(k) <= k.kernarg_size
  <2> DEFINE S == {k.kernarg_size} \cup {a.offset : a \in {x \in Range(k.args) : Hidden(x)}}
  <2>1. \A x \in Range(k.args) : x.offset \in Nat
    <3>1. \A n \in DOMAIN k.args : k.args[n] \in KernelArguments
      BY <1>3
    <3>2. \A x \in Range(k.args) : x \in KernelArguments
      BY <3>1 DEF Range
    <3> QED
      BY <3>2 DEF KernelArguments
  <2>2. S \in SUBSET Nat /\ k.kernarg_size \in S
    BY <1>3, <2>1
  <2>3. Min(S) \in S /\ \A y \in S : Min(S) <= y
    BY <2>2, MinNat, Zenon
  <2> HIDE DEF S
  <2>4. Min(S) \in Nat /\ Min(S) <= k.kernarg_size
    BY <2>2, <2>3, Zenon
  <2> QED
    BY <2>4 DEF S, first_hidden_offset
<1>5. \A j \in DOMAIN s : s[j] \in KernelArguments
  <2> TAKE j \in DOMAIN s
  <2>1. PICK n \in DOMAIN k.args : s[j] = k.args[n]
    BY SortingElements DEF SortedArguments
  <2> QED
    BY <1>3, <2>1
<1> QED
  BY <1>2, <1>3, <1>4, <1>5 DEF KernelTyped, Kernel

\* The descriptor of a decoded kernel lies in the file.
LEMMA DescriptorInFile ==
  ASSUME NEW f \in Objects, parse_segments(f), NEW k \in Range(f.kernels),
         find_kernel_symbol(f, k), decode_kernel_descriptor(f, k)
  PROVE  InFile(f, DescriptorOffset(f, k), DescriptorSize)
<1>1. f \in CodeObjects /\ f.hash.symbols <= Len(f.symbols)
  BY ObjectAssumption
<1>2. Named(f, k.symbol) # {}
  BY Zenon DEF find_kernel_symbol
<1>3. PICK i \in 1 .. f.hash.symbols : KernelSymbol(f, k) = f.symbols[i]
  BY <1>2, Zenon DEF Named, KernelSymbol
<1>4. KernelSymbol(f, k).value \in Nat
  <2>1. /\ f.hash.symbols \in Nat
        /\ f.symbols \in Seq(SymbolEntries)
    BY <1>1 DEF CodeObjects
  <2>2. i \in DOMAIN f.symbols
    BY <1>1, <2>1
  <2>3. f.symbols[i] \in SymbolEntries
    BY <2>1, <2>2
  <2> QED
    BY <1>3, <2>3 DEF SymbolEntries
<1>5. DescriptorSize \in Nat
  BY CellAssumption
<1> QED
  BY <1>1, <1>4, <1>5, Lookup DEF DescriptorOffset, decode_kernel_descriptor

-----------------------------------------------------------------------------
(* The invariant *)

\* What AccessesInBounds needs of earlier steps: the segments were checked
\* before any address is looked up in them, the plan before it is carried out.
LoaderInv ==
  /\ object \in Objects
  /\ pc \notin {"segments", "refused"} => parse_segments(object)
  /\ \A i \in DOMAIN kernels : KernelTyped(kernels[i])
  /\ PlanTyped(plan)
  /\ pc \in {"allocate", "bind", "clear", "copy", "zero", "relocate"} =>
       validate_plan(plan, kernels, object.size) = "none"
  /\ pc = "populate" => launch.kernel \in DOMAIN kernels
  /\ AccessesInBounds

\* Ranges in the file are in bounds.
LEMMA FileAccess ==
  ASSUME object' \in CodeObjects, access' = {} \/ FileRanges(object', access')
  PROVE  AccessesInBounds'
<1>1. object'.size \in Nat
  BY DEF CodeObjects
<1> QED
  BY <1>1 DEF FileRanges, InFile, AccessesInBounds, Extent

\* The image is at least as large as the plan.
LEMMA ImageAccess ==
  ASSUME NEW p, PlanTyped(p), NEW address \in Nat, NEW size \in Nat, image_in(p, address, size)
  PROVE  /\ address - p.base \in Nat
         /\ (address - p.base) + size <= allocation_size(p)
         /\ allocation_size(p) \in Nat
<1>1. p.size \in Nat /\ p.base \in Nat
  BY DEF PlanTyped
<1>2. allocation_size(p) \in Nat /\ p.size <= allocation_size(p)
  BY <1>1, RoundUp, CellAssumption, Zenon DEF allocation_size
<1> QED
  BY <1>1, <1>2 DEF image_in, range_is_in_file

\* The inductive step: one case for every action of the loader.
LEMMA LoaderStep == LoaderInv /\ [Next]_vars => LoaderInv'
<1> SUFFICES ASSUME LoaderInv, [Next]_vars PROVE LoaderInv'
  OBVIOUS
<1>o. object \in Objects /\ object \in CodeObjects
  BY ObjectAssumption DEF LoaderInv
<1>h. ASSUME NEW t
      PROVE  \A h \in Range(Kind(object, t)) : h \in ProgramHeaders
  BY <1>o, KindTyped DEF Range
<1>1. CASE ParseSegments
  <2>1. FileRanges(object', access') \/ access' = {}
    <3>1. CASE parse_segments(object)
      <4>1. /\ object.size \in Nat /\ object.header_offset \in Nat
            /\ Len(object.headers) * ProgramHeaderSize \in Nat
        BY <1>o, CellAssumption DEF CodeObjects
      <4>2. /\ object.size >= HeaderSize
            /\ range_is_in_file(object.header_offset, Len(object.headers) * ProgramHeaderSize, object.size)
        BY <3>1 DEF parse_segments
      <4>3. InFile(object, 0, HeaderSize)
        BY <4>1, <4>2, CellAssumption DEF InFile
      <4>4. InFile(object, object.header_offset, Len(object.headers) * ProgramHeaderSize)
        BY <4>1, <4>2 DEF InFile, range_is_in_file
      <4>5. /\ object' = object
            /\ access' = {Span("file", 0, HeaderSize),
                          Span("file", object.header_offset, Len(object.headers) * ProgramHeaderSize)}
        BY <1>1, <3>1 DEF ParseSegments, Check
      <4> QED
        BY <4>3, <4>4, <4>5 DEF FileRanges, Span
    <3> QED
      BY <1>1, <3>1 DEF ParseSegments, Check
  <2>2. AccessesInBounds'
    BY <1>1, <1>o, <2>1, FileAccess DEF ParseSegments
  <2> QED
    BY <1>1, <2>2 DEF LoaderInv, ParseSegments, Check
<1>2. CASE FindNote
  <2>f. /\ pc = "note" /\ pc' \in {"refused", "document", "plan"}
        /\ object' = object /\ kernels' = kernels /\ plan' = plan
    BY <1>2, Zenon DEF FindNote, Check
  <2>1. FileRanges(object', access') \/ access' = {}
    <3> DEFINE N == Kind(object, "note")
    <3>1. CASE find_metadata_note(object)
      <4>1. ASSUME NEW h \in Range(N)
            PROVE  InFile(object, h.file_offset, h.file_size)
        <5>1. range_is_in_file(h.file_offset, h.file_size, object.size)
          BY <3>1, Zenon DEF find_metadata_note, Range
        <5>2. object.size \in Nat /\ h.file_offset \in Nat /\ h.file_size \in Nat
          BY <1>o, <1>h, SMTT(20) DEF CodeObjects, ProgramHeaders
        <5> QED
          BY <5>1, <5>2 DEF InFile, range_is_in_file
      <4>2. object' = object /\ access' = {Span("file", h.file_offset, h.file_size) : h \in Range(N)}
        BY <1>2, <3>1 DEF FindNote, Check
      <4> QED
        BY <4>1, <4>2 DEF FileRanges, Span
    <3> QED
      BY <1>2, <3>1 DEF FindNote, Check
  <2>2. AccessesInBounds'
    BY <1>2, <1>o, <2>1, FileAccess DEF FindNote
  <2> QED
    BY <2>f, <2>2 DEF LoaderInv
<1>3. CASE DecodeDocument
  <2>f. /\ pc = "document" /\ pc' \in {"refused", "symbols"}
        /\ object' = object /\ kernels' = kernels /\ plan' = plan
    BY <1>3, Zenon DEF DecodeDocument, Check
  <2>1. AccessesInBounds'
    BY <1>3, <1>o, FileAccess DEF DecodeDocument, Check
  <2> QED
    BY <2>f, <2>1 DEF LoaderInv
<1>4. CASE ReadSymbols
  <2>f. /\ pc = "symbols" /\ pc' \in {"refused", "kernels"}
        /\ object' = object /\ kernels' = kernels /\ plan' = plan
    BY <1>4, Zenon DEF ReadSymbols, Check
  <2>1. FileRanges(object', access') \/ access' = {}
    <3>1. CASE read_kernel_symbols(object)
      <4>1. parse_segments(object)
        BY <1>4 DEF LoaderInv, ReadSymbols, Check
      <4>2. FileRanges(object, TableRanges(object))
        BY <1>o, <3>1, <4>1, TablesInFile DEF read_kernel_symbols
      <4>3. InFile(object, StringsOffset(object), Value(object, "STRSZ"))
        BY <1>o, <3>1, <4>1, Lookup, ValueNat DEF read_kernel_symbols, StringsOffset
      <4>4. /\ object' = object
            /\ access' = TableRanges(object) \cup {Span("file", StringsOffset(object), Value(object, "STRSZ"))}
        BY <1>4, <3>1 DEF ReadSymbols, Check
      <4> QED
        BY <4>2, <4>3, <4>4 DEF FileRanges, Span
    <3> QED
      BY <1>4, <3>1 DEF ReadSymbols, Check
  <2>2. AccessesInBounds'
    BY <1>4, <1>o, <2>1, FileAccess DEF ReadSymbols
  <2> QED
    BY <2>f, <2>2 DEF LoaderInv
<1>5. CASE DecodeKernels
  <2> DEFINE k == object.kernels
             ok == \A i \in DOMAIN k : find_kernel_symbol(object, k[i]) /\ decode_kernel_descriptor(object, k[i])
  <2>1. FileRanges(object', access') \/ access' = {}
    <3>1. CASE ok
      <4>1. parse_segments(object)
        BY <1>5 DEF LoaderInv, DecodeKernels, Check
      <4>2. ASSUME NEW x \in Range(k)
            PROVE  InFile(object, DescriptorOffset(object, x), DescriptorSize)
        <5>1. find_kernel_symbol(object, x) /\ decode_kernel_descriptor(object, x)
          BY <3>1 DEF Range
        <5> QED
          BY <1>o, <4>1, <5>1, DescriptorInFile
      <4>3. /\ object' = object
            /\ access' = {Span("file", DescriptorOffset(object, x), DescriptorSize) : x \in Range(k)}
        BY <1>5, <3>1 DEF DecodeKernels, Check
      <4> QED
        BY <4>2, <4>3 DEF FileRanges, Span
    <3> QED
      BY <1>5, <3>1 DEF DecodeKernels, Check
  <2>2. AccessesInBounds'
    BY <1>5, <1>o, <2>1, FileAccess DEF DecodeKernels
  <2>3. \A i \in DOMAIN kernels' : KernelTyped(kernels'[i])
    <3>1. CASE ok
      BY <1>5, <1>o, <3>1, KernelsTyped DEF DecodeKernels
    <3>2. CASE ~ok
      BY <1>5, <3>2 DEF DecodeKernels
    <3> QED
      BY <3>1, <3>2
  <2> QED
    BY <1>5, <2>2, <2>3 DEF LoaderInv, DecodeKernels, Check
<1>6. CASE BuildPlan
  <2> DEFINE tables == /\ read_dynamic_relocation_info(object)
                       /\ \A e \in Encodings : validate_relocation_table_info(object, e)
                       /\ validate_disjoint_relocation_tables(object)
             ok == /\ tables
                   /\ HasRelocations(object) =>
                        /\ read_symbol_count(object) /\ read_dynamic_symbols(object)
                        /\ \A e \in Encodings : read_relocation_table(object, e)
             T == {Span("file", TableOffset(object, e), Value(object, Tags(e).size)) :
                     e \in {x \in Encodings : HasEntries(object, x)}}
  <2>1. parse_segments(object)
    BY <1>6 DEF LoaderInv, BuildPlan, Check
  <2>2. FileRanges(object', access') \/ access' = {}
    <3>1. CASE ok /\ HasRelocations(object)
      <4>1. FileRanges(object, TableRanges(object))
        BY <1>o, <2>1, <3>1, TablesInFile DEF read_dynamic_relocation_info
      <4>2. ASSUME NEW e \in Encodings, HasEntries(object, e)
            PROVE  InFile(object, TableOffset(object, e), Value(object, Tags(e).size))
        <5>1. TableOffset(object, e) # Outside
          BY <3>1, <4>2 DEF read_relocation_table
        <5> QED
          BY <1>o, <2>1, <5>1, Lookup, ValueNat DEF TableOffset
      <4>3. FileRanges(object, T)
        BY <4>2 DEF FileRanges, Span
      <4>4. object' = object /\ access' = TableRanges(object) \cup T
        BY <1>6, <3>1 DEF BuildPlan, Check
      <4> HIDE DEF T
      <4> QED
        BY <4>1, <4>3, <4>4 DEF FileRanges
    <3>2. CASE ~(ok /\ HasRelocations(object))
      BY <1>6, <3>2 DEF BuildPlan, Check
    <3> QED
      BY <3>1, <3>2
  <2>3. AccessesInBounds'
    BY <1>6, <1>o, <2>2, FileAccess DEF BuildPlan
  <2>4. PlanTyped(plan')
    <3>1. CASE ok
      <4>1. PICK p \in build_load_plan(object),
                 r \in IF HasRelocations(object) THEN append_relocations(object) ELSE {<<>>} :
              plan' = [p EXCEPT !.relocations = r]
        BY <1>6, <3>1, Zenon DEF BuildPlan
      <4>2. \A j \in DOMAIN r : r[j].target \in Nat
        <5>1. CASE HasRelocations(object)
          <6>1. \A e \in Encodings : HasEntries(object, e) => TableOffset(object, e) # Outside
            BY <3>1, <5>1 DEF read_relocation_table
          <6>2. r \in append_relocations(object)
            BY <4>1, <5>1
          <6> QED
            BY <1>o, <2>1, <6>1, <6>2, RelocationTargets, ZenonT(20)
        <5>2. CASE ~HasRelocations(object)
          <6>1. r = <<>>
            BY <4>1, <5>2
          <6> QED
            BY <6>1
        <5> QED
          BY <5>1, <5>2
      <4> QED
        BY <1>o, <2>1, <4>1, <4>2, PlanOfObject, SMTT(20)
    <3>2. CASE ~ok
      BY <1>6, <3>2 DEF BuildPlan, LoaderInv
    <3> QED
      BY <3>1, <3>2
  <2> QED
    BY <1>6, <2>1, <2>3, <2>4 DEF LoaderInv, BuildPlan, Check
<1>7. CASE Require
  <2>1. AccessesInBounds'
    BY <1>7, <1>o, FileAccess DEF Require, Check
  <2> QED
    BY <1>7, <2>1 DEF LoaderInv, Require, Check
<1>8. CASE Allocate
  <2>f. /\ pc = "allocate" /\ pc' \in {"refused", "bind"}
        /\ object' = object /\ kernels' = kernels /\ plan' = plan
    BY <1>8, Zenon DEF Allocate, Check
  <2>1. AccessesInBounds'
    BY <1>8, <1>o, FileAccess DEF Allocate, Check
  <2> QED
    BY <2>f, <2>1 DEF LoaderInv
<1>9. CASE Bind
  <2>f. /\ pc = "bind" /\ pc' \in {"refused", "clear"}
        /\ object' = object /\ kernels' = kernels /\ plan' = plan
    BY <1>9, Zenon DEF Bind, Check
  <2>1. AccessesInBounds'
    BY <1>9, <1>o, FileAccess DEF Bind, Check
  <2> QED
    BY <2>f, <2>1, SMTT(30) DEF LoaderInv
<1>10. CASE Clear
  <2>f. /\ pc = "clear" /\ pc' \in {"copy"}
        /\ object' = object /\ kernels' = kernels /\ plan' = plan
    BY <1>10, Zenon DEF Clear
  <2>1. plan.size \in Nat
    BY DEF LoaderInv, PlanTyped
  <2>2. allocation_size(plan) \in Nat
    BY <2>1, RoundUp, CellAssumption DEF allocation_size
  <2>3. AccessesInBounds'
    BY <1>10, <2>2 DEF Clear, AccessesInBounds, Extent, Span, allocation_size
  <2> QED
    BY <2>f, <2>3 DEF LoaderInv
<1>11. CASE Copy
  <2> DEFINE c == plan.copies[index]
  <2>f. /\ pc = "copy" /\ pc' \in {"copy", "zero"}
        /\ object' = object /\ kernels' = kernels /\ plan' = plan
    BY <1>11, Zenon DEF Copy, Loop
  <2>1. validate_plan(plan, kernels, object.size) = "none" /\ PlanTyped(plan)
    BY <2>f DEF LoaderInv
  <2>2. AccessesInBounds'
    <3>1. CASE index \in DOMAIN plan.copies
      <4>1. c.file_offset \in Nat /\ c.virtual_address \in Nat /\ c.file_size \in Nat /\ object.size \in Nat
        BY <1>o, <2>1, <3>1, ZenonT(20) DEF PlanTyped, ProgramHeaders, CodeObjects
      <4>2. /\ range_is_in_file(c.file_offset, c.file_size, object.size)
            /\ image_in(plan, c.virtual_address, c.file_size)
        BY <2>1, <3>1, ValidPlan
      <4> HIDE DEF c
      <4>3. /\ c.virtual_address - plan.base \in Nat
            /\ (c.virtual_address - plan.base) + c.file_size <= allocation_size(plan)
        BY <2>1, <4>1, <4>2, ImageAccess
      <4>4. c.file_offset + c.file_size <= object.size
        BY <4>1, <4>2, SMTT(20) DEF range_is_in_file
      <4>5. /\ plan' = plan /\ object' = object
            /\ access' = {Span("file", c.file_offset, c.file_size),
                          Span("image", c.virtual_address - plan.base, c.file_size)}
        BY <1>11, <3>1 DEF Copy, Loop, c
      <4> QED
        BY <4>1, <4>3, <4>4, <4>5 DEF AccessesInBounds, Extent, Span, allocation_size
    <3>2. CASE index \notin DOMAIN plan.copies
      BY <1>11, <1>o, <3>2, FileAccess DEF Copy, Loop
    <3> QED
      BY <3>1, <3>2
  <2> QED
    BY <2>f, <2>2 DEF LoaderInv
<1>12. CASE Zero
  <2> DEFINE z == plan.zero_fills[index]
  <2>f. /\ pc = "zero" /\ pc' \in {"zero", "relocate"}
        /\ object' = object /\ kernels' = kernels /\ plan' = plan
    BY <1>12, Zenon DEF Zero, Loop
  <2>1. validate_plan(plan, kernels, object.size) = "none" /\ PlanTyped(plan)
    BY <2>f DEF LoaderInv
  <2>2. AccessesInBounds'
    <3>1. CASE index \in DOMAIN plan.zero_fills
      <4>1. z.virtual_address \in Nat /\ z.size \in Nat
        BY <2>1, <3>1, SMTT(20) DEF PlanTyped, ZeroFills
      <4>2. image_in(plan, z.virtual_address, z.size)
        BY <2>1, <3>1, ValidPlan
      <4> HIDE DEF z
      <4>3. /\ z.virtual_address - plan.base \in Nat
            /\ (z.virtual_address - plan.base) + z.size <= allocation_size(plan)
        BY <2>1, <4>1, <4>2, ImageAccess
      <4>4. plan' = plan /\ access' = {Span("image", z.virtual_address - plan.base, z.size)}
        BY <1>12, <3>1 DEF Zero, Loop, z
      <4> QED
        BY <4>1, <4>3, <4>4 DEF AccessesInBounds, Extent, Span, allocation_size
    <3>2. CASE index \notin DOMAIN plan.zero_fills
      BY <1>12, <1>o, <3>2, FileAccess DEF Zero, Loop
    <3> QED
      BY <3>1, <3>2
  <2> QED
    BY <2>f, <2>2 DEF LoaderInv
<1>13. CASE Relocate
  <2> DEFINE r == plan.relocations[index]
             writes == index \in DOMAIN plan.relocations /\ r.type # "NONE"
  <2>f. /\ pc = "relocate" /\ pc' \in {"relocate", "loaded"}
        /\ object' = object /\ kernels' = kernels /\ plan' = plan
    BY <1>13, Zenon DEF Relocate, Loop
  <2>1. validate_plan(plan, kernels, object.size) = "none" /\ PlanTyped(plan)
    BY <2>f DEF LoaderInv
  <2>2. AccessesInBounds'
    <3>1. CASE writes
      <4>1. r.target \in Nat
        BY <2>1, <3>1, SMTT(20) DEF PlanTyped
      <4>2. image_in(plan, r.target, WordSize)
        BY <2>1, <3>1, ValidPlan, SMTT(30) DEF relocation_accepted
      <4> HIDE DEF r
      <4>3. /\ r.target - plan.base \in Nat
            /\ (r.target - plan.base) + WordSize <= allocation_size(plan)
        BY <2>1, <4>1, <4>2, ImageAccess, SMTT(20) DEF WordSize
      <4>4. plan' = plan /\ access' = {Span("image", r.target - plan.base, WordSize)}
        BY <1>13, <3>1 DEF Relocate, Loop, r
      <4> QED
        BY <4>1, <4>3, <4>4 DEF AccessesInBounds, Extent, Span, allocation_size, WordSize
    <3>2. CASE ~writes
      BY <1>13, <1>o, <3>2, FileAccess, SMTT(20) DEF Relocate, Loop
    <3> QED
      BY <3>1, <3>2
  <2> QED
    BY <2>f, <2>2 DEF LoaderInv
<1>14. CASE Launch
  <2>1. PICK i \in DOMAIN kernels, l \in Launches :
          LET k == kernels[i]
          IN  /\ launch' = [kernel |-> i, args |-> l.args, config |-> l.config]
              /\ Check("loaded", Len(l.args) <= k.explicit, "arguments",
                       {Span("kernarg", 0, Len(l.args))}, "populate")
              /\ UNCHANGED <<object, kernels, plan, gpu, image>>
    BY <1>14, Zenon DEF Launch
  <2>2. KernelTyped(kernels[i]) /\ Len(l.args) \in Nat
    BY LaunchAssumption, SMTT(20) DEF LoaderInv
  <2>3. launch'.kernel = i /\ kernels' = kernels
    BY <2>1
  <2>4. AccessesInBounds'
    <3>1. CASE Len(l.args) <= kernels[i].explicit
      <4>1. access' = {Span("kernarg", 0, Len(l.args))}
        BY <2>1, <3>1 DEF Check
      <4>2. Len(l.args) <= kernels[i].kernarg_size
        BY <2>2, <3>1 DEF KernelTyped
      <4> QED
        BY <2>2, <2>3, <4>1, <4>2, SMTT(20) DEF AccessesInBounds, Extent, Span
    <3>2. CASE ~(Len(l.args) <= kernels[i].explicit)
      BY <1>o, <2>1, <3>2, FileAccess DEF Check
    <3> QED
      BY <3>1, <3>2
  <2> QED
    BY <1>14, <2>1, <2>3, <2>4 DEF LoaderInv, Check
<1>15. CASE Populate
  <2> DEFINE k == kernels[launch.kernel]
             a == k.arguments[index]
  <2>f. /\ pc = "populate" /\ pc' \in {"refused", "populate", "launched"}
        /\ object' = object /\ kernels' = kernels /\ plan' = plan /\ launch' = launch
    BY <1>15, Zenon DEF Populate, Check
  <2>1. \/ access' = {}
        \/ index \in DOMAIN k.arguments /\ argument_fits(k, a) /\ access' = {Span("kernarg", a.offset, a.size)}
    BY <1>15, Zenon DEF Populate, Check
  <2>2. KernelTyped(k)
    BY <2>f, ZenonT(20) DEF LoaderInv
  <2>3. CASE access' = {}
    <3>1. AccessesInBounds'
      BY <1>o, <2>f, <2>3, FileAccess
    <3> QED
      BY <2>f, <3>1 DEF LoaderInv
  <2>4. CASE access' # {}
    <3> HIDE DEF k
    <3>1. k.arguments[index] \in KernelArguments /\ k.kernarg_size \in Nat
      BY <2>1, <2>2, <2>4, Zenon DEF KernelTyped
    <3>2. range_is_in_file(a.offset, a.size, k.kernarg_size)
      BY <2>1, <2>4, Zenon DEF argument_fits
    <3>3. access' = {Span("kernarg", a.offset, a.size)}
      BY <2>1, <2>4, Zenon
    <3>4. a.offset \in Nat /\ a.size \in Nat
      BY <3>1 DEF KernelArguments
    <3> HIDE DEF a
    <3>5. a.offset + a.size <= k.kernarg_size
      BY <3>1, <3>2, <3>4 DEF range_is_in_file
    <3>6. kernels'[launch'.kernel] = k
      BY <2>f, Zenon DEF k
    <3>7. AccessesInBounds'
      BY <3>1, <3>3, <3>4, <3>5, <3>6 DEF AccessesInBounds, Extent, Span
    <3> QED
      BY <2>f, <3>7 DEF LoaderInv
  <2> QED
    BY <2>3, <2>4
<1>16. CASE UNCHANGED vars
  BY <1>16, Zenon DEF LoaderInv, vars, AccessesInBounds, Extent, allocation_size
<1> QED
  BY <1>1, <1>2, <1>3, <1>4, <1>5, <1>6, <1>7, <1>8, <1>9, <1>10, <1>11, <1>12, <1>13, <1>14, <1>15, <1>16,
     Zenon DEF Next

\* Whatever offsets, sizes and addresses a code object states, whatever the
\* width of a word and of a page, and wherever the image is placed: the ELF,
\* metadata and load plan readers read inside the code object,
\* materialize_executable_image writes inside its allocation, and a launch
\* writes inside its kernarg segment.
THEOREM LoaderAccesses == Spec => []AccessesInBounds
<1>1. Init => LoaderInv
  BY DEF Init, LoaderInv, NoPlan, PlanTyped, AccessesInBounds
<1>2. LoaderInv => AccessesInBounds
  BY DEF LoaderInv
<1> QED
  BY <1>1, <1>2, LoaderStep, PTL DEF Spec
=============================================================================

------------------------------- MODULE Loader -------------------------------
(***************************************************************************)
(* A code object is parsed, turned into an executable image in GPU memory  *)
(* and one of its kernels is given its arguments: parse_code_object,       *)
(* executable_image_requirements, materialize_executable_image, and the    *)
(* kernel argument part of a launch.                                       *)
(*                                                                         *)
(* access holds the ranges the last step touched in the file, the image    *)
(* and the kernarg segment.                                                *)
(***************************************************************************)
EXTENDS ExecutableImage

CONSTANTS
  Objects,   \* code objects handed to the loader
  Places,    \* GPU addresses the allocator may return
  Launches   \* [args, config] of a launch

\* The symbols and the entries of a relocation table that fits in the file are
\* what its bytes say.
ASSUME ObjectAssumption ==
  \A f \in Objects :
    /\ f \in CodeObjects
    /\ f.hash.symbols <= Len(f.symbols)
    /\ \A e \in Encodings : Value(f, Tags(e).size) <= f.size => EntryCount(f, e) <= Len(f[e])

ASSUME LaunchAssumption == \A l \in Launches : l.args \in Seq(Nat)

VARIABLES
  object,    \* the code object
  pc,        \* the step to take, or "refused", "launched"
  error,     \* why the object or the launch was refused
  kernels,   \* CodeObject::kernels
  plan,      \* CodeObject::load_plan
  gpu,       \* address of the allocation
  image,     \* its cells
  index,     \* operation of the current loop
  launch,    \* the launch under way
  buffer,    \* its kernarg segment
  access

vars == <<object, pc, error, kernels, plan, gpu, image, index, launch, buffer, access>>

NoPlan == [base |-> 0, size |-> 0, alignment |-> 1, copies |-> <<>>, zero_fills |-> <<>>,
           protections |-> <<>>, relocations |-> <<>>]
NoLaunch == [kernel |-> 0, args |-> <<>>, config |-> [grid |-> <<1, 1, 1>>, block |-> <<1, 1, 1>>, lds |-> 0]]
NoImage == [x \in {} |-> 0]

Span(space, offset, size) == [space |-> space, offset |-> offset, size |-> size]

Init ==
  /\ object \in Objects /\ pc = "segments" /\ error = "none"
  /\ kernels = <<>> /\ plan = NoPlan /\ gpu = 0 /\ image = NoImage /\ index = 1
  /\ launch = NoLaunch /\ buffer = NoImage /\ access = {}

\* A step whose checks pass touches the ranges and goes on; it refuses
\* otherwise.
Check(at, ok, why, ranges, next) ==
  /\ pc = at
  /\ IF ok THEN pc' = next /\ access' = ranges /\ UNCHANGED error
           ELSE pc' = "refused" /\ access' = {} /\ error' = why

-----------------------------------------------------------------------------
(* parse_code_object *)

ParseSegments ==
  /\ Check("segments", parse_segments(object), "parse",
           {Span("file", 0, HeaderSize),
            Span("file", object.header_offset, Len(object.headers) * ProgramHeaderSize)},
           "note")
  /\ UNCHANGED <<object, kernels, plan, gpu, image, index, launch, buffer>>

HasMetadata(f) == \E i \in DOMAIN f.notes : f.notes[i].amdgpu

\* Without metadata the code object has no kernels.
FindNote ==
  /\ Check("note", find_metadata_note(object), "parse",
           {Span("file", h.file_offset, h.file_size) : h \in Range(Kind(object, "note"))},
           IF HasMetadata(object) THEN "document" ELSE "plan")
  /\ UNCHANGED <<object, kernels, plan, gpu, image, index, launch, buffer>>

DecodeDocument ==
  /\ Check("document", decode_metadata_document(object), "parse", {}, "symbols")
  /\ UNCHANGED <<object, kernels, plan, gpu, image, index, launch, buffer>>

TableRanges(f) ==
  {Span("file", d.file_offset, d.file_size) : d \in Range(Kind(f, "dynamic"))}
    \cup {Span("file", HashOffset(f, HashHeaderSize), HashHeaderSize),
          Span("file", SymbolsOffset(f), f.hash.symbols * SymbolSize)}

ReadSymbols ==
  /\ Check("symbols", read_kernel_symbols(object), "parse",
           TableRanges(object) \cup {Span("file", StringsOffset(object), Value(object, "STRSZ"))},
           "kernels")
  /\ UNCHANGED <<object, kernels, plan, gpu, image, index, launch, buffer>>

DecodeKernels ==
  LET k == object.kernels
      ok == \A i \in DOMAIN k : find_kernel_symbol(object, k[i]) /\ decode_kernel_descriptor(object, k[i])
  IN  /\ Check("kernels", ok, "parse",
               {Span("file", DescriptorOffset(object, x), DescriptorSize) : x \in Range(k)}, "plan")
      /\ kernels' \in IF ok THEN Kernels(object) ELSE {<<>>}
      /\ UNCHANGED <<object, plan, gpu, image, index, launch, buffer>>

HasRelocations(f) == \E e \in Encodings : HasEntries(f, e)

BuildPlan ==
  LET tables == /\ read_dynamic_relocation_info(object)
                /\ \A e \in Encodings : validate_relocation_table_info(object, e)
                /\ validate_disjoint_relocation_tables(object)
      ok == /\ tables
            /\ HasRelocations(object) =>
                 /\ read_symbol_count(object) /\ read_dynamic_symbols(object)
                 /\ \A e \in Encodings : read_relocation_table(object, e)
  IN  /\ Check("plan", ok, "parse",
               IF HasRelocations(object)
               THEN TableRanges(object) \cup
                    {Span("file", TableOffset(object, e), Value(object, Tags(e).size)) :
                       e \in {x \in Encodings : HasEntries(object, x)}}
               ELSE {},
               "requirements")
      /\ IF ok THEN \E p \in build_load_plan(object),
                        r \in IF HasRelocations(object) THEN append_relocations(object) ELSE {<<>>} :
                     plan' = [p EXCEPT !.relocations = r]
               ELSE UNCHANGED plan
      /\ UNCHANGED <<object, kernels, gpu, image, index, launch, buffer>>

-----------------------------------------------------------------------------
(* executable_image_requirements, the allocation, and the image *)

Require ==
  LET e == validate_plan(plan, kernels, object.size)
  IN  /\ Check("requirements", e = "none", e, {}, "allocate")
      /\ UNCHANGED <<object, kernels, plan, gpu, image, index, launch, buffer>>

\* The transport may fail; the memory holds whatever it held before.
Allocate ==
  \E ok \in BOOLEAN :
    /\ Check("allocate", ok, "AllocationFailed", {}, "bind")
    /\ IF ok THEN /\ gpu' \in Places
                  /\ image' = [x \in 0 .. allocation_size(plan) - 1 |-> Base - 1]
             ELSE UNCHANGED <<gpu, image>>
    /\ UNCHANGED <<object, kernels, plan, index, launch, buffer>>

Bind ==
  LET e == bind_image(plan, kernels, gpu)
  IN  /\ Check("bind", e = "none", e, {}, "clear")
      /\ UNCHANGED <<object, kernels, plan, gpu, image, index, launch, buffer>>

Clear ==
  /\ pc = "clear" /\ pc' = "copy" /\ index' = 1
  /\ image' = [x \in DOMAIN image |-> 0]
  /\ access' = {Span("image", 0, allocation_size(plan))}
  /\ UNCHANGED <<object, error, kernels, plan, gpu, launch, buffer>>

\* One round of a loop over ops, or its end
Loop(at, ops, next) ==
  /\ pc = at
  /\ IF index \in DOMAIN ops THEN pc' = at /\ index' = index + 1 ELSE pc' = next /\ index' = 1
  /\ UNCHANGED <<object, error, kernels, plan, gpu, launch, buffer>>

Copy ==
  /\ Loop("copy", plan.copies, "zero")
  /\ IF index \in DOMAIN plan.copies
     THEN LET c == plan.copies[index]
          IN  /\ image' = copy_cells(plan, image, c)
              /\ access' = {Span("file", c.file_offset, c.file_size),
                            Span("image", c.virtual_address - plan.base, c.file_size)}
     ELSE access' = {} /\ UNCHANGED image

Zero ==
  /\ Loop("zero", plan.zero_fills, "relocate")
  /\ IF index \in DOMAIN plan.zero_fills
     THEN LET z == plan.zero_fills[index]
          IN  /\ image' = zero_cells(plan, image, z)
              /\ access' = {Span("image", z.virtual_address - plan.base, z.size)}
     ELSE access' = {} /\ UNCHANGED image

Relocate ==
  /\ Loop("relocate", plan.relocations, "loaded")
  /\ IF index \in DOMAIN plan.relocations /\ plan.relocations[index].type # "NONE"
     THEN LET r == plan.relocations[index]
          IN  /\ image' = apply_relocation(plan, gpu, image, r)
              /\ access' = {Span("image", r.target - plan.base, WordSize)}
     ELSE access' = {} /\ UNCHANGED image

-----------------------------------------------------------------------------
(* Arguments of a launch *)

\* The caller passes explicit arguments only.
Launch ==
  /\ pc = "loaded"
  /\ \E i \in DOMAIN kernels, l \in Launches :
       LET k == kernels[i]
       IN  /\ launch' = [kernel |-> i, args |-> l.args, config |-> l.config]
           /\ Check("loaded", Len(l.args) <= k.explicit, "arguments",
                    {Span("kernarg", 0, Len(l.args))}, "populate")
           /\ buffer' = IF Len(l.args) <= k.explicit THEN materialize_kernarg_buffer(k, l.args) ELSE NoImage
           /\ index' = IF first_hidden(k) = 0 THEN Len(k.arguments) + 1 ELSE first_hidden(k)
           /\ UNCHANGED <<object, kernels, plan, gpu, image>>

\* One round of populate_light_rocr_hidden_kernargs
Populate ==
  LET k == kernels[launch.kernel]
      a == k.arguments[index]
      write == index \in DOMAIN k.arguments /\ Written(a.kind)
  IN  /\ Check("populate", valid_config(launch.config) /\ (write => argument_fits(k, a)),
               IF valid_config(launch.config) THEN "hidden" ELSE "config",
               IF write THEN {Span("kernarg", a.offset, a.size)} ELSE {},
               IF index + 1 \in DOMAIN k.arguments THEN "populate" ELSE "launched")
      /\ buffer' = IF write /\ pc' # "refused"
                   THEN write_argument(buffer, a, HiddenValue(a, launch.config)) ELSE buffer
      /\ index' = index + 1
      /\ UNCHANGED <<object, kernels, plan, gpu, image, launch>>

Next ==
  \/ ParseSegments \/ FindNote \/ DecodeDocument \/ ReadSymbols \/ DecodeKernels \/ BuildPlan
  \/ Require \/ Allocate \/ Bind \/ Clear \/ Copy \/ Zero \/ Relocate
  \/ Launch \/ Populate

Spec == Init /\ [][Next]_vars

-----------------------------------------------------------------------------
(* Properties *)

Extent(space) ==
  CASE space = "file" -> object.size
    [] space = "image" -> allocation_size(plan)
    [] space = "kernarg" -> kernels[launch.kernel].kernarg_size

\* Every range the loader reads lies in the code object it was given, every
\* range it writes in the allocation it asked for, whatever offsets, sizes
\* and addresses the code object states: the readers of the ELF, the
\* metadata and the load plan, materialize_executable_image and
\* populate_light_rocr_hidden_kernargs access memory only behind their range
\* checks, each written against another table.
AccessesInBounds ==
  \A a \in access : a.offset >= 0 /\ a.size >= 0 /\ a.offset + a.size <= Extent(a.space)

\* What the segments and raw relocation entries of the object mean
Occupied(f) == {s \in Range(load_segments(f)) : s.memory_size # 0}
ImageBase(f) == Min({s.virtual_address : s \in Occupied(f)})
ImageEnd(f) == Max({s.virtual_address + s.memory_size : s \in Occupied(f)})
Rounded(f) == ((ImageEnd(f) - ImageBase(f) + PageSize - 1) \div PageSize) * PageSize
Entries(f) == {p \in Encodings \X (1 .. f.size) : p[2] <= EntryCount(f, p[1])}
Entry(f, p) == f[p[1]][p[2]]
Writers(f) == {p \in Entries(f) : Entry(f, p).type # "NONE"}

PlainCell(f, a) ==
  LET s == {x \in Occupied(f) : a \in x.virtual_address .. x.virtual_address + x.file_size - 1}
  IN  IF s = {} THEN 0 ELSE LET x == CHOOSE x \in s : TRUE IN Cells[x.file_offset + a - x.virtual_address]

RelocatedWord(f, p, place) ==
  LET r == Entry(f, p)
      s == Symbol(f, r.symbol)
      bias == place - ImageBase(f)
      addend == IF p[1] = "rela" THEN r.addend
                ELSE PlainCell(f, r.target) + Base * PlainCell(f, r.target + 1)
  IN  (addend + (CASE r.type = "RELATIVE64" -> bias
                   [] s.section = "absolute" -> s.value
                   [] OTHER -> s.value + bias)) % (WordMax + 1)

MeantCell(f, place, x) ==
  LET a == ImageBase(f) + x
      w == {p \in Writers(f) : a - Entry(f, p).target \in 0 .. WordSize - 1}
  IN  IF w = {} THEN PlainCell(f, a)
      ELSE LET p == CHOOSE p \in w : TRUE IN Digit(RelocatedWord(f, p, place), a - Entry(f, p).target)

\* What makes a parsed object unloadable at a place
Justified(f, e) ==
  CASE e \in {"parse", "AllocationFailed", "arguments", "config"} -> TRUE
    [] e = "EmptyImage" -> Occupied(f) = {}
    [] e = "ImageSizeOverflow" -> Rounded(f) > WordMax
    [] e = "UnsupportedAlignment" ->
         \E s \in Occupied(f) : s.alignment > PageSize \/ ImageBase(f) % Max({1, s.alignment}) # 0
    [] e = "UnsupportedRelocations" ->
         \/ \E p \in Writers(f) : \/ Entry(f, p).type \notin {"ABS64", "RELATIVE64"}
                                  \/ Entry(f, p).type = "RELATIVE64" /\ Entry(f, p).symbol # 0
         \/ \E p, q \in Writers(f) : p # q /\ Entry(f, p).target - Entry(f, q).target \in 0 .. WordSize - 1
    [] e = "InvalidKernelDescriptor" -> ImageBase(f) % DescriptorSize # 0
    [] e = "GpuAddressOverflow" ->
         \/ gpu + Rounded(f) > WordMax \/ gpu < ImageBase(f)
         \/ \E p \in Writers(f) :
              LET s == Symbol(f, Entry(f, p).symbol)
              IN  /\ Entry(f, p).type = "ABS64" /\ s.section # "absolute"
                  /\ gpu - ImageBase(f) + s.value > WordMax
    [] OTHER -> FALSE

\* The reader builds the plan and validate_plan checks it again with its own
\* arithmetic.  The two agree: an object that was parsed is refused only for
\* what the segments and relocation entries really ask that an image cannot
\* give (no check of the plan's order, overlap, coverage or protection ever
\* fails), and an object that is loaded has in GPU memory, cell by cell, the
\* file contents, zeros and relocated words those entries mean, whatever
\* their order in the file.
LoadFaithful ==
  /\ pc = "refused" => Justified(object, error)
  /\ pc = "loaded" => image = [x \in 0 .. Rounded(object) - 1 |-> MeantCell(object, gpu, x)]

\* A kernel that is dispatched finds the caller's bytes, every hidden
\* argument its metadata lists (in whatever order) with the value of this
\* launch, and zeros elsewhere; once the loader accepted the layout, writing
\* the hidden arguments cannot fail.
\* populate_light_rocr_hidden_kernargs relies on the loader's sort and on its
\* refusal of explicit arguments behind hidden ones.
KernargExact ==
  /\ error # "hidden"
  /\ pc = "launched" =>
       LET k == object.kernels[launch.kernel]
           h == {a \in Range(k.args) : Written(a.kind)}
       IN  \A x \in 0 .. k.kernarg_size - 1 :
             LET w == {a \in h : x \in a.offset .. a.offset + a.size - 1}
             IN  buffer[x] = IF w # {} THEN LET a == CHOOSE a \in w : TRUE
                                            IN  Digit(HiddenValue(a, launch.config), x - a.offset)
                             ELSE IF x < Len(launch.args) THEN launch.args[x + 1] ELSE 0
=============================================================================

-------------------------- MODULE ExecutableImage --------------------------
(***************************************************************************)
(* The executable image of a load plan (light-rocr/runtime/                *)
(* executable_image.cpp): the plan is checked again without trust in the   *)
(* reader, placed at a GPU address and written cell by cell.               *)
(***************************************************************************)
EXTENDS KernelMetadata

image_in(plan, address, size) ==
  /\ size # 0 /\ address >= plan.base
  /\ range_is_in_file(address - plan.base, size, plan.size)

\* size is the field that holds the size of an operation.
operations_are_ordered(ops, size) ==
  \A i \in DOMAIN ops :
    /\ ops[i][size] # 0 /\ Adds(ops[i].virtual_address, ops[i][size])
    /\ i > 1 => ops[i].virtual_address >= ops[i - 1].virtual_address + ops[i - 1][size]

\* The two lists are walked together, past the range that ends first.
copy_and_zero_fill_ranges_overlap(plan) ==
  LET c == plan.copies
      z == plan.zero_fills
      CopyEnd(i) == c[i].virtual_address + c[i].file_size
      ZeroEnd(j) == z[j].virtual_address + z[j].size
      meet[p \in (1 .. Len(c) + 1) \X (1 .. Len(z) + 1)] ==
        LET i == p[1]
            j == p[2]
        IN  IF i > Len(c) \/ j > Len(z) THEN FALSE
            ELSE IF c[i].virtual_address < ZeroEnd(j) /\ z[j].virtual_address < CopyEnd(i) THEN TRUE
            ELSE IF CopyEnd(i) <= z[j].virtual_address THEN meet[<<i + 1, j>>]
            ELSE meet[<<i, j + 1>>]
  IN  meet[<<1, 1>>]

\* Both look at the last operation that starts at or before the address.
range_has_protection(plan, address, size, flags) ==
  LET i == Highest({j \in DOMAIN plan.protections : plan.protections[j].virtual_address <= address})
  IN  /\ i # 0 /\ flags \subseteq plan.protections[i].flags
      /\ range_is_in_file(address - plan.protections[i].virtual_address, size,
                          plan.protections[i].memory_size)

range_is_file_backed(plan, address, size) ==
  LET i == Highest({j \in DOMAIN plan.copies : plan.copies[j].virtual_address <= address})
  IN  /\ i # 0
      /\ range_is_in_file(address - plan.copies[i].virtual_address, size, plan.copies[i].file_size)

\* Only these relocations can be applied.
image_relocation_width(type) == IF type \in {"ABS64", "RELATIVE64"} THEN WordSize ELSE 0

relocation_accepted(plan, r) ==
  /\ r.type \in {"NONE", "ABS64", "RELATIVE64"}
  /\ r.type = "RELATIVE64" => r.symbol = 0
  /\ r.type # "NONE" => image_in(plan, r.target, WordSize) /\ Adds(r.target, WordSize)

(* Mutation: neighbours may overlap. *)
TargetsUnordered(plan) ==
  \A i \in DOMAIN plan.relocations : relocation_accepted(plan, plan.relocations[i])

\* Each target begins at or after the end of the one before it.
relocations_accepted(plan) ==
  LET w == SelectSeq(plan.relocations, LAMBDA r : image_relocation_width(r.type) # 0)
  IN  /\ \A i \in DOMAIN plan.relocations : relocation_accepted(plan, plan.relocations[i])
      /\ \A i \in 2 .. Len(w) : w[i].target >= w[i - 1].target + WordSize

allocation_size(plan) == ((plan.size + PageSize - 1) \div PageSize) * PageSize

kernel_accepted(plan, k) ==
  /\ image_in(plan, k.descriptor, DescriptorSize)
  /\ k.descriptor % DescriptorSize = 0
  /\ (k.descriptor - plan.base) % DescriptorSize = 0
  /\ range_is_file_backed(plan, k.descriptor, DescriptorSize)
  /\ k.entry = k.descriptor + k.entry_offset
  /\ range_is_file_backed(plan, k.entry, 1)
  /\ range_has_protection(plan, k.entry, 1, {"x"})

\* The checks of validate_plan in their order, with the error each reports
PlanChecks(plan, kernels, size) ==
  <<[error |-> "EmptyImage", ok |-> plan.size # 0],
    [error |-> "ImageSizeOverflow", ok |-> Adds(plan.base, plan.size)],
    [error |-> "UnsupportedAlignment",
     ok |-> /\ is_power_of_two(plan.alignment) /\ plan.alignment <= PageSize
            /\ plan.base % plan.alignment = 0],
    [error |-> "ImageSizeOverflow", ok |-> Adds(plan.size, PageSize - 1)],
    [error |-> "InvalidCopyOperation",
     ok |-> /\ operations_are_ordered(plan.copies, "file_size")
            /\ \A i \in DOMAIN plan.copies :
                 LET c == plan.copies[i]
                 IN  /\ range_is_in_file(c.file_offset, c.file_size, size)
                     /\ image_in(plan, c.virtual_address, c.file_size)],
    [error |-> "InvalidZeroFillOperation",
     ok |-> /\ operations_are_ordered(plan.zero_fills, "size")
            /\ \A z \in Range(plan.zero_fills) : image_in(plan, z.virtual_address, z.size)],
    [error |-> "UnsupportedRelocations", ok |-> relocations_accepted(plan)],
    [error |-> "InvalidZeroFillOperation", ok |-> ~copy_and_zero_fill_ranges_overlap(plan)],
    [error |-> "InvalidProtectionOperation",
     ok |-> /\ operations_are_ordered(plan.protections, "memory_size")
            /\ \A p \in Range(plan.protections) : /\ p.flags \subseteq {"r", "w", "x"}
                                                  /\ image_in(plan, p.virtual_address, p.memory_size)
            /\ \A c \in Range(plan.copies) : range_has_protection(plan, c.virtual_address, c.file_size, {})
            /\ \A z \in Range(plan.zero_fills) : range_has_protection(plan, z.virtual_address, z.size, {})],
    [error |-> "InvalidKernelDescriptor",
     ok |-> \A k \in Range(kernels) : kernel_accepted(plan, k)]>>

\* The error of the first check that fails
validate_plan(plan, kernels, size) ==
  LET c == PlanChecks(plan, kernels, size)
      i == Lowest({j \in DOMAIN c : ~c[j].ok})
  IN  IF i = 0 THEN "none" ELSE c[i].error

-----------------------------------------------------------------------------
(* Placement *)

\* translate_executable_address finds the range and its alignment in place.
translates(plan, gpu, address, size, alignment) ==
  /\ image_in(plan, address, size) /\ Adds(gpu, address - plan.base)
  /\ (gpu + (address - plan.base)) % alignment = 0

load_bias(plan, gpu) == gpu - plan.base

BindChecks(plan, kernels, gpu) ==
  <<[error |-> "MisalignedAllocation",
     ok |-> gpu % PageSize = 0 /\ gpu % plan.alignment = plan.base % plan.alignment],
    [error |-> "GpuAddressOverflow", ok |-> Adds(gpu, allocation_size(plan)) /\ gpu >= plan.base],
    [error |-> "GpuAddressOverflow",
     ok |-> \A r \in Range(plan.relocations) :
              r.type = "ABS64" /\ ~r.absolute => Adds(load_bias(plan, gpu), r.symbol_value)],
    [error |-> "InvalidVirtualAddress",
     ok |-> \A k \in Range(kernels) : /\ translates(plan, gpu, k.descriptor, DescriptorSize, DescriptorSize)
                                      /\ translates(plan, gpu, k.entry, 1, 1)]>>

bind_image(plan, kernels, gpu) ==
  LET c == BindChecks(plan, kernels, gpu)
      i == Lowest({j \in DOMAIN c : ~c[j].ok})
  IN  IF i = 0 THEN "none" ELSE c[i].error

-----------------------------------------------------------------------------
(* Cells *)

Word(cells, x) == cells[x] + Base * cells[x + 1]

Store(image, x, v) == [image EXCEPT ![x] = Digit(v, 0), ![x + 1] = Digit(v, 1)]

copy_cells(plan, image, c) ==
  [x \in DOMAIN image |->
     LET d == x - (c.virtual_address - plan.base)
     IN  IF d \in 0 .. c.file_size - 1 THEN Cells[c.file_offset + d] ELSE image[x]]

zero_cells(plan, image, z) ==
  [x \in DOMAIN image |->
     IF x - (z.virtual_address - plan.base) \in 0 .. z.size - 1 THEN 0 ELSE image[x]]

\* A REL addend is what the target holds; sums wrap.
apply_relocation(plan, gpu, image, r) ==
  LET x == r.target - plan.base
      addend == IF r.encoding = "rel" THEN Word(image, x) ELSE r.addend
      symbol == IF r.type = "RELATIVE64" THEN load_bias(plan, gpu)
                ELSE IF r.absolute THEN r.symbol_value
                ELSE load_bias(plan, gpu) + r.symbol_value
  IN  Store(image, x, (symbol + addend) % (WordMax + 1))
=============================================================================

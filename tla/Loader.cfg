\* Cells of eight values: a uint64 is a number below 64.  The allocator may
\* return page-aligned addresses only.
CONSTANTS
  Base = 8
  PageSize = 4
  DescriptorSize = 2
  HeaderSize = 1
  ProgramHeaderSize = 1
  DynamicSize = 1
  SymbolSize = 1
  RelSize = 1
  RelaSize = 1
  Cells <- MCCells
  Objects <- MCObjects
  Places <- MCPlaces
  Launches <- MCLaunches
SPECIFICATION Spec
INVARIANTS AccessesInBounds LoadFaithful KernargExact
\* Loading ends.
CHECK_DEADLOCK FALSE

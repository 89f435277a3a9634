---------------------------- MODULE HalCommands ----------------------------
(***************************************************************************)
(* What a command of the IREE HAL does to memory.  A buffer has Size       *)
(* cells; a reference names a buffer, or a slot of a binding table, and a  *)
(* range of cells.                                                         *)
(***************************************************************************)
EXTENDS Integers, Sequences, SequencesExt

CONSTANTS Buffers, Nil,
          Size,      \* cells of a buffer
          Modulus    \* values of a cell

Cells == 0 .. Size - 1
Undefined == -1
NoMem == <<>>
Whole == -1  \* IREE_HAL_WHOLE_BUFFER

(* The references of a command; a slot the table does not bind is Nil *)
CmdRefs(c) ==
  CASE c.k = "dispatch" -> Range(c.args)
    [] c.k = "copy" -> {c.src, c.dst}
    [] c.k \in {"fill", "update"} -> {c.dst}
    [] c.k \in {"read", "write"} -> {c.ref}
    [] OTHER -> {}
Bound(c) == \A r \in CmdRefs(c) : r.buf # Nil

Span(r) == r.off .. (IF r.len = Whole THEN Size ELSE r.off + r.len) - 1
Store(m, b, f) == IF m[b] = NoMem THEN m ELSE [m EXCEPT ![b] = f]

(* A kernel adds its constants to a cell of its first argument and stores  *)
(* the sum in a cell of its last one.                                      *)
Add(x, y) == IF x = Undefined THEN Undefined ELSE (x + y) % Modulus
KernelEffect(m, args, const) ==
  IF args = <<>> THEN m
  ELSE LET src == args[1]
           dst == args[Len(args)]
       IN IF m[src.buf] = NoMem \/ m[dst.buf] = NoMem THEN m
          ELSE [m EXCEPT ![dst.buf][dst.off] = Add(m[src.buf][src.off], const)]

(* stage is the contents of the source of a copy, read now or earlier *)
Effect(m, stage, c) ==
  CASE c.k = "dispatch" -> IF c.groups = 0 THEN m ELSE KernelEffect(m, c.args, c.const)
    [] c.k \in {"fill", "update"} ->
         Store(m, c.dst.buf, [x \in Cells |-> IF x \in Span(c.dst) THEN c.val ELSE m[c.dst.buf][x]])
    [] c.k = "copy" ->
         Store(m, c.dst.buf, [x \in Cells |-> IF x \in Span(c.dst)
                                              THEN stage[c.src.off + x - c.dst.off]
                                              ELSE m[c.dst.buf][x]])
    [] c.k = "alloca" -> [m EXCEPT ![c.buf] = [x \in Cells |-> Undefined]]
    [] OTHER -> m
=============================================================================

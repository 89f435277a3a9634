------------------------------ MODULE Outcomes ------------------------------
(***************************************************************************)
(* Functions that make system calls which may fail, as operators from a    *)
(* world w to the set of worlds they may leave behind: w.ok says whether   *)
(* the function succeeded, w.faults how many more calls may fail and w.may *)
(* which kinds of call may.                                                *)
(***************************************************************************)
EXTENDS Integers

Failed(w) == [w EXCEPT !.ok = FALSE]

\* The outcome in which a system call of this kind fails with the world at w.
Fails(w, kind) ==
  IF kind \in w.may /\ w.faults > 0
  THEN {[w EXCEPT !.ok = FALSE, !.faults = @ - 1]}
  ELSE {}

FailsAny(w, kinds) == UNION {Fails(w, k) : k \in kinds}

\* A system call: it succeeds and leaves `done', or fails and changes nothing.
Syscall(w, kind, done) == {done} \cup Fails(w, kind)

\* The next statement runs unless an early return was taken.
Then(W, F(_)) == UNION {IF w.ok THEN F(w) ELSE {w} : w \in W}

\* A clean-up after a failure: it runs, and the failure stands.
Undone(W, F(_)) ==
  UNION {{Failed(v) : v \in F([w EXCEPT !.ok = TRUE])} : w \in W}
=============================================================================

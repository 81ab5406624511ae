----------------------------- MODULE MCFiberPool -----------------------------
(* Small instances of the pool for TLC. *)
EXTENDS FiberPoolProperties, TLC

(* The configurations main() of benchmark.cpp tries. *)
Benchmark ==
  {<<"round_robin", FALSE>>}
    \cup {"shared_work", "work_stealing"} \X BOOLEAN

(* Work stealing with threads that look for work all the time. *)
Rotating == {<<"work_stealing", FALSE>>}

SharedWork == {<<"shared_work", FALSE>>}

(* Fibers of equal behaviour are interchangeable. *)
Symmetry == Permutations(Fibers \ Throwing)
=============================================================================

------------------------------- MODULE MCHeaps -------------------------------
(***************************************************************************)
(* Small instances of the allocators; heap_4.c has the largest.            *)
(***************************************************************************)
EXTENDS Heaps, TLC

CONSTANTS t1, t2

MCTasks == {t1, t2}
TaskSymmetry == Permutations(MCTasks)

\* The second region begins where the first one ends.
MCRegions == <<[at |-> 3, size |-> 15], [at |-> 18, size |-> 14]>>
=============================================================================

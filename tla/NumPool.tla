------------------------------ MODULE NumPool -------------------------------
(***************************************************************************)
(* NumPool (NumPool.cc): numbers to be given out, file descriptors, open   *)
(* file ids and ports.  Every operation holds the pool's lock throughout.  *)
(***************************************************************************)
EXTENDS Integers, FiniteSets, FiniteSetsExt

NewPool(min, max) == min .. max

\* The smallest number there is, or -1.
Allocate(pool) ==
    IF pool = {} THEN [num |-> -1, pool |-> pool]
    ELSE [num |-> Min(pool), pool |-> pool \ {Min(pool)}]

\* Any number there is, or -1.
AllocateRandom(pool) ==
    IF pool = {} THEN {[num |-> -1, pool |-> pool]}
    ELSE {[num |-> n, pool |-> pool \ {n}] : n \in pool}

\* Mutant: a number that is given out is given out again.
TakeAny(pool, num) == [ok |-> TRUE, pool |-> pool \ {num}]

Take(pool, num) == [ok |-> num \in pool, pool |-> pool \ {num}]

Release(pool, num) == pool \cup {num}
=============================================================================

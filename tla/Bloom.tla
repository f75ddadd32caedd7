------------------------------- MODULE Bloom -------------------------------
(***************************************************************************)
(* src/bloom.rs: the arithmetic of the filter, with scaled widths.  A key  *)
(* has two halves of Half values each; its positions are those of double   *)
(* hashing with an odd step.  The words are one set of bits here.          *)
(***************************************************************************)
EXTENDS Integers, FiniteSets, FiniteSetsExt

CONSTANTS Half,       \* 2^32
          K,          \* 7
          PerKey,     \* 10 bits per key
          Word,       \* 64
          Powers      \* the powers of two below 2^64

\* Powers has the half of each member down to 1, and its double below 2^64.
ASSUME BloomAssumption ==
    /\ {Half, K, PerKey} \subseteq Nat \ {0} /\ Powers \subseteq 1 .. Half * Half - 1
    /\ \A p \in Powers : p = 1 \/ \E q \in Powers : p = 2 * q
    /\ \A p \in Powers : 2 * p = Half * Half \/ 2 * p \in Powers
    /\ Word \in Powers /\ K <= Word

\* new: (n_keys * 10).next_power_of_two().max(64), which is mask + 1.
BitsFor(n_keys) == Max({Min({ p \in Powers : p >= n_keys * PerKey }), Word})

\* step in pos; and a faulty variant that may be even.
StepAny(k) == k \div Half
StepOf(k) == IF (k \div Half) % 2 = 1 THEN k \div Half ELSE k \div Half + 1

\* Both sums wrap at the width of a key, of which mask keeps the low bits.
pos(size, k, i) == ((k + i * StepOf(k)) % (Half * Half)) % size

Positions(size, k) == { pos(size, k, i) : i \in 0 .. K - 1 }
=============================================================================

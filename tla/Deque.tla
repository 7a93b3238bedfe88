-------------------------------- MODULE Deque --------------------------------
(***************************************************************************)
(* What the code does to a VecDeque or a Vec: retain and stable sort, as    *)
(* selections of indices.  A selection is given by a function `key` from    *)
(* the chosen indices to distinct numbers; the result lists them in         *)
(* increasing order of key.  SelectSeq and SortSeq would serve TLC as well: *)
(* these definitions are not recursive, so facts about them can be proved.  *)
(***************************************************************************)
EXTENDS Integers, Sequences, FiniteSets

\* The element of DOMAIN key with the k-th smallest key.
Nth(key, k) ==
    CHOOSE i \in DOMAIN key :
        Cardinality({j \in DOMAIN key : key[j] <= key[i]}) = k

\* The elements of s at the indices in DOMAIN key, by increasing key.
Arrange(s, key) == [k \in 1..Cardinality(DOMAIN key) |-> s[Nth(key, k)]]

\* VecDeque::retain: the elements of s at the indices in I, in their order.
Keep(s, I) == Arrange(s, [i \in I |-> i])
=============================================================================

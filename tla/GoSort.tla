------------------------------- MODULE GoSort -------------------------------
(***************************************************************************)
(* The parts of Go's package sort that the code relies on (external).      *)
(***************************************************************************)
EXTENDS Integers, Sequences

\* sort.Search: the first index that passes the test, by bisection.  The test
\* is given as a sequence; indices are one higher than in Go, so Len(test) + 1
\* says that no index passes.
Search(test) ==
  LET from[i \in 0..Len(test), j \in 0..Len(test)] ==
        IF i >= j THEN i
        ELSE LET h == (i + j) \div 2
             IN  IF test[h + 1] THEN from[i, h] ELSE from[h + 1, j]
  IN  from[0, Len(test)] + 1
=============================================================================

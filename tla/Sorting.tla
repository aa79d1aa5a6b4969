------------------------------- MODULE Sorting -------------------------------
(***************************************************************************)
(* Package sort, as the algorithms use it, and the loops that pick some    *)
(* elements of a slice.  What is picked is given by its indices.           *)
(***************************************************************************)
EXTENDS Integers, Sequences, FiniteSets, SequencesExt

Permuted(s, p) == [i \in DOMAIN p |-> s[p[i]]]

(* What sort.Slice may make of the elements at I: equal ones in any order. *)
SortSlice(s, I, Less(_, _)) ==
  {Permuted(s, p) : p \in {q \in SetToSeqs(I) :
     \A i, j \in DOMAIN q : i < j => ~Less(s[q[j]], s[q[i]])}}

(* What sort.SliceStable makes of it: equal elements keep their order.     *)
SortSliceStable(s, Less(_, _)) ==
  Permuted(s, CHOOSE p \in SetToSeqs(DOMAIN s) :
    \A i, j \in DOMAIN p : i < j => \/ Less(s[p[i]], s[p[j]])
                                    \/ ~Less(s[p[j]], s[p[i]]) /\ p[i] < p[j])

(* A set of numbers in their order.                                        *)
Ascending(S) ==
  CHOOSE p \in SetToSeqs(S) : \A i, j \in DOMAIN p : i < j => p[i] < p[j]
=============================================================================

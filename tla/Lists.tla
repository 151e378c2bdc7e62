-------------------------------- MODULE Lists --------------------------------
(***************************************************************************)
(* The list comprehension of Python, as a recursive function: the proofs   *)
(* are about it, and they cannot expand the SelectSeq of the library.      *)
(***************************************************************************)
EXTENDS Integers, Sequences

\* The elements of s at the places in I, in order.
Those(s, I) ==
  LET upto[i \in 0..Len(s)] ==
        IF i = 0 THEN <<>> ELSE IF i \in I THEN Append(upto[i - 1], s[i]) ELSE upto[i - 1]
  IN  upto[Len(s)]

\* [x for x in s if Test(x)]
Filter(s, Test(_)) == Those(s, {i \in DOMAIN s : Test(s[i])})
=============================================================================

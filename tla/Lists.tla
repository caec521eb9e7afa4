-------------------------------- MODULE Lists --------------------------------
(* What the code does with its vectors in one go: retaining some elements    *)
(* and adding numbers up.                                                    *)
EXTENDS Integers, Sequences

(* Vec::retain: the elements that are in keep, in their order. *)
Sift(s, keep) ==
    LET sift[i \in 0..Len(s)] ==
            IF i = 0 THEN <<>>
            ELSE IF s[i] \in keep THEN Append(sift[i-1], s[i]) ELSE sift[i-1]
    IN sift[Len(s)]

(* A running sum: the first i numbers of f. *)
UpTo(f, i) ==
    LET sum[k \in 0..Len(f)] == IF k = 0 THEN 0 ELSE sum[k-1] + f[k]
    IN sum[i]

Total(f) == UpTo(f, Len(f))
=============================================================================

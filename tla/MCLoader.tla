------------------------------- MODULE MCLoader -------------------------------
(* Small instances of Loader for TLC: sizes below, at and above the defaults *)
(* and the options.                                                          *)
EXTENDS Loader

SmallDefault == [k \in Kind |-> 2]
TwoSizes == {2, 3}
ThreeSizes == {2, 3, 4}
SmallOptions == {1, 4, 8}  \* a memory cost of 0, 2, and 4, which is 0 modulo 4
=============================================================================

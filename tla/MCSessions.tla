------------------------------ MODULE MCSessions ------------------------------
(* Neither the browsers nor the visitors are told apart by anything.          *)
EXTENDS Sessions, TLC

Interchangeable == Permutations(Browsers) \cup Permutations(Visitors)
================================================================================

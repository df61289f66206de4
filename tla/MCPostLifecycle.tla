--------------------------- MODULE MCPostLifecycle ---------------------------
(* PostLifecycle with the posts as interchangeable model values.           *)
EXTENDS PostLifecycle, TLC

PostSymmetry == Permutations(Posts)
=============================================================================

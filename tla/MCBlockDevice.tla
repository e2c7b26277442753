----------------------------- MODULE MCBlockDevice -----------------------------
(* Requests of one segment, of two, and the largest the small device takes. *)
EXTENDS BlockDevice, TLC

SmallShapes == {{1}, {1, 3}}
TagSymmetry == Permutations(Tags)
===============================================================================

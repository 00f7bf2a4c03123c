--------------------------- MODULE MCCollectives ----------------------------
(* Two peers, packages of two words, two packages each: the smallest       *)
(* transfer in which a package follows another on every session.           *)
EXTENDS Collectives
=============================================================================

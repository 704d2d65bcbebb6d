-------------------------- MODULE MCSdbClLifecycle --------------------------
(* One index name and one key pattern (Unique and NotNull still vary, so *)
(* identical, conflicting and legacy indexes all occur), and a collection  *)
(* that exists with any index of that name and either auto-increment.    *)
EXTENDS SdbClLifecycle

CONSTANTS s1, s2, i1, k1

MCSessions == {s1, s2}
MCIndexNames == {i1}
MCKeys == {k1}
=============================================================================

---------------------------- MODULE MCSdbCatalog ----------------------------
(* Two sessions, two collection names, one call per session.               *)
EXTENDS SdbCatalog

CONSTANTS s1, s2, a, b

MCSessions == {s1, s2}
MCClNames == {a, b}
=============================================================================

--------------------------- MODULE MCSdbStatistics ---------------------------
(* Up to three detail documents; nodes with 4 KB, 8 KB and 64 KB pages and *)
(* with the page size missing, so that the smallest page size is any of    *)
(* them and rescaling by 1, 2 and 16 all happen.                           *)
EXTENDS SdbStatistics

MCPageSizes == {0, 4096, 8192, 65536}
MCPageCounts == {1, 3}
MCAmounts == {2}
=============================================================================

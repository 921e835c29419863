--------------------------- MODULE MCScrapeWrite ---------------------------
(* ScrapeWrite for TLC: two runs, and a month that no partition covers. *)
EXTENDS ScrapeWrite

CONSTANTS r1, r2

\* The second instant, and the second synthetic post of run r2.
MCUncovered == {<<"instagram", 2>>, <<r2, 2>>}
=============================================================================

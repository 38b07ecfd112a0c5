--------------------------- MODULE MCResponseBody ----------------------------
(***************************************************************************)
(* The requests of MCTypedFetch, with bodies of up to three bytes and a    *)
(* timer that ends between two and three seconds.                          *)
(***************************************************************************)
EXTENDS ResponseBody, MCTypedFetch

MCChunks == {1, 2}
MCSeconds == {0, 2, 3}
MCDates == {-1, 5}
=============================================================================

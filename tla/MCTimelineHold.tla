--------------------------- MODULE MCTimelineHold ---------------------------
(* A small instance of TimelineHold for TLC.                                *)
EXTENDS TimelineHold

CONSTANTS r1, r2

MCPageAndHold == <<"page", "hold", "page">>
=============================================================================

----------------------------- MODULE MCDispatch -----------------------------
(***************************************************************************)
(* Dispatch on small instances.  The feeds hold the same articles, so that *)
(* a run meets those of an earlier run, and one repeats an article.        *)
(***************************************************************************)
EXTENDS Dispatch

CONSTANTS a1, a2

OneFeed == {<<a1, a2>>}
OverlappingFeeds == {<<a1, a2>>, <<a2, a1, a1>>}
=============================================================================

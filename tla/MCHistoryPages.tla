--------------------------- MODULE MCHistoryPages ---------------------------
(***************************************************************************)
(* Instances of HistoryPages for TLC.                                      *)
(***************************************************************************)
EXTENDS HistoryPages

\* Bound: the client walks before any event is handled.  A walk reads nothing
\* that a handler writes, and a handler nothing of a walk, so that a run of
\* both that breaks a property has a part with only one of them that does.
Apart ==
    \/ walk = NoWalk
    \/ found = {} /\ \A r \in Row : ~row[r].done
=============================================================================

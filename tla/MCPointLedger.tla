--------------------------- MODULE MCPointLedger ---------------------------
(***************************************************************************)
(* Instances of PointLedger for TLC, and what its unit tests say of them.  *)
(***************************************************************************)
EXTENDS PointLedger, TLC

Symmetry == Permutations(Request) \cup Permutations(User)

\* What the unit test of consumePoint says of one call, for any number of
\* them: a consumption that the balance does not cover is refused.
ConsumptionsAreCovered ==
    \A u \in User : InitBalance + Total(u, booked) >= 0
=============================================================================

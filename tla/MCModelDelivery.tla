--------------------------- MODULE MCModelDelivery ---------------------------
EXTENDS ModelDelivery

Opening(a, d, s) == [allowMock |-> a, demo |-> d, source |-> s]

\* A page in Demo Mode, and pages outside it: with mock fallback, without it,
\* and without it while the daemon still refuses its mock cache.
FourOpenings ==
  {Opening(FALSE, TRUE, "docker"), Opening(TRUE, FALSE, "docker"),
   Opening(FALSE, FALSE, "docker"), Opening(FALSE, FALSE, "mock")}
=============================================================================

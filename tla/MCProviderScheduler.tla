------------------------- MODULE MCProviderScheduler -------------------------
(***************************************************************************)
(* Small instances of ProviderScheduler for TLC.                           *)
(***************************************************************************)
EXTENDS ProviderScheduler, TLC

CONSTANTS network, host

TwoSlots == {network, host}

\* The order of STATIC_PROVIDER_SLOTS.
TwoRank == (network :> 0) @@ (host :> 1)

\* Every interval is one tick: a slot is not due right after it completed.
TwoIntervals == [s \in TwoSlots |-> 1]
=============================================================================

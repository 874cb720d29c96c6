----------------------------- MODULE MCTimingGate -----------------------------
(***************************************************************************)
(* The timing gate for TLC: t on either side of a threshold of 1.          *)
(***************************************************************************)
EXTENDS TimingGate

Statistics == {-2, -1, 0, 2}

=============================================================================

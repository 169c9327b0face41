---------------------------- MODULE MCCalibrate ----------------------------
(***************************************************************************)
(* Curves for calibrate: every growing curve of four levels, and every     *)
(* curve, however ragged, of two.                                          *)
(***************************************************************************)
EXTENDS Calibrate

Steps == {<<a, b, c>> \in (1..12) \X (1..12) \X (1..12) : a <= b /\ b <= c}

Growing ==
  {[v \in Knobs |-> IF v < s[1] THEN 0 ELSE IF v < s[2] THEN 1
                    ELSE IF v < s[3] THEN 2 ELSE 4] : s \in Steps}

Ragged == [Knobs -> {0, 4}]

MCCurves == Growing \cup Ragged

=============================================================================

-------------------------------- MODULE MCSd --------------------------------
EXTENDS Sd

Kind(v2, ccs, width4, blkcnt, warmup) ==
  [v2 |-> v2, ccs |-> ccs, width4 |-> width4, blkcnt |-> blkcnt, volts |-> TRUE,
   warmup |-> warmup]
TheKinds == {Kind(TRUE, TRUE, TRUE, TRUE, 1), Kind(TRUE, TRUE, FALSE, FALSE, 2),
             Kind(TRUE, FALSE, TRUE, FALSE, 1), Kind(TRUE, TRUE, TRUE, TRUE, 5),
             Kind(TRUE, FALSE, FALSE, TRUE, 6), Kind(TRUE, FALSE, FALSE, TRUE, 0),
             Kind(FALSE, FALSE, FALSE, FALSE, 1),
             [Kind(TRUE, TRUE, TRUE, TRUE, 1) EXCEPT !.volts = FALSE]}
=============================================================================

------------------------------ MODULE MCMetrics ------------------------------
(* Metrics with two handlers that count requests and observe durations.     *)
EXTENDS Metrics

CONSTANTS p1, p2

MCCallers == {p1, p2}

Inc(l) == [vec |-> "counter", label |-> l, value |-> 1]

Observe(l, value) == [vec |-> "histogram", label |-> l, value |-> value]

MCWork == [p \in MCCallers |->
              IF p = p1 THEN <<Inc("a"), Observe("a", 1)>>
                        ELSE <<Inc("b"), Observe("a", 2)>>]

MCBounds == <<1, 2>>
==============================================================================

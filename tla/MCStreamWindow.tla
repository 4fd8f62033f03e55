--------------------------- MODULE MCStreamWindow ----------------------------
(* StreamWindow with short streams: every length up to MaxLength, at most   *)
(* two places of every length up to MaxPlace, of which one may be one that  *)
(* only a window's edge makes a match.                                      *)
EXTENDS StreamWindow, FiniteSets

CONSTANTS MaxLength, MaxPlace

SmallPlaces(n) == {p \in Places(n) : p[2] - p[1] <= MaxPlace}

OfLength(n) ==
    LET P == SmallPlaces(n)
    IN  {[length |-> n, secrets |-> {p, q}, edges |-> {}] : p, q \in P}
        \cup {[length |-> n, secrets |-> {p}, edges |-> {q}] : p, q \in P}
        \cup {[length |-> n, secrets |-> {}, edges |-> {q}] : q \in P}
        \cup {[length |-> n, secrets |-> {}, edges |-> {}]}

MCStreams == UNION {OfLength(n) : n \in 0 .. MaxLength}

\* The usual shape (window larger than overlap), and the two degenerate ones.
MCWindows == {<<4, 2>>, <<2, 2>>, <<2, 3>>}
==============================================================================

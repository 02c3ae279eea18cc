---------------------------- MODULE MCTimespans ----------------------------
(***************************************************************************)
(* Short sequences of timespans over a few days for TLC.  Timespans that   *)
(* overlap are left out: the documentation forbids them.                   *)
(***************************************************************************)
EXTENDS Timespans

Spans == Timespan \ {[start |-> NoDate, end |-> NoDate]}

DisjointUpTo(n) == {s \in UNION {[1 .. k -> Spans] : k \in 1 .. n} : Disjoint(s)}

UpToThree == DisjointUpTo(3)
UpToTwo == DisjointUpTo(2)
One == DisjointUpTo(1)
JustFrom == {<<[start |-> Beginning, end |-> NoDate]>>}

\* Long functions, long constants, and every shorter combination of both.
MCPrograms ==
    [constant : One, body : UpToThree]
    \cup [constant : UpToThree, body : JustFrom]
    \cup [constant : UpToTwo, body : UpToTwo]
=============================================================================

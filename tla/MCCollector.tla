---------------------------- MODULE MCCollector ----------------------------
(* Collector instantiated for TLC: two siblings, one heap object.          *)
EXTENDS Collector

CONSTANTS s1, s2, o1, o2

MCSiblings == {s1, s2}
MCObjects == {o1}
=============================================================================

---------------------------- MODULE MCTimeWheel ----------------------------
(* Delays within an interval, of a turn and beyond it.                    *)
EXTENDS TimeWheel
Turn == SlotNum * Interval
AllDelays == {1, Turn, Turn + Interval}
=============================================================================

------------------------- MODULE MCAntiReplayWindow -------------------------
(* The anti-replay window over bitmaps of a few short words.               *)
EXTENDS AntiReplayWindow

CONSTANT MaxCounter  \* largest counter presented

ASSUME MaxCounterAssumption == MaxCounter \in Nat

MCCounters == 0 .. MaxCounter
=============================================================================

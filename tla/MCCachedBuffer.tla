--------------------------- MODULE MCCachedBuffer ---------------------------
(***************************************************************************)
(* Model checking of CachedBuffer: a ring of two slots (the constructor     *)
(* rounds three down to two) and up to six posts, so that the indices wrap  *)
(* around twice and the ring is full, half full and empty.                  *)
(***************************************************************************)
EXTENDS CachedBuffer

CONSTANTS app, loop

\* What the constructor's loop counts, and that shifting one by it gives RoundDown.
BitLength[n \in Nat] == IF n = 0 THEN 0 ELSE 1 + BitLength[n \div 2]
ASSUME CapacityShifted == \A n \in 1 .. 1024 : RoundDown[n] = 2 ^ (BitLength[n] - 1)
=============================================================================

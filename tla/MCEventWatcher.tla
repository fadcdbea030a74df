--------------------------- MODULE MCEventWatcher ---------------------------
(* A small instance of EventWatcher: a counter that goes up past its width *)
(* and one that goes down past zero, on overlapping sets of events.        *)
EXTENDS EventWatcher, TLC

CONSTANTS e1, e2, up, down

MCMatches   == up :> {e1, e2} @@ down :> {e1, e2}
MCDirection == up :> "increment" @@ down :> "decrement"
MCInitVal   == up :> 1 @@ down :> 1
=============================================================================

--------------------------- MODULE MCAlarmoArea ---------------------------
(***************************************************************************)
(* A small house for TLC: two modes, of which one has an exit delay; a     *)
(* door (both modes, entry and exit delay, arms on closing, may become     *)
(* unavailable), a motion sensor in the hall (one mode, a delay of its own *)
(* and a wait before it counts) and a smoke alarm (no mode, always on).    *)
(***************************************************************************)
EXTENDS AlarmoArea

MCMode == {"away", "home"}

MCExitTime    == [m \in MCMode |-> IF m = "away" THEN 2 ELSE 0]
MCEntryTime   == [m \in MCMode |-> IF m = "away" THEN 2 ELSE 1]
MCTriggerTime == [m \in MCMode |-> IF m = "away" THEN 2 ELSE 1]

MCSensorModes == [s \in Sensor |-> CASE s = "door"  -> MCMode
                                     [] s = "hall"  -> {"away"}
                                     [] s = "smoke" -> {}]
MCDelayOn     == [s \in Sensor |-> IF s = "hall" THEN 1 ELSE 0]
MCEntryDelay  == [s \in Sensor |-> IF s = "hall" THEN 1 ELSE None]
MCAutoBypass  == [s \in Sensor |-> {}]
MCHallBypass  == [s \in Sensor |-> IF s = "hall" THEN {"away"} ELSE {}]
MCReadings    == [s \in Sensor |-> IF s = "hall" THEN {"open", "closed"}
                                   ELSE {"open", "closed", "unavailable"}]

(* The door's integration reports "unknown" while it starts. *)
MCReadingsMixed == [s \in Sensor |-> CASE s = "door"  -> {"open", "closed", "unknown"}
                                       [] s = "hall"  -> {"open", "closed"}
                                       [] s = "smoke" -> {"open", "closed", "unavailable"}]
===========================================================================

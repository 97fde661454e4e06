--------------------------- MODULE MCEnergyImport ---------------------------
(* Small instances of EnergyImport.                                        *)
EXTENDS MeterPeriods, TLC

CONSTANTS a, b, g   \* two consumers and a generator

MCDir == [m \in Meters |-> IF m = g THEN "GENERATION" ELSE "CONSUMPTION"]

Message(m, from, until) == [meter |-> m, from |-> from, until |-> until]

(* Two messages of any meters, of one day or of two and from and to any    *)
(* quarter hour, or one message of each meter.                             *)
Spans == {<<0, 6>>, <<0, 3>>, <<3, 6>>, <<1, 5>>}
AnyMessage == {Message(m, s[1], s[2]) : m \in Meters, s \in Spans}
DailyBatches ==
  {<<x, y>> : x, y \in AnyMessage}
    \cup {<<Message(a, 3, 6), Message(b, 0, 3), Message(g, 0, 6)>>}

(* Two consumers for the two days at the end of summer time: the first     *)
(* has 25 hours.                                                           *)
SwitchBatches == {<<Message(a, 0, 9), Message(b, 0, 9)>>}

(* Two messages of one consumer at the end of summer time, the hour of the *)
(* change being two intervals, whose parts share no day.                   *)
ChangeSpans == {<<3, 9>>, <<5, 8>>, <<6, 9>>, <<7, 9>>, <<9, 11>>, <<10, 12>>}
ChangeBatches ==
  {<<Message(a, s[1], s[2]), Message(a, t[1], t[2])>> : s, t \in ChangeSpans}

ImportBatches == DailyBatches \cup ChangeBatches

=============================================================================

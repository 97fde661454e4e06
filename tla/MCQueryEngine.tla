--------------------------- MODULE MCQueryEngine ---------------------------
(* A small instance of QueryEngine: days of four quarter hours, hours of   *)
(* two and weeks of two days.                                              *)
EXTENDS QueryEngine

AllReports ==
  {RawData, Summary, IntraDay, Aggregate(1, "h"), Aggregate(1, "d"),
   LoadCurve(1), LoadCurve(2), LoadCurve(3)}

MCQuality == <<1, 0, 1, 2, 1, 3>>
Qualities == [t \in Rows |-> MCQuality[t + 1]]

=============================================================================

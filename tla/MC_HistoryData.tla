---------------------------- MODULE MC_HistoryData ----------------------------
(* Two dates, in the first and in the last year of a range of three, and one  *)
(* that no month has.                                                         *)
EXTENDS HistoryData, InfluxOutput

Dates == {"2022-12-31", "2024-01-01"}
Years == [d \in Dates |-> IF d = "2022-12-31" THEN 1 ELSE 3]
BadDates == {"2023-02-29"}
===============================================================================

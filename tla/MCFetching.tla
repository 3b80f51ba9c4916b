---- MODULE MCFetching ----
(* The flight page for TLC. *)
EXTENDS Fetching

CONSTANTS y1, y2
TwoYears == {y1, y2}
====

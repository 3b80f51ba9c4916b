----------------------------- MODULE ShownYear ------------------------------
(***************************************************************************)
(* What the flight page promises its reader, whatever requests it takes:   *)
(* flights are those of the year chosen last, at least as new as every     *)
(* flight the reader was told is uploaded, and a choice is never left      *)
(* without an answer.                                                      *)
(***************************************************************************)
EXTENDS Naturals

CONSTANTS Years, Changes   (* Changes: bound of the changes of one year *)

VARIABLES
  year,      (* the year chosen                                           *)
  content,   (* how often the flights of each year have changed           *)
  known,     (* the changes the reader was told of                        *)
  screen     (* what is shown                                             *)

shownVars == <<year, content, known, screen>>

Init ==
  /\ year \in Years
  /\ content = [y \in Years |-> 0]
  /\ known = content
  /\ screen = [is |-> "loading"]

Choose ==
  /\ year' \in Years
  /\ screen' = [is |-> "loading"]
  /\ UNCHANGED <<content, known>>

Change ==
  /\ \E y \in Years : content[y] < Changes /\ content' = [content EXCEPT ![y] = @ + 1]
  /\ UNCHANGED <<year, known, screen>>

(* The upload is confirmed; the year shown is loaded again when it is the   *)
(* one that changed.                                                        *)
Confirm ==
  /\ \E y \in Years, k \in 0 .. Changes :
       /\ known[y] <= k /\ k <= content[y]
       /\ known' = [known EXCEPT ![y] = k]
       /\ screen' = IF y = year THEN [is |-> "loading"] ELSE screen
  /\ UNCHANGED <<year, content>>

Show ==
  /\ \E k \in known[year] .. content[year] :
       screen' = [is |-> "flights", year |-> year, changes |-> k]
  /\ UNCHANGED <<year, content, known>>

ShowError ==
  /\ screen' = [is |-> "error"]
  /\ UNCHANGED <<year, content, known>>

LoadAgain ==
  /\ screen' = [is |-> "loading"]
  /\ UNCHANGED <<year, content, known>>

Next == Choose \/ Change \/ Confirm \/ Show \/ ShowError \/ LoadAgain

(* What is loading is answered. *)
Answer == screen.is = "loading" /\ (Show \/ ShowError)

Spec == Init /\ [][Next]_shownVars /\ WF_shownVars(Answer)
==============================================================================

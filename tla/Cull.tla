-------------------------------- MODULE Cull --------------------------------
(***************************************************************************)
(* cull_flight() (src/app/cull.c): the profile of another pilot is the     *)
(* flight page without the fragments that only its owner may use.  A list  *)
(* of starts and ends is matched byte by byte, in order, and what lies     *)
(* between is overwritten in place.                                        *)
(***************************************************************************)
EXTENDS PageText

CONSTANT Culls   (* the fragments, a sequence of records of start and end *)

ASSUME CullsAssumption ==
  /\ Culls \in Seq([start : Seq(STRING), end : Seq(STRING)])
  /\ \A i \in DOMAIN Culls : Culls[i].start # <<>> /\ Culls[i].end # <<>>

VARIABLES
  writeIndex,   (* letters kept so far                                    *)
  cut,
  cullIndex,    (* the fragment looked for                                *)
  startInd,     (* letters of its start matched                           *)
  endInd,       (* letters of its end matched                             *)
  frags         (* what cull_flight() returns: the fragments not found    *)

cullVars == <<writeIndex, cut, cullIndex, startInd, endInd, frags>>

CullInit ==
  /\ writeIndex = 0
  /\ cut = FALSE
  /\ cullIndex = 1
  /\ startInd = 0
  /\ endInd = 0
  /\ frags = 0

Looking == cullIndex <= Len(Culls)

(* The letter goes on with a pattern of which ind letters are matched, or   *)
(* the match starts again behind it.  Behind a pattern is its terminator.   *)
Advance(pattern, ind) ==
  IF ind < Len(pattern) /\ Byte = pattern[ind + 1] THEN ind + 1 ELSE 0

(* The letter behind a whole start: the start is taken back. *)
Begins == Looking /\ ~cut /\ startInd = Len(Culls[cullIndex].start)

(* The letter behind a whole end. *)
Ends == Looking /\ (cut \/ Begins) /\ endInd = Len(Culls[cullIndex].end)

WrittenKept == writeIndex  (* mutant: the start is not taken back *)
Written == IF Begins THEN writeIndex - Len(Culls[cullIndex].start) ELSE writeIndex

Put(cutting) ==
  /\ file' = [file EXCEPT ![Written + 1] = Byte]
  /\ writeIndex' = IF cutting THEN Written ELSE Written + 1
  /\ cut' = cutting
  /\ index' = index + 1

CullCopy ==
  /\ pc = "cull" /\ index <= Len(file)
  /\ ~Looking
  /\ Put(cut)
  /\ UNCHANGED <<pc, tag, quote, cullIndex, startInd, endInd, frags>>

CullMatch ==
  /\ pc = "cull" /\ index <= Len(file)
  /\ Looking /\ ~Ends
  /\ LET cull == Culls[cullIndex] IN
       /\ startInd' = IF Begins THEN startInd ELSE Advance(cull.start, startInd)
       /\ endInd' = Advance(cull.end, endInd)
  /\ Put(cut \/ Begins)
  /\ UNCHANGED <<pc, tag, quote, cullIndex, frags>>

(* "goto top": the letter behind an end is looked at for the next start. *)
CullResume ==
  /\ pc = "cull" /\ index <= Len(file)
  /\ Ends
  /\ cullIndex' = cullIndex + 1
  /\ IF cullIndex < Len(Culls)
     THEN /\ startInd' = Advance(Culls[cullIndex + 1].start, 0)
          /\ endInd' = Advance(Culls[cullIndex + 1].end, 0)
     ELSE startInd' = 0 /\ endInd' = 0
  /\ Put(FALSE)
  /\ UNCHANGED <<pc, tag, quote, frags>>

CullEnd ==
  /\ pc = "cull" /\ index > Len(file)
  /\ file' = SubSeq(file, 1, writeIndex)
  /\ frags' = Len(Culls) + 1 - cullIndex
  /\ Start("assemble")
  /\ UNCHANGED <<writeIndex, cut, cullIndex, startInd, endInd>>

CullNext == CullCopy \/ CullMatch \/ CullResume \/ CullEnd

------------------------------------------------------------------------------
(* What a reader of the list expects, for any text: from its first start to *)
(* the first end behind it every fragment is gone, and the next one is      *)
(* looked for behind it.                                                    *)

OccursAt(text, pattern, i) ==
  i + Len(pattern) - 1 <= Len(text) /\ SubSeq(text, i, i + Len(pattern) - 1) = pattern

(* The first of some places of a text, or the one behind its last letter. *)
FirstPlace(text, places) ==
  CHOOSE j \in places \cup {Len(text) + 1} : \A k \in places : j <= k

(* A start counts when a letter follows it. *)
StartPlace(text, n, from) ==
  FirstPlace(text, {j \in from .. Len(text) :
                      OccursAt(text, Culls[n].start, j) /\ j + Len(Culls[n].start) <= Len(text)})

EndPlace(text, n, start) ==
  FirstPlace(text, {j \in start + Len(Culls[n].start) .. Len(text) : OccursAt(text, Culls[n].end, j)})

(* What is kept before the n-th fragment is looked for, and from where. *)
Scan(text) ==
  LET scan[n \in 0 .. Len(Culls)] ==
        IF n = 0 THEN [kept |-> <<>>, from |-> 1]
        ELSE LET last == scan[n - 1]
                 s == StartPlace(text, n, last.from)
                 behind == EndPlace(text, n, s) + Len(Culls[n].end)
             IN [kept |-> last.kept \o SubSeq(text, last.from, s - 1),
                 from |-> IF behind <= Len(text) THEN behind ELSE Len(text) + 1]
  IN scan

CulledText(text) ==
  LET last == Scan(text)[Len(Culls)] IN last.kept \o SubSeq(text, last.from, Len(text))

(* A pattern whose beginning stands directly before the place i. *)
BegunBefore(text, pattern, from, i) ==
  \E k \in 1 .. Len(pattern) - 1 : i - k >= from /\ SubSeq(text, i - k, i - 1) = SubSeq(pattern, 1, k)

(* A failed match starts again behind the letter that failed it, and an end *)
(* is matched before its start is whole: a start or an end that directly    *)
(* follows a beginning of itself is not seen, and an end that begins before *)
(* the start is over ends the fragment.                                     *)
Tidy(text) ==
  \A n \in DOMAIN Culls :
    LET from == Scan(text)[n - 1].from
        s == StartPlace(text, n, from)
        e == EndPlace(text, n, s)
    IN s <= Len(text) =>
         /\ ~BegunBefore(text, Culls[n].start, from, s)
         /\ e <= Len(text) => ~BegunBefore(text, Culls[n].end, from, e)
         /\ \A j \in from .. s + Len(Culls[n].start) - 1 :
              OccursAt(text, Culls[n].end, j) => j + Len(Culls[n].end) < s + Len(Culls[n].start)
==============================================================================

------------------------------ MODULE PageText ------------------------------
(***************************************************************************)
(* What the functions that turn a file into a page have in common          *)
(* (src/app/cull.c, assemble.c, hydrate.c): the bytes they work on and the *)
(* locals of the loop that runs.                                           *)
(*                                                                         *)
(* A page is a sequence of letters.  A letter is a byte the code looks at  *)
(* ("<", ">", a quote, a blank) or a run of bytes it compares or copies as *)
(* a whole ("class=", "script", a path, a piece of a class name).          *)
(***************************************************************************)
EXTENDS Integers, Sequences, FiniteSets

CONSTANT
  Garbage  (* what memory reads as where nothing of the page was written  *)

VARIABLES
  pc,      (* the loop that runs, "done" or "failed"                      *)
  file,    (* file->ptr, file->len                                        *)
  index,   (* the letter the loop looks at                                *)
  tag,     (* between < and >, or in the parentheses of classList.add     *)
  quote    (* between quotes                                              *)

textVars == <<pc, file, index, tag, quote>>

Byte == file[index]

(* The letters behind the one looked at are s, and one more follows: every   *)
(* test of the code for a word ahead asks for a byte behind it.             *)
Following(s) ==
  /\ index + Len(s) < Len(file)
  /\ SubSeq(file, index + 1, index + Len(s)) = s

Preceded(s) ==
  /\ index > Len(s)
  /\ SubSeq(file, index - Len(s), index - 1) = s

(* The first place of a letter from i on, or one behind the end. *)
NextPlaceOf(letter, i) ==
  CHOOSE j \in i .. Len(file) + 1 :
    /\ j = Len(file) + 1 \/ file[j] = letter
    /\ \A k \in i .. j - 1 : file[k] # letter

(* The next loop starts at the first letter, outside of tags and quotes. *)
Start(loop) ==
  /\ pc' = loop
  /\ index' = 1
  /\ tag' = FALSE
  /\ quote' = FALSE

Fail ==
  /\ pc' = "failed"
  /\ UNCHANGED <<file, index, tag, quote>>
==============================================================================

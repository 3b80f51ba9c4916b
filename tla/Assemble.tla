------------------------------ MODULE Assemble ------------------------------
(***************************************************************************)
(* assemble() (src/app/assemble.c): up to the end of the body a tag with a *)
(* ref is replaced by the component of that path, and {version} and        *)
(* {commit} by their values; behind it an import line is replaced by its   *)
(* script.                                                                 *)
(***************************************************************************)
EXTENDS PageText

CONSTANTS
  Components,   (* the component of each path                             *)
  Scripts,      (* the script of each path                                *)
  Values,       (* what stands for "{version}" and "{commit}"             *)
  Chunk         (* letters one more realloc() gives; 4096 bytes           *)

VARIABLES
  assembled,    (* assemble_ptr up to assemble_ind                        *)
  allocated,    (* assemble_len                                           *)
  overran,      (* a value was written behind what was allocated          *)
  stale         (* the byte behind it, which nothing has written yet,     *)
                (* happens to be a "<"                                    *)

assembleVars == <<assembled, allocated, overran, stale>>

(* The three branches on < > and the quote come before everything else. *)
TagAfter ==
  \/ tag /\ ~(Byte = ">" /\ ~quote)
  \/ Byte = "<" /\ ~quote
QuoteAfter == IF Byte = "\"" /\ tag THEN ~quote ELSE quote

BodyEnds == Byte = "<" /\ ~tag /\ ~quote /\ Following(<<"/body", ">">>)

IsRef == Byte = " " /\ TagAfter /\ ~QuoteAfter /\ Following(<<"ref=", "\"">>)

IsValue == Byte \in DOMAIN Values /\ index < Len(file) /\ ~TagAfter /\ ~QuoteAfter

(* mutant: the < is left *)
WithoutTagButOpen ==
  IF stale THEN assembled
  ELSE LET opens == {i \in 1 .. Len(assembled) : assembled[i] = "<"} IN
         SubSeq(assembled, 1, CHOOSE i \in opens : \A j \in opens : j <= i)

(* What is left of the text when the tag that was begun is taken back: the  *)
(* search for its < starts one byte behind the last one written.            *)
WithoutTag ==
  LET opens == {i \in 1 .. Len(assembled) : assembled[i] = "<"} IN
    IF stale THEN assembled
    ELSE IF opens = {} THEN <<>>
    ELSE SubSeq(assembled, 1, (CHOOSE i \in opens : \A j \in opens : j <= i) - 1)

(* The tag is skipped to its ">", with the ">" of the tag not looked at:    *)
(* the loop goes on as if it were still inside.                             *)
AssembleRef ==
  /\ pc = "assemble" /\ index <= Len(file)
  /\ ~BodyEnds /\ IsRef
  /\ LET start == index + 3
         stop == NextPlaceOf("\"", start)
         path == SubSeq(file, start, stop - 1)
     IN /\ path \in DOMAIN Components
        /\ assembled' = WithoutTag \o Components[path]
        /\ allocated' = allocated + Len(Components[path])
        /\ index' = NextPlaceOf(">", stop) + 1
  /\ tag' = TagAfter /\ quote' = QuoteAfter
  /\ UNCHANGED <<pc, file, overran, stale>>

(* file() fails for the component, or the memory for it is refused: the     *)
(* page stays as it was.                                                    *)
AssembleRefFails ==
  /\ pc = "assemble" /\ index <= Len(file)
  /\ ~BodyEnds /\ IsRef
  /\ Fail
  /\ UNCHANGED assembleVars

Spilled(txt) == [i \in DOMAIN txt |-> IF i <= allocated THEN txt[i] ELSE Garbage]

(* A value is written without a look at what is allocated.  What lies       *)
(* behind that belongs to nobody or to somebody else: the letters there may *)
(* still be the value's when the page is sent, or anything.                 *)
AssembleValue ==
  /\ pc = "assemble" /\ index <= Len(file)
  /\ IsValue
  /\ LET txt == assembled \o Values[Byte] IN
       /\ assembled' \in {txt, Spilled(txt)}
       /\ overran' = (overran \/ Len(txt) > allocated)
  /\ tag' = TagAfter /\ quote' = QuoteAfter
  /\ index' = index + 1
  /\ UNCHANGED <<pc, file, allocated, stale>>

(* One letter is copied, with more memory first when there is none left. *)
Exhausted == Len(assembled) >= allocated

CopyByte ==
  /\ assembled' = Append(assembled, Byte)
  /\ allocated' = IF Exhausted THEN allocated + Chunk ELSE allocated
  /\ index' = index + 1
  /\ UNCHANGED overran

AssembleCopy ==
  /\ pc = "assemble" /\ index <= Len(file)
  /\ ~BodyEnds /\ ~IsRef /\ ~IsValue
  /\ CopyByte
  /\ tag' = TagAfter /\ quote' = QuoteAfter
  /\ UNCHANGED <<pc, file, stale>>

AssembleBodyEnds ==
  /\ pc = "assemble" /\ index <= Len(file)
  /\ BodyEnds
  /\ pc' = "imports"
  /\ UNCHANGED <<file, index, tag, quote, assembleVars>>

IsImport == Byte = "import " /\ Following(<<"'">>)

Unquoted(letter) == letter \notin {"'", ";"}

(* The path is what lies between the quotes; the line feed goes with it. *)
Import ==
  /\ pc = "imports" /\ index <= Len(file)
  /\ IsImport
  /\ LET stop == NextPlaceOf("\n", index + 2)
         path == SelectSeq(SubSeq(file, index + 2, stop - 1), Unquoted)
     IN /\ path \in DOMAIN Scripts
        /\ assembled' = assembled \o Scripts[path]
        /\ allocated' = allocated + Len(Scripts[path])
        /\ index' = stop + 1
  /\ UNCHANGED <<pc, file, tag, quote, overran, stale>>

ImportFails ==
  /\ pc = "imports" /\ index <= Len(file)
  /\ IsImport
  /\ Fail
  /\ UNCHANGED assembleVars

ImportCopy ==
  /\ pc = "imports" /\ index <= Len(file)
  /\ ~IsImport
  /\ CopyByte
  /\ UNCHANGED <<pc, file, tag, quote, stale>>

(* realloc() fails where a letter is to be copied: the page stays as it was. *)
CopyNoMemory ==
  /\ index <= Len(file) /\ Exhausted
  /\ \/ pc = "assemble" /\ ~BodyEnds /\ ~IsRef /\ ~IsValue
     \/ pc = "imports" /\ ~IsImport
  /\ Fail
  /\ UNCHANGED assembleVars

AssembleEnd ==
  /\ pc \in {"assemble", "imports"} /\ index > Len(file)
  /\ file' = assembled
  /\ assembled' = <<>>
  /\ allocated' = 0
  /\ Start("body")
  /\ UNCHANGED <<overran, stale>>

AssembleNext ==
  \/ AssembleRef \/ AssembleRefFails \/ AssembleValue \/ AssembleCopy \/ AssembleBodyEnds
  \/ Import \/ ImportFails \/ ImportCopy \/ CopyNoMemory \/ AssembleEnd
==============================================================================

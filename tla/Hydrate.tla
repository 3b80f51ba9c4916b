------------------------------ MODULE Hydrate -------------------------------
(***************************************************************************)
(* extract() and hydrate() (src/app/hydrate.c): the classes of the body's  *)
(* tags and those its script adds are collected, and the style of each is  *)
(* written behind <style>, the global ones first and those of a screen     *)
(* width or of the dark scheme in a media block of their own.              *)
(***************************************************************************)
EXTENDS PageText, Utility

CONSTANTS
  MaxClasses,   (* places in the array of classes, 256                    *)
  Room,         (* the bytes of a block up to which stamp() begins a rule *)
                (* more, 8192 - 64                                        *)
  RuleBytes,    (* how long a rule is: what is known of some ...          *)
  OtherBytes,   (* ... and the bytes of all others                        *)
  Longest       (* bytes of the longest rule; the code counts on 64       *)

Blocks == <<"global", "tiny", "small", "medium", "large", "giant", "dark">>
Screens == {"global", "tiny", "small", "medium", "large", "giant"}

(* breakpoint.tag *)
Tag == [global |-> <<>>, tiny |-> <<"xs">>, small |-> <<"sm">>, medium |-> <<"md">>,
        large |-> <<"lg">>, giant |-> <<"xl">>, dark |-> <<"dark">>]

VARIABLES
  classes,   (* the classes found, in order                               *)
  current,   (* the letters of the one being read                         *)
  class,     (* between the quotes of a class attribute                   *)
  buffers,   (* of each block: the rules in it, and its length in bytes   *)
  style      (* the blocks written into the page, by their places in      *)
             (* Blocks, each with its rules                               *)

hydrateVars == <<classes, current, class, buffers, style>>

Empty == [rules |-> <<>>, len |-> 0]

HydrateInit ==
  /\ classes = <<>>
  /\ current = <<>>
  /\ class = FALSE
  /\ buffers = [b \in DOMAIN Tag |-> Empty]
  /\ style = <<>>

(* append() *)
FullLate == Len(classes) >= MaxClasses  (* mutant *)
Full == Len(classes) + 1 >= MaxClasses

TakeClassAgain ==  (* mutant: the same class is taken twice *)
  /\ classes' = IF current # <<>> THEN Append(classes, current) ELSE classes
  /\ current' = <<>>

TakeClass ==
  /\ classes' = IF current # <<>> /\ current \notin ToSet(classes)
                THEN Append(classes, current) ELSE classes
  /\ current' = <<>>

Skip == UNCHANGED <<classes, current, class>>

FindBody ==
  /\ pc = "body" /\ index <= Len(file)
  /\ IF Byte = "<" /\ Following(<<"body">>)
     THEN tag' = TRUE /\ pc' = "tags"
     ELSE UNCHANGED <<tag, pc>>
  /\ index' = index + 1
  /\ UNCHANGED <<file, quote, buffers, style>> /\ Skip

InTags == pc = "tags" /\ index <= Len(file)

TagOpens ==
  /\ InTags
  /\ Byte = "<" /\ ~tag /\ ~quote
  /\ tag' = TRUE
  /\ pc' = IF Following(<<"script">>) THEN "script" ELSE pc
  /\ index' = index + 1
  /\ UNCHANGED <<file, quote, buffers, style>> /\ Skip

TagCloses ==
  /\ InTags
  /\ Byte = ">" /\ tag /\ ~quote
  /\ tag' = FALSE
  /\ index' = index + 1
  /\ UNCHANGED <<pc, file, quote, buffers, style>> /\ Skip

(* A place where append() is called: to begin a class, or to end one. *)
AppendAt == Preceded(<<"class=">>)

QuoteOpens ==
  /\ InTags
  /\ Byte = "\"" /\ tag /\ ~quote
  /\ AppendAt => ~Full
  /\ quote' = TRUE
  /\ class' = (class \/ AppendAt)
  /\ IF AppendAt THEN TakeClass ELSE UNCHANGED <<classes, current>>
  /\ index' = index + 1
  /\ UNCHANGED <<pc, file, tag, buffers, style>>

QuoteCloses ==
  /\ InTags
  /\ Byte = "\"" /\ tag /\ quote
  /\ class => ~Full
  /\ quote' = FALSE
  /\ class' = FALSE
  /\ IF class THEN TakeClass ELSE UNCHANGED <<classes, current>>
  /\ index' = index + 1
  /\ UNCHANGED <<pc, file, tag, buffers, style>>

InClass == tag /\ class /\ quote /\ Byte # "\""

ClassEnds ==
  /\ InTags /\ InClass
  /\ Byte = " " /\ ~Full
  /\ TakeClass
  /\ index' = index + 1
  /\ UNCHANGED <<pc, file, tag, quote, class, buffers, style>>

ClassGoesOn ==
  /\ InTags /\ InClass
  /\ Byte # " "
  /\ current' = Append(current, Byte)
  /\ index' = index + 1
  /\ UNCHANGED <<pc, file, tag, quote, classes, class, buffers, style>>

OtherOfTags ==
  /\ InTags /\ ~InClass
  /\ ~(Byte = "<" /\ ~tag /\ ~quote) /\ ~(Byte = ">" /\ tag /\ ~quote) /\ ~(Byte = "\"" /\ tag)
  /\ index' = index + 1
  /\ UNCHANGED <<pc, file, tag, quote, buffers, style>> /\ Skip

InScript == pc = "script" /\ index <= Len(file)

(* The locals are those of the loop before: the < of <script set tag. *)
AddOpens == Byte = "(" /\ ~tag /\ ~class /\ Preceded(<<"classList.add">>)
AddCloses == Byte = ")" /\ tag /\ ~quote
AddQuote == Byte = "'" /\ tag
AddComma == Byte = "," /\ tag /\ quote
AddGoesOn == tag /\ quote /\ Byte \notin {"'", ","}

ScriptByte ==
  /\ InScript
  /\ AddQuote \/ AddComma => ~Full
  /\ tag' = ((tag \/ AddOpens) /\ ~AddCloses)
  /\ quote' = IF AddQuote THEN ~quote ELSE quote
  /\ IF AddQuote \/ AddComma THEN TakeClass
     ELSE IF AddGoesOn THEN current' = Append(current, Byte) /\ UNCHANGED classes
     ELSE UNCHANGED <<classes, current>>
  /\ index' = index + 1
  /\ UNCHANGED <<pc, file, class, buffers, style>>

(* Only append() fails. *)
ExtractFails ==
  /\ Full
  /\ \/ InTags /\ Byte = "\"" /\ tag /\ IF quote THEN class ELSE AppendAt
     \/ InTags /\ InClass /\ Byte = " "
     \/ InScript /\ (AddQuote \/ AddComma)
  /\ Fail
  /\ UNCHANGED hydrateVars

ExtractEnd ==
  /\ pc \in {"body", "tags", "script"} /\ index > Len(file)
  /\ Start("hydrate")
  /\ UNCHANGED <<file, buffers, style>> /\ Skip

------------------------------------------------------------------------------
(* Up to the first colon, and behind it. *)
Colons(letters) == {i \in DOMAIN letters : letters[i] = ":"}
Colon(letters) == CHOOSE i \in Colons(letters) : \A j \in Colons(letters) : i <= j
Prefix(letters) == IF Colons(letters) = {} THEN <<>> ELSE SubSeq(letters, 1, Colon(letters) - 1)
Name(letters) ==
  IF Colons(letters) = {} THEN letters ELSE SubSeq(letters, Colon(letters) + 1, Len(letters))

(* Which block a function stamps a class into. *)
Stamped(block, pfx, cls) ==
  \/ block = "global" /\ Plain(cls)
  \/ block \in Screens /\ pfx = Tag[block] /\ Responsive(cls)
  \/ block \in {"global", "dark"} /\ pfx = Tag[block] /\ color(cls)

Rule(pfx, cls) == [pfx |-> IF Plain(cls) THEN <<>> ELSE pfx, cls |-> cls]

Length(rule) == IF rule \in DOMAIN RuleBytes THEN RuleBytes[rule] ELSE OtherBytes

With(buffer, rule) ==
  [rules |-> Append(buffer.rules, rule), len |-> buffer.len + Length(rule)]

(* stamp() looks at the length before the rule, never at the rule's: a      *)
(* buffer that is nearly full takes a rule of any length, also one that     *)
(* ends behind it, and one that is full leaves the class without a style.   *)
stampEarly(buffer, rule) ==  (* mutant *)
  IF buffer.len + 1 < Room THEN With(buffer, rule) ELSE buffer
stamp(buffer, rule) == IF buffer.len < Room THEN With(buffer, rule) ELSE buffer

HydrateClass ==
  /\ pc = "hydrate" /\ index <= Len(classes)
  /\ LET pfx == Prefix(classes[index])
         cls == Name(classes[index])
     IN buffers' = [b \in DOMAIN buffers |->
                      IF Stamped(b, pfx, cls) THEN stamp(buffers[b], Rule(pfx, cls)) ELSE buffers[b]]
  /\ index' = index + 1
  /\ UNCHANGED <<pc, file, tag, quote, style>> /\ Skip

(* The places right behind a <style>, which is looked for from the          *)
(* fifteenth byte on: the first letter stands for the doctype.              *)
StylePlaces ==
  {i \in 5 .. Len(file) : SubSeq(file, i - 3, i - 1) = <<"<", "style", ">">>}

(* memcpy() of a block's buffer; that of the tiny one takes as many bytes   *)
(* as it has from the small one's, which may end within a rule or behind    *)
(* the last.                                                                *)
BytesOf(rules) == FoldSeq(LAMBDA rule, bytes : bytes + Length(rule), 0, rules)
Beginning(rules, bytes) ==
  LET whole == {n \in 0 .. Len(rules) : BytesOf(SubSeq(rules, 1, n)) <= bytes}
      most == SubSeq(rules, 1, Max(whole))
  IN  IF BytesOf(most) = bytes THEN most ELSE Append(most, Garbage)

Copied(block) ==
  IF block = "tiny" THEN Beginning(buffers["small"].rules, buffers["tiny"].len)
  ELSE buffers[block].rules

Write ==
  /\ pc = "hydrate" /\ index > Len(classes)
  /\ classes # <<>> => StylePlaces # {}
  /\ LET written == {i \in DOMAIN Blocks : buffers[Blocks[i]].len # 0}
     IN style' = [i \in written |-> [block |-> Blocks[i], rules |-> Copied(Blocks[i])]]
  /\ pc' = "done"
  /\ UNCHANGED <<file, index, tag, quote, buffers>> /\ Skip

(* "does not contain a style tag" *)
WriteFails ==
  /\ pc = "hydrate" /\ index > Len(classes)
  /\ classes # <<>> /\ StylePlaces = {}
  /\ Fail
  /\ UNCHANGED hydrateVars

(* The memory for the page with its styles is refused: it stays assembled,  *)
(* and not hydrated.                                                        *)
WriteNoMemory ==
  /\ pc = "hydrate" /\ index > Len(classes)
  /\ Fail
  /\ UNCHANGED hydrateVars

HydrateNext ==
  \/ FindBody
  \/ TagOpens \/ TagCloses \/ QuoteOpens \/ QuoteCloses \/ ClassEnds \/ ClassGoesOn \/ OtherOfTags
  \/ ScriptByte \/ ExtractFails \/ ExtractEnd
  \/ HydrateClass \/ Write \/ WriteFails
==============================================================================

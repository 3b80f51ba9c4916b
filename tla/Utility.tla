------------------------------ MODULE Utility -------------------------------
(***************************************************************************)
(* The class names that have a style (src/app/utility.c): fifteen          *)
(* functions look a class up in tables of their own.  A class name is a    *)
(* sequence of letters, so that one key may be the beginning of another.   *)
(* The tables are parameters; what they hold is data.                      *)
(***************************************************************************)
EXTENDS Naturals, Sequences, SequencesExt

CONSTANTS
  Keys,       (* the whole class names a function knows, by its name      *)
  Variants,   (* the beginnings it knows, in the order of its table       *)
  Mappings,   (* the endings that go with them, in order                  *)
  Alphas      (* the endings that may follow a color                      *)

Matches(function, cls) == cls \in Keys[function]

StartsWith(cls, variant) == Len(cls) > Len(variant) /\ IsPrefix(variant, cls)

Behind(cls, variant) == SubSeq(cls, Len(variant) + 1, Len(cls))

(* color() takes the first mapping the rest begins with, and looks for an   *)
(* alpha behind that one only.                                              *)
Shade(rest) ==
  \E i \in DOMAIN Mappings["color"] :
    LET mapping == Mappings["color"][i] IN
      /\ IsPrefix(mapping, rest)
      /\ \A j \in 1 .. i - 1 : ~IsPrefix(Mappings["color"][j], rest)
      /\ rest = mapping \/ Behind(rest, mapping) \in Alphas

Mapped(function, rest) ==
  IF function = "color" THEN Shade(rest) ELSE rest \in Range(Mappings[function])

(* The loop over the variants: one that begins the class and goes with no   *)
(* mapping ends the function.                                               *)
Listed(function, cls) ==
  LET begun == {i \in DOMAIN Variants[function] : StartsWith(cls, Variants[function][i])}
  IN  begun # {} /\ Mapped(function, Behind(cls, Variants[function][Min(begun)]))

common(cls)   == Matches("common", cls)
position(cls) == Matches("position", cls)
display(cls)  == Matches("display", cls)
spacing(cls)  == Listed("spacing", cls)
sizing(cls)   == Listed("sizing", cls)
border(cls)   == Matches("border", cls) \/ Listed("border", cls)
overflow(cls) == Matches("overflow", cls) \/ Listed("overflow", cls)
flex(cls)     == Matches("flex", cls)
text(cls)     == Matches("text", cls)
font(cls)     == Matches("font", cls)
color(cls)    == Listed("color", cls)
opacity(cls)  == Matches("opacity", cls)
cursor(cls)   == Matches("cursor", cls)
layout(cls)   == Matches("layout", cls)
table(cls)    == Matches("table", cls)

(* Called without a prefix, for the global styles only. *)
Plain(cls) ==
  \/ common(cls) \/ position(cls) \/ text(cls) \/ font(cls)
  \/ opacity(cls) \/ cursor(cls) \/ layout(cls) \/ table(cls)

(* Called once for every width of the screen. *)
Responsive(cls) ==
  \/ display(cls) \/ spacing(cls) \/ sizing(cls)
  \/ border(cls) \/ overflow(cls) \/ flex(cls)
==============================================================================

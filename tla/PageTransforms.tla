--------------------------- MODULE PageTransforms ---------------------------
(***************************************************************************)
(* From a file on the disk to the page that is sent: what file() and       *)
(* serve() (src/app/file.c:102-107, src/app/serve.c:26-45) run on the      *)
(* bytes while they hold the write lock.  PageCache models who runs it and *)
(* when; here one thread runs it, byte by byte, on every page of a set.    *)
(* After a failure the page is still in memory as far as it got, and the   *)
(* next request starts again at assemble().                                *)
(*                                                                         *)
(* A page is a sequence of parts: what is written in the file (letters),   *)
(* what is to become of it (meant), the classes its tags and scripts name  *)
(* (uses), the strings of a script that may be taken for classes (loose),  *)
(* and whether it is for the owner only (own).                             *)
(***************************************************************************)
EXTENDS Cull, Assemble, Hydrate

CONSTANTS
  Pages,      (* sequences of parts                                       *)
  MaxTries    (* bound: requests that start the transformation again      *)

ASSUME TransformsAssumption ==
  /\ MaxClasses \in Nat \ {0} /\ Room \in Nat /\ MaxTries \in Nat
  /\ Chunk \in Nat /\ Garbage \in STRING
  /\ Longest \in Nat /\ OtherBytes \in 1 .. Longest
  /\ \A rule \in DOMAIN RuleBytes : RuleBytes[rule] \in 1 .. Longest
  /\ \A path \in DOMAIN Components : Components[path] \in Seq(STRING)
  /\ \A path \in DOMAIN Scripts : Scripts[path] \in Seq(STRING)
  /\ \A letter \in DOMAIN Values : Values[letter] \in Seq(STRING)
  /\ \A p \in Pages : p \in Seq([letters : Seq(STRING), meant : Seq(STRING),
                                 uses : SUBSET Seq(STRING),
                                 loose : SUBSET Seq(STRING), own : BOOLEAN])

VARIABLES
  page,       (* the parts of the file                                    *)
  guest,      (* another pilot asks: the page is culled                   *)
  tries,      (* requests that failed                                     *)
  faulted     (* a component or a script could not be read, or memory was *)
              (* refused                                                  *)

requestVars == <<page, guest, tries, faulted>>
vars == <<textVars, cullVars, assembleVars, hydrateVars, requestVars>>

Source(parts) == FlattenSeq([i \in DOMAIN parts |-> parts[i].letters])

Init ==
  /\ page \in Pages
  /\ guest \in BOOLEAN
  /\ tries = 0
  /\ faulted = FALSE
  /\ pc = IF guest THEN "cull" ELSE "assemble"
  /\ file = Source(page)
  /\ index = 1
  /\ tag = FALSE
  /\ quote = FALSE
  /\ CullInit
  /\ assembled = <<>>
  /\ allocated = 0
  /\ overran = FALSE
  /\ stale \in BOOLEAN
  /\ HydrateInit

CullStep == CullNext /\ UNCHANGED <<assembleVars, hydrateVars, requestVars>>

AssembleStep ==
  /\ AssembleNext
  /\ faulted' = (pc' = "failed")
  /\ UNCHANGED <<cullVars, hydrateVars, page, guest, tries>>

HydrateStep ==
  /\ \/ HydrateNext /\ UNCHANGED faulted
     \/ WriteNoMemory /\ faulted' = TRUE
  /\ UNCHANGED <<cullVars, assembleVars, page, guest, tries>>

(* file->hydrated is still false: the next request assembles what there is, *)
(* the file as it was or a page that is assembled already.                  *)
ServeAgain ==
  /\ pc = "failed" /\ tries < MaxTries
  /\ tries' = tries + 1
  /\ Start("assemble")
  /\ assembled' = <<>>
  /\ allocated' = 0
  /\ faulted' = FALSE
  /\ classes' = <<>>
  /\ current' = <<>>
  /\ class' = FALSE
  /\ buffers' = [b \in DOMAIN Tag |-> Empty]
  /\ UNCHANGED <<file, style, overran, stale, cullVars, page, guest>>

Next == CullStep \/ AssembleStep \/ HydrateStep \/ ServeAgain

Spec == Init /\ [][Next]_vars

------------------------------------------------------------------------------
(* What is asked of a page. *)

Meant(parts) == FlattenSeq([i \in DOMAIN parts |-> parts[i].meant])
Used(parts) == UNION {parts[i].uses : i \in DOMAIN parts}
Loose(parts) == UNION {parts[i].loose : i \in DOMAIN parts}
Public(part) == ~part.own

(* The parts a reader is to get: a guest none of the owner's. *)
Kept == IF guest THEN SelectSeq(page, Public) ELSE page

Owned == {i \in DOMAIN page : page[i].own}

(* The list of fragments fits the page: there is one of each, or none. *)
Cullable ==
  guest => /\ Tidy(Source(page))
           /\ \/ Owned = {} /\ CulledText(Source(page)) = Source(page)
              \/ frags = 0 /\ Cardinality(Owned) = Len(Culls)

(* A component with no tag behind it before the end of the body: assemble() *)
(* takes </body> for a part of the component's tag.                         *)
ComponentEndsBody(letters) ==
  \E i, j \in DOMAIN letters :
    /\ i < j /\ letters[i] = "ref=" /\ letters[j] = "/body"
    /\ Cardinality({k \in i .. j : letters[k] = ">"}) = 1

Tame == Cullable /\ ~stale /\ ~overran /\ ~ComponentEndsBody(Source(Kept))

(* What the tables say of a class: it is a key, or a variant with a mapping *)
(* behind it, or with a color and perhaps an alpha.                         *)
Meaning(cls, function) ==
  \/ function \in DOMAIN Keys /\ cls \in Keys[function]
  \/ /\ function \in DOMAIN Variants
     /\ \E v \in Range(Variants[function]), m \in Range(Mappings[function]) :
          \/ cls = v \o m
          \/ function = "color" /\ \E a \in Alphas : cls = v \o m \o a

Always == {"common", "position", "text", "font", "opacity", "cursor", "layout", "table"}
ByScreen == {"display", "spacing", "sizing", "border", "overflow", "flex"}

(* The block a class of a page is for. *)
MeantFor(block, c) ==
  /\ Prefix(c) = Tag[block]
  /\ \/ block = "global" /\ \E f \in Always : Meaning(Name(c), f)
     \/ block \in Screens /\ \E f \in ByScreen : Meaning(Name(c), f)
     \/ block \in {"global", "dark"} /\ Meaning(Name(c), "color")

(* A color whose name begins with that of one before it in the table: the   *)
(* shades 500 behind the shades 50.                                         *)
Hidden(c) ==
  \E v \in Range(Variants["color"]), i, j \in DOMAIN Mappings["color"] :
    /\ i < j
    /\ IsStrictPrefix(Mappings["color"][i], Mappings["color"][j])
    /\ IsPrefix(v \o Mappings["color"][j], Name(c))

Served(block) ==
  UNION {Range(style[i].rules) : i \in {j \in DOMAIN style : style[j].block = block}}

(* Type invariant of the bytes and the locals of the loops.  A buffer is    *)
(* never filled further than by a rule that began below its last 64 bytes:  *)
(* within the 8192 it has when no rule is longer than 64, and up to the     *)
(* longest rule behind them when one is (utility.c:5-53).                   *)
TypeOK ==
  /\ pc \in {"cull", "assemble", "imports", "body", "tags", "script", "hydrate", "done", "failed"}
  /\ index \in Nat \ {0}
  /\ tag \in BOOLEAN /\ quote \in BOOLEAN /\ class \in BOOLEAN
  /\ writeIndex \in Nat /\ cullIndex \in 1 .. Len(Culls) + 1 /\ frags \in 0 .. Len(Culls)
  /\ Len(classes) < MaxClasses
  /\ \A b \in DOMAIN buffers : buffers[b].len \in Nat /\ buffers[b].len < Room + Longest
  /\ tries \in 0 .. MaxTries

(* Culling in place never writes over what is still to be read, and leaves  *)
(* what the list of fragments says, whatever the text, unless a start or an *)
(* end is not seen (cull.c:40-75).                                          *)
Culled == guest /\ pc = "assemble" /\ index = 1 /\ tries = 0
CulledAsListed ==
  /\ pc = "cull" => writeIndex < index
  /\ Culled /\ Tidy(Source(page)) => file = CulledText(Source(page))

(* When no fragment is missing, none of the owner's parts is left in the    *)
(* page of a guest.  And the page that is sent is the file with each        *)
(* component, value and script in its place and nothing else changed,       *)
(* however often a request failed half way and the next one began again     *)
(* with what it left (cull.c:40-75, assemble.c:11-171, serve.c:26-45).      *)
AssembledAsMeant ==
  /\ Culled /\ Cullable => file = Source(Kept)
  /\ pc = "done" /\ Tame => file = Meant(Kept)

(* The bytes of the rules that the classes of a page make for a block. *)
Needed(block) ==
  MapThenSumSet(LAMBDA c : Length(Rule(Prefix(c), Name(c))),
                {c \in Used(page) \cup Loose(page) : Stamped(block, Prefix(c), Name(c))})

(* Every class a tag or a script of the page names, and the tables know,    *)
(* has its rule in the block for its prefix: through the culling, the       *)
(* components, the two ways of naming a class, the array of classes and     *)
(* the buffers of the blocks (hydrate.c:38-291, utility.c).  Excepted are   *)
(* the prefix xs, whose block is copied from another, the shades 500, and   *)
(* a block for which the rules of the page have more bytes than stamp()     *)
(* fills.  And no other rule is written: none applies at another width than *)
(* the one it is named for (hydrate.c:330-391).  The array holds nothing    *)
(* that is not a class or a loose string of the page, also when the request *)
(* failed.                                                                  *)
StyledAsMeant ==
  /\ pc \in {"done", "failed"} /\ Tame => ToSet(classes) \subseteq Used(page) \cup Loose(page)
  /\ pc = "done" =>
       \A block \in DOMAIN Tag \ {"tiny"} :
         /\ \A c \in Used(Kept) :
              /\ Tame /\ MeantFor(block, c) /\ ~Hidden(c)
              /\ Needed(block) <= Room
              => [pfx |-> Prefix(c), cls |-> Name(c)] \in Served(block)
         /\ \A rule \in Served(block) :
              /\ rule.pfx = Tag[block]
              /\ \E c \in Used(page) \cup Loose(page) :
                   Name(c) = rule.cls /\ (Prefix(c) = rule.pfx \/ Plain(rule.cls))

(* The classes of the array that a function stamps into a block. *)
Taken(block) == {c \in ToSet(classes) : Stamped(block, Prefix(c), Name(c))}

(* What a request takes from the page, and nothing that an earlier one left *)
(* behind, decides what becomes of it: no block has a rule but those of the *)
(* classes in the array that are for it, and it has them all unless its     *)
(* buffer has no more than 64 bytes left; and the request fails only with a *)
(* component or a script that cannot be read or with memory refused, with   *)
(* every place but the last of the array taken by a class of its own, or    *)
(* with classes and no style tag (hydrate.c:12-36, 203-398, utility.c:7-8,  *)
(* serve.c:26-45).                                                          *)
ServesWhatItTook ==
  /\ pc = "done" =>
       \A block \in DOMAIN Tag \ {"tiny"} :
         LET due == {Rule(Prefix(c), Name(c)) : c \in Taken(block)} IN
           /\ Served(block) \subseteq due
           /\ buffers[block].len < Room => Served(block) = due
  /\ pc = "failed" =>
       \/ faulted
       \/ Cardinality(ToSet(classes)) + 1 = MaxClasses
       \/ classes # <<>> /\ StylePlaces = {}
==============================================================================

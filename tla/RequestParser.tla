--------------------------- MODULE RequestParser ---------------------------
(***************************************************************************)
(* request() of src/lib/request.c: the head of a request is read byte by   *)
(* byte into method, pathname, search, protocol and header, each with a    *)
(* capacity; what follows is the body.  Of a byte only its class is kept.  *)
(* The letters' case, which the parser changes in place, and the colon,    *)
(* which only decides where it does, are left out.                         *)
(*                                                                         *)
(* strncasestrn() of src/lib/strn.c is here too, because handle() looks    *)
(* for the end of the head with it before request() does so by itself.     *)
(***************************************************************************)
EXTENDS Integers, Sequences

CONSTANT Cap (* capacity of each part, a record like request_t *)

Parts == {"method", "pathname", "search", "protocol", "header"}

ASSUME CapAssumption == Cap \in [Parts -> Nat \ {0}]

(* "length" is the text of a content-length header with its number: to the
   parser it is a byte like any other. *)
Bytes == {"word", "length", "space", "mark", "cr", "lf", "ctl"}
Eol == {"cr", "lf"}
Control == Eol \cup {"ctl"}   (* <= '\037' *)

(* The state an automaton is in after all of a buffer.  The singleton sets
   only make TLC evaluate every state once. *)
Final(step(_, _), start, buffer) ==
  LET after[n \in 0..Len(buffer)] ==
        IF n = 0 THEN start
        ELSE CHOOSE next \in {step(st, buffer[n]) : st \in {after[n - 1]}} : TRUE
  IN  after[Len(buffer)]

(* What the parser knows after some bytes: the loop it is in ("body" when
   all of them are done, "refused" once a status is set), its stage, the
   bytes read and the length of every part. *)
Start == [part |-> "method", stage |-> 0, index |-> 0, status |-> 0,
          len |-> [p \in Parts |-> 0]]

Refuse(st, status) == [st EXCEPT !.part = "refused", !.status = status]

(* The status when a loop ends before its part does. *)
Unfinished(st) ==
  CASE st.part = "method" -> 501
    [] st.part \in {"pathname", "search"} -> 414
    [] st.part = "protocol" -> IF st.stage = 3 \/ st.len["protocol"] = 0 THEN 505 ELSE 400
    [] st.part = "header" -> IF st.stage = 6 THEN 400 ELSE 431

Empty(st, part) == st.len[part] = 0
Count(st) == [st EXCEPT !.len[st.part] = @ + 1]
Enter(st, part, stage) == [st EXCEPT !.part = part, !.stage = stage]

ReadMethod(st, b) ==
  CASE b = "space" -> IF Empty(st, "method") THEN Refuse(st, 501) ELSE Enter(st, "pathname", 1)
    [] b \in Control -> Refuse(st, 400)
    [] OTHER -> Count(st)

ReadPathname(st, b) ==
  IF b \in {"space", "mark"} /\ Empty(st, "pathname") THEN Refuse(st, 414)
  ELSE CASE b = "mark" -> Enter(st, "search", 2)
         [] b = "space" -> Enter(st, "protocol", 3)
         [] b \in Control -> Refuse(st, 400)
         [] OTHER -> Count(st)

ReadSearch(st, b) ==
  CASE b = "space" -> Enter(st, "protocol", 3)
    [] b \in Control -> Refuse(st, 400)
    [] OTHER -> Count(st)

ReadProtocol(st, b) ==
  CASE b \in Eol /\ st.stage = 3 -> Enter(st, "protocol", 4)
    [] b \in Eol /\ st.stage = 4 -> IF Empty(st, "protocol") THEN Refuse(st, 505) ELSE Enter(st, "header", 5)
    [] b \in Control \ Eol -> Refuse(st, 400)
    [] OTHER -> Count(st)

(* mutant: two line ends close every header *)
ReadHeaderShort(st, b) ==
  CASE b \in Eol -> IF st.stage \in {4, 6} THEN Enter(Count(st), "body", 7) ELSE Enter(Count(st), "header", st.stage + 1)
    [] b \in Control \ Eol -> Refuse(st, 400)
    [] OTHER -> Enter(Count(st), "header", 3)

(* A line end counts up from 5 at first and from 3 after any other byte:
   two in a row end an empty header, four end any other. *)
ReadHeader(st, b) ==
  CASE b \in Eol -> IF st.stage = 6 THEN Enter(Count(st), "body", 7) ELSE Enter(Count(st), "header", st.stage + 1)
    [] b \in Control \ Eol -> Refuse(st, 400)
    [] OTHER -> Enter(Count(st), "header", 3)

Read(st, b) ==
  CASE st.part = "method" -> ReadMethod(st, b)
    [] st.part = "pathname" -> ReadPathname(st, b)
    [] st.part = "search" -> ReadSearch(st, b)
    [] st.part = "protocol" -> ReadProtocol(st, b)
    [] st.part = "header" -> ReadHeader(st, b)

FullLate(st) == st.len[st.part] > Cap[st.part] (* mutant *)
Full(st) == st.len[st.part] = Cap[st.part]

Step(st, b) ==
  IF st.part \in {"body", "refused"} THEN st
  ELSE LET next == [Read(st, b) EXCEPT !.index = st.index + 1]
       IN  IF next.part \in Parts /\ Full(next) THEN Refuse(next, Unfinished(next)) ELSE next

(* request() on a buffer: the status it sets, 0 for a request to route, the
   length of every part and where the body starts. *)
Parse(buffer) ==
  LET end == Final(Step, Start, buffer)
  IN  IF end.part \in Parts THEN Refuse(end, Unfinished(end)) ELSE end

(* request() has set pathname.ptr when it returns: an unfinished method, or a
   control byte before the pathname's end, leaves it as it was. *)
PathnameSet(req) == req.status = 0 \/ req.stage >= 2 \/ (req.stage = 1 /\ req.status = 414)

(* strncasestrn(buffer, "\r\n\r\n"): on a mismatch the search starts again
   at the next byte, with nothing of the pattern matched.  The index after
   the match, 0 for none. *)
Pattern == <<"cr", "lf", "cr", "lf">>
Match(st, b) ==
  IF st.ind = Len(Pattern) THEN st
  ELSE [index |-> st.index + 1, ind |-> IF b = Pattern[st.ind + 1] THEN st.ind + 1 ELSE 0]
BodyIndex(buffer) ==
  LET end == Final(Match, [index |-> 0, ind |-> 0], buffer)
  IN  IF end.ind = Len(Pattern) THEN end.index ELSE 0

-----------------------------------------------------------------------------
(* What a request is, stated without the parser's stages. *)

Between(buffer, i, j) == {buffer[k] : k \in (i + 1)..(j - 1)}
Least(S) == CHOOSE x \in S : \A y \in S : x <= y
(* The first place after i with a byte of a class, past the end when none. *)
FirstAfter(buffer, i, classes) == Least({k \in (i + 1)..Len(buffer) : buffer[k] \in classes} \cup {Len(buffer) + 1})

(* Lines end with "cr" and "lf", which come in no other way; the last byte
   of what has arrived may be a "cr". *)
ProperLines(buffer) == \A k \in 1..Len(buffer) :
  /\ buffer[k] = "lf" => k > 1 /\ buffer[k - 1] = "cr"
  /\ buffer[k] = "cr" => k = Len(buffer) \/ buffer[k + 1] = "lf"

(* The head ends with the first empty line after the request line. *)
HeadEnd(buffer, line) ==
  Least({k \in (line + 3)..Len(buffer) : SubSeq(buffer, k - 3, k) = Pattern} \cup {Len(buffer) + 1})

(* method SP pathname [? search] SP protocol CRLF {line CRLF} CRLF, each
   part within its capacity; the result is the end of the head and the
   length of every part, or nothing. *)
Request(buffer) ==
  LET m == FirstAfter(buffer, 0, {"space"})
      p == FirstAfter(buffer, m, {"space", "mark"})
      s == IF p <= Len(buffer) /\ buffer[p] = "mark" THEN FirstAfter(buffer, p, {"space"}) ELSE p
      line == FirstAfter(buffer, s, {"cr"})
      end == HeadEnd(buffer, line)
      lens == [method |-> m - 1, pathname |-> p - m - 1, search |-> IF s = p THEN 0 ELSE s - p - 1,
               protocol |-> line - s - 1, header |-> end - line - 1]
      ok == /\ end <= Len(buffer)
            /\ "ctl" \notin Between(buffer, 0, end)
            /\ Between(buffer, 0, line) \cap Control = {}
            /\ \A part \in Parts \ {"search", "header"} : lens[part] > 0
            /\ \A part \in Parts \ {"header"} : lens[part] < Cap[part]
            /\ lens["header"] <= Cap["header"]
  IN  IF ok THEN [index |-> end, len |-> lens] ELSE [index |-> 0, len |-> Start.len]
=============================================================================

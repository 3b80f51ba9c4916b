----------------------------- MODULE FlightCodec -----------------------------
(***************************************************************************)
(* What becomes of the numbers of a flight between the page that posts     *)
(* them and the page that shows them: 102 bytes over the wire, a row of    *)
(* the table, a row of the answer in as few bytes as its numbers need, and *)
(* the numbers again (src/api/flight.c, src/api/parse.c, src/api/utils.c,  *)
(* src/app/pages/flight.html).                                             *)
(*                                                                         *)
(* The host is little-endian.  The times end in 2038 and the distance is   *)
(* below 2^31, since readBits() makes 32 bits with a sign of it.  The page *)
(* has cut the fractions.                                                  *)
(***************************************************************************)
EXTENDS Integers, Sequences, FiniteSets, SequencesExt

CONSTANTS
  Hashes,    (* the flights there are                                      *)
  Flown,     (* the numbers of each flight, as its file has them           *)
  Rooms      (* response->body.cap: what the configuration may leave       *)

ASSUME FlightCodecAssumption ==
  /\ Flown \in [Hashes -> [1 .. 29 -> Nat]]
  /\ \A h \in Hashes : \A f \in {1, 2, 29} : Flown[h][f] <= 2147483647
  /\ Rooms \subseteq Nat

VARIABLES
  room,      (* response->body.cap                                         *)
  table,     (* table flight: the columns of each hash; a number by its    *)
             (* bytes, the highest first, a bin by its bytes in memory     *)
  pc,        (* of the request: "idle", "rows", "sent", "parse",...   *)
  order,     (* the rows that the statement yields                         *)
  rows,      (* how many of them are written                               *)
  body,      (* response->body                                             *)
  status,    (* response->status                                           *)
  offset,    (* byteOffset of parseFlights()                               *)
  flights    (* its result                                                 *)

vars == <<room, table, pc, order, rows, body, status, offset, flights>>

------------------------------------------------------------------------------
(* The fields of flight_t behind the hash, in their order: starts_at,       *)
(* ends_at, altitude_bins, altitude_min, altitude_max, thermal_bins,        *)
(* max_climb, max_sink, speed_bins, speed_avg, speed_max, glide_bins,       *)
(* distance_flown.                                                          *)
Twos == <<2, 2, 2, 2, 2>>
Size == <<8, 8>> \o Twos \o <<2, 2>> \o Twos \o <<1, 1>> \o Twos \o <<2, 2>> \o Twos \o <<4>>
Field == DOMAIN Size

StartsAt == 1
EndsAt == 2
AltitudeMin == 8
AltitudeMax == 9
SpeedAvg == 22
SpeedMax == 23
Bins == (3 .. 7) \cup (10 .. 14) \cup (17 .. 21) \cup (24 .. 28)

(* Where each part begins that has the lengths len, the first at start. *)
Starts(start, len) ==
  LET at[i \in 1 .. Len(len)] == IF i = 1 THEN start ELSE at[i - 1] + len[i - 1] IN at

(* The number that has these digits, the highest first. *)
InBase(base, digits) ==
  LET upTo[i \in 0 .. Len(digits)] == IF i = 0 THEN 0 ELSE upTo[i - 1] * base + digits[i]
  IN  upTo[Len(digits)]
Number(bytes) == InBase(256, bytes)

------------------------------------------------------------------------------
(* postFlight() writes each number at its offset, as far as it goes in.     *)
PostedAt ==
  LET Five(from) == [i \in 1 .. 5 |-> from + 2 * (i - 1)]
  IN  <<32, 40>> \o Five(48) \o <<58, 60>> \o Five(62) \o <<72, 73>> \o Five(74)
        \o <<84, 86>> \o Five(88) \o <<98>>

ByteOf(n, i, size) == IF size - i > 3 THEN 0 ELSE (n \div 256 ^ (size - i)) % 256

Posted(flown) ==
  [k \in 32 .. 101 |->
     LET f == CHOOSE g \in Field : PostedAt[g] <= k /\ k < PostedAt[g] + Size[g]
     IN  ByteOf(flown[f], k - PostedAt[f] + 1, Size[f])]

(* parse_flight() *)
Parsed(wire) ==
  [f \in Field |-> [i \in 1 .. Size[f] |-> wire[Starts(32, Size)[f] + i - 1]]]

(* validate_flight() *)
Lasting == 64 .. 65536               (* seconds *)
Valid(flight) ==
  LET n == [f \in {StartsAt, EndsAt, AltitudeMin, AltitudeMax, SpeedAvg, SpeedMax} |-> Number(flight[f])]
  IN  /\ n[StartsAt] # 0 /\ n[EndsAt] # 0
      /\ n[StartsAt] <= n[EndsAt]
      /\ n[EndsAt] - n[StartsAt] \in Lasting
      /\ n[AltitudeMin] <= n[AltitudeMax]
      /\ n[SpeedAvg] <= n[SpeedMax]

Init ==
  /\ room \in Rooms
  /\ table = <<>>
  /\ pc = "idle"
  /\ order = <<>>
  /\ rows = 0
  /\ body = <<>>
  /\ status = 0
  /\ offset = 0
  /\ flights = <<>>

(* A flight that is there already, or is not valid, changes nothing. *)
Post(h) ==
  LET flight == Parsed(Posted(Flown[h])) IN
  /\ h \notin DOMAIN table /\ Valid(flight)
  /\ table' = [k \in DOMAIN table \cup {h} |-> IF k = h THEN flight ELSE table[k]]
  /\ UNCHANGED <<room, pc, order, rows, body, status, offset, flights>>

------------------------------------------------------------------------------
(* A statement yields the flights that are there when it begins, the        *)
(* latest first.                                                            *)
Query ==
  /\ pc = "idle"
  /\ \E s \in SetToSeqs(DOMAIN table) :
       /\ \A i, j \in 1 .. Len(s) : i < j =>
            Number(table[s[i]][StartsAt]) >= Number(table[s[j]][StartsAt])
       /\ order' = [i \in 1 .. Len(s) |-> [hash |-> s[i], row |-> table[s[i]]]]
  /\ pc' = "rows"
  /\ rows' = 0
  /\ body' = <<>>
  /\ status' = 0
  /\ offset' = 0
  /\ flights' = <<>>
  /\ UNCHANGED <<room, table>>

(* significant_bytes() of the number the host makes of the column. *)
SignificantShort(f, bytes) ==   (* a mutant: the index instead of the number of bytes *)
  LET host == IF f \in Bins THEN Reverse(bytes) ELSE bytes
      used == {i \in 1 .. Size[f] : host[i] # 0}
  IN  IF used = {} THEN 0 ELSE Size[f] - Min(used)
Significant(f, bytes) ==
  LET host == IF f \in Bins THEN Reverse(bytes) ELSE bytes
      used == {i \in 1 .. Size[f] : host[i] # 0}
  IN  IF used = {} THEN 0 ELSE Size[f] + 1 - Min(used)

(* All but max_climb, max_sink, speed_avg and speed_max are written in as   *)
(* few bytes as they need; the lengths go ahead in 56 bits: four for each   *)
(* time, two for each of the next, three for the distance and one unused.   *)
Sized == [i \in 1 .. 25 |-> IF i <= 14 THEN i ELSE IF i <= 19 THEN i + 2 ELSE i + 4]

Lengths(row) ==
  [f \in Field |-> IF f \in Range(Sized) THEN Significant(f, row[f]) ELSE Size[f]]

(* The 56 bits, two by two. *)
Nibble(n) == <<n \div 4, n % 4>>
Leading(len) ==
  Nibble(len[1]) \o Nibble(len[2]) \o [i \in 1 .. 22 |-> len[Sized[i + 2]]] \o Nibble(2 * len[29])
LeadingBytes(pairs) ==
  [b \in 1 .. 7 |-> InBase(4, SubSeq(pairs, 4 * b - 3, 4 * b))]

RowBytes(row) ==
  LET len == Lengths(row)
  IN  LeadingBytes(Leading(len)) \o FlattenSeq([f \in Field |-> SubSeq(row[f], Size[f] - len[f] + 1, Size[f])])

(* The statement steps to a row.  Its room is counted without altitude,     *)
(* climb, speed, glide and distance; a failing step leaves what is written. *)
FitsAlways(length) == TRUE           (* a mutant: the room is not asked for *)
Fits(length) == length + 8 + 8 + 10 + 10 <= room

WriteRow ==
  /\ pc = "rows" /\ rows < Len(order) /\ Fits(Len(body))
  /\ body' = body \o RowBytes(order[rows + 1].row)
  /\ rows' = rows + 1
  /\ UNCHANGED <<room, table, pc, order, status, offset, flights>>

Respond(answer) ==
  /\ pc' = "sent"
  /\ status' = answer
  /\ UNCHANGED <<room, table, order, rows, body, offset, flights>>

CutFull == 200                       (* a mutant: a part passes for all *)
Cut == 206
NoRoom == pc = "rows" /\ rows < Len(order) /\ ~ Fits(Len(body)) /\ Respond(Cut)
Done == pc = "rows" /\ rows = Len(order) /\ Respond(200)
StepFails == pc = "rows" /\ Respond(500)

------------------------------------------------------------------------------
(* parseFlights(): the lengths from the leading bytes at byteOffset, then   *)
(* the numbers one behind the other.  Reading past the end throws.          *)
Pairs(bytes) == [i \in 1 .. 28 |-> (bytes[(i + 3) \div 4] \div 4 ^ (3 - ((i - 1) % 4))) % 4]

LengthsRead(bytes) ==
  LET pairs == Pairs(bytes)
      short == [i \in 1 .. 22 |-> pairs[i + 4]]
  IN  <<InBase(4, SubSeq(pairs, 1, 2)), InBase(4, SubSeq(pairs, 3, 4))>>
        \o SubSeq(short, 1, 12) \o <<1, 1>> \o SubSeq(short, 13, 17) \o <<2, 2>>
        \o SubSeq(short, 18, 22) \o <<InBase(4, SubSeq(pairs, 27, 28)) \div 2>>

Begin ==
  /\ pc = "sent" /\ status \in 200 .. 299
  /\ pc' = "parse"
  /\ UNCHANGED <<room, table, order, rows, body, status, offset, flights>>

(* fetcher() throws an answer that is no success. *)
Throw ==
  /\ pc = "sent" /\ status \notin 200 .. 299
  /\ pc' = "failed"
  /\ UNCHANGED <<room, table, order, rows, body, status, offset, flights>>

ReadFlight ==
  /\ pc = "parse" /\ offset < Len(body)
  /\ LET left == Len(body) - offset
         len == LengthsRead(SubSeq(body, offset + 1, offset + 7))
         at == Starts(offset + 8, len)
     IN  IF left >= 7 /\ at[29] + len[29] - 1 <= Len(body)
         THEN /\ flights' = Append(flights, [f \in Field |-> Number(SubSeq(body, at[f], at[f] + len[f] - 1))])
              /\ offset' = at[29] + len[29] - 1
              /\ UNCHANGED pc
         ELSE /\ pc' = "failed"
              /\ UNCHANGED <<offset, flights>>
  /\ UNCHANGED <<room, table, order, rows, body, status>>

AllRead ==
  /\ pc = "parse" /\ offset >= Len(body)
  /\ pc' = "shown"
  /\ UNCHANGED <<room, table, order, rows, body, status, offset, flights>>

(* The page is loaded again. *)
Reload ==
  /\ pc \in {"shown", "failed"}
  /\ pc' = "idle"
  /\ UNCHANGED <<room, table, order, rows, body, status, offset, flights>>

Next ==
  \/ \E h \in Hashes : Post(h)
  \/ Query \/ WriteRow \/ NoRoom \/ Done \/ StepFails
  \/ Begin \/ Throw \/ ReadFlight \/ AllRead \/ Reload

Spec == Init /\ [][Next]_vars

------------------------------------------------------------------------------
(* Type invariant.  The rows of an answer end at most 41 bytes behind the   *)
(* room of the body: the test counts 36 of the 77 bytes that a row may have *)
(* (flight.c:124).                                                          *)
ByteSeq(size) == [1 .. size -> 0 .. 255]
TypeOK ==
  /\ room \in Rooms
  /\ DOMAIN table \subseteq Hashes
  /\ \A h \in DOMAIN table, f \in Field : table[h][f] \in ByteSeq(Size[f])
  /\ pc \in {"idle", "rows", "sent", "parse", "shown", "failed"}
  /\ rows \in 0 .. Len(order)
  /\ body \in Seq(0 .. 255) /\ Len(body) <= room + 41
  /\ status \in {0, 200, 206, 500}
  /\ offset \in 0 .. Len(body)

(* What a column holds of the number n: a number as wide as its field, and  *)
(* of the bins a multiple of 256 is lost altogether.                        *)
Kept(f, n) ==
  LET wide == IF Size[f] <= 2 THEN n % 256 ^ Size[f] ELSE n
  IN  IF f \in Bins /\ wide % 256 = 0 THEN 0 ELSE wide

(* Each number that is shown is the one that was posted for this flight and *)
(* this field: no length in the leading bytes moves the numbers of its      *)
(* flight or of the flights behind it.  The bins that are multiples of 256  *)
(* are the exception: they are shown as 0.  And what is shown is a flight   *)
(* that may be: it lasts 64 to 65536 seconds and no least or average is     *)
(* above its most, also when a number was wider than its field              *)
(* (flight.c:130-199, utils.c:3-11, parse.c:181-203, flight.html:1143-1246).*)
ShownAsPosted ==
  /\ Len(flights) <= rows
  /\ \A i \in 1 .. Len(flights) :
       LET shown == flights[i] IN
         /\ \A f \in Field : shown[f] = Kept(f, Flown[order[i].hash][f])
         /\ shown[EndsAt] - shown[StartsAt] \in Lasting
         /\ shown[AltitudeMin] <= shown[AltitudeMax]
         /\ shown[SpeedAvg] <= shown[SpeedMax]

(* A page that is shown has each row of the answer, the latest flights      *)
(* first; all flights when the status is 200, and a part of them only when  *)
(* the room is used up to less than a small flight.  A page fails only      *)
(* after the statement did (flight.c:124-129, 201-219,                      *)
(* flight.html:1143-1246).                                                  *)
WholeOrMarked ==
  /\ pc = "shown" =>
       /\ Len(flights) = rows
       /\ status = 200 <=> rows = Len(order)
       /\ rows < Len(order) => Len(body) > room - 36
  /\ pc = "failed" => status = 500
=============================================================================

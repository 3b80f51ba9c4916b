---- MODULE MCFlightCodec ----
(* Six flights for TLC. *)
EXTENDS FlightCodec

CONSTANTS smallest, largest, overflown, rounded, brief, glitch

Numbers(starts, lasts, bin, altitude, climb, speed, distance) ==
  [f \in 1 .. 29 |->
     CASE f = StartsAt -> starts
       [] f = EndsAt -> starts + lasts
       [] f \in Bins -> bin[1 + (f % Len(bin))]
       [] f \in {AltitudeMin, SpeedAvg} -> altitude
       [] f = AltitudeMax -> altitude + 300
       [] f \in {15, 16} -> climb
       [] f = SpeedMax -> speed
       [] OTHER -> distance]

AllHashes == {smallest, largest, overflown, rounded, brief, glitch}

(* smallest: every number as small as it can be; largest: every one as       *)
(* large; overflown: some beyond their fields; rounded: bins that lose their *)
(* value; brief: too short to be valid; glitch: only an altitude that wraps  *)
(* makes it invalid.                                                         *)
SomeFlown ==
  [h \in AllHashes |->
     CASE h = smallest -> Numbers(1, 64, <<0>>, 0, 0, 0, 0)
       [] h = largest -> Numbers(2147400000, 65536, <<65535, 257, 300, 4660>>, 65000, 255, 65535, 2147483647)
       [] h = overflown -> Numbers(1700000000, 36000, <<65536, 65537, 131, 256>>, 1000, 300, 70000, 70000)
       [] h = rounded -> Numbers(1700000000, 3600, <<256, 255, 0, 512, 1>>, 1000, 255, 4000, 16777216)
       [] h = brief -> Numbers(1700000000, 63, <<1>>, 1000, 20, 4000, 1000)
       [] OTHER -> Numbers(1700000000, 3600, <<1>>, 65300, 20, 65300, 1000)]
====

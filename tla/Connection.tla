----------------------------- MODULE Connection -----------------------------
(***************************************************************************)
(* handle() of src/lib/app.c: one connection, from the first recv() to     *)
(* close().  The client's bytes come in packets of any size and may stop   *)
(* at any time; recv() and send() fail or time out at any call.  request() *)
(* and the search for the end of the head are those of RequestParser;      *)
(* route() is a choice among the answers it can leave in the response.     *)
(*                                                                         *)
(* The response buffer is a range of addresses: head and header lie at its *)
(* start, where response() has moved them together, and the body from      *)
(* BodyBase on.  What is sent is the sequence of addresses sent.           *)
(***************************************************************************)
EXTENDS RequestParser, SequencesExt

CONSTANTS
  Clients,        (* what clients send: [bytes, content]: the bytes and the
                     number of the content-length header among them       *)
  Answers,        (* what route() leaves: [header, body], bytes of head and
                     header, and of the body                              *)
  ReceivePackets, (* receive_packets                                      *)
  ReceiveBuffer,  (* receive_buffer                                       *)
  SendPackets,    (* send_packets                                         *)
  SendBuffer,     (* send_buffer                                          *)
  BodyBase,       (* response->head.cap + response->header.cap            *)
  Beyond,         (* bytes that a body may have more than its part of the
                     buffer holds: find_flights() compares the room for 36
                     and writes up to 77 (flight.c:124)                   *)
  Word,           (* 2^64: values of a size_t                             *)
  ShortFirst      (* the first send() may take less than head and header  *)

FirstCap == Cap["method"] + Cap["pathname"] + Cap["search"] + Cap["protocol"] + Cap["header"]

ASSUME ConnectionAssumption ==
  /\ Clients \subseteq [bytes : Seq(Bytes), content : Int]
  /\ Answers \subseteq [header : Nat \ {0}, body : Nat]
  /\ \A a \in Answers : a.header <= BodyBase /\ a.body <= SendBuffer - BodyBase + Beyond
  /\ ReceivePackets \in Nat \ {0} /\ SendPackets \in Nat \ {0}
  /\ {ReceiveBuffer, SendBuffer, BodyBase, Beyond, Word} \subseteq Nat
  /\ BodyBase <= SendBuffer
  /\ FirstCap <= ReceiveBuffer /\ ReceiveBuffer < Word
  /\ ShortFirst \in BOOLEAN

VARIABLES
  client,      (* the client and what it sends                            *)
  pc,          (* where handle() is                                       *)
  received,    (* received_bytes                                          *)
  packetsIn,   (* received_packets                                        *)
  expected,    (* request_length                                          *)
  req,         (* reqs after request()                                    *)
  resp,        (* head and header, and body, of the response              *)
  out,         (* addresses of the response buffer sent, in order         *)
  packetsOut,  (* sent_packets                                            *)
  failed       (* history: a call failed or the client stopped sending    *)

vars == <<client, pc, received, packetsIn, expected, req, resp, out, packetsOut, failed>>

Pc == {"open", "receive", "further", "request", "route", "send", "sendFurther", "cleanup", "closed", "crashed"}

Init ==
  /\ client \in Clients
  /\ pc = "open"
  /\ received = 0 /\ packetsIn = 0 /\ expected = 0
  /\ req = Start
  /\ resp = [header |-> 0, body |-> 0]
  /\ out = <<>> /\ packetsOut = 0
  /\ failed = FALSE

Goto(p) == pc' = p
Buffer == SubSeq(client.bytes, 1, received)
Coming == Len(client.bytes) - received
Smaller(a, b) == IF a < b THEN a ELSE b

sendVars == <<resp, out, packetsOut>>

(* A system call fails, times out or returns 0: goto cleanup. *)
Fails(p) ==
  /\ pc = p
  /\ Goto("cleanup")
  /\ failed' = TRUE
  /\ UNCHANGED <<client, received, packetsIn, expected, req, resp, out, packetsOut>>

-----------------------------------------------------------------------------
(* Receiving. *)

SetTimeouts ==
  /\ pc = "open"
  /\ Goto("receive")
  /\ UNCHANGED <<client, received, packetsIn, expected, req, sendVars, failed>>

(* mutant: the length of the head is forgotten *)
RequestLengthBody(first) ==
  IF "length" \in ToSet(first) /\ BodyIndex(first) # 0 THEN client.content % Word ELSE 0

(* The length of the whole request, from the first packet alone. *)
RequestLength(first) ==
  LET content == client.content % Word
  IN  IF "length" \in ToSet(first) /\ BodyIndex(first) # 0 /\ content > 0
      THEN (BodyIndex(first) + content) % Word
      ELSE 0

Receive ==
  /\ pc = "receive"
  /\ \E n \in 1..Smaller(Coming, FirstCap) :
       /\ received' = n
       /\ expected' = RequestLength(SubSeq(client.bytes, 1, n))
  /\ packetsIn' = 1
  /\ Goto("further")
  /\ UNCHANGED <<client, req, sendVars, failed>>

Complete == received >= expected
ReceivesNoMore == packetsIn + 1 > ReceivePackets \/ expected > ReceiveBuffer

RoomWhole == ReceiveBuffer (* mutant *)
Room == ReceiveBuffer - received

ReceiveFurther ==
  /\ pc = "further"
  /\ ~ Complete
  /\ ~ ReceivesNoMore
  /\ \E n \in 1..Smaller(Coming, Room) : received' = received + n
  /\ packetsIn' = packetsIn + 1
  /\ UNCHANGED <<client, pc, expected, req, sendVars, failed>>

(* mutant: recv() returns 0 or times out and is called again *)
FurtherRetries ==
  /\ pc = "further" /\ ~ Complete /\ ~ ReceivesNoMore
  /\ failed' = TRUE
  /\ UNCHANGED <<client, pc, received, packetsIn, expected, req, resp, out, packetsOut>>

FurtherFails == ~ Complete /\ ~ ReceivesNoMore /\ Fails("further")

Received ==
  /\ pc = "further"
  /\ Complete \/ ReceivesNoMore
  /\ Goto("request")
  /\ UNCHANGED <<client, received, packetsIn, expected, req, sendVars, failed>>

-----------------------------------------------------------------------------
(* request(), route() and response(). *)

ParseRequest ==
  /\ pc = "request"
  /\ req' = Parse(Buffer)
  /\ Goto("route")
  /\ UNCHANGED <<client, received, packetsIn, expected, sendVars, failed>>

(* Whatever the method: a request for the head alone has an answer without a
   body, and so have most refused ones. *)
Route ==
  /\ pc = "route"
  /\ resp' \in Answers
  /\ Goto("send")
  /\ UNCHANGED <<client, received, packetsIn, expected, req, out, packetsOut, failed>>

(* route() compares five bytes at pathname.ptr, set or not. *)
RouteCrashes ==
  /\ pc = "route"
  /\ ~ PathnameSet(req)
  /\ Goto("crashed")
  /\ UNCHANGED <<client, received, packetsIn, expected, req, sendVars, failed>>

-----------------------------------------------------------------------------
(* Sending. *)

ResponseLength == resp.header + resp.body
Run(from, n) == [i \in 1..n |-> from + i - 1]
Whole == Run(0, resp.header) \o Run(BodyBase, resp.body)

Send ==
  /\ pc = "send"
  /\ \E n \in (IF ShortFirst THEN 1..resp.header ELSE {resp.header}) : out' = Run(0, n)
  /\ packetsOut' = 1
  /\ Goto("sendFurther")
  /\ UNCHANGED <<client, received, packetsIn, expected, req, resp, failed>>

Sent == Len(out) >= ResponseLength
SendsNoMoreEarly == packetsOut + 2 > SendPackets \/ ResponseLength > SendBuffer (* mutant *)
SendsNoMore == packetsOut + 1 > SendPackets \/ ResponseLength > SendBuffer
BodyOffsetHead == Len(out) (* mutant *)
(* The offset into the body, below 0 after a short first send(). *)
BodyOffset == Len(out) - resp.header

SendFurther ==
  /\ pc = "sendFurther"
  /\ ~ Sent
  /\ ~ SendsNoMore
  /\ \E n \in 1..(resp.body - BodyOffset) : out' = out \o Run(BodyBase + BodyOffset, n)
  /\ packetsOut' = packetsOut + 1
  /\ UNCHANGED <<client, pc, received, packetsIn, expected, req, resp, failed>>

SendFurtherFails == ~ Sent /\ ~ SendsNoMore /\ Fails("sendFurther")

AllSent ==
  /\ pc = "sendFurther"
  /\ Sent \/ SendsNoMore
  /\ Goto("cleanup")
  /\ UNCHANGED <<client, received, packetsIn, expected, req, sendVars, failed>>

Close ==
  /\ pc = "cleanup"
  /\ Goto("closed")
  /\ UNCHANGED <<client, received, packetsIn, expected, req, sendVars, failed>>

OpenFails == Fails("open")
ReceiveFails == Fails("receive")
SendFails == Fails("send")

Next ==
  \/ SetTimeouts \/ OpenFails
  \/ Receive \/ ReceiveFails
  \/ ReceiveFurther \/ FurtherFails \/ Received
  \/ ParseRequest \/ Route \/ RouteCrashes
  \/ Send \/ SendFails
  \/ SendFurther \/ SendFurtherFails \/ AllSent
  \/ Close

(* recv() and send() return after receive_timeout and send_timeout seconds
   at the latest, so handle() always takes its next step. *)
Spec == Init /\ [][Next]_vars /\ WF_vars(Next)
-----------------------------------------------------------------------------
(* Properties. *)

(* Every variable keeps its type; no recv() goes past the receive buffer, no
   send() further past the send buffer than the body that was written, and no
   limit on packets is passed. *)
TypeOK ==
  /\ client \in Clients
  /\ pc \in Pc
  /\ received \in 0..ReceiveBuffer
  /\ packetsIn \in 0..ReceivePackets
  /\ expected \in 0..(Word - 1)
  /\ req.part \in Parts \cup {"body", "refused"}
  /\ req.index \in 0..received
  /\ resp \in Answers \cup {[header |-> 0, body |-> 0]}
  /\ \A i \in DOMAIN out : out[i] \in 0..(SendBuffer + Beyond - 1)
  /\ packetsOut \in 0..SendPackets
  /\ failed \in BOOLEAN

Parsed == pc \notin {"open", "receive", "further", "request"} /\ req # Start
ParsedHead == SubSeq(Buffer, 1, IF req.status = 0 THEN req.index ELSE received)

(* request() routes exactly the requests whose head has arrived whole, whose
   parts are not empty and fit, and finds the parts where they are.  The
   stages of request.c:37-163 against the grammar of a request, for lines
   that end as they should. *)
ParserMeetsGrammar ==
  Parsed /\ ProperLines(ParsedHead) =>
    /\ req.status = 0 <=> Request(Buffer).index # 0
    /\ req.status = 0 => req.index = Request(Buffer).index /\ req.len = Request(Buffer).len

(* handle() and request() look for the end of the head each in its own way
   (app.c:55, request.c:131-159) and agree on where the body starts, if every
   line ends with carriage return and line feed: only request() takes a bare
   line feed for the end of a line. *)
HeadEndAgrees ==
  Parsed /\ req.status = 0 /\ ProperLines(ParsedHead) => BodyIndex(Buffer) = req.index

(* A request that is routed with less of a body than it announced has met a
   limit on packets or bytes, if the lines of its head end as they should: no
   timeout, early end or splitting of packets makes handle() act on a part of
   it (app.c:54-91). *)
BodyWholeUnlessLimit ==
  Parsed /\ req.status = 0 /\ ProperLines(ParsedHead) /\ "length" \in ToSet(ParsedHead)
    /\ received - req.index < client.content
    => packetsIn = ReceivePackets \/ req.index + client.content > ReceiveBuffer

(* The client gets head, header and body in order and nothing else, however
   send() cuts them (app.c:125-166). *)
AnswerInOrder == IsPrefix(out, Whole)

(* Without a failing call an answer is sent whole, or as far as the packets
   allowed carry it; of one that is longer than the buffer no body is sent
   (app.c:147). *)
AnswerDelivered ==
  pc = "closed" /\ ~ failed =>
    \/ out = Whole
    \/ packetsOut = SendPackets
    \/ /\ ResponseLength > SendBuffer
       /\ out = Run(0, resp.header)

(* A worker is never held for ever by a client, however slowly it sends or
   receives and whenever it stops (app.c:22-32, 67-91, 141-166). *)
ConnectionEnds == <>(pc \in {"closed", "crashed"})
=============================================================================

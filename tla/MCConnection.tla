---------------------------- MODULE MCConnection ----------------------------
(***************************************************************************)
(* Connection with small capacities and the clients that reach them.       *)
(***************************************************************************)
EXTENDS Connection

MCCap == [method |-> 2, pathname |-> 2, search |-> 2, protocol |-> 2, header |-> 7]

Words(n) == [i \in 1..n |-> "word"]
Crlf == <<"cr", "lf">>
Line(m, p, q, v) == Words(m) \o <<"space">> \o Words(p) \o q \o <<"space">> \o Words(v)
Searches == {<<>>} \cup {<<"mark">> \o Words(n) : n \in 0..2}
Plain == Line(1, 1, <<>>, 1)

(* Request lines with parts that are missing, fit and are too long. *)
RequestLines == {Line(m, p, q, v) \o Crlf \o Crlf : m, p, v \in 0..2, q \in Searches}

(* Headers up to and past their capacity, with every line end there is. *)
HeaderLines == {<<>>, Words(1), Words(2), <<"length">>, Words(3), <<"length", "word", "word", "word">>}
LineEnds == {Crlf, <<"lf">>, <<"cr">>}
Headers == {Plain \o e \o h \o e \o e : h \in HeaderLines, e \in LineEnds}
        \cup {Plain \o Crlf \o Words(1) \o Crlf \o Words(n) \o Crlf \o Crlf : n \in 0..1}

(* A request with a body, and the same with one byte of the head replaced. *)
Posted(body) == Plain \o Crlf \o <<"length">> \o Crlf \o Crlf \o body
Damaged == {[Posted(Words(2)) EXCEPT ![i] = b] : i \in 1..(Len(Plain) + 7), b \in Bytes}

Bodies == {Words(n) : n \in 0..7} \cup {Crlf \o Crlf}
MCClients ==
  [bytes : RequestLines \cup Headers, content : {0}]
    \cup [bytes : Damaged, content : {2}]
    \cup [bytes : {Posted(b) : b \in Bodies}, content : {-1, 0, 1, 4, 6, 7}]

(* Without a body, with one that fills its part of the buffer, and with one a byte longer: one whose
   head leaves room to send it, from behind the buffer, and one whose head does not. *)
MCAnswers ==
  {[header |-> 2, body |-> 0], [header |-> 3, body |-> 4], [header |-> 4, body |-> 1],
   [header |-> 2, body |-> 5], [header |-> 4, body |-> 5]}
=============================================================================

---- MODULE MCPageTransforms ----
(* Pages for TLC: the parts the pages under src/app are made of, in short. *)
EXTENDS PageTransforms

Attribute(cs) ==
  <<" ", "class=", "\"">>
    \o FlattenSeq([i \in DOMAIN cs |-> IF i = 1 THEN cs[i] ELSE <<" ">> \o cs[i]])
    \o <<"\"">>

Part(letters, meant, uses, loose, own) ==
  [letters |-> letters, meant |-> meant, uses |-> uses, loose |-> loose, own |-> own]
Same(letters, uses) == Part(letters, letters, uses, {}, FALSE)
ForOwner(letters, uses) == Part(letters, letters, uses, {}, TRUE)

Styled == Same(<<"html", "<", "style", ">", "<", "/style", ">">>, {})
Unstyled == Same(<<"html">>, {})
Open == Same(<<"<", "body">> \o Attribute(<< <<"flex">> >>) \o <<">">>, {<<"flex">>})
Close == Same(<<"<", "/body", ">", "\n">>, {})
ScriptOpen == Same(<<"<", "script", ">", "\n">>, {})
ScriptClose == Same(<<"<", "/script", ">">>, {})

Element(cs) ==
  Same(<<"<", "div">> \o Attribute(cs) \o <<">", "text", "<", "/div", ">", "\n">>, Range(cs))

Note == <<"<", "p">> \o Attribute(<< <<"relative">> >>) \o <<">", "<", "/p", ">">>
Notifications ==
  Part(<<"<", "notifications", " ", "ref=", "\"", "note.html", "\"", " ", "/", ">", "\n">>,
       Note \o <<"\n">>, {<<"relative">>}, {}, FALSE)
Version == Part(<<"<", "p", ">", "{version}", "<", "/p", ">">>,
                <<"<", "p", ">", "1", ".", "0", "<", "/p", ">">>, {}, {}, FALSE)

(* The link and the function only the owner gets; the link once more with   *)
(* a blank line before it.                                                  *)
Link == ForOwner(<<"\t", "<", "a">> \o Attribute(<< <<"md", ":", "flex">> >>) \o <<">", "link", "<", "/a", ">", "\n">>,
              {<<"md", ":", "flex">>})
Indented == Same(<<"\t">>, {})
Upload == ForOwner(<<"\t", "const", "upload", "classList.add", "(", "'", "m-", "4", "'", ")", ";", "\n">>,
                {<<"m-", "4">>})
Links == << [start |-> <<"\t", "<", "a">>, end |-> <<"/a", ">", "\n">>],
            [start |-> <<"\t", "const", "upload">>, end |-> <<";", "\n">>] >>

(* A script whose first string stands before any ")" is read for classes. *)
Array == <<"const", "'", "grid", "'", "(", "x", ")", ";", "\n">>
ImportArray == Part(<<"import ", "'", "array.js", "'", ";", "\n">>, Array, {}, {<<"grid">>}, FALSE)
Add == Same(<<"classList.add", "(", "'", "sm", ":", "m-", "4", "'", ",", " ", "'", "flex", "'", ")", ";", "\n">>,
            {<<"sm", ":", "m-", "4">>, <<"flex">>})
Get == <<"get", "(", "'", "text", "'", ")", ";", "\n">>
Other == Part(Get, Get, {}, {<<"text">>}, FALSE)

TheComponents == (<<"note.html">> :> Note)
TheScripts == (<<"array.js">> :> Array)
TheValues == ("{version}" :> <<"1", ".", "0">>)

TheKeys == [common |-> {<<"font-sans">>}, position |-> {<<"relative">>},
            display |-> {<<"flex">>, <<"grid">>}, border |-> {<<"border-", "solid">>, <<"outline-none">>},
            overflow |-> {<<"scrollbar-none">>}, flex |-> {<<"grow">>}, text |-> {<<"text-", "base">>},
            font |-> {<<"font-bold">>}, opacity |-> {<<"opacity-50">>}, cursor |-> {<<"cursor-wait">>},
            layout |-> {<<"z-4">>}, table |-> {<<"border-", "collapse">>}]
TheVariants == [spacing |-> << <<"m-">>, <<"mt-">> >>, sizing |-> << <<"w-">> >>,
                border |-> << <<"border-", "t-">>, <<"border-", "spacing-">>, <<"border-">> >>,
                overflow |-> << <<"overflow-", "x-">>, <<"overflow-">> >>,
                color |-> << <<"text-">>, <<"border-", "t-">>, <<"border-">> >>]
TheMappings == [spacing |-> << <<"4">> >>, sizing |-> << <<"4">>, <<"full">> >>, border |-> << <<"4">> >>,
                overflow |-> << <<"auto">> >>,
                color |-> << <<"slate-", "50">>, <<"slate-", "100">>, <<"slate-", "50", "0">> >>]
TheAlphas == {<<"/5">>, <<"/10">>}

(* Rules that are twice as long as the others. *)
TheRuleBytes == [rule \in {[pfx |-> <<>>, cls |-> <<"z-4">>], [pfx |-> <<"md">>, cls |-> <<"grow">>]} |-> 2]

(* One class of every kind. *)
Names ==
  { <<"font-sans">>, <<"relative">>, <<"grow">>, <<"text-", "base">>, <<"font-bold">>, <<"opacity-50">>,
    <<"cursor-wait">>, <<"z-4">>, <<"border-", "collapse">>, <<"border-", "solid">>, <<"outline-none">>,
    <<"scrollbar-none">>, <<"mt-", "4">>, <<"mt-", "5">>, <<"w-", "full">>, <<"border-", "4">>,
    <<"border-", "t-", "4">>, <<"border-", "spacing-", "4">>, <<"overflow-", "x-", "auto">>,
    <<"text-", "slate-", "50">>, <<"text-", "slate-", "100", "/10">>, <<"text-", "slate-", "50", "/5">>,
    <<"text-", "slate-", "50", "0">>, <<"border-", "t-", "slate-", "50">>, <<"border-", "slate-", "100">>,
    <<"nothing">> }
Tags == {"xs", "sm", "md", "lg", "xl", "dark", "hover"}
Prefixed == {<<t, ":">> \o n : t \in Tags, n \in Names}

SeqsUpTo(S, n) == UNION {[1 .. k -> S] : k \in 0 .. n}

Page(head, body, script) ==
  <<head, Open>> \o body \o <<Close, ScriptOpen>> \o script \o <<ScriptClose>>

ClassPages ==
  {Page(Styled, <<Element(<<c>>)>>, <<>>) : c \in Names \cup Prefixed}
    \cup {Page(Styled, <<Element(<<c, d, <<"flex">> >>)>>, <<Add>>) : c \in Names, d \in {<<"md", ":", "grow">>}}

BodyParts == {Element(<< <<"md", ":", "flex">>, <<"z-4">> >>), Notifications, Version, Link}
ScriptParts == {ImportArray, Add, Upload}
PartPages ==
  {Page(h, b, s) : h \in {Styled}, b \in SeqsUpTo(BodyParts, 2), s \in SeqsUpTo(ScriptParts, 2)}

OddPages ==
  { Page(Unstyled, <<Notifications>>, <<Add>>),
    Page(Same(<<"<", "style", ">", "<", "/style", ">">>, {}), <<Notifications>>, <<Add>>),
    Page(Styled, <<Indented, Link>>, <<Upload>>),
    Page(Styled, <<Indented, Link, Link>>, <<Other, Upload>>),
    << Unstyled >>,
    << Same(<<"user-agent", "\n">>, {}) >> }

(* All short texts of beginnings, wholes and ends of the fragments. *)
Pieces == { <<"\t">>, <<"\t", "<">>, <<"\t", "<", "a">>, <<"/a", ">">>, <<"/a", ">", "\n">>,
            <<"\t", "const", "upload">>, <<";", "\n">> }
Scraps == {<<Same(FlattenSeq(s), {})>> : s \in SeqsUpTo(Pieces, 4)}

ThePages == ClassPages \cup PartPages \cup OddPages \cup Scraps
====

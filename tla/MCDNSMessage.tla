---------------------------- MODULE MCDNSMessage ----------------------------
(***************************************************************************)
(* Packets over a small alphabet for the load generator's parser.          *)
(***************************************************************************)
EXTENDS DNSMessage

\* Identifier, flags, numbers of questions and of answers; no other records.
Header(id, flags, questions, answers) ==
    <<0, id>> \o flags \o <<0, questions, 0, answers, 0, 0, 0, 0>>

Asks    == <<1, 0>>
Answers == <<129, 128>>
NoName  == <<129, 131>>

\* Names in place, behind the question and in the header; a chain of pointers.
MCHeaders ==
    {Header(18, Asks, 1, 0) \o <<1, 97, 0>>, Header(16, Answers, 1, 1) \o <<1, 97, 192>>,
     Header(6, NoName, 1, 0) \o <<0, 0, 1>>, Header(0, Answers, 0, 1) \o <<0, 0, 1>>,
     Header(18, Answers, 1, 1) \o <<192, 18, 0, 1>>, Header(17, NoName, 1, 0) \o <<192, 15, 0, 192>>}

\* The root, labels of one or two bytes, a pointer and where it may lead.
MCBytes == {0, 1, 2, 192, 18}
=============================================================================

--------------------------- MODULE MCCommandLine ---------------------------
(***************************************************************************)
(* The second line is any of up to four words with one or two blanks        *)
(* between them and perhaps one in front; the first leaves text in input or *)
(* a file behind, the third asks for names again.                          *)
(***************************************************************************)
EXTENDS CommandLine

First  == {<<>>, <<"exit">>, <<"process">>, <<"file">>, <<"ls">>, <<"f", "1">>}
Second == {<<"start">>, <<"syscall">>, <<"process">>, <<"dummy1">>, <<"make">>,
           <<"read">>, <<"write">>, <<"append">>, <<"rm">>, <<"ls">>, <<"chmod">>}
Third  == {<<"test">>, <<"f">>, <<"f", "1">>, <<"-", "2">>}
Fourth == {<<"1", "0">>, <<"test">>, <<"-", "2", "f">>}
Gaps   == {<<" ">>, <<" ", " ">>}

Extended(lines, words) == {l \o g \o w : l \in lines, g \in Gaps, w \in words}

Fresh == First \cup {<<" ">> \o w : w \in First}
Two   == Extended(Fresh, Second)
Three == Extended({f \o g \o s : f \in {<<"process">>, <<"file">>}, g \in Gaps, s \in Second}, Third)
Four  == Extended(Three, Fourth)

MCLines ==
    << { <<"process", " ", "start">>, <<"file", " ", "make", " ", "f">>,
         <<"file", " ", "write", " ", "f", " ", "f", " ", "1", "test">> },
       Fresh \cup Two \cup Three \cup Four,
       { <<"file", " ", "read", " ", "f">>, <<"file", " ", "rm", " ", "f", "1">> } >>
=============================================================================

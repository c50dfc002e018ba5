------------------------------ MODULE MCCodecs -------------------------------
(* Instances of Codecs for TLC. *)
EXTENDS Codecs, TLC

MCMD5(text) == "MD5" \o ToString(text)

MCByteStrings ==
    LET edge == {0, 1, 63, 128, 255}
    IN UNION {[1 .. n -> edge] : n \in 2 .. 4} \cup {<<b, c, 7, 200, b, c>> : b, c \in edge}

MCTexts ==
    LET digits == {0, 21, 63, 64, 65}
    IN [1 .. 3 -> digits] \cup [1 .. 4 -> digits]
       \cup {front \o back : front \in {<<0, 21, 63, 1>>, <<65, 1, 1, 1>>, <<1, 1, 64, 64>>},
                             back \in [1 .. 4 -> digits]}

MCNodes     == {NULL, <<"u">>, <<"u", "v">>}
MCDomains   == {<<"d">>, <<"d", ".", "e">>}
MCResources == {NULL, <<>>, <<"r">>, <<"/">>, <<"@">>, <<"r", "@", "s", "/", "@">>}

Quoted(key, value)   == [key |-> <<key>>, value |-> value, quote |-> "\""]
Unquoted(key, value) == [key |-> <<key>>, value |-> value, quote |-> NULL]

\* Up to three directives in any order, some twice, with and without quotes.
Directive ==
    {Quoted("nonce", <<"n">>), Quoted("nonce", <<"n", "=", "m">>), Quoted("nonce", <<"n", ",", "'">>),
     Quoted("realm", <<>>), Quoted("realm", <<"s">>), Quoted("qop", <<"auth", ",", "auth-int">>),
     [key |-> <<"realm">>, value |-> <<"s", ",", "t">>, quote |-> "'"],
     Unquoted("realm", <<"s">>), Unquoted("charset", <<"utf-8">>), Unquoted("username", <<"x">>)}
MCChallenges == UNION {[1 .. n -> Directive] : n \in 1 .. 3}
\* A blank in front of a comma would become part of a value without quotes.
MCSeparators == {<<",">>, <<",", ",", " ">>}

\* _x._t.d.e, of which d.e begins behind the sixth byte.
MCFulldomain == <<95, 120, DOT, 95, 116, DOT, 100, DOT, 101>>

Long == [i \in 1 .. 63 |-> 97]
MCRecord ==
    {[type |-> SRV, port |-> 5222, target |-> <<115>>, compressed |-> TRUE],
     [type |-> SRV, port |-> 65535, target |-> <<115, DOT, 116, 117>>, compressed |-> FALSE],
     [type |-> SRV, port |-> 256, target |-> Long, compressed |-> TRUE],
     [type |-> 5, port |-> 0, target |-> <<115>>, compressed |-> TRUE],
     [type |-> 5, port |-> 0, target |-> <<115, DOT, 116, 117>>, compressed |-> FALSE]}
MCRecords == UNION {[1 .. n -> MCRecord] : n \in 0 .. 3}
=============================================================================

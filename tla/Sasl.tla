-------------------------------- MODULE Sasl ---------------------------------
(***************************************************************************)
(* The SASL mechanisms of sasl.c.  Text is a sequence of tokens: the       *)
(* separators, and words, which stand for runs of other characters.  MD5   *)
(* is external.  Memory suffices, and tables are hash.c's, by key.         *)
(***************************************************************************)
EXTENDS Base64

CONSTANT MD5(_)   \* the token that stands for the digest of a text

INSTANCE Jid

Quotes == {"'", "\""}
Blank  == {",", " "}

\* Text as base64_encode leaves it, where bytes do not matter.
Armored(text) == [base64 |-> text]

sasl_plain(authid, password) == base64_encode(<<0>> \o authid \o <<0>> \o password)

RECURSIVE SkipBlank(_), Directives(_, _)

SkipBlank(s) == IF s # <<>> /\ s[1] \in Blank THEN SkipBlank(Tail(s)) ELSE s

Known(table, k)    == k \in DOMAIN table
hash_get(table, k) == IF Known(table, k) THEN table[k] ELSE NULL
hash_add(table, k, v) == [x \in DOMAIN table \cup {k} |-> IF x = k THEN v ELSE table[x]]

\* A value in quotes ends at the same quote, another at the comma, which is left; both end
\* with the text.
ValueAt(s) ==
    IF s # <<>> /\ s[1] \in Quotes
    THEN IF Strchr(Tail(s), s[1]) = 0 THEN [value |-> Tail(s), rest |-> <<>>]
         ELSE [value |-> Before(Tail(s), s[1]), rest |-> Behind(Tail(s), s[1])]
    ELSE IF Strchr(s, ",") = 0 THEN [value |-> s, rest |-> <<>>]
         ELSE [value |-> Before(s, ","), rest |-> SubSeq(s, Strchr(s, ","), Len(s))]

\* The last of equal keys counts; what is no directive ends it.
Directives(s, table) ==
    LET from == SkipBlank(s)
        at   == ValueAt(Behind(from, "="))
    IN IF Strchr(from, "=") = 0 THEN table
       ELSE Directives(at.rest, hash_add(table, Before(from, "="), at.value))

_parse_digest_challenge(challenge) == Directives(challenge.base64, << >>)

_digest_to_hex(digest) == <<"hex", digest>>

_make_quoted(s) == <<"\"">> \o s \o <<"\"">>

\* A value that is missing is empty.
_add_key(table, key, buf, quote) ==
    LET value == IF Known(table, key) THEN table[key] ELSE <<>>
    IN (IF buf = <<>> THEN buf ELSE Append(buf, ","))
       \o key \o <<"=">> \o (IF quote THEN _make_quoted(value) ELSE value)

\* The digests of the response: A1 begins with the digest itself, not its hex.
Response(table, node, realm, password) ==
    LET Get(k) == table[<<k>>]
        inner == MD5(node \o <<":">> \o realm \o <<":">> \o password)
        HA1 == MD5(<<inner, ":">> \o Get("nonce") \o <<":">> \o Get("cnonce"))
        HA2 == MD5(<<"AUTHENTICATE", ":">> \o Get("digest-uri"))
    IN _digest_to_hex(MD5(_digest_to_hex(HA1) \o <<":">> \o Get("nonce") \o <<":">> \o Get("nc")
                          \o <<":">> \o Get("cnonce") \o <<":">> \o Get("qop") \o <<":">>
                          \o _digest_to_hex(HA2)))

\* Mutant of Completed: an empty realm is the server's.
Completed_empty(table, node, domain) ==
    LET realm == IF Known(table, <<"realm">>) THEN table[<<"realm">>] ELSE domain
        plus(t, k, v) == hash_add(t, <<k>>, v)
    IN plus(plus(plus(plus(plus(plus(table, "realm", realm), "username", node),
                           "cnonce", <<"00DEADBEEF00">>), "nc", <<"00000001">>),
                 "qop", <<"auth">>), "digest-uri", <<"xmpp", "/">> \o domain)

\* The table with the client's fields, which replace the server's.
Completed(table, node, domain) ==
    LET sent  == hash_get(table, <<"realm">>)
        realm == IF sent = NULL \/ sent = <<>> THEN domain ELSE sent
        plus(t, k, v) == hash_add(t, <<k>>, v)
    IN plus(plus(plus(plus(plus(plus(table, "realm", realm), "username", node),
                           "cnonce", <<"00DEADBEEF00">>), "nc", <<"00000001">>),
                 "qop", <<"auth">>), "digest-uri", <<"xmpp", "/">> \o domain)

RECURSIVE Reply(_, _, _)
Reply(table, fields, buf) ==
    IF fields = <<>> THEN buf
    ELSE Reply(table, Tail(fields), _add_key(table, <<fields[1][1]>>, buf, fields[1][2]))

\* A JID without a node, or a challenge without a nonce, is followed to a NULL.
sasl_digest_md5(challenge, jid, password) ==
    LET node   == xmpp_jid_node(jid)
        table  == Completed(_parse_digest_challenge(challenge), node, xmpp_jid_domain(jid))
        answer == Response(table, node, table[<<"realm">>], password)
    IN IF challenge = NULL THEN NULL
       ELSE IF node = NULL \/ ~Known(table, <<"nonce">>) THEN UNDEFINED
       ELSE Armored(Reply(hash_add(table, <<"response">>, answer),
                          << <<"username", TRUE>>, <<"realm", TRUE>>, <<"nonce", TRUE>>,
                             <<"cnonce", TRUE>>, <<"nc", FALSE>>, <<"qop", FALSE>>,
                             <<"digest-uri", TRUE>>, <<"response", FALSE>>,
                             <<"charset", FALSE>> >>, <<>>))
=============================================================================

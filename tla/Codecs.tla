------------------------------- MODULE Codecs --------------------------------
(***************************************************************************)
(* The pure functions of sasl.c, jid.c and sock.c against what they are    *)
(* for.  Every step hands one of them an input; the properties compare     *)
(* what it makes of it with a definition that does not follow the code.    *)
(***************************************************************************)
EXTENDS Sasl, Dns, SequencesExt

CONSTANTS
    ByteStrings, Texts,                \* for Base64
    Nodes, Domains, Resources,         \* parts of JIDs
    Challenges,     \* sequences of [key, value, quote]
    Separators,     \* what is between the directives of a challenge
    Fulldomain,     \* the name asked for, whose domain begins at byte DomainAt
    DomainAt,
    Records         \* sequences of [type, port, target, compressed]

VARIABLE input

Kind(k, v) == [kind |-> k, value |-> v]
Idle == Kind("idle", <<>>)

Init == input = Idle

Give(k, v) == input = Idle /\ input' = Kind(k, v)

Encode    == \E b \in ByteStrings : Give("bytes", b)
Decode    == \E t \in Texts : Give("text", t)
Parts     == \E node \in Nodes, domain \in Domains, resource \in Resources :
                 Give("jid", <<node, domain, resource>>)
Challenge == \E c \in Challenges, sep \in Separators : Give("challenge", <<c, sep>>)
Lookup    == \E r \in Records, asked \in {0, 1} : Give("lookup", <<r, asked>>)
Return    == input # Idle /\ input' = Idle

Next == Encode \/ Decode \/ Parts \/ Challenge \/ Lookup \/ Return

Spec == Init /\ [][Next]_input

-----------------------------------------------------------------------------
(* Base64 as a stream of bits. *)

\* The bit at place k of numbers of the given width, 0 behind the last.
BitAt(numbers, width, k) ==
    IF k >= width * Len(numbers) THEN 0
    ELSE (numbers[k \div width + 1] \div 2 ^ (width - 1 - (k % width))) % 2

\* The same bits as count numbers of another width.
Regrouped(numbers, from, to, count) ==
    [j \in 1 .. count |->
        MapThenSumSet(LAMBDA i : BitAt(numbers, from, to * (j - 1) + i) * 2 ^ (to - 1 - i), 0 .. to - 1)]

Encoding(b) ==
    LET digits  == (8 * Len(b) + 5) \div 6
        padding == (4 - (digits % 4)) % 4
    IN Regrouped(b, 8, 6, digits) \o [i \in 1 .. padding |-> PAD]

\* The digits of a text that ends in at most two pads and has no others.
EndsWell(t) ==
    /\ Len(t) % 4 = 0 /\ t # <<>>
    /\ \E p \in 0 .. 2 : /\ \A i \in DOMAIN t : t[i] = PAD <=> i > Len(t) - p
                         /\ t[Len(t) - p] < PAD
Digits(t) == SelectSeq(t, LAMBDA c : c # PAD)

Decoding(t) ==
    LET d == Digits(t)
    IN IF \E i \in DOMAIN d : d[i] > PAD THEN NULL ELSE Regrouped(d, 6, 8, (6 * Len(d)) \div 8)

\* Two bytes and more are encoded bit by bit as the standard says and come back the same;
\* text whose padding is in place is decoded so, or rejected for what is no digit, and
\* the length computed from its last characters is that of what the loop writes
\* (sasl.c:401-563).
Base64True ==
    /\ input.kind = "bytes" =>
          LET b == input.value
              t == base64_encode(b)
          IN /\ t = Encoding(b) /\ Len(t) = base64_encoded_len(Len(b))
             /\ base64_decode(t) = b
             /\ sasl_plain(b, b) = Encoding(<<0>> \o b \o <<0>> \o b)
    /\ input.kind = "text" =>
          LET t == input.value
          IN /\ EndsWell(t) => base64_decode(t) = Decoding(t)
             /\ Len(t) % 4 # 0 => base64_decode(t) = NULL

\* A JID gives back the parts it was made of, unless it has no node and an @ in the
\* resource, which is then taken for the end of a node (jid.c:34-177).
JidTrue ==
    input.kind = "jid" =>
        LET node     == input.value[1]
            domain   == input.value[2]
            resource == input.value[3]
            jid      == xmpp_jid_new(node, domain, resource)
        IN /\ xmpp_jid_resource(jid) = resource
           /\ xmpp_jid_bare(jid) = xmpp_jid_new(node, domain, NULL)
           /\ (node # NULL \/ resource = NULL \/ ~Contains(resource, "@")) =>
                 xmpp_jid_node(jid) = node /\ xmpp_jid_domain(jid) = domain

-----------------------------------------------------------------------------
(* DIGEST-MD5. *)

Written(d) ==
    d.key \o <<"=">> \o (IF d.quote = NULL THEN d.value ELSE <<d.quote>> \o d.value \o <<d.quote>>)

RECURSIVE Joined(_, _)
Joined(c, sep) ==
    IF Len(c) = 1 THEN Written(c[1]) ELSE Written(c[1]) \o sep \o Joined(Tail(c), sep)

\* The last value given to a key, or other.
LastOf(c, key, other) ==
    LET is == {i \in DOMAIN c : c[i].key = <<key>>}
    IN IF is = {} THEN other ELSE c[Max(is)].value

Colon(parts) == FoldLeft(LAMBDA all, part : IF all = <<>> THEN part ELSE all \o <<":">> \o part,
                         <<>>, parts)

\* The response of RFC 2831.
Proof(node, realm, nonce, uri, password) ==
    LET A1 == Colon(<< <<MD5(Colon(<<node, realm, password>>))>>, nonce, <<"00DEADBEEF00">> >>)
        A2 == Colon(<< <<"AUTHENTICATE">>, uri >>)
    IN _digest_to_hex(MD5(Colon(<<_digest_to_hex(MD5(A1)), nonce, <<"00000001">>,
                                  <<"00DEADBEEF00">>, <<"auth">>, _digest_to_hex(MD5(A2))>>)))

\* Whatever the order, the quotes and the blanks of the challenge, the reply reads as the
\* directives meant: the server's nonce and charset, its realm or the domain for want of
\* one, the client's own fields, and the response they ask for (sasl.c:98-361).
DigestTrue ==
    input.kind = "challenge" =>
        LET c      == input.value[1]
            domain == <<"d">>
            jid    == xmpp_jid_new(<<"u">>, domain, <<"r">>)
            reply  == sasl_digest_md5(Armored(Joined(c, input.value[2])), jid, <<"p">>)
            realm  == LET sent == LastOf(c, "realm", <<>>) IN IF sent = <<>> THEN domain ELSE sent
            nonce  == LastOf(c, "nonce", NULL)
            uri    == <<"xmpp", "/", "d">>
            read   == _parse_digest_challenge(reply)
            Read(k) == read[<<k>>]
        IN IF nonce = NULL THEN reply = UNDEFINED
           ELSE /\ Read("username") = <<"u">> /\ Read("realm") = realm /\ Read("nonce") = nonce
                /\ Read("cnonce") = <<"00DEADBEEF00">> /\ Read("nc") = <<"00000001">>
                /\ Read("qop") = <<"auth">> /\ Read("digest-uri") = uri
                /\ Read("response") = Proof(<<"u">>, realm, nonce, uri, <<"p">>)
                /\ Read("charset") = LastOf(c, "charset", <<>>)

-----------------------------------------------------------------------------
(* An answer as a name server writes it. *)

Header(asked, records) ==
    [id |-> 12345, qr |-> 1, opcode |-> 0, aa |-> 1, tc |-> 0, rd |-> 1, ra |-> 1, z |-> 0,
     rcode |-> 0, qdcount |-> asked, ancount |-> Len(records), nscount |-> 0, arcount |-> 0]

Pointer(offset) == <<192 + offset \div 256, offset % 256>>

\* A name in full, or one whose domain points into the question.
Name(r, asked) ==
    IF r.compressed /\ asked = 1 THEN Labels(r.target) \o Pointer(12 + DomainAt)
    ELSE Labels(r.target) \o <<0>>

\* A record of the name asked for; one that is no SRV record carries a name.
Record(r, asked) ==
    LET data == (IF r.type = SRV THEN <<0, 5, 0, 1, r.port \div 256, r.port % 256>> ELSE <<>>)
                \o Name(r, asked)
    IN (IF asked = 1 THEN Pointer(12) ELSE Labels(Fulldomain) \o <<0>>)
       \o <<0, r.type, 0, 1, 0, 1, 81, 128>> \o <<0, Len(data)>> \o data

RECURSIVE AllRecords(_, _)
AllRecords(records, asked) ==
    IF records = <<>> THEN <<>> ELSE Record(records[1], asked) \o AllRecords(Tail(records), asked)

Answer(records, asked) ==
    LET header == netbuf_add_dnsquery_header(<<>>, Header(asked, records))
        question == [qname |-> Fulldomain, qtype |-> SRV, qclass |-> 1]
    IN (IF asked = 0 THEN header ELSE netbuf_add_dnsquery_question(header, question))
       \o AllRecords(records, asked)

Domain == SubSeq(Fulldomain, DomainAt + 1, Len(Fulldomain))

Dotted(r, asked) ==
    IF r.compressed /\ asked = 1 THEN r.target \o <<DOT>> \o Domain ELSE r.target

\* The query reads as it was written, and of an answer, however its names are compressed
\* and whatever other records are between, the server is that of the last SRV record, the
\* domain with port 5222 without any, and the alternative wherever there is one
\* (sock.c:241-535, 866-913; conn.c:408-423).
LookupTrue ==
    input.kind = "lookup" =>
        LET records == input.value[1]
            asked   == input.value[2]
            servers == SelectSeq(records, LAMBDA r : r.type = SRV)
            last    == servers[Len(servers)]
            answer  == Answer(records, asked)
            query   == Query(Fulldomain)
            read    == netbuf_get_dnsquery_question(query, netbuf_get_dnsquery_header(query, 0).offset)
            Address(alt, port) == ConnectAddress(answer, Domain, alt, port)
        IN /\ netbuf_get_dnsquery_header(answer, 0).value = Header(asked, records)
           /\ read = [value |-> [qname |-> Fulldomain, qtype |-> SRV, qclass |-> 1],
                      offset |-> Len(query)]
           /\ calc_domain_name_size(query, 12, 0) = Len(Fulldomain)
           /\ Address(NoAnswer, 0) = IF servers = <<>> THEN [host |-> Domain, port |-> 5222]
                                     ELSE [host |-> Dotted(last, asked), port |-> last.port]
           /\ Address(Domain, 80) = [host |-> Domain, port |-> 80]
           /\ ConnectAddress(NoAnswer, Domain, NoAnswer, 0) = [host |-> Domain, port |-> 5222]
=============================================================================

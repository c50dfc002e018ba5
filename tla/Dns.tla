--------------------------------- MODULE Dns ---------------------------------
(***************************************************************************)
(* The DNS messages of sock.c and the choice of a server.  A message is a  *)
(* sequence of bytes, an offset counts those in front of it.  What is read *)
(* comes with the offset behind it.  Names fit into their buffers.         *)
(***************************************************************************)
EXTENDS Integers, Sequences

LOCAL INSTANCE SequencesExt

CONSTANT NoAnswer   \* res_query failed

DOT == 46
SRV == 33

\* Big endian.  The writers append.
netbuf_add_16bitnum(buf, num) == buf \o <<(num \div 256) % 256, num % 256>>

Byte(buf, offset) == buf[offset + 1]

netbuf_get_16bitnum(buf, offset) == Byte(buf, offset) * 256 + Byte(buf, offset + 1)

\* What a label of more than 63 bytes loses is its length.
RECURSIVE Labels(_)
Labels(name) ==
    LET dot  == SelectInSeq(name, LAMBDA c : c = DOT)
        word == IF dot = 0 THEN name ELSE SubSeq(name, 1, dot - 1)
        rest == IF dot = 0 THEN <<>> ELSE SubSeq(name, dot + 1, Len(name))
    IN IF name = <<>> THEN <<>>
       ELSE <<IF Len(word) > 63 THEN 63 ELSE Len(word)>> \o word \o Labels(rest)

netbuf_add_domain_name(buf, name) == buf \o Labels(name) \o <<0>>

IsPointer(byte)      == byte >= 192
Target(buf, offset)  == (Byte(buf, offset) % 64) * 256 + Byte(buf, offset + 1)

\* The labels from offset on with dots between them.
RECURSIVE NameAt(_, _)
NameAt(buf, offset) ==
    LET len  == Byte(buf, offset)
        rest == NameAt(buf, offset + len + 1)
    IN IF len = 0 THEN <<>>
       ELSE IF IsPointer(len) THEN NameAt(buf, Target(buf, offset))
       ELSE SubSeq(buf, offset + 2, offset + len + 1)
            \o (IF rest = <<>> THEN <<>> ELSE <<DOT>> \o rest)

\* A name ends with its first pointer.
RECURSIVE NameEnd(_, _)
NameEnd(buf, offset) ==
    LET len == Byte(buf, offset)
    IN IF len = 0 THEN offset + 1
       ELSE IF IsPointer(len) THEN offset + 2
       ELSE NameEnd(buf, offset + len + 1)

RECURSIVE calc_domain_name_size(_, _, _)
calc_domain_name_size(buf, offset, len) ==
    LET b == Byte(buf, offset)
    IN IF b = 0 THEN len
       ELSE IF IsPointer(b) THEN calc_domain_name_size(buf, Target(buf, offset), len)
       ELSE calc_domain_name_size(buf, offset + b + 1, len + b + (IF len = 0 THEN 0 ELSE 1))

netbuf_get_domain_name(buf, offset) ==
    [value |-> NameAt(buf, offset), offset |-> NameEnd(buf, offset)]

-----------------------------------------------------------------------------
netbuf_add_dnsquery_header(buf, h) ==
    LET flags == <<h.qr * 128 + h.opcode * 8 + h.aa * 4 + h.tc * 2 + h.rd,
                   h.ra * 128 + h.z * 16 + h.rcode>>
        Then(b, num) == netbuf_add_16bitnum(b, num)
    IN Then(Then(Then(Then(Then(buf, h.id) \o flags, h.qdcount), h.ancount), h.nscount), h.arcount)

netbuf_get_dnsquery_header(buf, offset) ==
    LET Num(i) == netbuf_get_16bitnum(buf, offset + i)
        a == Byte(buf, offset + 2)
        b == Byte(buf, offset + 3)
    IN [value |-> [id |-> Num(0), qr |-> a \div 128, opcode |-> (a \div 8) % 16,
                   aa |-> (a \div 4) % 2, tc |-> (a \div 2) % 2, rd |-> a % 2,
                   ra |-> b \div 128, z |-> (b \div 16) % 8, rcode |-> b % 16,
                   qdcount |-> Num(4), ancount |-> Num(6), nscount |-> Num(8),
                   arcount |-> Num(10)],
        offset |-> offset + 12]

netbuf_add_dnsquery_question(buf, q) ==
    netbuf_add_16bitnum(netbuf_add_16bitnum(netbuf_add_domain_name(buf, q.qname), q.qtype), q.qclass)

netbuf_get_dnsquery_question(buf, offset) ==
    LET name == netbuf_get_domain_name(buf, offset)
    IN [value |-> [qname |-> name.value, qtype |-> netbuf_get_16bitnum(buf, name.offset),
                   qclass |-> netbuf_get_16bitnum(buf, name.offset + 2)],
        offset |-> name.offset + 4]

netbuf_get_dnsquery_srvrdata(buf, offset) ==
    [priority |-> netbuf_get_16bitnum(buf, offset), weight |-> netbuf_get_16bitnum(buf, offset + 2),
     port |-> netbuf_get_16bitnum(buf, offset + 4), target |-> NameAt(buf, offset + 6)]

\* Type, class, the time to live, and the length of the data, behind which the next begins.
netbuf_get_dnsquery_resourcerecord(buf, offset) ==
    LET name == netbuf_get_domain_name(buf, offset)
        type == netbuf_get_16bitnum(buf, name.offset)
        data == name.offset + 10
    IN [value |-> [type |-> type,
                   rdata |-> IF type = SRV THEN netbuf_get_dnsquery_srvrdata(buf, data) ELSE NoAnswer],
        offset |-> data + netbuf_get_16bitnum(buf, data - 2)]

\* The query where there is no res_query.
Query(fulldomain) ==
    netbuf_add_dnsquery_question(
        netbuf_add_dnsquery_header(<<>>,
            [id |-> 12345, qr |-> 0, opcode |-> 0, aa |-> 0, tc |-> 0, rd |-> 1, ra |-> 0,
             z |-> 0, rcode |-> 0, qdcount |-> 1, ancount |-> 0, nscount |-> 0, arcount |-> 0]),
        [qname |-> fulldomain, qtype |-> SRV, qclass |-> 1])

RECURSIVE Questions(_, _, _), Answers(_, _, _, _)

\* The offset behind n questions.
Questions(buf, offset, n) ==
    IF n = 0 THEN offset ELSE Questions(buf, netbuf_get_dnsquery_question(buf, offset).offset, n - 1)

\* Mutant of Answers: the first one is kept.
RECURSIVE Answers_first(_, _, _, _)
Answers_first(buf, offset, n, found) ==
    LET rr == netbuf_get_dnsquery_resourcerecord(buf, offset)
    IN IF n = 0 \/ found # NoAnswer THEN found
       ELSE Answers_first(buf, rr.offset, n - 1,
                          IF rr.value.type = SRV THEN rr.value.rdata ELSE found)

\* The data of the last SRV record; priorities and weights are read and not looked at.
Answers(buf, offset, n, found) ==
    LET rr == netbuf_get_dnsquery_resourcerecord(buf, offset)
    IN IF n = 0 THEN found
       ELSE Answers(buf, rr.offset, n - 1, IF rr.value.type = SRV THEN rr.value.rdata ELSE found)

\* Where to connect: set tells the port and target of a record from the default.
sock_srv_lookup(answer, domain) ==
    LET header == netbuf_get_dnsquery_header(answer, 0)
        behind == Questions(answer, header.offset, header.value.qdcount)
        found  == IF answer = NoAnswer THEN NoAnswer
                  ELSE Answers(answer, behind, header.value.ancount, NoAnswer)
    IN IF found = NoAnswer THEN [set |-> 0, target |-> domain, port |-> 5222]
       ELSE [set |-> 1, target |-> found.target, port |-> found.port]

\* What xmpp_connect_client connects to.  NoAnswer also stands for no altdomain, 0 for no
\* altport.
ConnectAddress(answer, domain, altdomain, altport) ==
    LET default == IF altport # 0 THEN altport ELSE 5222
        found   == sock_srv_lookup(answer, domain)
    IN IF altdomain # NoAnswer THEN [host |-> altdomain, port |-> default]
       ELSE IF found.set = 0 THEN [host |-> domain, port |-> default]
       ELSE [host |-> found.target, port |-> found.port]
=============================================================================

--------------------------------- MODULE Jid ---------------------------------
(* jid.c: a JID and its parts, as sequences of characters.  Memory suffices. *)
EXTENDS Integers, Sequences

LOCAL INSTANCE SequencesExt

CONSTANT NULL   \* no such part

xmpp_jid_new(node, domain, resource) ==
    IF domain = NULL THEN NULL
    ELSE (IF node = NULL THEN <<>> ELSE Append(node, "@")) \o domain
         \o (IF resource = NULL THEN <<>> ELSE <<"/">> \o resource)

\* strchr: the place of the first c in s, or 0.
Strchr(s, c) == SelectInSeq(s, LAMBDA x : x = c)

Before(s, c) == SubSeq(s, 1, Strchr(s, c) - 1)
Behind(s, c) == SubSeq(s, Strchr(s, c) + 1, Len(s))     \* all of s if there is no c

xmpp_jid_bare(jid) == IF Strchr(jid, "/") = 0 THEN jid ELSE Before(jid, "/")

\* The first @, wherever it is.
xmpp_jid_node(jid) == IF Strchr(jid, "@") = 0 THEN NULL ELSE Before(jid, "@")

\* Mutant of xmpp_jid_domain: the resource is not taken off.
xmpp_jid_domain_rest(jid) == Behind(jid, "@")

xmpp_jid_domain(jid) == xmpp_jid_bare(Behind(jid, "@"))

xmpp_jid_resource(jid) == IF Strchr(jid, "/") = 0 THEN NULL ELSE Behind(jid, "/")
=============================================================================

----------------------------- MODULE StanzaTree ------------------------------
(***************************************************************************)
(* stanza.c: reference-counted nodes linked to their parent, siblings and  *)
(* first child.  The functions of the code are operators from heaps to     *)
(* heaps, so that the parser composes them as it calls them.  A pointer to *)
(* a freed node reads DANGLING, and the heap is BAD once such a pointer    *)
(* has been followed.  Memory suffices.                                    *)
(***************************************************************************)
EXTENDS Integers, Sequences, FiniteSets

CONSTANTS
    Nodes,             \* the addresses there are
    NULL, DANGLING, FREE, BAD,
    Names, Texts,      \* of tags and of text nodes: sequences of characters
    Keys, Values,      \* of attributes; no two keys share the last bucket of a table
    InitialLength      \* the buffer xmpp_stanza_to_text begins with

VARIABLES
    heap,              \* the node at each address, or FREE
    held               \* the references each address has from the application

NoAttributes == [k \in Keys |-> NULL]

Fresh == [ref |-> 1, type |-> "unknown", prev |-> NULL, next |-> NULL, children |-> NULL,
          parent |-> NULL, data |-> NULL, attributes |-> NoAttributes]

Live(h) == {n \in DOMAIN h : h[n] # FREE}

\* The address xmpp_alloc returns.
Unused(h) == CHOOSE n \in DOMAIN h : h[n] = FREE

xmpp_stanza_new(h, n) == [h EXCEPT ![n] = Fresh]

xmpp_stanza_clone(h, n) == [h EXCEPT ![n].ref = @ + 1]

Bent(p, n) == IF p = n THEN DANGLING ELSE p

\* Node n is freed, and what points to it dangles.
Free(h, n) ==
    [m \in DOMAIN h |->
        IF m = n \/ h[m] = FREE THEN FREE
        ELSE [h[m] EXCEPT !.parent = Bent(@, n), !.prev = Bent(@, n), !.next = Bent(@, n),
                          !.children = Bent(@, n)]]

RECURSIVE xmpp_stanza_release(_, _), ReleaseFrom(_, _)

xmpp_stanza_release(h, n) ==
    IF h = BAD THEN BAD
    ELSE IF n \notin DOMAIN h THEN BAD
    ELSE IF h[n] = FREE THEN BAD
    ELSE IF h[n].ref > 1 THEN [h EXCEPT ![n].ref = @ - 1]
    ELSE LET left == ReleaseFrom(h, h[n].children) IN IF left = BAD THEN BAD ELSE Free(left, n)

\* A child and those behind it; next is read before the child is released.
ReleaseFrom(h, c) ==
    IF h = BAD \/ c = NULL THEN h
    ELSE IF c = DANGLING THEN BAD
    ELSE IF h[c] = FREE THEN BAD
    ELSE ReleaseFrom(xmpp_stanza_release(h, c), h[c].next)

RECURSIVE Siblings(_, _), Tree(_, _), xmpp_stanza_copy(_, _), CopyFrom(_, _, _, _)

\* The nodes from c on.
Siblings(h, c) == IF c = NULL THEN <<>> ELSE <<c>> \o Siblings(h, h[c].next)

Children(h, n) == Siblings(h, h[n].children)

\* What a node stands for, without addresses.
Tree(h, n) ==
    LET cs == Children(h, n)
    IN [type |-> h[n].type, data |-> h[n].data, attributes |-> h[n].attributes,
        children |-> [i \in DOMAIN cs |-> Tree(h, cs[i])]]

\* Mutant of xmpp_stanza_add_child: the new sibling is linked one way only.
xmpp_stanza_add_child_oneway(h, n, c) ==
    LET g  == [xmpp_stanza_clone(h, c) EXCEPT ![c].parent = n]
        cs == Children(g, n)
    IN IF cs = <<>> THEN [g EXCEPT ![n].children = c]
       ELSE [g EXCEPT ![cs[Len(cs)]].next = c]

\* next of the child stays as it is.
xmpp_stanza_add_child(h, n, c) ==
    LET g  == [xmpp_stanza_clone(h, c) EXCEPT ![c].parent = n]
        cs == Children(g, n)
    IN IF cs = <<>> THEN [g EXCEPT ![n].children = c]
       ELSE [g EXCEPT ![cs[Len(cs)]].next = c, ![c].prev = cs[Len(cs)]]

\* Mutant of CopyFrom: tail stays at the first child.
CopyFrom_first(h, copy, tail, c) ==
    IF c = NULL THEN h
    ELSE LET new == Unused(h)
             g   == [xmpp_stanza_copy(h, c) EXCEPT ![new].parent = copy]
         IN IF tail = NULL THEN CopyFrom([g EXCEPT ![copy].children = new], copy, new, h[c].next)
            ELSE CopyFrom([g EXCEPT ![new].prev = tail, ![tail].next = new], copy, tail, h[c].next)

\* The children from c on, behind tail.
CopyFrom(h, copy, tail, c) ==
    IF c = NULL THEN h
    ELSE LET new == Unused(h)
             g   == [xmpp_stanza_copy(h, c) EXCEPT ![new].parent = copy]
         IN CopyFrom(IF tail = NULL THEN [g EXCEPT ![copy].children = new]
                     ELSE [g EXCEPT ![new].prev = tail, ![tail].next = new],
                     copy, new, h[c].next)

\* The heap with a copy, which is at the first unused address.
xmpp_stanza_copy(h, n) ==
    LET copy == Unused(h)
    IN CopyFrom([xmpp_stanza_new(h, copy) EXCEPT
                    ![copy].type = h[n].type, ![copy].data = h[n].data,
                    ![copy].attributes = h[n].attributes],
                copy, NULL, h[n].children)

\* Both refuse a node of the other type: XMPP_EINVOP.
xmpp_stanza_set_name(h, n, name) ==
    IF h[n].type = "text" THEN h ELSE [h EXCEPT ![n].type = "tag", ![n].data = name]

xmpp_stanza_set_text(h, n, text) ==
    IF h[n].type = "tag" THEN h ELSE [h EXCEPT ![n].type = "text", ![n].data = text]

xmpp_stanza_set_text_with_size(h, n, text, size) ==
    xmpp_stanza_set_text(h, n, SubSeq(text, 1, size))

xmpp_stanza_set_attribute(h, n, k, v) ==
    IF h[n].type = "tag" THEN [h EXCEPT ![n].attributes[k] = v] ELSE h

xmpp_stanza_get_attribute(h, n, k) ==
    IF h[n].type = "tag" THEN h[n].attributes[k] ELSE NULL

xmpp_stanza_get_name(h, n) == IF h[n].type = "text" THEN NULL ELSE h[n].data

-----------------------------------------------------------------------------
(* Reading a tree. *)

xmpp_stanza_get_ns(h, n)   == xmpp_stanza_get_attribute(h, n, "xmlns")

FirstChild(cs) == IF cs = <<>> THEN NULL ELSE Head(cs)

xmpp_stanza_get_child_by_name(h, n, name) ==
    FirstChild(SelectSeq(Children(h, n),
                         LAMBDA c : h[c].type = "tag" /\ xmpp_stanza_get_name(h, c) = name))

xmpp_stanza_get_child_by_ns(h, n, ns) ==
    FirstChild(SelectSeq(Children(h, n), LAMBDA c : xmpp_stanza_get_ns(h, c) = ns))

RECURSIVE TextFrom(_, _)
TextFrom(h, cs) ==
    IF cs = <<>> THEN <<>>
    ELSE (IF h[cs[1]].type = "text" THEN h[cs[1]].data ELSE <<>>) \o TextFrom(h, Tail(cs))

\* Without any text in its children a tag has none, not an empty one.
xmpp_stanza_get_text(h, n) ==
    IF h[n].type = "text" THEN h[n].data
    ELSE LET text == TextFrom(h, Children(h, n)) IN IF text = <<>> THEN NULL ELSE text

-----------------------------------------------------------------------------
(* Rendering into a buffer: what has been put there, the position and the space left  *)
(* there, what would have been written so far, and the length this call was given.    *)

Escaped(c) ==
    CASE c = "<" -> <<"&", "l", "t", ";">> [] c = ">" -> <<"&", "g", "t", ";">>
      [] c = "&" -> <<"&", "a", "m", "p", ";">> [] c = "\"" -> <<"&", "q", "u", "o", "t", ";">>
      [] OTHER -> <<c>>

RECURSIVE _escape_xml(_)
_escape_xml(text) == IF text = <<>> THEN <<>> ELSE Escaped(text[1]) \o _escape_xml(Tail(text))

Frame(buf, pos, left) == [buf |-> buf, pos |-> pos, left |-> left, written |-> 0, length |-> left]

\* Nothing is written any more once the text has outgrown the buffer.
_render_update(frame, lastwrite) ==
    IF frame.written + lastwrite > frame.length
    THEN [frame EXCEPT !.written = @ + lastwrite, !.left = 0]
    ELSE [frame EXCEPT !.written = @ + lastwrite, !.left = @ - lastwrite, !.pos = @ + lastwrite]

\* xmpp_snprintf leaves room for the terminating 0 and returns the full length.
Put(frame, text) ==
    LET room == IF frame.left > Len(text) THEN Len(text) ELSE frame.left - 1
        put  == IF room <= 0 THEN frame
                ELSE [frame EXCEPT !.buf = SubSeq(@, 1, frame.pos) \o SubSeq(text, 1, room)]
    IN _render_update(put, Len(text))

\* The order of hash_iter_next, whichever it is.
RECURSIVE InOrder(_)
InOrder(S) == IF S = {} THEN <<>> ELSE LET k == CHOOSE k \in S : TRUE IN <<k>> \o InOrder(S \ {k})

Attributes(h, n) == InOrder({k \in Keys : h[n].attributes[k] # NULL})

Quoted(k, v) == <<" ", k, "=", "\"">> \o _escape_xml(v) \o <<"\"">>

RECURSIVE _render_stanza_recursive(_, _, _), RenderFrom(_, _, _), PutAttributes(_, _, _, _)

PutAttributes(h, n, keys, frame) ==
    IF keys = <<>> THEN frame
    ELSE PutAttributes(h, n, Tail(keys),
                         Put(frame, Quoted(keys[1], h[n].attributes[keys[1]])))

RenderFrom(h, c, frame) ==
    IF c = NULL \/ frame = BAD THEN frame
    ELSE LET inner == _render_stanza_recursive(h, c, Frame(frame.buf, frame.pos, frame.left))
         IN IF inner = BAD THEN BAD
            ELSE RenderFrom(h, h[c].next,
                            _render_update([frame EXCEPT !.buf = inner.buf], inner.written))

\* The frame at the end, or BAD for XMPP_EINVOP.
_render_stanza_recursive(h, n, frame) ==
    CASE h[n].type = "unknown" -> BAD
      [] h[n].type = "text" -> Put(frame, _escape_xml(h[n].data))
      [] h[n].type = "tag" ->
           LET open == PutAttributes(h, n, Attributes(h, n), Put(frame, <<"<">> \o h[n].data))
           IN IF h[n].children = NULL THEN Put(open, <<"/", ">">>)
              ELSE LET inner == RenderFrom(h, h[n].children, Put(open, <<">">>))
                   IN IF inner = BAD THEN BAD
                      ELSE Put(inner, <<"<", "/">> \o h[n].data \o <<">">>)

\* Mutant of xmpp_stanza_to_text: the second buffer has no room for the terminating 0.
xmpp_stanza_to_text_tight(h, n) ==
    LET first  == _render_stanza_recursive(h, n, Frame(<<>>, 0, InitialLength))
        second == _render_stanza_recursive(h, n, Frame(<<>>, 0, first.written))
    IN IF first = BAD THEN BAD
       ELSE IF first.written > InitialLength - 1 THEN second.buf ELSE first.buf

\* The text as far as it was put into the buffer, or BAD.  A second attempt is made in a
\* buffer of the right size.
xmpp_stanza_to_text(h, n) ==
    LET first  == _render_stanza_recursive(h, n, Frame(<<>>, 0, InitialLength))
        second == _render_stanza_recursive(h, n, Frame(<<>>, 0, first.written + 1))
    IN IF first = BAD THEN BAD
       ELSE IF first.written > InitialLength - 1 THEN second.buf ELSE first.buf

-----------------------------------------------------------------------------
(* What the same text and lookups are for a tree without addresses and buffers. *)

RECURSIVE Serialized(_), SerializedAll(_), SerializedAttributes(_, _)

SerializedAttributes(attributes, keys) ==
    IF keys = <<>> THEN <<>>
    ELSE Quoted(keys[1], attributes[keys[1]]) \o SerializedAttributes(attributes, Tail(keys))

SerializedAll(trees) ==
    IF trees = <<>> THEN <<>> ELSE Serialized(trees[1]) \o SerializedAll(Tail(trees))

Serialized(t) ==
    IF t.type = "text" THEN _escape_xml(t.data)
    ELSE LET open == <<"<">> \o t.data \o
                     SerializedAttributes(t.attributes,
                                          InOrder({k \in Keys : t.attributes[k] # NULL}))
         IN IF t.children = <<>> THEN open \o <<"/", ">">>
            ELSE open \o <<">">> \o SerializedAll(t.children)
                      \o <<"<", "/">> \o t.data \o <<">">>

RECURSIVE TextOf(_)
TextOf(trees) ==
    IF trees = <<>> THEN <<>>
    ELSE (IF trees[1].type = "text" THEN trees[1].data ELSE <<>>) \o TextOf(Tail(trees))

RECURSIVE Complete(_)
Complete(t) == t.type # "unknown" /\ \A i \in DOMAIN t.children : Complete(t.children[i])
=============================================================================

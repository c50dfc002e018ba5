------------------------------- MODULE Parser --------------------------------
(***************************************************************************)
(* parser_expat.c on the trees of stanza.c, and an application that works  *)
(* on stanzas of its own and on those it is given: a stanza is the         *)
(* parser's until the stanza callback has returned.  expat, which is       *)
(* external, calls the handlers in the order of a well-formed document.    *)
(***************************************************************************)
EXTENDS StanzaTree

CONSTANTS
    AttributeSets,   \* what a start tag may hold
    Room,            \* addresses besides, in which trees are copied for CopyEqual
    MaxHeld          \* bound on the references the application holds when it gets one more

VARIABLES
    expat,        \* none, fresh, inside a document, or after one
    depth,        \* parser->depth
    stanza,       \* parser->stanza
    delivering,   \* in stanzacb
    delivered,    \* history: the tree given to stanzacb, until that returns
    cut           \* history: a stanza was cut off, and by a reset below its top or by parser_free

parser == <<expat, depth, stanza, delivering, delivered, cut>>
vars   == <<heap, held, parser>>

Init ==
    /\ heap = [n \in Nodes |-> FREE] /\ held = [n \in Nodes |-> 0]
    /\ expat = "none" /\ depth = 0 /\ stanza = NULL
    /\ delivering = FALSE /\ delivered = <<>> /\ cut = FALSE

Spare == Cardinality(Nodes) - Cardinality(Live(heap))

-----------------------------------------------------------------------------
(* The parser, between callbacks. *)

parser_new ==
    /\ expat = "none"
    /\ expat' = "fresh" /\ depth' = 0 /\ stanza' = NULL
    /\ UNCHANGED <<heap, held, delivering, delivered, cut>>

\* It does not look at stanza.
parser_free ==
    /\ expat # "none" /\ ~delivering
    /\ expat' = "none" /\ depth' = 0 /\ stanza' = NULL
    /\ cut' = (cut \/ stanza # NULL)
    /\ UNCHANGED <<heap, held, delivering, delivered>>

\* Mutant of parser_reset: the stanza in hand is forgotten.
parser_reset_forgets ==
    /\ expat # "none" /\ ~delivering
    /\ expat' = "fresh" /\ depth' = 0 /\ stanza' = NULL
    /\ cut' = (cut \/ depth > 2)
    /\ UNCHANGED <<heap, held, delivering, delivered>>

\* It releases the element it is in, which belongs to its parent below the top.
parser_reset ==
    /\ expat # "none" /\ ~delivering
    /\ heap' = IF stanza = NULL THEN heap ELSE xmpp_stanza_release(heap, stanza)
    /\ expat' = "fresh" /\ depth' = 0 /\ stanza' = NULL
    /\ cut' = (cut \/ depth > 2)
    /\ UNCHANGED <<held, delivering, delivered>>

\* The name and the attributes of a node just made.
Named(h, n, name, attributes) ==
    [xmpp_stanza_set_name(h, n, name) EXCEPT ![n].attributes = attributes]

Reading == expat \in {"fresh", "inside"} /\ ~delivering

\* Mutant of _start_element: the child is not given up once its parent has it.
_start_element_keeps(name, attributes) ==
    /\ Reading /\ depth' = depth + 1
    /\ \/ /\ depth = 0 /\ expat = "fresh"
          /\ expat' = "inside" /\ UNCHANGED <<heap, stanza>>
       \/ /\ depth > 0 /\ Spare > 0 /\ UNCHANGED expat
          /\ LET child == Unused(heap)
                 made  == Named(xmpp_stanza_new(heap, child), child, name, attributes)
             IN /\ stanza' = child
                /\ heap' = IF stanza = NULL THEN made ELSE xmpp_stanza_add_child(made, stanza, child)
    /\ UNCHANGED <<held, delivering, delivered, cut>>

_start_element(name, attributes) ==
    /\ Reading /\ depth' = depth + 1
    /\ \/ /\ depth = 0 /\ expat = "fresh"
          /\ expat' = "inside" /\ UNCHANGED <<heap, stanza>>
       \/ /\ depth > 0 /\ Spare > 0 /\ UNCHANGED expat
          /\ LET child == Unused(heap)
                 made  == Named(xmpp_stanza_new(heap, child), child, name, attributes)
             IN /\ stanza' = child
                /\ heap' = IF stanza = NULL THEN made
                           ELSE xmpp_stanza_release(xmpp_stanza_add_child(made, stanza, child), child)
    /\ UNCHANGED <<held, delivering, delivered, cut>>

\* Mutant of _end_element: a child is taken for a stanza of its own.
_end_element_inner ==
    /\ Reading /\ depth > 0
    /\ depth' = depth - 1
    /\ \/ depth = 1 /\ expat' = "after" /\ UNCHANGED <<stanza, delivering, delivered>>
       \/ /\ depth > 1 /\ delivering' = TRUE /\ delivered' = Tree(heap, stanza)
          /\ UNCHANGED <<expat, stanza>>
    /\ UNCHANGED <<heap, held, cut>>

_end_element ==
    /\ Reading /\ depth > 0
    /\ depth' = depth - 1
    /\ \/ depth = 1 /\ expat' = "after" /\ UNCHANGED <<stanza, delivering, delivered>>
       \/ /\ depth > 1 /\ heap[stanza].parent # NULL
          /\ stanza' = heap[stanza].parent
          /\ UNCHANGED <<expat, delivering, delivered>>
       \/ /\ depth > 1 /\ heap[stanza].parent = NULL
          /\ delivering' = TRUE /\ delivered' = Tree(heap, stanza)
          /\ UNCHANGED <<expat, stanza>>
    /\ UNCHANGED <<heap, held, cut>>

\* stanzacb returns to _end_element.
Delivered ==
    /\ delivering /\ delivering' = FALSE /\ delivered' = <<>>
    /\ heap' = xmpp_stanza_release(heap, stanza) /\ stanza' = NULL
    /\ UNCHANGED <<held, expat, depth, cut>>

_characters(text) ==
    /\ Reading /\ depth > 0
    /\ IF depth < 2 THEN UNCHANGED heap
       ELSE /\ Spare > 0
            /\ LET node == Unused(heap)
                   made == xmpp_stanza_set_text_with_size(xmpp_stanza_new(heap, node), node,
                                                          text, Len(text))
               IN heap' = xmpp_stanza_release(xmpp_stanza_add_child(made, stanza, node), node)
    /\ UNCHANGED <<held, parser>>

Parse ==
    \/ \E name \in Names, attributes \in AttributeSets : _start_element(name, attributes)
    \/ _end_element
    \/ \E text \in Texts : _characters(text)

-----------------------------------------------------------------------------
(* The application, in stanzacb and outside.  While a stanza is being read it can get *)
(* at none of its nodes, so that what it does then it may as well do before or after. *)
(* It makes a child only of a node that has no parent and never had one, as the       *)
(* comment of xmpp_stanza_copy advises.                                               *)

RECURSIVE Below(_, _)
Below(h, n) ==
    LET cs == Children(h, n)
    IN {n} \cup UNION {Below(h, cs[i]) : i \in DOMAIN cs}

Mine == {n \in Nodes : held[n] > 0} \cup (IF delivering THEN {stanza} ELSE {})

\* The nodes it can get at.
Access == UNION {Below(heap, n) : n \in Mine}

Turn == stanza = NULL \/ delivering

RECURSIVE SumHeld(_)
SumHeld(S) == IF S = {} THEN 0 ELSE LET n == CHOOSE n \in S : TRUE IN held[n] + SumHeld(S \ {n})

Hold(n) == SumHeld(Nodes) < MaxHeld /\ held' = [held EXCEPT ![n] = @ + 1]

Application(h) == Turn /\ heap' = h /\ UNCHANGED parser

New ==
    /\ Spare > 0 /\ Hold(Unused(heap))
    /\ Application(xmpp_stanza_new(heap, Unused(heap)))

Clone(n) ==
    /\ Hold(n) /\ Application(xmpp_stanza_clone(heap, n))

Copy(n) ==
    /\ Cardinality(Below(heap, n)) <= Spare /\ Hold(Unused(heap))
    /\ Application(xmpp_stanza_copy(heap, n))

Release(n) ==
    /\ held[n] > 0
    /\ Application(xmpp_stanza_release(heap, n))
    /\ held' = [held EXCEPT ![n] = @ - 1]

\* What is refused or changes nothing is no step.
Set(n) ==
    /\ \/ \E name \in Names : Application(xmpp_stanza_set_name(heap, n, name))
       \/ \E text \in Texts : Application(xmpp_stanza_set_text(heap, n, text))
       \/ \E k \in Keys, v \in Values :
             Application(xmpp_stanza_set_attribute(heap, n, k, v))
    /\ heap' # heap /\ UNCHANGED held

AddChild(n, c) ==
    /\ heap[c].parent = NULL /\ n \notin Below(heap, c) /\ heap[n].type = "tag"
    /\ Application(xmpp_stanza_add_child(heap, n, c))
    /\ UNCHANGED held

Apply ==
    \/ New
    \/ \E n \in Access : Clone(n) \/ Copy(n) \/ Set(n) \/ \E c \in Mine : AddChild(n, c)
    \/ \E n \in Mine : Release(n)

Next == parser_new \/ parser_free \/ parser_reset \/ Parse \/ Delivered \/ Apply

Spec == Init /\ [][Next]_vars

-----------------------------------------------------------------------------
RECURSIVE Path(_, _)
\* From the top down to n.
Path(h, n) == IF n = NULL THEN <<>> ELSE Append(Path(h, h[n].parent), n)

\* The stanza the parser holds a reference to.
Top == IF stanza = NULL THEN {} ELSE IF delivering THEN {stanza} ELSE {Path(heap, stanza)[1]}

Reached == UNION {Below(heap, n) : n \in Mine \cup Top}

Parents(n) == {m \in Reached : \E i \in DOMAIN Children(heap, m) : Children(heap, m)[i] = n}

TypeOK ==
    /\ heap # BAD /\ DOMAIN heap = Nodes /\ held \in [Nodes -> Nat]
    /\ expat \in {"none", "fresh", "inside", "after"} /\ depth \in Nat
    /\ stanza \in Nodes \cup {NULL} /\ delivering \in BOOLEAN /\ cut \in BOOLEAN

\* However trees are cloned, copied, added and released by the application and the parser,
\* no freed node is followed, and the count of each node in use is the number of its
\* holders: the application's references, its parent, and the parser for a stanza being
\* read (stanza.c:73-78, 92-181, 587-606; parser_expat.c:72-95, 110-140, 183-184).
RefsExact ==
    /\ heap # BAD
    /\ \A n \in Reached :
          heap[n].ref = held[n] + Cardinality(Parents(n)) + Cardinality(Top \cap {n})

\* A node in use is in one list at most, linked both ways with its neighbours and to its
\* parent.  Only a node that outlived its parent because the application kept a reference
\* has pointers that dangle (stanza.c:594-604, 124-137, 166-171).
LinksTrue ==
    \A n \in Reached :
        LET cs == Children(heap, n)
        IN /\ \A i \in DOMAIN cs :
                 /\ heap[cs[i]].parent = n
                 /\ heap[cs[i]].prev = IF i = 1 THEN NULL ELSE cs[i - 1]
           /\ Cardinality(Parents(n)) <= 1
           /\ Parents(n) = {} =>
                 \/ heap[n].parent = NULL /\ heap[n].prev = NULL /\ heap[n].next = NULL
                 \/ heap[n].parent = DANGLING /\ n \in Mine

\* Every node that was made and not freed can still be reached, and so be released, unless
\* the parser was reset inside a child of a stanza or freed with a stanza in hand
\* (parser_expat.c:169-184, stanza.c:157-181).
NoLeak == cut \/ Live(heap) = Reached

\* Node c stands for the first child of tree t that passes the test; NULL if none does.
IsFirst(t, Test(_), c) ==
    LET is == {i \in DOMAIN t.children : Test(t.children[i])}
    IN IF is = {} THEN c = NULL
       ELSE c # NULL /\ \E i \in is : (\A j \in is : i <= j) /\ Tree(heap, c) = t.children[i]

\* Text and lookups of a node are those of the tree it stands for, whatever the buffer to
\* begin with holds: xmpp_stanza_to_text is complete and escapes what has to be escaped
\* (stanza.c:215-425, 740-778, 820-854).
ReadsTrue ==
    \A n \in Reached :
        LET t == Tree(heap, n) IN
        /\ xmpp_stanza_to_text(heap, n) = IF Complete(t) THEN Serialized(t) ELSE BAD
        /\ xmpp_stanza_get_text(heap, n) =
              IF t.type = "text" THEN t.data
              ELSE IF TextOf(t.children) = <<>> THEN NULL ELSE TextOf(t.children)
        /\ \A name \in Names :
              IsFirst(t, LAMBDA u : u.type = "tag" /\ u.data = name,
                      xmpp_stanza_get_child_by_name(heap, n, name))
        /\ \A ns \in Values :
              IsFirst(t, LAMBDA u : u.type = "tag" /\ u.attributes["xmlns"] = ns,
                      xmpp_stanza_get_child_by_ns(heap, n, ns))

\* A copy is the same tree, and shares no node with anything (stanza.c:92-145).
CopyEqual ==
    LET roomy == [n \in Nodes \cup Room |-> IF n \in Nodes THEN heap[n] ELSE FREE]
    IN \A n \in Access :
          LET copy   == Unused(roomy)
              copied == xmpp_stanza_copy(roomy, n)
          IN /\ Tree(copied, copy) = Tree(heap, n)
             /\ Below(copied, copy) \cap Live(heap) = {}
             /\ \A m \in Live(heap) : copied[m] = heap[m]
             /\ \A m \in Below(copied, copy) :
                   LET cs == Children(copied, m)
                   IN \A i \in DOMAIN cs : copied[cs[i]].parent = m

-----------------------------------------------------------------------------
(* The open elements of Document: the path, each element without the child on it. *)

OpenElements ==
    LET path == Path(heap, stanza)
    IN [i \in DOMAIN path |->
          LET t == Tree(heap, path[i])
          IN IF i = Len(path) THEN t
             ELSE [t EXCEPT !.children = SubSeq(@, 1, Len(@) - 1)]]

\* The parser reads documents: what it hands over is exactly the element just closed, with
\* its attributes, text and children in order (parser_expat.c:51-141).
Document == INSTANCE Document WITH
    streaming <- expat = "inside",
    open <- IF delivering THEN <<>> ELSE OpenElements,
    None <- NoAttributes
DocumentSpec == Document!Spec
=============================================================================

------------------------------ MODULE Document -------------------------------
(***************************************************************************)
(* What a parser promises: the pieces of a document arrive one by one, and *)
(* each child of the document element is handed over as one tree once it   *)
(* is complete.                                                            *)
(***************************************************************************)
EXTENDS Sequences, Integers

CONSTANTS
    Names, Texts,
    AttributeSets,   \* what may be in a start tag
    None             \* no attributes

VARIABLES
    streaming,    \* the document element is open
    open,         \* the open elements below it as far as they go, the innermost last
    delivered     \* the tree being handed over, or <<>>

vars == <<streaming, open, delivered>>

Init == streaming = FALSE /\ open = <<>> /\ delivered = <<>>

Node(type, data, attributes) ==
    [type |-> type, data |-> data, attributes |-> attributes, children |-> <<>>]

Innermost == open[Len(open)]
Outer     == SubSeq(open, 1, Len(open) - 1)

With(element, t) == [element EXCEPT !.children = Append(@, t)]

\* t becomes the last child of the last element of the stack.
Attached(stack, t) == [stack EXCEPT ![Len(stack)] = With(@, t)]

Stream == open = <<>> /\ streaming' = ~streaming /\ UNCHANGED <<open, delivered>>

Start ==
    /\ streaming
    /\ \E name \in Names, attributes \in AttributeSets :
          open' = Append(open, Node("tag", name, attributes))
    /\ UNCHANGED <<streaming, delivered>>

Characters ==
    /\ open # <<>>
    /\ \E text \in Texts : open' = Attached(open, Node("text", text, None))
    /\ UNCHANGED <<streaming, delivered>>

End ==
    /\ open # <<>>
    /\ IF Outer = <<>> THEN open' = <<>> /\ delivered' = Innermost
       ELSE open' = Attached(Outer, Innermost) /\ UNCHANGED delivered
    /\ UNCHANGED streaming

\* A new document, whatever became of the one before.
Restart == streaming' = FALSE /\ open' = <<>> /\ UNCHANGED delivered

Taken == delivered' = <<>> /\ UNCHANGED <<streaming, open>>

Next == Taken \/ Stream \/ Start \/ Characters \/ End \/ Restart

Spec == Init /\ [][Next]_vars
=============================================================================

----------------------------- MODULE MCHandlers -----------------------------
(* Instances of Handlers for TLC. *)
EXTENDS Handlers

\* Own handlers carry no mark, those of the user begin with u.
MCStanzas ==
    {[id |-> "x", ns |-> "n", name |-> "iq", type |-> "result", inner |-> {}],
     [id |-> NULL, ns |-> "m", name |-> "message", type |-> NULL, inner |-> {"n"}]}

\* One handler for a name, one for a namespace, and one for everything.
MCFilter == [f \in StanzaHandlers |->
    CASE f = "s" -> [ns |-> NULL, name |-> "iq", type |-> NULL]
      [] f = "su" -> [ns |-> "n", name |-> NULL, type |-> NULL]
      [] OTHER -> [ns |-> NULL, name |-> NULL, type |-> NULL]]

MCPeriod == [f \in TimedHandlers |-> IF f = "t" THEN 2 ELSE 1]
=============================================================================

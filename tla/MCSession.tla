----------------------------- MODULE MCSession -----------------------------
(* Instances of Session for TLC. *)
EXTENDS Session

Calm == [memory |-> TRUE, tls_new |-> TRUE, tls_start |-> TRUE,
         on_connect |-> "return", on_disconnect |-> "return", keep |-> TRUE]

CalmOnly       == {Calm}
HandshakeFails == {Calm, [Calm EXCEPT !.tls_start = FALSE]}
UserDecides    == {Calm, [Calm EXCEPT !.keep = FALSE],
                   [Calm EXCEPT !.on_connect = "disconnect", !.on_disconnect = "connect"]}
AnythingGoes   == {Calm, [Calm EXCEPT !.memory = FALSE], [Calm EXCEPT !.tls_new = FALSE],
                   [Calm EXCEPT !.tls_start = FALSE],
                   [Calm EXCEPT !.on_connect = "disconnect"]}

Results  == {Reply(f, "result") : f \in IdFns}
AllReplies == Results \cup {Reply(f, "error") : f \in IdFns}

\* A server with TLS and two SASL mechanisms, which changes its offer under TLS.
TlsServer ==
    {Features(o) : o \in {{"starttls", "PLAIN"}, {"PLAIN", "DIGEST-MD5"}, {"bind", "session"}}}
      \cup {Plain(n) : n \in {"proceed", "success", "failure", "challenge"}}
      \cup AllReplies

\* A server for clients without a password, or with the legacy authentication.
SimpleServer ==
    {Features(o) : o \in {{}, {"ANONYMOUS"}, {"bind"}}}
      \cup {Plain(n) : n \in {"success", "failure", "message", "stream:error"}}
      \cup {Reply("_handle_bind", t) : t \in {"result", "other"}}
      \cup {Reply("_handle_legacy", t) : t \in {"result", "error"}}

\* A server that may send anything at any time.
RudeServer ==
    {Features(o) : o \in {{"starttls", "PLAIN"}, {"bind", "session"}}}
      \cup {Plain(n) : n \in {"proceed", "success", "failure"}}
      \cup Results
=============================================================================

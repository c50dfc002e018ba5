-------------------------------- MODULE Auth --------------------------------
(***************************************************************************)
(* Stream negotiation: the callbacks of auth.c, and the two functions of   *)
(* conn.c the parser calls when the stream opens and ends.  Each callback  *)
(* is a function from the connection it is called on (and the stanza, and  *)
(* the environment of the call) to the connection it leaves; what it       *)
(* returns, "call me again" or not, is KeepsTimed and KeepsHandler.        *)
(***************************************************************************)
EXTENDS Conn

(***************************************************************************)
(* A stanza has a name, the id of the request it answers, a type and, for  *)
(* stream:features, the children that matter: starttls, the mechanisms,    *)
(* bind and session.                                                       *)
(***************************************************************************)
SaslNames == {"success", "failure", "challenge", "abort"}
TlsNames  == {"proceed", "tls_failure"}
Offerable == {"starttls", "bind", "session"} \cup Mechanisms

StanzaNames == {"stream:features", "stream:error", "message", "iq"}
                  \cup SaslNames \cup TlsNames

Stanza == [name   : StanzaNames,
           id     : {"none"} \cup IdFns,    \* the function waiting for that id
           type   : {"none", "result", "error", "other"},
           offers : SUBSET Offerable]

Plain(name) == [name |-> name, id |-> "none", type |-> "none", offers |-> {}]
Features(offers) == [Plain("stream:features") EXCEPT !.offers = offers]
Reply(f, type) == [Plain("iq") EXCEPT !.id = f, !.type = type]

-----------------------------------------------------------------------------
(* _auth: choose the next way to authenticate. *)

\* Send an <auth/> and register the handler of its answer; without memory, disconnect.
StartSasl(c, mech, handler, env) ==
    IF env.memory
    THEN [Send(AddHandler(c, handler), mech) EXCEPT !.sasl_support = @ \ {mech}]
    ELSE XmppDisconnect(c)

StartTls(c, env) ==
    IF env.memory
    THEN [Send(AddHandler(c, "_handle_proceedtls_default"), "starttls")
              EXCEPT !.tls_support = FALSE]
    ELSE XmppDisconnect(c)

\* A JID without a resource cannot be authenticated the legacy way.
StartLegacy(c, env) ==
    IF env.memory /\ c.jid = "full"
    THEN Send(AddTimed(AddId(c, "_handle_legacy"), "_handle_missing_legacy"), "legacy")
    ELSE XmppDisconnect(c)

AuthInClear(c, env) ==
    CASE c.jid = "anonymous" /\ "ANONYMOUS" \in c.sasl_support ->
             StartSasl(c, "ANONYMOUS", "_handle_sasl_result", env)
      [] c.jid = "anonymous" /\ "ANONYMOUS" \notin c.sasl_support ->
             XmppDisconnect(c)
      [] c.jid # "anonymous" /\ "DIGEST-MD5" \in c.sasl_support ->
             StartSasl(c, "DIGEST-MD5", "_handle_digestmd5_challenge", env)
      [] c.jid # "anonymous" /\ c.sasl_support \cap {"DIGEST-MD5", "PLAIN"} = {"PLAIN"} ->
             StartSasl(c, "PLAIN", "_handle_sasl_result", env)
      [] OTHER -> StartLegacy(c, env)

\* Mutant of Auth: a SASL mechanism is preferred to TLS.
Auth_saslfirst(c, env) ==
    IF c.tls_support /\ env.tls_new /\ c.sasl_support = {}
    THEN StartTls(c, env)
    ELSE AuthInClear(c, env)

\* If tls_new fails the code forgets TLS and calls itself.
Auth(c, env) ==
    IF c.tls_support /\ env.tls_new
    THEN StartTls(c, env)
    ELSE AuthInClear([c EXCEPT !.tls_support = FALSE], env)

-----------------------------------------------------------------------------
(* The stream opens and ends. *)

auth_handle_open(c) ==
    AddTimed(AddHandler(AddHandler(ResetTimed(c), "_handle_error"),
                        "_handle_features"),
             "_handle_missing_features")

_handle_open_sasl(c) ==
    AddTimed(AddHandler(c, "_handle_features_sasl"), "_handle_missing_features_sasl")

CallOpenHandler(c) ==
    IF c.open_handler = "auth_handle_open" THEN auth_handle_open(c)
                                           ELSE _handle_open_sasl(c)

(***************************************************************************)
(* _handle_stream_start: the root element is "stream" (with an id),        *)
(* "stream_noid" or "other".  Without an id the stream_id that was just    *)
(* freed, if there was one, passes for the new one.  The open handler is   *)
(* called in every case.                                                   *)
(***************************************************************************)
Roots == {"stream", "stream_noid", "other"}

_handle_stream_start(c, root, env) ==
    LET opened == [c EXCEPT !.parser = "open"]
        named  == [opened EXCEPT !.stream_id =
                      CASE root = "stream"      -> "set"
                        [] root = "other"       -> @
                        [] root = "stream_noid" -> IF @ = "null" THEN @ ELSE "freed"]
        bad    == root = "other" \/ named.stream_id = "null"
    IN CallOpenHandler(IF bad THEN ConnDisconnect(named, env) ELSE named)

_handle_stream_end(c, env) == ConnDisconnectClean([c EXCEPT !.parser = "ended"], env)

-----------------------------------------------------------------------------
(* Stanza handlers. *)

\* authenticated = 1 and the CONNECT notification, in which the user may disconnect.
NotifyConnect(c, env) ==
    LET up == [c EXCEPT !.authenticated = TRUE, !.ups = @ + 1]
    IN IF env.on_connect = "disconnect" THEN XmppDisconnect(up) ELSE up

\* Mutant of _handle_features: every child counts as a mechanism.
_handle_features_anychild(c, s, env) ==
    Auth([DeleteTimed(c, "_handle_missing_features") EXCEPT
            !.sasl_support = @ \cup s.offers], env)

_handle_features(c, s, env) ==
    LET heard == [DeleteTimed(c, "_handle_missing_features") EXCEPT
                    !.tls_support = IF c.secured THEN @
                                    ELSE ~c.tls_disabled /\ (@ \/ "starttls" \in s.offers),
                    !.sasl_support = @ \cup (s.offers \cap Mechanisms)]
    IN Auth(heard, env)

\* A reply other than <proceed/> changes nothing.
_handle_proceedtls_default(c, s, env) ==
    CASE s.name = "proceed" /\ env.tls_start ->
             OpenStream(PrepareReset([c EXCEPT !.tls = TRUE, !.secured = TRUE],
                                     "auth_handle_open"))
      [] s.name = "proceed" /\ ~env.tls_start ->
             XmppDisconnect([c EXCEPT !.tls = FALSE])
      [] OTHER -> c

\* Mutant of _handle_sasl_result: after a failure nothing else is tried.
_handle_sasl_result_gives_up(c, s, env) ==
    CASE s.name = "failure" -> c
      [] s.name = "success" -> OpenStream(PrepareReset(c, "_handle_open_sasl"))
      [] OTHER              -> XmppDisconnect(c)

_handle_sasl_result(c, s, env) ==
    CASE s.name = "failure" -> Auth(c, env)
      [] s.name = "success" -> OpenStream(PrepareReset(c, "_handle_open_sasl"))
      [] OTHER              -> XmppDisconnect(c)

\* Mutant of _handle_digestmd5_challenge: no handler for what follows.
_handle_digestmd5_challenge_unwatched(c, s, env) ==
    IF s.name = "challenge" THEN Send(c, "response") ELSE _handle_sasl_result(c, s, env)

_handle_digestmd5_challenge(c, s, env) ==
    CASE s.name = "challenge" /\ env.memory ->
             Send(AddHandler(c, "_handle_digestmd5_rspauth"), "response")
      [] s.name = "challenge" /\ ~env.memory -> XmppDisconnect(c)
      [] OTHER -> _handle_sasl_result(c, s, env)

_handle_digestmd5_rspauth(c, s, env) ==
    CASE s.name = "challenge" /\ env.memory  -> Send(c, "response")
      [] s.name = "challenge" /\ ~env.memory -> XmppDisconnect(c)
      [] OTHER -> _handle_sasl_result(c, s, env)

\* The handler and its timer are there before the request can fail for lack of memory.
Request(c, handler, timer, item, env) ==
    LET waiting == AddTimed(AddId(c, handler), timer)
    IN IF env.memory THEN Send(waiting, item) ELSE XmppDisconnect(waiting)

\* Mutant of _handle_features_sasl: without bind it does nothing.
_handle_features_sasl_waits(c, s, env) ==
    LET heard == [DeleteTimed(c, "_handle_missing_features_sasl") EXCEPT
                    !.bind_required    = @ \/ "bind" \in s.offers,
                    !.session_required = @ \/ "session" \in s.offers]
    IN IF heard.bind_required
       THEN Request(heard, "_handle_bind", "_handle_missing_bind", "bind", env)
       ELSE heard

_handle_features_sasl(c, s, env) ==
    LET heard == [DeleteTimed(c, "_handle_missing_features_sasl") EXCEPT
                    !.bind_required    = @ \/ "bind" \in s.offers,
                    !.session_required = @ \/ "session" \in s.offers]
    IN IF heard.bind_required
       THEN Request(heard, "_handle_bind", "_handle_missing_bind", "bind", env)
       ELSE XmppDisconnect(heard)

\* Mutant of _handle_bind: a required session is forgotten.
_handle_bind_nosession(c, s, env) ==
    LET heard == DeleteTimed(c, "_handle_missing_bind")
    IN IF s.type = "result" THEN NotifyConnect(heard, env) ELSE XmppDisconnect(heard)

\* Mutant of _handle_bind: CONNECT is notified when the session is requested, too.
_handle_bind_tells_early(c, s, env) ==
    LET heard == DeleteTimed(c, "_handle_missing_bind")
    IN CASE s.type # "result" -> XmppDisconnect(heard)
         [] s.type = "result" /\ heard.session_required ->
                NotifyConnect(Request(heard, "_handle_session", "_handle_missing_session",
                                      "session", env), env)
         [] OTHER -> NotifyConnect(heard, env)

_handle_bind(c, s, env) ==
    LET heard == DeleteTimed(c, "_handle_missing_bind")
    IN CASE s.type # "result" -> XmppDisconnect(heard)
         [] s.type = "result" /\ heard.session_required ->
                Request(heard, "_handle_session", "_handle_missing_session",
                        "session", env)
         [] OTHER -> NotifyConnect(heard, env)

_handle_session(c, s, env) ==
    LET heard == DeleteTimed(c, "_handle_missing_session")
    IN IF s.type = "result" THEN NotifyConnect(heard, env) ELSE XmppDisconnect(heard)

\* Mutant of _handle_legacy: the timer is not deleted.
_handle_legacy_keeps_timer(c, s, env) ==
    IF s.type = "result" THEN NotifyConnect(c, env) ELSE XmppDisconnect(c)

_handle_legacy(c, s, env) ==
    LET heard == DeleteTimed(c, "_handle_missing_legacy")
    IN IF s.type = "result" THEN NotifyConnect(heard, env) ELSE XmppDisconnect(heard)

-----------------------------------------------------------------------------
(* Calling a handler by name, and what it returns. *)

\* A user handler only leaves a trace of having run before any CONNECT.
CallUser(c) == [c EXCEPT !.early = @ \/ c.ups = 0]

CallHandler(f, c, s, env) ==
    CASE f = "_handle_error"                -> [c EXCEPT !.stream_error = TRUE]
      [] f = "_handle_features"             -> _handle_features(c, s, env)
      [] f = "_handle_features_sasl"        -> _handle_features_sasl(c, s, env)
      [] f = "_handle_proceedtls_default"   -> _handle_proceedtls_default(c, s, env)
      [] f = "_handle_sasl_result"          -> _handle_sasl_result(c, s, env)
      [] f = "_handle_digestmd5_challenge"  -> _handle_digestmd5_challenge(c, s, env)
      [] f = "_handle_digestmd5_rspauth"    -> _handle_digestmd5_rspauth(c, s, env)
      [] f = "user_stanza"                  -> CallUser(c)

KeepsHandler(f, s, env) ==
    CASE f = "_handle_error" -> TRUE
      [] f = "_handle_digestmd5_rspauth" -> s.name = "challenge" /\ env.memory
      [] f = "user_stanza" -> env.keep
      [] OTHER -> FALSE

CallId(f, c, s, env) ==
    CASE f = "_handle_bind"    -> _handle_bind(c, s, env)
      [] f = "_handle_session" -> _handle_session(c, s, env)
      [] f = "_handle_legacy"  -> _handle_legacy(c, s, env)

CallTimed(f, c, env) ==
    CASE f = "_handle_missing_features" ->
             Auth([c EXCEPT !.facts = @ \cup {"features_missing"}], env)
      [] f = "_disconnect_cleanup" -> ConnDisconnect(c, env)
      [] f = "user_timed"          -> CallUser(c)
      [] OTHER                     -> XmppDisconnect(c)

KeepsTimed(f, env) == f = "user_timed" /\ env.keep

\* The condition of handler_fire_stanza on namespace and name.  A namespace also
\* matches a child of the stanza, so the SASL and TLS handlers match features.
Matches(f, s) ==
    CASE f = "_handle_error" -> s.name = "stream:error"
      [] f \in {"_handle_features", "_handle_features_sasl"} ->
             s.name = "stream:features"
      [] f = "_handle_proceedtls_default" ->
             s.name \in TlsNames \/ "starttls" \in s.offers
      [] f = "user_stanza" -> TRUE
      [] OTHER -> s.name \in SaslNames \/ s.offers \cap Mechanisms # {}

=============================================================================

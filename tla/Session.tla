------------------------------ MODULE Session ------------------------------
(***************************************************************************)
(* The event loop of event.c driving one connection: xmpp_run_once as a    *)
(* sequence of steps, with time passing, the server's data and the user's  *)
(* calls in every place the code lets them in.                             *)
(*                                                                         *)
(*   pc        where the thread is                                         *)
(*   "idle"    outside xmpp_run_once: the user's code runs                 *)
(*   "timed1"  in the first handler_fire_timed, at position at             *)
(*   "select"  choosing what to wait for, then waiting                     *)
(*   "chunk"   in parser_feed: left more XML events may be in the data     *)
(*   "stanza"  in handler_fire_stanza(stanza), at position at              *)
(*   "timed2"  in the second handler_fire_timed, at position at            *)
(***************************************************************************)
EXTENDS Auth

CONSTANTS
    Jids,           \* what conn->jid may look like
    UserActs,       \* what the user's code may do between two calls of the loop
    Incoming,       \* the stanzas the server may send
    IncomingRoots,  \* the root elements the server may send
    Conforming,     \* whether the server only sends what the protocol allows it
    Garbled,        \* whether what the server sends may be malformed
    Faults,         \* what may fail below the library
    MaxChunk,       \* bound on the XML events of one read
    MaxQueue        \* bound on the send queue when the user or a stanza adds to it

ASSUME SessionAssumption ==
    /\ Jids \subseteq {"anonymous", "bare", "full"}
    /\ UserActs \subseteq {"connect", "disconnect", "send", "disable_tls", "add_handlers"}
    /\ Incoming \subseteq Stanza
    /\ IncomingRoots \subseteq Roots
    /\ Conforming \in BOOLEAN /\ Garbled \in BOOLEAN
    /\ Faults \subseteq {"connect", "read", "write", "block", "pending"}
    /\ MaxChunk \in Nat /\ MaxQueue \in Nat

VARIABLES conn, pc, at, stanza, left

vars == <<conn, pc, at, stanza, left>>

NoStanza == Plain("message")

Init ==
    /\ \E jid \in Jids : conn = NewConn(jid)
    /\ pc = "idle" /\ at = 1 /\ stanza = NoStanza /\ left = 0

-----------------------------------------------------------------------------
(* The user, between two calls of xmpp_run_once. *)

xmpp_connect_client ==
    /\ pc = "idle" /\ "connect" \in UserActs
    /\ conn.state = "DISCONNECTED" /\ conn.attempts < MaxConnects
    /\ conn' = ConnectClient(conn)
    /\ UNCHANGED <<pc, at, stanza, left>>

xmpp_disconnect ==
    /\ pc = "idle" /\ "disconnect" \in UserActs
    /\ Len(conn.send_queue) < MaxQueue
    /\ conn' = XmppDisconnect(conn)
    /\ UNCHANGED <<pc, at, stanza, left>>

xmpp_send ==
    /\ pc = "idle" /\ "send" \in UserActs
    /\ Len(conn.send_queue) < MaxQueue
    /\ conn' = Send(conn, "user")
    /\ UNCHANGED <<pc, at, stanza, left>>

xmpp_conn_disable_tls ==
    /\ pc = "idle" /\ "disable_tls" \in UserActs
    /\ conn' = [conn EXCEPT !.tls_disabled = TRUE]
    /\ UNCHANGED <<pc, at, stanza, left>>

\* xmpp_timed_handler_add and xmpp_handler_add: both are user handlers.
xmpp_handler_add ==
    /\ pc = "idle" /\ "add_handlers" \in UserActs
    /\ conn' = AddTimed(AddHandler(conn, "user_stanza"), "user_timed")
    /\ UNCHANGED <<pc, at, stanza, left>>

-----------------------------------------------------------------------------
(* Time.  An age stops where nothing the code compares it with can change. *)

Older(age, limit) == IF age < limit THEN age + 1 ELSE age

AllOlder(list) ==
    [i \in DOMAIN list |-> [list[i] EXCEPT !.age = Older(@, Period[list[i].fn])]]

Tick ==
    /\ conn' = [conn EXCEPT
          !.age = IF conn.state = "CONNECTING" THEN Older(@, CONNECT_TIMEOUT + 1) ELSE @,
          !.timed_handlers = AllOlder(@)]
    /\ conn' # conn
    /\ UNCHANGED <<pc, at, stanza, left>>

-----------------------------------------------------------------------------
(* What the server has to answer. *)

\* The server reads items.  A stream header asks for a header and then for features.
\* Only a conforming server cares.
Receive(peer, items) ==
    IF ~Conforming THEN peer
    ELSE [peer EXCEPT !.owed = @ \cup (items \ {"user", "close"})
                            \cup (IF "header" \in items THEN {"features"} ELSE {})]

Answers(s) ==
    CASE s.name = "stream:features" -> {"features"}
      [] s.name \in TlsNames  -> {"starttls"}
      [] s.name = "challenge" -> {"DIGEST-MD5", "response"}
      [] s.name = "success"   -> {"PLAIN", "ANONYMOUS", "response"}
      [] s.name = "failure"   -> {"PLAIN", "ANONYMOUS", "DIGEST-MD5", "response"}
      [] OTHER -> CASE s.id = "_handle_bind"    -> {"bind"}
                    [] s.id = "_handle_session" -> {"session"}
                    [] s.id = "_handle_legacy"  -> {"legacy"}
                    [] s.id = "none"            -> {}

\* A conforming server has a stream open, answers requests only, challenges at
\* most twice, and is silent after <proceed/> and <success/> until the next header.
MayStanza(s) ==
    Conforming =>
       /\ conn.peer.phase = "open"
       /\ Answers(s) = {} \/ Answers(s) \cap conn.peer.owed # {}
       /\ s.name = "challenge" => conn.peer.challenges < 2

MayHeader ==
    Conforming => "header" \in conn.peer.owed /\ conn.peer.phase \in {"silent", "restart"}

MayEnd == Conforming => conn.peer.phase = "open"

AfterStanza(peer, s) ==
    IF ~Conforming THEN peer
    ELSE [phase      |-> IF s.name \in {"proceed", "success"} THEN "restart" ELSE peer.phase,
          owed       |-> peer.owed \ Answers(s),
          challenges |-> peer.challenges + IF s.name = "challenge" THEN 1 ELSE 0]

InPhase(peer, phase) == IF Conforming THEN [peer EXCEPT !.phase = phase] ELSE peer

\* What the delivery of a stanza adds to the history of the attempt.
FactsOf(c, s) ==
    (IF s.name = "success" THEN {"success"} ELSE {}) \cup
    (IF s.name = "stream:features" /\ "starttls" \in s.offers
        /\ ~c.secured /\ ~c.tls_disabled
     THEN {"starttls_offered"} ELSE {}) \cup
    (IF s.type # "result" THEN {}
     ELSE CASE s.id = "_handle_bind"    -> {"bind_result"}
            [] s.id = "_handle_session" -> {"session_result"}
            [] s.id = "_handle_legacy"  -> {"legacy_result"}
            [] OTHER -> {})

-----------------------------------------------------------------------------
(* xmpp_run_once: write, reset the parser, fire timers. *)

\* Mutant of BeginTimed: new timers are not enabled.
BeginTimed_noenable(c) == c

\* handler_fire_timed begins: with a connected connection, all its timers are enabled.
BeginTimed(c) ==
    IF c.state = "CONNECTED" THEN [c EXCEPT !.timed_handlers = EnableAll(@)] ELSE c

\* Mutant of FirstTimed: the walk begins whatever the state of the connection.
FirstTimed_always(c) == 1

FirstTimed(c) == IF c.state = "CONNECTED" THEN 1 ELSE Len(c.timed_handlers) + 1

\* tls_clear_pending_write fails; the write loop is entered all the same.
ClearPending(c, fails, env) ==
    IF fails THEN ConnDisconnect([c EXCEPT !.error = TRUE], env) ELSE c

\* The first n queued items are written, then a write is refused or fails.
WriteQueue(c, n, fails) ==
    [c EXCEPT !.send_queue = SubSeq(@, n + 1, Len(@)),
              !.peer = Receive(@, {c.send_queue[i] : i \in 1 .. n}),
              !.error = @ \/ fails]

TearDownOnError(c, env) ==
    IF c.error THEN ConnDisconnect(c, env) ELSE c

(***************************************************************************)
(* The first part of xmpp_run_once.  After a failed tls_clear_pending_write*)
(* the socket is closed, so a queued item cannot be written and the write  *)
(* fails.                                                                  *)
(***************************************************************************)
write_queued(pending, n, fails, env) ==
    LET cleared == ClearPending(conn, pending, env)
        written == WriteQueue(cleared, n, fails)
    IN TearDownOnError(written, env)

run_once_write ==
    /\ pc = "idle"
    /\ \/ conn.state = "CONNECTED" /\
          \E env \in Choices, n \in 0 .. Len(conn.send_queue), fails, pending \in BOOLEAN :
            /\ fails => ("write" \in Faults \/ pending) /\ n < Len(conn.send_queue)
            /\ pending => "pending" \in Faults /\ conn.tls /\ n = 0
                           /\ (conn.send_queue # <<>> => fails)
            /\ n < Len(conn.send_queue) => fails \/
                   ("block" \in Faults /\ Len(conn.send_queue) <= MaxQueue)
            /\ conn' = BeginTimed(ParserReset(write_queued(pending, n, fails, env)))
       \/ conn.state # "CONNECTED" /\ conn' = ParserReset(conn)
    /\ pc' = "timed1" /\ at' = FirstTimed(conn')
    /\ UNCHANGED <<stanza, left>>

\* One item of handler_fire_timed's loop that does not fire.
SkipTimed ==
    /\ pc \in {"timed1", "timed2"} /\ at <= Len(conn.timed_handlers)
    /\ LET t == conn.timed_handlers[at]
       IN \/ ~t.enabled
          \/ t.fn \in UserFns /\ ~conn.authenticated
          \/ t.age < Period[t.fn]
    /\ at' = at + 1
    /\ UNCHANGED <<conn, pc, stanza, left>>

\* One that fires, and is deleted if it returns false.
FireTimed ==
    /\ pc \in {"timed1", "timed2"} /\ at <= Len(conn.timed_handlers)
    /\ LET t == conn.timed_handlers[at]
       IN /\ t.enabled
          /\ t.fn \in UserFns => conn.authenticated
          /\ t.age >= Period[t.fn]
          /\ \E env \in Choices :
               LET fired == CallTimed(t.fn, [conn EXCEPT !.timed_handlers[at].age = 0], env)
               IN IF KeepsTimed(t.fn, env)
                  THEN conn' = fired /\ at' = at + 1
                  ELSE conn' = DeleteTimed(fired, t.fn) /\ at' = at
    /\ UNCHANGED <<pc, stanza, left>>

EndTimed ==
    /\ pc \in {"timed1", "timed2"} /\ at > Len(conn.timed_handlers)
    /\ pc' = IF pc = "timed1" THEN "select" ELSE "idle"
    /\ at' = 1
    /\ UNCHANGED <<conn, stanza, left>>

-----------------------------------------------------------------------------
(* xmpp_run_once: watch and wait.  All but the first two end in the second *)
(* handler_fire_timed.                                                     *)

ConnectTimedOut == conn.state = "CONNECTING" /\ conn.age > CONNECT_TIMEOUT

connect_timeout ==
    /\ pc = "select" /\ ConnectTimedOut
    /\ \E env \in Choices : conn' = ConnDisconnect([conn EXCEPT !.error = TRUE], env)
    /\ pc' = "idle"
    /\ UNCHANGED <<at, stanza, left>>

\* select returns an error, or 0 with nothing buffered in TLS.
no_event ==
    /\ pc = "select" /\ ~ConnectTimedOut
    /\ pc' = "idle"
    /\ UNCHANGED <<conn, at, stanza, left>>

ToTimed2(c) == conn' = BeginTimed(c) /\ pc' = "timed2" /\ at' = FirstTimed(c)

connect_complete ==
    /\ pc = "select" /\ conn.state = "CONNECTING" /\ ~ConnectTimedOut
    /\ ToTimed2(OpenStream([conn EXCEPT !.state = "CONNECTED"]))
    /\ UNCHANGED <<stanza, left>>

connect_failed ==
    /\ pc = "select" /\ conn.state = "CONNECTING" /\ ~ConnectTimedOut
    /\ "connect" \in Faults
    /\ \E env \in Choices : ToTimed2(ConnDisconnect(conn, env))
    /\ UNCHANGED <<stanza, left>>

\* The read returns 0 or an error that ends the connection.
read_failed ==
    /\ pc = "select" /\ conn.state = "CONNECTED" /\ "read" \in Faults
    /\ \E env \in Choices :
          ToTimed2(ConnDisconnect([conn EXCEPT !.error = TRUE], env))
    /\ UNCHANGED <<stanza, left>>

\* A TLS read that has to be repeated.
read_again ==
    /\ pc = "select" /\ conn.state = "CONNECTED" /\ conn.tls
    /\ ToTimed2(conn)
    /\ UNCHANGED <<stanza, left>>

read_data ==
    /\ pc = "select" /\ conn.state = "CONNECTED"
    /\ pc' = "chunk" /\ left' = MaxChunk
    /\ UNCHANGED <<conn, at, stanza>>

-----------------------------------------------------------------------------
(* parser_feed: the XML events of one read. *)

\* A malformed document: parser_feed returns 0 and the rest of the data is lost.
parse_error(c) ==
    /\ \E env \in Choices : ToTimed2(ConnDisconnect([c EXCEPT !.parser = "broken"], env))
    /\ left' = 0
    /\ UNCHANGED stanza

\* A header begins with an XML declaration, so one that meets a parser still inside a
\* document is not well formed.
stream_header ==
    /\ pc = "chunk" /\ left > 0 /\ MayHeader
    /\ LET open == InPhase(conn.peer, "open")
           c == [conn EXCEPT !.peer = [open EXCEPT !.owed = @ \ {"header"}]]
       IN IF conn.parser = "start"
          THEN /\ \E root \in IncomingRoots, env \in Choices :
                     conn' = _handle_stream_start(c, root, env)
               /\ left' = left - 1
               /\ UNCHANGED <<pc, at, stanza>>
          ELSE parse_error(c)

\* A complete stanza: the handler of its id is called and dropped, then all
\* handlers in the list are enabled and the loop over them begins.
handler_fire_stanza ==
    /\ pc = "chunk" /\ left > 0 /\ conn.parser = "open"
    /\ \E s \in Incoming, env \in Choices :
         /\ MayStanza(s)
         /\ Conforming \/ Len(conn.send_queue) <= MaxQueue
         /\ LET c == [conn EXCEPT !.peer = AfterStanza(@, s),
                                  !.facts = @ \cup FactsOf(conn, s)]
                called == IF s.id \in c.id_handlers
                          THEN [CallId(s.id, c, s, env) EXCEPT !.id_handlers = @ \ {s.id}]
                          ELSE c
            IN conn' = [called EXCEPT !.handlers = EnableAll(@)]
         /\ stanza' = s
    /\ pc' = "stanza" /\ at' = 1
    /\ UNCHANGED left

\* One handler of that loop which is new, or a user's too early, or does not match.
SkipHandler ==
    /\ pc = "stanza" /\ at <= Len(conn.handlers)
    /\ LET h == conn.handlers[at]
       IN \/ ~h.enabled
          \/ h.fn \in UserFns /\ ~conn.authenticated
          \/ ~Matches(h.fn, stanza)
    /\ at' = at + 1
    /\ UNCHANGED <<conn, pc, stanza, left>>

\* One that is called, and unlinked if it returns false.
CallOne ==
    /\ pc = "stanza" /\ at <= Len(conn.handlers)
    /\ LET h == conn.handlers[at]
       IN /\ h.enabled
          /\ h.fn \in UserFns => conn.authenticated
          /\ Matches(h.fn, stanza)
          /\ \E env \in Choices :
               LET called == CallHandler(h.fn, conn, stanza, env)
               IN IF KeepsHandler(h.fn, stanza, env)
                  THEN conn' = called /\ at' = at + 1
                  ELSE conn' = DropHandler(called, h.fn) /\ at' = at
    /\ UNCHANGED <<pc, stanza, left>>

EndStanza ==
    /\ pc = "stanza" /\ at > Len(conn.handlers)
    /\ pc' = "chunk" /\ left' = left - 1 /\ at' = 1 /\ stanza' = NoStanza
    /\ UNCHANGED conn

stream_end ==
    /\ pc = "chunk" /\ left > 0 /\ conn.parser = "open" /\ MayEnd
    /\ \E env \in Choices :
         conn' = _handle_stream_end([conn EXCEPT !.peer = InPhase(@, "ended")], env)
    /\ left' = left - 1
    /\ UNCHANGED <<pc, at, stanza>>

garbage ==
    /\ pc = "chunk" /\ left > 0 /\ Garbled
    /\ parse_error(conn)

\* The data ends here, perhaps in the middle of an element.
chunk_done ==
    /\ pc = "chunk"
    /\ ToTimed2(conn)
    /\ left' = 0
    /\ UNCHANGED stanza

-----------------------------------------------------------------------------
User == xmpp_connect_client \/ xmpp_disconnect \/ xmpp_send
           \/ xmpp_conn_disable_tls \/ xmpp_handler_add

Loop == \/ run_once_write \/ SkipTimed \/ FireTimed \/ EndTimed
        \/ connect_timeout \/ no_event \/ connect_complete \/ connect_failed
        \/ read_failed \/ read_again \/ read_data
        \/ stream_header \/ handler_fire_stanza \/ SkipHandler \/ CallOne
        \/ EndStanza \/ stream_end \/ garbage \/ chunk_done

Next == User \/ Tick \/ Loop

Spec == Init /\ [][Next]_vars

(***************************************************************************)
(* Fairness.  xmpp_run calls xmpp_run_once for ever and a single thread    *)
(* runs it, so the loop never stops between two steps; time passes.  The   *)
(* user and the server owe nothing; a property that needs a server that    *)
(* reads and answers says so itself, with ServerAnswers.                   *)
(***************************************************************************)
WriteAll == run_once_write /\ conn'.send_queue = <<>>
Answer == handler_fire_stanza /\ Answers(stanza') \cap conn.peer.owed # {}

LoopSpec == Spec /\ WF_vars(Loop) /\ WF_vars(Tick)

\* A network and a server that, again and again, take data and answer.
ServerAnswers ==
    SF_vars(WriteAll) /\ SF_vars(read_data) /\ SF_vars(stream_header) /\ SF_vars(Answer)

-----------------------------------------------------------------------------
(* What the session promises. *)

\* Every variable has its type.
TypeOK ==
    /\ conn \in Conn
    /\ pc \in {"idle", "timed1", "select", "chunk", "stanza", "timed2"}
    /\ at \in Nat \ {0} /\ stanza \in Stanza /\ left \in Nat

Queued == {conn.send_queue[i] : i \in DOMAIN conn.send_queue}

\* Requests on their way to the server or not answered by it.
Outstanding == Queued \cup conn.peer.owed

FirstAttempt == conn.attempts <= 1

\* conn->authenticated is set, and user handlers begin to run, only when the server
\* has accepted the client: the legacy query succeeded, or SASL and the resource
\* binding did and, if it asked for one, the session (_handle_legacy, _handle_bind
\* and _handle_session of auth.c).
AuthenticatedByServer ==
    [][ FirstAttempt /\ ~conn.authenticated /\ conn'.authenticated =>
          \/ "legacy_result" \in conn'.facts
          \/ /\ {"success", "bind_result"} \subseteq conn'.facts
             /\ conn.session_required => "session_result" \in conn'.facts ]_vars

\* A timer that reports a missing answer is armed only while the handler of that
\* answer is registered: otherwise it would end a session that was answered
\* (the pairs of handler_add and handler_add_timed in auth.c, and the deletions).
TimersPaired ==
    LET armed(f) == Listed(conn.timed_handlers, f)
    IN /\ armed("_handle_missing_features") => Listed(conn.handlers, "_handle_features")
       /\ armed("_handle_missing_features_sasl") =>
              Listed(conn.handlers, "_handle_features_sasl")
       /\ armed("_handle_missing_bind")    => "_handle_bind" \in conn.id_handlers
       /\ armed("_handle_missing_session") => "_handle_session" \in conn.id_handlers
       /\ armed("_handle_missing_legacy")  => "_handle_legacy" \in conn.id_handlers

\* After xmpp_disconnect has queued </stream:stream> on a connected stream, the timer
\* that forces the end stays armed until the connection is down, whatever else
\* happens in between (conn.c: xmpp_disconnect, conn_disconnect_clean).
CloseWatched ==
    conn.state = "CONNECTED" /\ "closing" \in conn.facts =>
        Listed(conn.timed_handlers, "_disconnect_cleanup")

\* When the server may send the header of a new stream, the parser is fresh: the
\* reset asked for by a callback (conn_prepare_reset) has been done by the loop
\* before the answer to the header it wrote can be read (event.c:172).
HeaderMeetsFreshParser ==
    FirstAttempt /\ pc = "chunk" /\ MayHeader => conn.parser = "start"

Credentials == Mechanisms \cup {"response", "legacy"}

CredentialsQueued(c) ==
    Cardinality({i \in DOMAIN c.send_queue : c.send_queue[i] \in Credentials})

\* Once the server has offered starttls, no credentials are queued before the
\* stream is secured, although failing SASL methods, late features and timers all
\* call _auth again (auth.c:454; a library where tls_new works).
NoCleartextCredentials ==
    [][ "starttls_offered" \in conn'.facts /\ ~conn.secured /\ ~conn.tls_disabled =>
          CredentialsQueued(conn') <= CredentialsQueued(conn) ]_vars

\* While a SASL request is unanswered on a stream not being closed, a handler that can
\* take the answer is registered: handler_add refuses a function that is already
\* in the list, and the one being called is unlinked on return (handler.c:385, 109).
SaslAnswerAwaited ==
    /\ FirstAttempt /\ conn.state = "CONNECTED"
    /\ Outstanding \cap (Mechanisms \cup {"response"}) # {} /\ "closing" \notin conn.facts
    => \E f \in {"_handle_sasl_result", "_handle_digestmd5_challenge",
                 "_handle_digestmd5_rspauth"} : Listed(conn.handlers, f)

\* An attempt that has ended has told the user DISCONNECT exactly once, and one
\* that has not ended has not (conn_disconnect and its callers).
DisconnectOnce ==
    conn.downs = (IF conn.state = "DISCONNECTED" /\ conn.attempts > 0 THEN 1 ELSE 0)

\* With a server that keeps to the protocol, all the callbacks, timers, failures and
\* reconnections look to the user like a connection that is made, comes up and ends
\* in this order, each end told once, none without a connection (conn->state, and the
\* calls of conn->conn_handler in auth.c and conn.c).
Life == INSTANCE Lifecycle WITH
    state <- conn.state, attempts <- conn.attempts, ups <- conn.ups,
    downs <- conn.downs, authenticated <- conn.authenticated

LifecycleSpec == Life!Spec

\* The user is told CONNECT at most once in an attempt.
ConnectOnce == conn.ups <= 1

\* ... except when features came later than FEATURES_TIMEOUT, after the timer had
\* started a legacy authentication that runs beside SASL (auth.c:187).
ConnectOnceUnlessLate == ConnectOnce \/ "features_missing" \in conn.facts

\* A connected client that is neither authenticated nor closing waits for
\* something: data in the queue, an answer the server owes, or a timer.
NeverStalled ==
    conn.state = "CONNECTED" /\ pc = "select" /\ conn.ups = 0 =>
        \/ Outstanding # {}
        \/ \E f \in TimedFns \ UserFns : Listed(conn.timed_handlers, f)

\* A user handler runs only after a CONNECT of the same attempt (common.h:204).
UserHandlersAfterConnect == ~conn.early

\* A disconnection that has begun ends, if only because its timer fires.
DisconnectCompletes ==
    (conn.state # "DISCONNECTED" /\ Listed(conn.timed_handlers, "_disconnect_cleanup"))
        ~> conn.state = "DISCONNECTED"

\* With a server that answers, an attempt to connect succeeds or ends.
NegotiationTerminates ==
    ServerAnswers =>
        (conn.state = "CONNECTING" ~> (conn.ups > 0 \/ conn.state = "DISCONNECTED"))

=============================================================================

-------------------------------- MODULE Conn --------------------------------
(***************************************************************************)
(* One connection object of libstrophe (struct _xmpp_conn_t of common.h)   *)
(* and the operations of conn.c and handler.c on it, as functions from a   *)
(* connection record to a connection record.  Auth.tla adds the stream     *)
(* negotiation of auth.c and Session.tla the event loop of event.c.        *)
(*                                                                         *)
(* A stanza, a queued piece of output and a handler function are names.    *)
(* The two handler lists keep their order.  A time stamp is kept as an     *)
(* age: how many ticks have passed since it was taken.                     *)
(***************************************************************************)
EXTENDS Integers, Sequences, FiniteSets

CONSTANTS
    CONNECT_TIMEOUT, DISCONNECT_TIMEOUT,   \* ticks; the code has 5000 ms and 2000 ms
    FEATURES_TIMEOUT, BIND_TIMEOUT,        \* the code has 15000 ms for these four
    SESSION_TIMEOUT, LEGACY_TIMEOUT,
    USER_PERIOD,                           \* period of the user's timed handler
    MaxConnects,                           \* bound on calls of xmpp_connect_client
    Choices                                \* subset of Env that may happen

Timeouts == {CONNECT_TIMEOUT, DISCONNECT_TIMEOUT, FEATURES_TIMEOUT, BIND_TIMEOUT,
             SESSION_TIMEOUT, LEGACY_TIMEOUT, USER_PERIOD}

(***************************************************************************)
(* What surrounds one callback: whether allocations succeed, whether       *)
(* tls_new and tls_start do, what the user's connection handler does when  *)
(* it is told CONNECT or DISCONNECT, and whether a user handler asks to    *)
(* be kept.                                                                *)
(***************************************************************************)
Env == [memory        : BOOLEAN,
        tls_new       : BOOLEAN,
        tls_start     : BOOLEAN,
        on_connect    : {"return", "disconnect"},
        on_disconnect : {"return", "connect"},
        keep          : BOOLEAN]

ASSUME TimeoutsAssumption == Timeouts \subseteq Nat \ {0}
ASSUME MaxConnectsAssumption == MaxConnects \in Nat
ASSUME ChoicesAssumption == Choices \subseteq Env

-----------------------------------------------------------------------------
(* Names of the code's functions and values. *)

States == {"DISCONNECTED", "CONNECTING", "CONNECTED"}

TimedFns == {"_handle_missing_features", "_handle_missing_features_sasl",
             "_handle_missing_bind", "_handle_missing_session",
             "_handle_missing_legacy", "_disconnect_cleanup", "user_timed"}

IdFns == {"_handle_bind", "_handle_session", "_handle_legacy"}

HandlerFns == {"_handle_error", "_handle_features", "_handle_features_sasl",
               "_handle_proceedtls_default", "_handle_sasl_result",
               "_handle_digestmd5_challenge", "_handle_digestmd5_rspauth",
               "user_stanza"}

OpenFns == {"auth_handle_open", "_handle_open_sasl"}

UserFns == {"user_timed", "user_stanza"}

Mechanisms == {"PLAIN", "DIGEST-MD5", "ANONYMOUS"}

\* What the send queue holds; a mechanism stands for its <auth/> element.
Items == {"header", "close", "starttls", "response", "legacy", "bind",
          "session", "user"} \cup Mechanisms

Period == [f \in TimedFns |->
    CASE f \in {"_handle_missing_features",
                "_handle_missing_features_sasl"} -> FEATURES_TIMEOUT
      [] f = "_handle_missing_bind"    -> BIND_TIMEOUT
      [] f = "_handle_missing_session" -> SESSION_TIMEOUT
      [] f = "_handle_missing_legacy"  -> LEGACY_TIMEOUT
      [] f = "_disconnect_cleanup"     -> DISCONNECT_TIMEOUT
      [] f = "user_timed"              -> USER_PERIOD]

TimedItem   == [fn : TimedFns, enabled : BOOLEAN, age : Nat]
HandlerItem == [fn : HandlerFns, enabled : BOOLEAN]

(***************************************************************************)
(* What has happened in this attempt to connect (history, read only by     *)
(* properties), and what the server at the other end of the socket knows:  *)
(* the phase of the stream it sends, the requests it has not answered yet  *)
(* and the challenges it has sent.                                         *)
(***************************************************************************)
Facts == {"success", "bind_result", "session_result", "legacy_result",
          "starttls_offered", "features_missing", "closing"}

Peer == [phase : {"silent", "open", "restart", "ended"},
         owed : SUBSET (Items \cup {"features"}),
         challenges : Nat]

NewPeer == [phase |-> "silent", owed |-> {}, challenges |-> 0]

Conn == [state            : States,
         age              : Nat,              \* since timeout_stamp
         error            : BOOLEAN,          \* conn->error # 0
         stream_error     : BOOLEAN,          \* conn->stream_error # NULL
         jid              : {"anonymous", "bare", "full"},
         tls              : BOOLEAN,          \* conn->tls # NULL
         tls_support      : BOOLEAN,
         tls_disabled     : BOOLEAN,
         secured          : BOOLEAN,
         sasl_support     : SUBSET Mechanisms,
         bind_required    : BOOLEAN,
         session_required : BOOLEAN,
         authenticated    : BOOLEAN,
         stream_id        : {"null", "set", "freed"},
         parser           : {"start", "open", "ended", "broken"},
         reset_parser     : BOOLEAN,
         open_handler     : OpenFns,
         send_queue       : Seq(Items),
         timed_handlers   : Seq(TimedItem),
         id_handlers      : SUBSET IdFns,
         handlers         : Seq(HandlerItem),
         attempts         : Nat,              \* calls of xmpp_connect_client
         ups              : Nat,              \* CONNECT notifications of this attempt
         downs            : Nat,              \* DISCONNECT notifications of this attempt
         early            : BOOLEAN,          \* a user handler ran before any CONNECT
         facts            : SUBSET Facts,
         peer             : Peer]

\* xmpp_conn_new; the parser it creates has read nothing.
NewConn(jid) ==
    [state |-> "DISCONNECTED", age |-> 0, error |-> FALSE, stream_error |-> FALSE,
     jid |-> jid,
     tls |-> FALSE, tls_support |-> FALSE, tls_disabled |-> FALSE,
     secured |-> FALSE, sasl_support |-> {},
     bind_required |-> FALSE, session_required |-> FALSE,
     authenticated |-> FALSE, stream_id |-> "null",
     parser |-> "start", reset_parser |-> TRUE,
     open_handler |-> "auth_handle_open",
     send_queue |-> <<>>, timed_handlers |-> <<>>, id_handlers |-> {},
     handlers |-> <<>>,
     attempts |-> 0, ups |-> 0, downs |-> 0, early |-> FALSE, facts |-> {},
     peer |-> NewPeer]

-----------------------------------------------------------------------------
(* handler.c: the lists. *)

Listed(list, f) == \E i \in DOMAIN list : list[i].fn = f

Unlink(list, i) ==
    [j \in 1 .. Len(list) - 1 |-> IF j < i THEN list[j] ELSE list[j + 1]]

Without(list, f) ==
    IF Listed(list, f)
    THEN Unlink(list, CHOOSE i \in DOMAIN list : list[i].fn = f)
    ELSE list

EnableAll(list) == [i \in DOMAIN list |-> [list[i] EXCEPT !.enabled = TRUE]]

\* handler_add_timed, _timed_handler_add: a function already listed is left as it is.
AddTimed(c, f) ==
    IF Listed(c.timed_handlers, f) THEN c
    ELSE [c EXCEPT !.timed_handlers =
              Append(@, [fn |-> f, enabled |-> FALSE, age |-> 0])]

\* xmpp_timed_handler_delete
DeleteTimed(c, f) == [c EXCEPT !.timed_handlers = Without(@, f)]

\* Mutant of ResetTimed: the list is emptied.
ResetTimed_empties(c) == [c EXCEPT !.timed_handlers = <<>>]

\* handler_reset_timed(conn, 0)
ResetTimed(c) ==
    [c EXCEPT !.timed_handlers = [i \in DOMAIN @ |-> [@[i] EXCEPT !.age = 0]]]

\* handler_add_id, _id_handler_add: each function has an id of its own here.
AddId(c, f) == [c EXCEPT !.id_handlers = @ \cup {f}]

\* handler_add, _handler_add: a function already listed is left as it is.
AddHandler(c, f) ==
    IF Listed(c.handlers, f) THEN c
    ELSE [c EXCEPT !.handlers = Append(@, [fn |-> f, enabled |-> FALSE])]

\* The unlinking of a one-shot handler in handler_fire_stanza.
DropHandler(c, f) == [c EXCEPT !.handlers = Without(@, f)]

-----------------------------------------------------------------------------
(* conn.c: output, opening and closing. *)

\* xmpp_send, xmpp_send_raw, xmpp_send_raw_string
Send(c, item) ==
    IF c.state = "CONNECTED"
    THEN [c EXCEPT !.send_queue = Append(@, item)]
    ELSE c

\* conn_open_stream
OpenStream(c) == Send(c, "header")

\* Mutant of PrepareReset: the flag is not set.
PrepareReset_noflag(c, open) == [c EXCEPT !.open_handler = open]

\* conn_prepare_reset
PrepareReset(c, open) == [c EXCEPT !.reset_parser = TRUE, !.open_handler = open]

\* conn_parser_reset, for a connection that asked for it
ParserReset(c) ==
    IF c.reset_parser
    THEN [c EXCEPT !.reset_parser = FALSE, !.parser = "start"]
    ELSE c

\* Mutant of ConnectClient: it clears the stanza handlers and leaves the timers.
ConnectClient_clears(c) ==
    [c EXCEPT !.state = "CONNECTING", !.age = 0, !.attempts = @ + 1,
              !.ups = 0, !.downs = 0, !.early = FALSE, !.facts = {},
              !.peer = NewPeer, !.id_handlers = {}, !.handlers = <<>>]

\* xmpp_connect_client, when sock_connect returns a socket: a new attempt begins.
\* Nothing else of the connection is reset.
ConnectClient(c) ==
    [c EXCEPT !.state = "CONNECTING", !.age = 0, !.attempts = @ + 1,
              !.ups = 0, !.downs = 0, !.early = FALSE, !.facts = {},
              !.peer = NewPeer]

\* Mutant of ConnDisconnect: the user is told before the state is changed.
ConnDisconnect_tellsfirst(c, env) ==
    LET told == [c EXCEPT !.downs = @ + 1]
        back == IF env.on_disconnect = "connect" /\ c.attempts < MaxConnects
                THEN ConnectClient(told) ELSE told
    IN [back EXCEPT !.state = "DISCONNECTED", !.tls = FALSE]

\* conn_disconnect: closes, then tells the user, who may connect again.
ConnDisconnect(c, env) ==
    LET down == [c EXCEPT !.state = "DISCONNECTED", !.tls = FALSE,
                          !.downs = @ + 1]
    IN IF env.on_disconnect = "connect" /\ c.attempts < MaxConnects
       THEN ConnectClient(down)
       ELSE down

\* conn_disconnect_clean
ConnDisconnectClean(c, env) ==
    ConnDisconnect(DeleteTimed(c, "_disconnect_cleanup"), env)

\* xmpp_disconnect (and disconnect_mem_error of util.c, which only calls it)
XmppDisconnect(c) ==
    CASE c.state = "DISCONNECTED" -> c
      [] c.state = "CONNECTING"   -> AddTimed(c, "_disconnect_cleanup")
      [] c.state = "CONNECTED"    ->
            AddTimed([Send(c, "close") EXCEPT !.facts = @ \cup {"closing"}],
                     "_disconnect_cleanup")

=============================================================================

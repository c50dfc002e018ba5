--------------------------- MODULE AnswersProofs ---------------------------
(***************************************************************************)
(* Theorems about the answers of Session: with a server that keeps to the  *)
(* protocol, in the first attempt to connect, a handler is there for the   *)
(* answer to every SASL request, and a client that is not yet              *)
(* authenticated always waits for something.                               *)
(*                                                                         *)
(* The invariant follows one request: it is queued by a handler that is    *)
(* called when no other request is open, it is written, answered, and the  *)
(* handler of its answer makes the next one.                               *)
(***************************************************************************)
EXTENDS DialogueProofs

SaslItems == Mechanisms \cup {"response"}
IdItems == {"bind", "session", "legacy"}

\* No answer leaves the client waiting for nothing: <starttls/> is not refused, and is
\* offered by features only (a handler of namespace xmpp-tls takes any stanza with a
\* child of that namespace for an answer, and answers nothing but <proceed/>).
Accepts ==
    \A s \in Incoming :
        /\ s.name # "tls_failure"
        /\ "starttls" \in s.offers => s.name = "stream:features"

\* The requests of which there is one at a time.  A late legacy authentication runs
\* beside the rest.
Asks(c) ==
    SaslItems \cup
    (IF ~Accepts THEN {} ELSE {"starttls"} \cup (IF Late(c) THEN {} ELSE IdItems))

Asked(c) == {c.send_queue[i] : i \in DOMAIN c.send_queue} \cup c.peer.owed

Clear(c) == Asked(c) \cap Asks(c) = {}

\* The stream is up and is not being closed.
Going(c) ==
    /\ c.attempts <= 1 /\ c.state = "CONNECTED"
    /\ "closing" \notin c.facts /\ Straight(c)

\* A handler takes the answer to x.
Taken(c, x) ==
    /\ x \in SaslItems => \E f \in SaslFns : Listed(c.handlers, f)
    /\ x = "starttls"  => Listed(c.handlers, "_handle_proceedtls_default")
    /\ x = "bind"      => "_handle_bind" \in c.id_handlers
    /\ x = "session"   => "_handle_session" \in c.id_handlers
    /\ x = "legacy"    => "_handle_legacy" \in c.id_handlers

Answered(c) == \A x \in Asked(c) \cap Asks(c) : Taken(c, x)

\* One request is open: queued, or read by the server and not answered.
Once(c) ==
    /\ \A i, j \in DOMAIN c.send_queue :
          c.send_queue[i] \in Asks(c) /\ c.send_queue[j] \in Asks(c) => i = j
    /\ \A x, y \in c.peer.owed \cap Asks(c) : x = y
    /\ \A i \in DOMAIN c.send_queue :
          c.send_queue[i] \in Asks(c) => c.peer.owed \cap Asks(c) = {}

\* While the handler of a mechanism is there, the mechanisms that _auth would start with
\* the same handler are used up: handler_add would leave the old one, soon unlinked.
Tried(c) ==
    \A f \in SaslFns : Listed(c.handlers, f) =>
        IF c.jid = "anonymous"
        THEN "ANONYMOUS" \notin c.sasl_support
        ELSE /\ "DIGEST-MD5" \notin c.sasl_support
             /\ f = "_handle_sasl_result" => "PLAIN" \notin c.sasl_support

Expects(c) ==
    "features" \in c.peer.owed /\ c.peer.phase = "open" =>
        \E f \in FeatureFns : Listed(c.handlers, f)

Fallback(c) == Late(c) => c.ups > 0 \/ Armed(c, "_handle_missing_legacy")

Held(c) == Answered(c) /\ Once(c) /\ Tried(c) /\ Expects(c) /\ Fallback(c)

Busy(c) ==
    \/ Asked(c) \ {"user", "close"} # {}
    \/ \E f \in TimedFns \ UserFns : Armed(c, f)

\* The loop of handler_fire_stanza, at position k, has still to come to f.
Due(c, k, f) ==
    \E i \in DOMAIN c.handlers :
        i >= k /\ c.handlers[i].fn = f /\ c.handlers[i].enabled

\* What is known when f is called with the stanza s.
Fitting(c, f, s) ==
    /\ s.name # "stream:features"
    /\ f \in SaslFns /\ s.name \in {"success", "failure", "challenge"} => Clear(c)
    /\ f = "_handle_proceedtls_default" /\ Accepts => Clear(c)

ToFit(c, k, s) ==
    /\ s \in Incoming
    /\ \A f \in Exchanges : Due(c, k, f) /\ Matches(f, s) => Fitting(c, f, s)

ToCall(c, k, s) == \E f \in DialogueFns : Due(c, k, f) /\ Matches(f, s)

\* The invariant.
Waiting ==
    Going(conn) =>
        /\ Held(conn)
        /\ pc = "stanza" => ToFit(conn, at, stanza)
        /\ Accepts => \/ conn.ups > 0 \/ Late(conn) \/ Busy(conn)
                      \/ pc = "stanza" /\ ToCall(conn, at, stanza)

-----------------------------------------------------------------------------
(* Steps that are nothing to the requests. *)

LEMMA AsksAre ==
    ASSUME NEW c
    PROVE  /\ SaslItems \subseteq Asks(c)
           /\ Asks(c) \subseteq SaslItems \cup {"starttls"} \cup IdItems
           /\ Asks(c) \cap {"user", "close", "header", "features"} = {}
           /\ "starttls" \in Asks(c) <=> Accepts
           /\ \A x \in IdItems : x \in Asks(c) <=> Accepts /\ ~Late(c)
BY DEF Asks, SaslItems, Mechanisms, IdItems

LEMMA SameAsks ==
    ASSUME NEW c, NEW d
    PROVE  /\ (Late(d) <=> Late(c)) => Asks(d) = Asks(c)
           /\ (Late(c) => Late(d)) => Asks(d) \subseteq Asks(c)
BY DEF Asks

LEMMA TakenStays ==
    ASSUME NEW c, NEW d, NEW x, Taken(c, x),
           \A f \in Exchanges : Listed(c.handlers, f) => Listed(d.handlers, f),
           c.id_handlers \subseteq d.id_handlers
    PROVE  Taken(d, x)
BY DEF Taken, Exchanges

\* Nothing to the requests: the user may have sent something.
Mild(c, d) ==
    /\ d.state = c.state /\ d.attempts = c.attempts /\ d.peer = c.peer /\ d.ups = c.ups
    /\ d.jid = c.jid /\ d.sasl_support = c.sasl_support /\ d.secured = c.secured
    /\ d.id_handlers = c.id_handlers /\ d.facts = c.facts
    /\ d.send_queue = c.send_queue \/ d.send_queue = Append(c.send_queue, "user")
    /\ \A f \in DialogueFns : Listed(d.handlers, f) <=> Listed(c.handlers, f)
    /\ \A f \in TimedFns \ UserFns : Armed(d, f) <=> Armed(c, f)

LEMMA MildHeld ==
    ASSUME NEW c \in Conn, NEW d, Mild(c, d)
    PROVE  /\ Going(d) <=> Going(c)
           /\ Held(c) => Held(d)
           /\ Clear(c) => Clear(d)
           /\ Late(d) <=> Late(c)
           /\ Busy(c) => Busy(d)
<1>1. Late(d) <=> Late(c) BY DEF Mild, Late
<1>2. Asks(d) = Asks(c) BY <1>1, SameAsks
<1> DEFINE q == c.send_queue
           r == d.send_queue
           A == Asks(c)
           O == c.peer.owed
<1>3. q \in Seq(Items) /\ "user" \in Items BY DEF Conn, Items
<1>4. /\ DOMAIN q \subseteq DOMAIN r
      /\ \A i \in DOMAIN q : r[i] = q[i]
      /\ \A i \in DOMAIN r : i \in DOMAIN q \/ r[i] = "user"
  <2>1. r = q \/ r = Append(q, "user") BY DEF Mild
  <2>2. /\ DOMAIN q = 1 .. Len(q) /\ Len(q) \in Nat
        /\ DOMAIN Append(q, "user") = 1 .. Len(q) + 1
        /\ Append(q, "user")[Len(q) + 1] = "user"
        /\ \A i \in 1 .. Len(q) : Append(q, "user")[i] = q[i]
    BY <1>3
  <2> HIDE DEF q, r
  <2> QED BY <2>1, <2>2
<1>5. d.peer = c.peer BY DEF Mild
<1>6. "user" \notin A BY AsksAre
<1> HIDE DEF q, r, A, O
<1>7. Asked(c) \subseteq Asked(d) /\ Asked(d) \subseteq Asked(c) \cup {"user"}
  BY <1>4, <1>5 DEF Asked, q, r
<1>8. Clear(c) => Clear(d) BY <1>2, <1>6, <1>7 DEF Clear, A
<1>9. Answered(c) => Answered(d)
  <2> SUFFICES ASSUME Answered(c), NEW x \in Asked(d) \cap Asks(d) PROVE Taken(d, x)
    BY DEF Answered
  <2>1. Taken(c, x) BY <1>2, <1>6, <1>7 DEF Answered, A
  <2>2. \A f \in Exchanges : Listed(c.handlers, f) => Listed(d.handlers, f)
    BY DEF Mild, DialogueFns
  <2>3. c.id_handlers \subseteq d.id_handlers BY DEF Mild
  <2> QED BY <2>1, <2>2, <2>3, TakenStays
<1>10. Once(c) => Once(d)
  <2> SUFFICES ASSUME Once(c) PROVE Once(d) OBVIOUS
  <2>1. /\ \A i, j \in DOMAIN q : q[i] \in A /\ q[j] \in A => i = j
        /\ \A x, y \in O \cap A : x = y
        /\ \A i \in DOMAIN q : q[i] \in A => O \cap A = {}
    BY DEF Once, q, A, O
  <2>2. /\ \A i, j \in DOMAIN r : r[i] \in A /\ r[j] \in A => i = j
        /\ \A i \in DOMAIN r : r[i] \in A => O \cap A = {}
    BY <1>4, <1>6, <2>1
  <2> QED BY <1>2, <1>5, <2>1, <2>2 DEF Once, r, A, O
<1>11. Tried(c) => Tried(d) BY DEF Tried, Mild, DialogueFns, Exchanges
<1>12. Expects(c) => Expects(d) BY DEF Expects, Mild, DialogueFns
<1>13. "_handle_missing_legacy" \in TimedFns \ UserFns BY DEF TimedFns, UserFns
<1>14. Fallback(c) => Fallback(d) BY <1>1, <1>13 DEF Fallback, Mild
<1>15. Busy(c) => Busy(d) BY <1>7 DEF Busy, Mild
<1>16. Going(d) <=> Going(c) BY <1>1 DEF Going, Mild, Straight
<1> QED BY <1>1, <1>8, <1>9, <1>10, <1>11, <1>12, <1>14, <1>15, <1>16 DEF Held

LEMMA TimedMild ==
    ASSUME NEW c \in Conn, NEW list,
           \A f \in TimedFns \ UserFns : Listed(list, f) <=> Armed(c, f)
    PROVE  LET d == [c EXCEPT !.timed_handlers = list]
           IN Mild(c, d) /\ d.handlers = c.handlers
<1> DEFINE d == [c EXCEPT !.timed_handlers = list]
<1>1. /\ d.state = c.state /\ d.attempts = c.attempts /\ d.peer = c.peer /\ d.ups = c.ups
      /\ d.jid = c.jid /\ d.sasl_support = c.sasl_support /\ d.secured = c.secured
      /\ d.id_handlers = c.id_handlers /\ d.facts = c.facts
      /\ d.send_queue = c.send_queue /\ d.handlers = c.handlers /\ d.timed_handlers = list
  BY DEF Conn
<1> HIDE DEF d
<1> QED BY <1>1 DEF Mild, Armed, d

\* A list with the functions of another has nothing else.
LEMMA JustFunctions ==
    ASSUME NEW list \in Seq(TimedItem), NEW new, DOMAIN new = DOMAIN list,
           \A i \in DOMAIN list : new[i].fn = list[i].fn
    PROVE  \A f : Listed(new, f) <=> Listed(list, f)
BY DEF Listed

LEMMA BeginTimedMild ==
    ASSUME NEW c \in Conn
    PROVE  Mild(c, BeginTimed(c)) /\ BeginTimed(c).handlers = c.handlers
<1> DEFINE list == c.timed_handlers
           new == EnableAll(list)
<1>1. list \in Seq(TimedItem) BY DEF Conn
<1>2. ASSUME NEW i \in DOMAIN list PROVE new[i].fn = list[i].fn
  <2>1. list[i] \in TimedItem BY <1>1
  <2>2. new[i] = [list[i] EXCEPT !.enabled = TRUE] BY DEF EnableAll
  <2> QED BY <2>1, <2>2 DEF TimedItem
<1>3. DOMAIN new = DOMAIN list BY DEF EnableAll
<1> HIDE DEF new
<1>4. \A f : Listed(new, f) <=> Listed(list, f) BY <1>1, <1>2, <1>3, JustFunctions
<1>5. CASE c.state = "CONNECTED"
  <2>1. BeginTimed(c) = [c EXCEPT !.timed_handlers = new] BY <1>5 DEF BeginTimed, new
  <2> QED BY <1>4, <2>1, TimedMild DEF Armed
<1>6. CASE c.state # "CONNECTED" BY <1>6 DEF BeginTimed, Mild
<1> QED BY <1>5, <1>6

LEMMA GoneWaits == ASSUME ~Going(conn') PROVE Waiting'
BY DEF Waiting

\* The loop of handler_fire_stanza is where it was.
Stays == pc' = pc /\ at' = at /\ stanza' = stanza /\ conn'.handlers = conn.handlers

LEMMA MildWaits ==
    ASSUME conn \in Conn, Waiting, Mild(conn, conn'), Stays \/ (pc # "stanza" /\ pc' # "stanza")
    PROVE  Waiting'
<1> SUFFICES ASSUME Going(conn')
             PROVE  /\ Held(conn')
                    /\ pc' = "stanza" => ToFit(conn', at', stanza')
                    /\ Accepts => \/ conn'.ups > 0 \/ Late(conn') \/ Busy(conn')
                                  \/ pc' = "stanza" /\ ToCall(conn', at', stanza')
  BY DEF Waiting
<1>1. /\ Going(conn) /\ Held(conn') /\ (Clear(conn) => Clear(conn'))
      /\ Held(conn) /\ (Late(conn') <=> Late(conn)) /\ (Busy(conn) => Busy(conn'))
  BY MildHeld DEF Waiting
<1>2. conn'.ups = conn.ups BY DEF Mild
<1>3. CASE Stays
  <2>1. \A f : Due(conn', at', f) <=> Due(conn, at, f) BY <1>3 DEF Due, Stays
  <2>2. pc' = "stanza" => ToFit(conn', at', stanza')
    BY <1>1, <1>3, <2>1 DEF Waiting, ToFit, Fitting, Stays
  <2>3. ToCall(conn', at', stanza') <=> ToCall(conn, at, stanza)
    BY <1>3, <2>1 DEF ToCall, Stays
  <2> QED BY <1>1, <1>2, <1>3, <2>2, <2>3 DEF Waiting, Stays
<1>4. CASE pc # "stanza" /\ pc' # "stanza" BY <1>1, <1>2, <1>4 DEF Waiting
<1> QED BY <1>3, <1>4

LEMMA TickWaits == ASSUME Inv, Fits, Dialogue, Waiting, Tick PROVE Waiting'
<1> DEFINE list == conn.timed_handlers
           new == AllOlder(list)
<1>1. conn \in Conn /\ list \in Seq(TimedItem) BY Now DEF Conn
<1>2. ASSUME NEW i \in DOMAIN list PROVE new[i].fn = list[i].fn
  <2> DEFINE k == Older(list[i].age, Period[list[i].fn])
  <2>1. list[i] \in TimedItem BY <1>1
  <2>2. new[i] = [list[i] EXCEPT !.age = k] BY DEF AllOlder
  <2> HIDE DEF k
  <2> QED BY <2>1, <2>2 DEF TimedItem
<1>3. DOMAIN new = DOMAIN list BY DEF AllOlder
<1>4. /\ conn'.state = conn.state /\ conn'.attempts = conn.attempts
      /\ conn'.peer = conn.peer /\ conn'.ups = conn.ups /\ conn'.jid = conn.jid
      /\ conn'.sasl_support = conn.sasl_support /\ conn'.secured = conn.secured
      /\ conn'.id_handlers = conn.id_handlers /\ conn'.facts = conn.facts
      /\ conn'.send_queue = conn.send_queue /\ conn'.handlers = conn.handlers
      /\ conn'.timed_handlers = new
      /\ pc' = pc /\ at' = at /\ stanza' = stanza
  BY <1>1 DEF Tick, Conn
<1> HIDE DEF new
<1>5. \A f : Listed(new, f) <=> Listed(list, f) BY <1>1, <1>2, <1>3, JustFunctions
<1>6. Mild(conn, conn') BY <1>4, <1>5 DEF Mild, Armed
<1> QED BY <1>1, <1>4, <1>6, MildWaits DEF Stays

LEMMA DisconnectGone ==
    ASSUME NEW c \in Conn
    PROVE  /\ ~Going(XmppDisconnect(c))
           /\ \A env : ~Going(ConnDisconnect(c, env))
           /\ \A env : ~Going(BeginTimed(ConnDisconnect(c, env)))
           /\ ~Going(ConnectClient(c))
<1>1. ASSUME NEW env PROVE ConnDisconnect(c, env).state # "CONNECTED"
  BY ConnDisconnectGood
<1>2. ASSUME NEW env PROVE BeginTimed(ConnDisconnect(c, env)) = ConnDisconnect(c, env)
  BY <1>1 DEF BeginTimed
<1>3. ConnectClient(c).state # "CONNECTED" BY ConnectClientGood
<1>4. CASE c.state = "CONNECTED"
  <2> DEFINE s == Send(c, "close")
             d == [s EXCEPT !.facts = @ \cup {"closing"}]
  <2>1. s = [c EXCEPT !.send_queue = Append(@, "close")] BY <1>4 DEF Send
  <2>2. "closing" \in d.facts BY <2>1 DEF Conn
  <2>3. XmppDisconnect(c) = AddTimed(d, "_disconnect_cleanup") BY <1>4 DEF XmppDisconnect
  <2>4. DOMAIN d = DOMAIN c /\ "facts" # "timed_handlers" BY <2>1
  <2> HIDE DEF d, s
  <2>5. AddTimed(d, "_disconnect_cleanup").facts = d.facts BY DEF AddTimed
  <2> QED BY <1>1, <1>2, <1>3, <2>2, <2>3, <2>5 DEF Going
<1>5. CASE c.state # "CONNECTED"
  <2>1. XmppDisconnect(c).state = c.state
    BY <1>5 DEF XmppDisconnect, AddTimed, Conn, States
  <2> QED BY <1>1, <1>2, <1>3, <1>5, <2>1 DEF Going
<1> QED BY <1>4, <1>5

LEMMA UserWaits == ASSUME Inv, Fits, Dialogue, Waiting, User PROVE Waiting'
<1>1. conn \in Conn BY Now
<1>2. CASE xmpp_connect_client
  BY <1>1, <1>2, DisconnectGone, GoneWaits DEF xmpp_connect_client
<1>3. CASE xmpp_disconnect
  BY <1>1, <1>3, DisconnectGone, GoneWaits DEF xmpp_disconnect
<1>4. CASE xmpp_send
  <2>2. Mild(conn, conn') BY <1>1, <1>4 DEF xmpp_send, Send, Mild, Conn, Armed
  <2> QED BY <1>1, <1>4, <2>2, MildWaits DEF xmpp_send
<1>5. CASE xmpp_conn_disable_tls
  <2>1. Mild(conn, conn') BY <1>1, <1>5 DEF xmpp_conn_disable_tls, Mild, Conn, Armed
  <2> QED BY <1>1, <1>5, <2>1, MildWaits DEF xmpp_conn_disable_tls
<1>6. CASE xmpp_handler_add
  <2> DEFINE h == AddHandler(conn, "user_stanza")
             hs == Append(conn.handlers, [fn |-> "user_stanza", enabled |-> FALSE])
             ts == Append(conn.timed_handlers,
                          [fn |-> "user_timed", enabled |-> FALSE, age |-> 0])
  <2>1. conn' = AddTimed(h, "user_timed") /\ pc = "idle" /\ pc' = "idle"
    BY <1>6 DEF xmpp_handler_add
  <2>2. conn.handlers \in Seq(HandlerItem) /\ conn.timed_handlers \in Seq(TimedItem)
    BY <1>1 DEF Conn
  <2>3. ~Listed(conn.handlers, "user_stanza") =>
           \A g : Listed(hs, g) <=> Listed(conn.handlers, g) \/ g = "user_stanza"
    <3> DEFINE item == [fn |-> "user_stanza", enabled |-> FALSE]
    <3>1. item \in HandlerItem /\ item.fn = "user_stanza" BY DEF HandlerItem, HandlerFns
    <3> HIDE DEF item
    <3> QED BY <2>2, <3>1, AppendIs DEF item
  <2>4. ~Listed(conn.timed_handlers, "user_timed") =>
           \A g : Listed(ts, g) <=> Listed(conn.timed_handlers, g) \/ g = "user_timed"
    <3> DEFINE item == [fn |-> "user_timed", enabled |-> FALSE, age |-> 0]
    <3>1. item \in TimedItem /\ item.fn = "user_timed" BY DEF TimedItem, TimedFns
    <3> HIDE DEF item
    <3> QED BY <2>2, <3>1, AppendIs DEF item
  <2> HIDE DEF hs, ts
  <2>5. /\ h = conn \/ (~Listed(conn.handlers, "user_stanza")
                           /\ h = [conn EXCEPT !.handlers = hs])
        /\ h.timed_handlers = conn.timed_handlers
    BY <1>1 DEF AddHandler, Conn, hs
  <2>6. h \in Conn /\ Mild(conn, h) /\ h.send_queue = conn.send_queue
    <3>1. h \in Conn
      <4>1. Good(conn) /\ "user_stanza" \in HandlerFns BY Now DEF Able, HandlerFns
      <4> QED BY <4>1, AddHandlerGood DEF Good
    <3>2. "user_stanza" \notin DialogueFns
      BY DEF DialogueFns, Exchanges, SaslFns, FeatureFns
    <3> HIDE DEF h
    <3> QED BY <1>1, <2>3, <2>5, <3>1, <3>2 DEF Mild, Conn, Armed
  <2> HIDE DEF h
  <2>7. conn' = h \/ (~Listed(conn.timed_handlers, "user_timed")
                         /\ conn' = [h EXCEPT !.timed_handlers = ts])
    BY <2>1, <2>5 DEF AddTimed, ts
  <2>8. "user_timed" \notin TimedFns \ UserFns BY DEF UserFns
  <2>9. Mild(h, conn')
    <3>1. CASE conn' = h BY <3>1 DEF Mild
    <3>2. CASE conn' # h BY <2>4, <2>5, <2>6, <2>7, <2>8, <3>2, TimedMild DEF Armed
    <3> QED BY <3>1, <3>2
  <2>10. Mild(conn, conn') BY <2>6, <2>9 DEF Mild
  <2> QED BY <1>1, <2>1, <2>10, MildWaits
<1> QED BY <1>2, <1>3, <1>4, <1>5, <1>6 DEF User

LEMMA MoveWaits ==
    ASSUME Inv, Fits, Dialogue, Waiting,
           \/ SkipTimed \/ EndTimed \/ no_event \/ read_data \/ read_again \/ chunk_done
    PROVE  Waiting'
<1>1. conn \in Conn BY Now
<1>2. pc # "stanza" /\ pc' # "stanza" /\ conn' \in {conn, BeginTimed(conn)}
  BY DEF SkipTimed, EndTimed, no_event, read_data, read_again, chunk_done, ToTimed2
<1>3. Mild(conn, conn) BY DEF Mild
<1>4. Mild(conn, conn') BY <1>1, <1>2, <1>3, BeginTimedMild
<1> QED BY <1>1, <1>2, <1>4, MildWaits

LEMMA EndWaits ==
    ASSUME Inv, Fits, Dialogue,
           \/ connect_timeout \/ connect_failed \/ read_failed \/ garbage \/ stream_end
    PROVE  Waiting'
<1>1. conn \in Conn BY Now
<1> DEFINE e == [conn EXCEPT !.error = TRUE]
           b == [conn EXCEPT !.parser = "broken"]
           p == InPhase(conn.peer, "ended")
           o == [[conn EXCEPT !.peer = p] EXCEPT !.parser = "ended"]
<1>2. e \in Conn /\ b \in Conn BY <1>1 DEF Conn
<1>3. CASE connect_timeout BY <1>2, <1>3, DisconnectGone, GoneWaits DEF connect_timeout
<1>4. CASE connect_failed
  BY <1>1, <1>4, DisconnectGone, GoneWaits DEF connect_failed, ToTimed2
<1>5. CASE read_failed BY <1>2, <1>5, DisconnectGone, GoneWaits DEF read_failed, ToTimed2
<1>6. CASE garbage
  BY <1>2, <1>6, DisconnectGone, GoneWaits DEF garbage, parse_error, ToTimed2
<1>7. CASE stream_end
  <2>1. conn.peer \in Peer BY <1>1 DEF Conn
  <2>2. p \in Peer BY <2>1, PeerType DEF InPhase
  <2> HIDE DEF p
  <2>3. o \in Conn BY <1>1, <2>2 DEF Conn
  <2>4. PICK env \in Choices : conn' = ConnDisconnect(DeleteTimed(o, "_disconnect_cleanup"), env)
    BY <1>7 DEF stream_end, _handle_stream_end, ConnDisconnectClean, p
  <2> HIDE DEF o
  <2>5. DeleteTimed(o, "_disconnect_cleanup") \in Conn BY <2>3, DeleteTimedType
  <2> QED BY <2>4, <2>5, DisconnectGone, GoneWaits
<1> QED BY <1>3, <1>4, <1>5, <1>6, <1>7

-----------------------------------------------------------------------------
(* Connecting and writing. *)

LEMMA ConnectCompleteWaits ==
    ASSUME Inv, Fits, Dialogue, connect_complete
    PROVE  Waiting'
<1> DEFINE c == [conn EXCEPT !.state = "CONNECTED"]
           d == OpenStream(c)
<1>1. conn \in Conn /\ Sane(conn) /\ conn.state = "CONNECTING" /\ pc' # "stanza"
  BY Now DEF connect_complete, ToTimed2
<1>2. conn' = BeginTimed(d) BY DEF connect_complete, ToTimed2
<1>3. /\ d \in Conn /\ d.attempts = conn.attempts /\ d.facts = conn.facts
      /\ d.send_queue = Append(conn.send_queue, "header") /\ d.peer = conn.peer
      /\ d.handlers = conn.handlers /\ d.timed_handlers = conn.timed_handlers
  <2>1. conn.send_queue \in Seq(Items) /\ "header" \in Items BY <1>1 DEF Conn, Items
  <2>2. Append(conn.send_queue, "header") \in Seq(Items) BY <2>1
  <2>3. d = [c EXCEPT !.send_queue = Append(conn.send_queue, "header")]
    BY <1>1 DEF OpenStream, Send, Conn
  <2> QED BY <1>1, <2>2, <2>3 DEF Conn, States
<1> HIDE DEF c, d
<1>4. Mild(d, conn') BY <1>2, <1>3, BeginTimedMild
<1> SUFFICES ASSUME Going(conn') PROVE Held(conn') /\ Busy(conn')
  BY <1>1 DEF Waiting
<1>5. Going(d) BY <1>3, <1>4, MildHeld
<1>6. Fresh(conn) BY <1>1, <1>3, <1>5 DEF Sane, Going
<1>7. d.send_queue = <<"header">> /\ d.peer.owed = {}
  BY <1>3, <1>6 DEF Fresh, NewPeer
<1>8. Asked(d) = {"header"}
  <2>1. DOMAIN <<"header">> = {1} /\ <<"header">>[1] = "header" OBVIOUS
  <2> QED BY <1>7, <2>1 DEF Asked
<1>9. "header" \notin Asks(d) BY AsksAre
<1>10. Held(d)
  <2>1. Answered(d) BY <1>8, <1>9 DEF Answered
  <2>2. Once(d) BY <1>7, <1>9 DEF Once
  <2>3. Tried(d) BY <1>3, <1>6 DEF Tried, Fresh, DialogueFns, Exchanges
  <2>4. Expects(d) BY <1>7 DEF Expects
  <2>5. Fallback(d) BY <1>3, <1>6 DEF Fallback, Fresh, Late
  <2> QED BY <2>1, <2>2, <2>3, <2>4, <2>5 DEF Held
<1>11. Busy(d) BY <1>8 DEF Busy
<1> QED BY <1>3, <1>4, <1>10, <1>11, MildHeld

LEMMA SubSeqAt ==
    ASSUME NEW queue \in Seq(Items), NEW n \in 0 .. Len(queue)
    PROVE  LET new == SubSeq(queue, n + 1, Len(queue))
           IN /\ \A i \in DOMAIN new : i + n \in DOMAIN queue /\ new[i] = queue[i + n]
              /\ \A i \in DOMAIN new : i + n \notin 1 .. n
              /\ \A i \in DOMAIN queue : i \notin 1 .. n =>
                    \E j \in DOMAIN new : new[j] = queue[i]
              /\ \A i, j \in DOMAIN new : i + n = j + n => i = j
              /\ 1 .. n \subseteq DOMAIN queue
<1> DEFINE l == Len(queue)
           new == SubSeq(queue, n + 1, l)
<1>1. l \in Nat /\ DOMAIN queue = 1 .. l /\ n \in Nat /\ n <= l OBVIOUS
<1>2. Len(new) = l - n /\ DOMAIN new = 1 .. l - n
      /\ \A i \in 1 .. l - n : new[i] = queue[i + n]
  <2>1. n + 1 \in Int /\ l \in Int /\ \A i \in n + 1 .. l : queue[i] \in Items BY <1>1
  <2> HIDE DEF l
  <2>2. /\ new \in Seq(Items)
        /\ Len(new) = IF n + 1 <= l THEN l - (n + 1) + 1 ELSE 0
        /\ \A i \in 1 .. l - (n + 1) + 1 : new[i] = queue[(n + 1) + i - 1]
    BY <2>1, SubSeqProperties
  <2> HIDE DEF new
  <2>3. Len(new) = l - n BY <1>1, <2>2
  <2>4. \A i \in 1 .. l - n : (n + 1) + i - 1 = i + n /\ i \in 1 .. l - (n + 1) + 1 BY <1>1
  <2>5. \A i \in 1 .. l - n : new[i] = queue[i + n] BY <2>2, <2>4
  <2> QED BY <2>2, <2>3, <2>5
<1> HIDE DEF new, l
<1>3. ASSUME NEW i \in DOMAIN queue, i \notin 1 .. n
      PROVE  \E j \in DOMAIN new : new[j] = queue[i]
  <2>1. i - n \in 1 .. l - n /\ (i - n) + n = i BY <1>1, <1>3
  <2> QED BY <1>2, <2>1
<1>4. \A i \in DOMAIN new : i + n \in DOMAIN queue /\ i + n \notin 1 .. n BY <1>1, <1>2
<1>5. \A i, j \in DOMAIN new : i + n = j + n => i = j BY <1>1, <1>2
<1>6. 1 .. n \subseteq DOMAIN queue BY <1>1
<1> QED BY <1>2, <1>3, <1>4, <1>5, <1>6 DEF new, l

\* Writing moves requests from the queue to what the server has to answer.
LEMMA WriteHeld ==
    ASSUME Conforming, NEW c \in Conn, NEW n \in 0 .. Len(c.send_queue), NEW fails,
           HeaderQueued(c) => c.peer.phase # "open"
    PROVE  LET d == WriteQueue(c, n, fails)
           IN /\ d.attempts = c.attempts /\ d.state = c.state /\ d.facts = c.facts
              /\ d.secured = c.secured /\ d.ups = c.ups
              /\ Held(c) => Held(d)
              /\ Busy(c) => Busy(d)
<1> DEFINE queue == c.send_queue
           new   == SubSeq(queue, n + 1, Len(queue))
           gone  == {queue[i] : i \in 1 .. n}
           peer  == Receive(c.peer, gone)
           d     == WriteQueue(c, n, fails)
           A     == Asks(c)
           O     == c.peer.owed
           P     == peer.owed
<1>1. /\ d.state = c.state /\ d.attempts = c.attempts /\ d.peer = peer /\ d.ups = c.ups
      /\ d.handlers = c.handlers /\ d.id_handlers = c.id_handlers
      /\ d.send_queue = new /\ d.facts = c.facts /\ d.jid = c.jid
      /\ d.sasl_support = c.sasl_support /\ d.timed_handlers = c.timed_handlers
      /\ SameStream(c, d)
  BY DEF WriteQueue, Conn, SameStream
<1> HIDE DEF d
<1>2. queue \in Seq(Items) /\ c.peer \in Peer BY DEF Conn
<1>3. /\ \A i \in DOMAIN new : i + n \in DOMAIN queue /\ new[i] = queue[i + n]
      /\ \A i \in DOMAIN new : i + n \notin 1 .. n
      /\ \A i \in DOMAIN queue : i \notin 1 .. n =>
            \E j \in DOMAIN new : new[j] = queue[i]
      /\ \A i, j \in DOMAIN new : i + n = j + n => i = j
      /\ 1 .. n \subseteq DOMAIN queue
  BY <1>2, SubSeqAt
<1> HIDE DEF new
<1>4. /\ peer.phase = c.peer.phase
      /\ P = O \cup (gone \ {"user", "close"})
                \cup (IF "header" \in gone THEN {"features"} ELSE {})
  <2> HIDE DEF gone
  <2> QED BY <1>2 DEF Receive, Peer
<1> HIDE DEF peer, queue, O, P
<1>5. Asks(d) = A /\ (Late(d) <=> Late(c))
  BY <1>1, SameAsks DEF Late
<1>6. A \cap {"user", "close", "header", "features"} = {} BY AsksAre
<1> HIDE DEF A
<1>7. Asked(d) \subseteq Asked(c) \cup {"features"}
  BY <1>1, <1>3, <1>4 DEF Asked, queue, O, P
<1>8. Asked(c) \ {"user", "close"} \subseteq Asked(d)
  <2> SUFFICES ASSUME NEW x \in Asked(c), x \notin {"user", "close"} PROVE x \in Asked(d)
    OBVIOUS
  <2>1. CASE x \in O BY <1>1, <1>4, <2>1 DEF Asked, P
  <2>2. ASSUME NEW i \in DOMAIN queue, x = queue[i] PROVE x \in Asked(d)
    <3>1. CASE i \in 1 .. n
      <4>1. x \in P BY <1>4, <2>2, <3>1
      <4> QED BY <1>1, <4>1 DEF Asked, P
    <3>2. CASE i \notin 1 .. n BY <1>1, <1>3, <2>2, <3>2 DEF Asked
    <3> QED BY <3>1, <3>2
  <2> QED BY <2>1, <2>2 DEF Asked, queue, O
<1>9. Answered(c) => Answered(d)
  <2> SUFFICES ASSUME Answered(c), NEW x \in Asked(d) \cap Asks(d) PROVE Taken(d, x)
    BY DEF Answered
  <2>1. Taken(c, x) BY <1>5, <1>6, <1>7 DEF Answered, A
  <2> QED BY <1>1, <2>1 DEF Taken
<1>10. ASSUME Once(c) PROVE Once(d)
  <2>1. /\ \A i, j \in DOMAIN queue : queue[i] \in A /\ queue[j] \in A => i = j
        /\ \A x, y \in O \cap A : x = y
        /\ \A i \in DOMAIN queue : queue[i] \in A => O \cap A = {}
    BY <1>10 DEF Once, queue, A, O
  <2>2. \A i, j \in DOMAIN new : new[i] \in A /\ new[j] \in A => i = j BY <1>3, <2>1
  <2>3. P \cap A \subseteq (O \cap A) \cup (gone \cap A) BY <1>4, <1>6
  <2>4. \A x, y \in P \cap A : x = y
    <3>1. \A x, y \in gone \cap A : x = y BY <1>3, <2>1
    <3>2. \A x \in gone \cap A : O \cap A = {} BY <1>3, <2>1
    <3> HIDE DEF gone
    <3> QED BY <2>1, <2>3, <3>1, <3>2
  <2>5. ASSUME NEW i \in DOMAIN new, new[i] \in A PROVE P \cap A = {}
    <3>1. PICK k \in DOMAIN queue : k = i + n /\ queue[k] \in A /\ k \notin 1 .. n
      BY <1>3, <2>5
    <3>2. O \cap A = {} BY <2>1, <3>1
    <3>3. gone \cap A = {} BY <1>3, <2>1, <3>1
    <3> QED BY <2>3, <3>2, <3>3
  <2> QED BY <1>1, <1>5, <2>2, <2>4, <2>5 DEF Once, P
<1>11. Tried(c) => Tried(d) BY <1>1 DEF Tried
<1>12. Expects(c) => Expects(d)
  <2> SUFFICES ASSUME Expects(c), "features" \in P, c.peer.phase = "open"
               PROVE  \E f \in FeatureFns : Listed(d.handlers, f)
    BY <1>1, <1>4 DEF Expects, P
  <2>1. "header" \notin gone BY <1>3 DEF HeaderQueued, queue
  <2>2. "features" \notin gone
    <3>1. "features" \notin Items BY DEF Items, Mechanisms
    <3> QED BY <1>2, <1>3, <3>1
  <2> HIDE DEF gone
  <2>3. "features" \in O BY <1>4, <2>1, <2>2
  <2> QED BY <1>1, <2>3 DEF Expects, O
<1>13. Fallback(c) => Fallback(d) BY <1>1, <1>5 DEF Fallback, Armed
<1>14. Held(c) => Held(d) BY <1>9, <1>10, <1>11, <1>12, <1>13 DEF Held
<1>15. Busy(c) => Busy(d) BY <1>1, <1>8 DEF Busy, Armed
<1> QED BY <1>1, <1>14, <1>15 DEF d, SameStream

LEMMA ParserResetMild ==
    ASSUME NEW c \in Conn
    PROVE  Mild(c, ParserReset(c)) /\ ParserReset(c) \in Conn
<1> DEFINE e == [c EXCEPT !.reset_parser = FALSE, !.parser = "start"]
<1>1. Mild(c, e) /\ e \in Conn BY DEF Mild, Conn, Armed
<1>2. Mild(c, c) BY DEF Mild
<1> QED BY <1>1, <1>2 DEF ParserReset

LEMMA WriteWaits ==
    ASSUME Conforming, Inv, Fits, Dialogue, Waiting, run_once_write
    PROVE  Waiting'
<1>1. conn \in Conn /\ Good(conn) /\ Sane(conn) /\ pc' # "stanza"
  BY Now DEF run_once_write, Able
<1>2. CASE conn.state # "CONNECTED"
  <2>1. conn' = ParserReset(conn) BY <1>2 DEF run_once_write
  <2>2. ~Going(conn') BY <1>1, <1>2, <2>1, ParserResetMild DEF Mild, Going
  <2> QED BY <2>2, GoneWaits
<1>3. CASE conn.state = "CONNECTED"
  <2>1. PICK env \in Choices, n \in 0 .. Len(conn.send_queue),
             fails \in BOOLEAN, pending \in BOOLEAN :
          /\ pending => n = 0
          /\ conn' = BeginTimed(ParserReset(write_queued(pending, n, fails, env)))
    BY <1>3 DEF run_once_write
  <2> DEFINE bad == [conn EXCEPT !.error = TRUE]
             a == ClearPending(conn, pending, env)
             w == WriteQueue(a, n, fails)
             r == write_queued(pending, n, fails, env)
  <2>2. r \in {w, ConnDisconnect(w, env)} BY DEF write_queued, TearDownOnError
  <2>3. bad \in Conn BY <1>1, ErrorGood
  <2>4. /\ a \in Conn /\ Good(a) /\ n \in 0 .. Len(a.send_queue)
        /\ a = conn \/ a.state # "CONNECTED"
    <3>1. CASE ~pending
      <4>1. a = conn BY <3>1 DEF ClearPending
      <4> HIDE DEF a
      <4> QED BY <1>1, <2>1, <4>1
    <3>2. CASE pending
      <4>1. a = ConnDisconnect(bad, env) BY <3>2 DEF ClearPending
      <4> HIDE DEF bad, a
      <4>2. Good(a) /\ a.state # "CONNECTED" BY <2>3, <4>1, ConnDisconnectGood
      <4>3. n = 0 /\ a.send_queue \in Seq(Items) BY <2>1, <3>2, <4>2 DEF Good, Conn
      <4>4. n \in 0 .. Len(a.send_queue) BY <4>3
      <4> QED BY <4>2, <4>4 DEF Good
    <3> QED BY <3>1, <3>2
  <2> HIDE DEF a, bad
  <2>5. w \in Conn BY <2>1, <2>4, WriteQueueGood DEF Good
  <2>6. w.state = a.state BY <2>4, <2>5 DEF WriteQueue, Conn
  <2>7. r \in Conn BY <2>2, <2>5, ConnDisconnectGood DEF Good
  <2> HIDE DEF w, r
  <2>8. /\ Mild(r, ParserReset(r)) /\ ParserReset(r) \in Conn
        /\ Mild(ParserReset(r), conn')
    BY <2>1, <2>7, ParserResetMild, BeginTimedMild DEF r
  <2> SUFFICES ASSUME Going(conn')
               PROVE  Held(conn') /\ (Accepts => conn'.ups > 0 \/ Late(conn') \/ Busy(conn'))
    BY <1>1 DEF Waiting
  <2>9. Going(r) BY <2>7, <2>8, MildHeld
  <2>10. r = w /\ a = conn
    <3>1. r = w BY <2>2, <2>5, <2>9, ConnDisconnectGood DEF Going
    <3>2. a.state = "CONNECTED" BY <2>6, <2>9, <3>1 DEF Going
    <3> QED BY <2>4, <3>1, <3>2
  <2>11. r = WriteQueue(conn, n, fails) BY <2>10 DEF w
  <2>12. conn.attempts <= 1 /\ Straight(conn) /\ Going(conn)
    <3>1. /\ r.attempts = conn.attempts /\ r.facts = conn.facts /\ r.secured = conn.secured
          /\ r.state = conn.state
      BY <1>1, <2>11 DEF WriteQueue, Conn
    <3> QED BY <2>9, <3>1 DEF Going, Straight, Late
  <2>13. HeaderQueued(conn) => conn.peer.phase # "open"
    <3>1. OneAtATime(conn) BY <1>1, <2>12 DEF Sane
    <3> QED BY <1>1, <3>1, HeaderOutIs DEF OneAtATime
  <2>14. /\ r.facts = conn.facts /\ r.ups = conn.ups /\ (Held(conn) => Held(r))
         /\ Busy(conn) => Busy(r)
    BY <1>1, <2>1, <2>11, <2>13, WriteHeld
  <2>15. Late(r) <=> Late(conn) BY <2>14 DEF Late
  <2>16. /\ Held(r) => Held(conn')
         /\ Busy(r) => Busy(conn')
         /\ Late(r) <=> Late(conn')
         /\ conn'.ups = r.ups
    <3>1. conn'.ups = r.ups BY <2>8 DEF Mild
    <3> QED BY <2>7, <2>8, <3>1, MildHeld
  <2>17. pc = "idle" BY DEF run_once_write
  <2> QED BY <2>12, <2>14, <2>15, <2>16, <2>17 DEF Waiting
<1> QED BY <1>2, <1>3

-----------------------------------------------------------------------------
(* What a callback does: it registers handlers, and one item goes into the queue. *)

\* The list is as before, and what was added behind is not enabled.
Grows(list, new) ==
    /\ DOMAIN list \subseteq DOMAIN new
    /\ \A i \in DOMAIN list : new[i] = list[i]
    /\ \A i \in DOMAIN new : i \in DOMAIN list \/ ~new[i].enabled

Does(c, d, N, queue) ==
    /\ d \in Conn
    /\ d.state = c.state /\ d.attempts = c.attempts /\ d.peer = c.peer /\ d.ups = c.ups
    /\ d.jid = c.jid /\ d.facts = c.facts
    /\ c.secured => d.secured
    /\ c.id_handlers \subseteq d.id_handlers
    /\ Grows(c.handlers, d.handlers)
    /\ \A f : Listed(d.handlers, f) => Listed(c.handlers, f) \/ f \in N
    /\ Armed(c, "_handle_missing_legacy") => Armed(d, "_handle_missing_legacy")
    /\ d.send_queue = queue

LEMMA GrowsTrans ==
    ASSUME NEW list, NEW new, NEW newer, Grows(list, new), Grows(new, newer)
    PROVE  Grows(list, newer)
BY DEF Grows

LEMMA DoesTrans ==
    ASSUME NEW c, NEW d, NEW e, NEW N, NEW M, NEW queue,
           Does(c, d, N, c.send_queue), Does(d, e, M, queue)
    PROVE  Does(c, e, N \cup M, queue)
<1>1. Grows(c.handlers, e.handlers) BY GrowsTrans DEF Does
<1> QED BY <1>1 DEF Does

LEMMA DoesMore ==
    ASSUME NEW c, NEW d, NEW N, NEW M, NEW queue, Does(c, d, N, queue), N \subseteq M
    PROVE  Does(c, d, M, queue)
BY DEF Does

\* Only fields change that are nothing to the requests, or the timers.
LEMMA FieldsDo ==
    ASSUME NEW c \in Conn, NEW d \in Conn,
           d.state = c.state, d.attempts = c.attempts, d.peer = c.peer, d.ups = c.ups,
           d.jid = c.jid, d.facts = c.facts, c.secured => d.secured,
           d.id_handlers = c.id_handlers, d.handlers = c.handlers,
           Armed(c, "_handle_missing_legacy") => Armed(d, "_handle_missing_legacy"),
           d.send_queue = c.send_queue
    PROVE  Does(c, d, {}, c.send_queue)
BY DEF Does, Grows

LEMMA AddHandlerDoes ==
    ASSUME NEW c \in Conn, NEW f \in HandlerFns
    PROVE  LET d == AddHandler(c, f)
           IN /\ Does(c, d, {f}, c.send_queue) /\ Listed(d.handlers, f)
              /\ d.sasl_support = c.sasl_support
<1> DEFINE item == [fn |-> f, enabled |-> FALSE]
           new  == Append(c.handlers, item)
           d    == [c EXCEPT !.handlers = new]
<1>1. CASE Listed(c.handlers, f) BY <1>1 DEF AddHandler, Does, Grows
<1>2. CASE ~Listed(c.handlers, f)
  <2>1. item \in HandlerItem /\ item.fn = f /\ ~item.enabled BY DEF HandlerItem
  <2>2. AddHandler(c, f) = d BY <1>2 DEF AddHandler
  <2> HIDE DEF item
  <2>3. c.handlers \in Seq(HandlerItem) BY DEF Conn
  <2>4. new \in Seq(HandlerItem) /\ \A g : Listed(new, g) <=> Listed(c.handlers, g) \/ g = f
    BY <1>2, <2>1, <2>3, AppendIs
  <2>5. Grows(c.handlers, new)
    <3> DEFINE l == c.handlers
    <3>1. /\ DOMAIN l = 1 .. Len(l) /\ Len(l) \in Nat /\ DOMAIN new = 1 .. Len(l) + 1
          /\ new[Len(l) + 1] = item /\ \A i \in 1 .. Len(l) : new[i] = l[i]
      BY <2>1, <2>3, AppendProperties
    <3> HIDE DEF l, new
    <3> QED BY <2>1, <3>1 DEF Grows, l
  <2> HIDE DEF new
  <2>6. /\ d \in Conn /\ d.state = c.state /\ d.attempts = c.attempts /\ d.peer = c.peer
        /\ d.ups = c.ups /\ d.jid = c.jid /\ d.facts = c.facts /\ d.secured = c.secured
        /\ d.id_handlers = c.id_handlers /\ d.handlers = new
        /\ d.timed_handlers = c.timed_handlers /\ d.send_queue = c.send_queue
        /\ d.sasl_support = c.sasl_support
    BY <2>4 DEF Conn
  <2> HIDE DEF d
  <2> QED BY <2>2, <2>4, <2>5, <2>6 DEF Does, Armed
<1> QED BY <1>1, <1>2

LEMMA AddIdDoes ==
    ASSUME NEW c \in Conn, NEW f \in IdFns
    PROVE  LET d == AddId(c, f)
           IN /\ Does(c, d, {}, c.send_queue) /\ f \in d.id_handlers
              /\ d.sasl_support = c.sasl_support
<1> DEFINE d == [c EXCEPT !.id_handlers = @ \cup {f}]
<1>1. /\ d \in Conn /\ d.state = c.state /\ d.attempts = c.attempts /\ d.peer = c.peer
      /\ d.ups = c.ups /\ d.jid = c.jid /\ d.facts = c.facts /\ d.secured = c.secured
      /\ d.id_handlers = c.id_handlers \cup {f} /\ d.handlers = c.handlers
      /\ d.timed_handlers = c.timed_handlers /\ d.send_queue = c.send_queue
      /\ d.sasl_support = c.sasl_support
  BY DEF Conn
<1> HIDE DEF d
<1> QED BY <1>1 DEF Does, Grows, Armed, AddId, d

LEMMA RetimedDoes ==
    ASSUME NEW c \in Conn, NEW list \in Seq(TimedItem),
           Armed(c, "_handle_missing_legacy") => Listed(list, "_handle_missing_legacy")
    PROVE  LET d == [c EXCEPT !.timed_handlers = list]
           IN /\ Does(c, d, {}, c.send_queue) /\ d.sasl_support = c.sasl_support
              /\ d.timed_handlers = list /\ d.handlers = c.handlers
              /\ d.id_handlers = c.id_handlers
<1> DEFINE d == [c EXCEPT !.timed_handlers = list]
<1>1. /\ d \in Conn /\ d.state = c.state /\ d.attempts = c.attempts /\ d.peer = c.peer
      /\ d.ups = c.ups /\ d.jid = c.jid /\ d.facts = c.facts /\ d.secured = c.secured
      /\ d.id_handlers = c.id_handlers /\ d.handlers = c.handlers
      /\ d.timed_handlers = list /\ d.send_queue = c.send_queue
      /\ d.sasl_support = c.sasl_support
  BY DEF Conn
<1> HIDE DEF d
<1> QED BY <1>1, FieldsDo DEF Armed, d

LEMMA AddTimedDoes ==
    ASSUME NEW c \in Conn, NEW f \in TimedFns
    PROVE  LET d == AddTimed(c, f)
           IN /\ Does(c, d, {}, c.send_queue) /\ Armed(d, f)
              /\ d.sasl_support = c.sasl_support
              /\ d.handlers = c.handlers /\ d.id_handlers = c.id_handlers
<1> DEFINE item == [fn |-> f, enabled |-> FALSE, age |-> 0]
           list == Append(c.timed_handlers, item)
<1>1. CASE Listed(c.timed_handlers, f) BY <1>1 DEF AddTimed, Does, Grows, Armed
<1>2. CASE ~Listed(c.timed_handlers, f)
  <2>1. item \in TimedItem /\ item.fn = f BY DEF TimedItem
  <2>2. AddTimed(c, f) = [c EXCEPT !.timed_handlers = list] BY <1>2 DEF AddTimed
  <2> HIDE DEF item
  <2>3. c.timed_handlers \in Seq(TimedItem) BY DEF Conn
  <2>4. list \in Seq(TimedItem)
        /\ \A g : Listed(list, g) <=> Listed(c.timed_handlers, g) \/ g = f
    BY <1>2, <2>1, <2>3, AppendIs
  <2> HIDE DEF list
  <2> QED BY <2>2, <2>4, RetimedDoes DEF Armed
<1> QED BY <1>1, <1>2

LEMMA DeleteTimedDoes ==
    ASSUME NEW c \in Conn, NEW f, f # "_handle_missing_legacy"
    PROVE  LET d == DeleteTimed(c, f)
           IN /\ Does(c, d, {}, c.send_queue) /\ d.sasl_support = c.sasl_support
              /\ d.handlers = c.handlers /\ d.id_handlers = c.id_handlers
<1> DEFINE list == Without(c.timed_handlers, f)
<1>1. c.timed_handlers \in Seq(TimedItem) BY DEF Conn
<1>2. /\ list \in Seq(TimedItem)
      /\ \A g : g # f /\ Listed(c.timed_handlers, g) => Listed(list, g)
  BY <1>1, WithoutOnly
<1>3. DeleteTimed(c, f) = [c EXCEPT !.timed_handlers = list] BY DEF DeleteTimed
<1> HIDE DEF list
<1> QED BY <1>2, <1>3, RetimedDoes DEF Armed

LEMMA SendDoes ==
    ASSUME NEW c \in Conn, c.state = "CONNECTED", NEW q \in Items
    PROVE  LET d == Send(c, q)
           IN /\ Does(c, d, {}, Append(c.send_queue, q))
              /\ d.sasl_support = c.sasl_support /\ d.handlers = c.handlers
              /\ d.id_handlers = c.id_handlers /\ d.timed_handlers = c.timed_handlers
<1> DEFINE queue == Append(c.send_queue, q)
           d == [c EXCEPT !.send_queue = queue]
<1>1. c.send_queue \in Seq(Items) BY DEF Conn
<1>2. queue \in Seq(Items) BY <1>1
<1>3. Send(c, q) = d BY DEF Send
<1> HIDE DEF queue
<1>4. /\ d \in Conn /\ d.state = c.state /\ d.attempts = c.attempts /\ d.peer = c.peer
      /\ d.ups = c.ups /\ d.jid = c.jid /\ d.facts = c.facts /\ d.secured = c.secured
      /\ d.id_handlers = c.id_handlers /\ d.handlers = c.handlers
      /\ d.timed_handlers = c.timed_handlers /\ d.send_queue = queue
      /\ d.sasl_support = c.sasl_support
  BY <1>2 DEF Conn
<1> HIDE DEF d
<1> QED BY <1>3, <1>4 DEF Does, Grows, Armed, queue

LEMMA ResetTimedDoes ==
    ASSUME NEW c \in Conn
    PROVE  Does(c, ResetTimed(c), {}, c.send_queue)
<1> DEFINE list == c.timed_handlers
           new  == [i \in DOMAIN list |-> [list[i] EXCEPT !.age = 0]]
<1>1. list \in Seq(TimedItem) BY DEF Conn
<1>2. ASSUME NEW i \in DOMAIN list
      PROVE  new[i] \in TimedItem /\ new[i].fn = list[i].fn
  <2>1. list[i] \in TimedItem BY <1>1
  <2>2. new[i] = [list[i] EXCEPT !.age = 0] OBVIOUS
  <2> QED BY <2>1, <2>2 DEF TimedItem
<1>3. DOMAIN new = 1 .. Len(list) /\ DOMAIN list = 1 .. Len(list) /\ Len(list) \in Nat
  BY <1>1
<1>4. new = [i \in DOMAIN list |-> new[i]] OBVIOUS
<1>5. ResetTimed(c) = [c EXCEPT !.timed_handlers = new] BY DEF ResetTimed
<1> HIDE DEF new
<1>6. new \in Seq(TimedItem)
  <2> HIDE DEF list
  <2>1. new \in [1 .. Len(list) -> TimedItem] BY <1>2, <1>3, <1>4
  <2> QED BY <1>3, <2>1
<1>7. \A f : Listed(new, f) <=> Listed(list, f)
  <2>1. \A i \in DOMAIN list : new[i].fn = list[i].fn BY <1>2
  <2>2. DOMAIN new = DOMAIN list BY <1>3
  <2> HIDE DEF list
  <2> QED BY <1>1, <2>1, <2>2, JustFunctions DEF list
<1> QED BY <1>5, <1>6, <1>7, RetimedDoes DEF Armed

\* A stream that opens is watched: its features have a handler and a timer.
LEMMA CallOpenHandlerDoes ==
    ASSUME NEW c \in Conn
    PROVE  LET d == CallOpenHandler(c)
           IN \E f \in FeatureFns :
                 /\ Does(c, d, {f, "_handle_error"}, c.send_queue) /\ Listed(d.handlers, f)
                 /\ \E t \in TimedFns \ UserFns : Armed(d, t)
<1>0. /\ {"_handle_error", "_handle_features", "_handle_features_sasl"} \subseteq HandlerFns
      /\ {"_handle_missing_features", "_handle_missing_features_sasl"}
            \subseteq TimedFns \ UserFns
      /\ {"_handle_features", "_handle_features_sasl"} \subseteq FeatureFns
  BY DEF HandlerFns, TimedFns, UserFns, FeatureFns
<1>1. CASE c.open_handler = "auth_handle_open"
  <2> DEFINE r == ResetTimed(c)
             e == AddHandler(r, "_handle_error")
             f == AddHandler(e, "_handle_features")
             a == AddTimed(f, "_handle_missing_features")
             N == {"_handle_features", "_handle_error"}
  <2>1. Does(c, r, {}, c.send_queue) BY ResetTimedDoes
  <2> HIDE DEF r
  <2>2. r \in Conn /\ r.send_queue = c.send_queue BY <2>1 DEF Does
  <2>3. Does(r, e, {"_handle_error"}, r.send_queue) BY <1>0, <2>2, AddHandlerDoes
  <2> HIDE DEF e
  <2>4. e \in Conn /\ e.send_queue = c.send_queue BY <2>2, <2>3 DEF Does
  <2>5. Does(e, f, {"_handle_features"}, e.send_queue) /\ Listed(f.handlers, "_handle_features")
    BY <1>0, <2>4, AddHandlerDoes
  <2> HIDE DEF f
  <2>6. f \in Conn /\ f.send_queue = c.send_queue BY <2>4, <2>5 DEF Does
  <2>7. Does(f, a, {}, f.send_queue) /\ Armed(a, "_handle_missing_features")
        /\ a.handlers = f.handlers
    BY <1>0, <2>6, AddTimedDoes
  <2> HIDE DEF a
  <2>8. Does(c, e, {} \cup {"_handle_error"}, e.send_queue) BY <2>1, <2>2, <2>3, <2>4, DoesTrans
  <2>9. Does(c, f, ({} \cup {"_handle_error"}) \cup {"_handle_features"}, f.send_queue)
    BY <2>4, <2>5, <2>6, <2>8, DoesTrans
  <2>10. Does(c, a, (({} \cup {"_handle_error"}) \cup {"_handle_features"}) \cup {}, c.send_queue)
    BY <2>6, <2>7, <2>9, DoesTrans
  <2>11. (({} \cup {"_handle_error"}) \cup {"_handle_features"}) \cup {} = N OBVIOUS
  <2>12. CallOpenHandler(c) = a BY <1>1 DEF CallOpenHandler, auth_handle_open, a, f, e, r
  <2>13. Listed(a.handlers, "_handle_features") BY <2>5, <2>7
  <2> QED BY <1>0, <2>7, <2>10, <2>11, <2>12, <2>13
<1>2. CASE c.open_handler # "auth_handle_open"
  <2> DEFINE f == AddHandler(c, "_handle_features_sasl")
             a == AddTimed(f, "_handle_missing_features_sasl")
  <2>1. Does(c, f, {"_handle_features_sasl"}, c.send_queue)
        /\ Listed(f.handlers, "_handle_features_sasl")
    BY <1>0, AddHandlerDoes
  <2> HIDE DEF f
  <2>2. f \in Conn /\ f.send_queue = c.send_queue BY <2>1 DEF Does
  <2>3. Does(f, a, {}, f.send_queue) /\ Armed(a, "_handle_missing_features_sasl")
        /\ a.handlers = f.handlers
    BY <1>0, <2>2, AddTimedDoes
  <2> HIDE DEF a
  <2>4. Does(c, a, {"_handle_features_sasl"} \cup {}, c.send_queue)
    BY <2>1, <2>2, <2>3, DoesTrans
  <2>5. Does(c, a, {"_handle_features_sasl", "_handle_error"}, c.send_queue)
    <3>1. {"_handle_features_sasl"} \cup {} \subseteq {"_handle_features_sasl", "_handle_error"}
      OBVIOUS
    <3> QED BY <2>4, <3>1, DoesMore
  <2>6. CallOpenHandler(c) = a BY <1>2 DEF CallOpenHandler, _handle_open_sasl, a, f
  <2>7. Listed(a.handlers, "_handle_features_sasl") BY <2>1, <2>3
  <2> QED BY <1>0, <2>3, <2>5, <2>6, <2>7
<1> QED BY <1>1, <1>2

\* A callback that sends nothing leaves the requests as they are.
LEMMA DoesHeld ==
    ASSUME NEW c, NEW d, NEW N, Does(c, d, N, c.send_queue)
    PROVE  /\ Asks(d) = Asks(c) /\ (Late(d) <=> Late(c))
           /\ Answered(c) => Answered(d)
           /\ Once(c) => Once(d)
           /\ Tried(c) /\ N \cap SaslFns = {} /\ d.sasl_support = c.sasl_support => Tried(d)
           /\ Expects(c) => Expects(d)
           /\ Fallback(c) => Fallback(d)
<1>1. Late(d) <=> Late(c) BY DEF Does, Late
<1>2. Asks(d) = Asks(c) BY <1>1, SameAsks
<1>3. Asked(d) = Asked(c) BY DEF Does, Asked
<1>4. \A f : Listed(c.handlers, f) => Listed(d.handlers, f) BY DEF Does, Grows, Listed
<1>5. Answered(c) => Answered(d)
  <2> SUFFICES ASSUME Answered(c), NEW x \in Asked(d) \cap Asks(d) PROVE Taken(d, x)
    BY DEF Answered
  <2>1. Taken(c, x) BY <1>2, <1>3 DEF Answered
  <2>2. c.id_handlers \subseteq d.id_handlers BY DEF Does
  <2> QED BY <1>4, <2>1, <2>2, TakenStays
<1>6. Once(c) => Once(d) BY <1>2 DEF Once, Does
<1>7. Tried(c) /\ N \cap SaslFns = {} /\ d.sasl_support = c.sasl_support => Tried(d)
  BY DEF Tried, Does
<1>8. Expects(c) => Expects(d) BY <1>4 DEF Expects, Does
<1>9. Fallback(c) => Fallback(d) BY <1>1 DEF Fallback, Does
<1> QED BY <1>1, <1>2, <1>5, <1>6, <1>7, <1>8, <1>9

-----------------------------------------------------------------------------
(* A header is read. *)

LEMMA StreamHeaderWaits ==
    ASSUME Conforming, Inv, Fits, Dialogue, Waiting, stream_header
    PROVE  Waiting'
<1> DEFINE o == InPhase(conn.peer, "open")
           p == [o EXCEPT !.owed = @ \ {"header"}]
           c == [conn EXCEPT !.peer = p]
<1>1. conn \in Conn /\ Able(conn) /\ pc = "chunk"
  BY Now DEF stream_header
<1>2. p \in Peer /\ p.owed = conn.peer.owed \ {"header"}
  <2>1. conn.peer \in Peer BY <1>1 DEF Conn
  <2>2. o \in Peer /\ o.owed = conn.peer.owed BY <2>1, PeerType DEF InPhase, Peer
  <2> HIDE DEF o
  <2> QED BY <2>2, PeerType DEF Peer
<1>3. IF conn.parser = "start"
      THEN /\ \E root \in IncomingRoots, env \in Choices :
                 conn' = _handle_stream_start(c, root, env)
           /\ pc' = pc
      ELSE parse_error(c)
  BY DEF stream_header
<1>4. c \in Conn
  <2> HIDE DEF p
  <2> QED BY <1>1, <1>2 DEF Conn
<1>5. CASE conn.parser # "start"
  <2>1. [c EXCEPT !.parser = "broken"] \in Conn
    <3> HIDE DEF c
    <3> QED BY <1>4 DEF Conn
  <2> HIDE DEF c
  <2>2. \E env \in Choices :
           conn' = BeginTimed(ConnDisconnect([c EXCEPT !.parser = "broken"], env))
    BY <1>3, <1>5 DEF parse_error, ToTimed2
  <2> QED BY <2>1, <2>2, DisconnectGone, GoneWaits
<1>6. CASE conn.parser = "start"
  <2>1. PICK root \in IncomingRoots, env \in Choices :
          conn' = _handle_stream_start(c, root, env)
    BY <1>3, <1>6
  <2> DEFINE opened == [c EXCEPT !.parser = "open"]
             id == CASE root = "stream"      -> "set"
                     [] root = "other"       -> opened.stream_id
                     [] root = "stream_noid" ->
                          IF opened.stream_id = "null" THEN opened.stream_id ELSE "freed"
             m == [opened EXCEPT !.stream_id = id]
             bad == root = "other" \/ m.stream_id = "null"
             n == IF bad THEN ConnDisconnect(m, env) ELSE m
             d == CallOpenHandler(n)
  <2>2. conn' = d BY <2>1 DEF _handle_stream_start
  <2>3. root \in Roots BY SessionAssumption
  <2>4. opened \in Conn /\ opened.peer = p
    <3> HIDE DEF p
    <3> QED BY <1>1, <1>4 DEF Conn
  <2>5. id \in {"null", "set", "freed"} BY <2>3, <2>4 DEF Conn, Roots
  <2> HIDE DEF id
  <2>6. /\ m \in Conn /\ m.peer = p /\ m.state = conn.state /\ m.jid = conn.jid
        /\ m.attempts = conn.attempts /\ m.ups = conn.ups /\ m.facts = conn.facts
        /\ m.handlers = conn.handlers /\ m.id_handlers = conn.id_handlers
        /\ m.send_queue = conn.send_queue /\ m.sasl_support = conn.sasl_support
        /\ m.secured = conn.secured /\ m.timed_handlers = conn.timed_handlers
    BY <1>1, <2>4, <2>5 DEF Conn
  <2>7. Good(m) /\ Able(m) BY <1>1, <2>6, Frame DEF Able
  <2> HIDE DEF m, bad, d
  <2>8. CASE bad
    <3>1. n = ConnDisconnect(m, env) BY <2>8
    <3>2. n \in Conn /\ n.state # "CONNECTED" BY <2>6, <3>1, ConnDisconnectGood DEF Good
    <3> HIDE DEF n
    <3>3. PICK N : Does(n, d, N, n.send_queue) BY <3>2, CallOpenHandlerDoes DEF d
    <3>4. ~Going(d) BY <3>2, <3>3 DEF Does, Going
    <3> QED BY <2>2, <3>4, GoneWaits
  <2>9. CASE ~bad
    <3>1. d = CallOpenHandler(m) BY <2>9 DEF d
    <3>2. PICK f \in FeatureFns :
             /\ Does(m, d, {f, "_handle_error"}, m.send_queue) /\ Listed(d.handlers, f)
             /\ \E t \in TimedFns \ UserFns : Armed(d, t)
      BY <2>6, <3>1, CallOpenHandlerDoes
    <3>3. d.sasl_support = m.sasl_support BY <2>7, <3>1, CallOpenHandlerTurn DEF Keeps
    <3> SUFFICES ASSUME Going(d) PROVE Held(d) /\ Busy(d)
      BY <1>1, <1>3, <1>6, <2>2 DEF Waiting
    <3>4. Late(m) <=> Late(conn) BY <2>6 DEF Late
    <3>5. Going(conn)
      <4>1. /\ d.attempts = conn.attempts /\ d.state = conn.state /\ d.facts = conn.facts
            /\ conn.secured => d.secured
        BY <2>6, <3>2 DEF Does
      <4> QED BY <4>1 DEF Going, Straight, Late
    <3>6. Held(conn) BY <3>5 DEF Waiting
    <3>7. Asks(m) = Asks(conn) BY <3>4, SameAsks
    <3>8. m.peer.owed = conn.peer.owed \ {"header"} BY <1>2, <2>6
    <3> HIDE DEF p
    <3>9. Answered(m)
      <4>1. Asked(m) \subseteq Asked(conn) BY <2>6, <3>8 DEF Asked
      <4> QED BY <2>6, <3>6, <3>7, <4>1 DEF Held, Answered, Taken
    <3>10. Once(m)
      <4>1. "header" \notin Asks(conn) BY AsksAre
      <4>2. m.peer.owed \cap Asks(conn) = conn.peer.owed \cap Asks(conn) BY <3>8, <4>1
      <4> QED BY <2>6, <3>6, <3>7, <4>2 DEF Held, Once
    <3>11. Tried(m) BY <2>6, <3>6 DEF Held, Tried
    <3>12. Fallback(m) BY <2>6, <3>4, <3>6 DEF Held, Fallback, Armed
    <3>13. {f, "_handle_error"} \cap SaslFns = {} BY DEF FeatureFns, SaslFns
    <3>14. Answered(d) /\ Once(d) /\ Tried(d) /\ Fallback(d)
      BY <3>2, <3>3, <3>9, <3>10, <3>11, <3>12, <3>13, DoesHeld
    <3>15. Expects(d) BY <3>2 DEF Expects
    <3> QED BY <3>2, <3>14, <3>15 DEF Held, Busy
  <2> QED BY <2>8, <2>9
<1> QED BY <1>5, <1>6
-----------------------------------------------------------------------------
(* The callbacks make one request each, or end the stream. *)

\* A request goes out through the functions in N, and sasl is what is left to try.
Sends(c, d, N, q, sasl) ==
    /\ Does(c, d, N, Append(c.send_queue, q)) /\ d.sasl_support = sasl
    /\ \A f \in N : Listed(d.handlers, f)

LEMMA StartSaslSends ==
    ASSUME NEW c \in Conn, c.state = "CONNECTED", NEW mech \in Mechanisms,
           NEW handler \in HandlerFns, NEW env
    PROVE  LET d == StartSasl(c, mech, handler, env)
           IN ~Going(d) \/ Sends(c, d, {handler}, mech, c.sasl_support \ {mech})
<1> DEFINE h == AddHandler(c, handler)
           s == Send(h, mech)
           sasl == c.sasl_support \ {mech}
           d == [s EXCEPT !.sasl_support = sasl]
           N == {handler}
           queue == Append(c.send_queue, mech)
<1>1. CASE env.memory
  <2>1. Does(c, h, N, c.send_queue) /\ Listed(h.handlers, handler)
        /\ h.sasl_support = c.sasl_support
    BY AddHandlerDoes
  <2> HIDE DEF h
  <2>2. h \in Conn /\ h.state = "CONNECTED" /\ h.send_queue = c.send_queue /\ mech \in Items
    BY <2>1 DEF Does, Items
  <2>3. Does(h, s, {}, queue) /\ s.sasl_support = c.sasl_support /\ s.handlers = h.handlers
    BY <2>1, <2>2, SendDoes
  <2>4. StartSasl(c, mech, handler, env) = d
    BY <1>1, <2>3 DEF StartSasl, s, h
  <2> HIDE DEF s, queue
  <2>5. s \in Conn /\ s.send_queue = queue BY <2>3 DEF Does
  <2>6. sasl \in SUBSET Mechanisms BY DEF Conn
  <2> HIDE DEF sasl
  <2>7. /\ d \in Conn /\ d.state = s.state /\ d.attempts = s.attempts /\ d.peer = s.peer
        /\ d.ups = s.ups /\ d.jid = s.jid /\ d.facts = s.facts /\ d.secured = s.secured
        /\ d.id_handlers = s.id_handlers /\ d.handlers = s.handlers
        /\ d.timed_handlers = s.timed_handlers /\ d.send_queue = s.send_queue
        /\ d.sasl_support = sasl
    BY <2>5, <2>6 DEF Conn
  <2> HIDE DEF d
  <2>8. Does(c, s, N, queue)
    <3>1. N \cup {} = N OBVIOUS
    <3> QED BY <2>1, <2>3, <3>1, DoesTrans
  <2>9. Does(c, d, N, queue) BY <2>7, <2>8 DEF Does, Armed
  <2>10. Listed(d.handlers, handler) BY <2>1, <2>3, <2>7
  <2> QED BY <2>4, <2>7, <2>9, <2>10 DEF Sends, queue, sasl
<1>2. CASE ~env.memory BY <1>2, DisconnectGone DEF StartSasl
<1> QED BY <1>1, <1>2

LEMMA StartTlsSends ==
    ASSUME NEW c \in Conn, c.state = "CONNECTED", NEW env
    PROVE  LET d == StartTls(c, env)
           IN ~Going(d) \/ Sends(c, d, {"_handle_proceedtls_default"}, "starttls", c.sasl_support)
<1> DEFINE h == AddHandler(c, "_handle_proceedtls_default")
           s == Send(h, "starttls")
           d == [s EXCEPT !.tls_support = FALSE]
           N == {"_handle_proceedtls_default"}
           queue == Append(c.send_queue, "starttls")
<1>1. CASE env.memory
  <2>1. Does(c, h, N, c.send_queue) /\ Listed(h.handlers, "_handle_proceedtls_default")
        /\ h.sasl_support = c.sasl_support
    BY AddHandlerDoes DEF HandlerFns
  <2> HIDE DEF h
  <2>2. h \in Conn /\ h.state = "CONNECTED" /\ h.send_queue = c.send_queue
        /\ "starttls" \in Items
    BY <2>1 DEF Does, Items
  <2>3. Does(h, s, {}, queue) /\ s.sasl_support = c.sasl_support /\ s.handlers = h.handlers
    BY <2>1, <2>2, SendDoes
  <2>4. StartTls(c, env) = d BY <1>1 DEF StartTls, s, h
  <2> HIDE DEF s, queue
  <2>5. s \in Conn /\ s.send_queue = queue BY <2>3 DEF Does
  <2>6. /\ d \in Conn /\ d.state = s.state /\ d.attempts = s.attempts /\ d.peer = s.peer
        /\ d.ups = s.ups /\ d.jid = s.jid /\ d.facts = s.facts /\ d.secured = s.secured
        /\ d.id_handlers = s.id_handlers /\ d.handlers = s.handlers
        /\ d.timed_handlers = s.timed_handlers /\ d.send_queue = s.send_queue
        /\ d.sasl_support = s.sasl_support
    BY <2>5 DEF Conn
  <2> HIDE DEF d
  <2>7. Does(c, s, N, queue)
    <3>1. N \cup {} = N OBVIOUS
    <3> QED BY <2>1, <2>3, <3>1, DoesTrans
  <2>8. Does(c, d, N, queue) BY <2>6, <2>7 DEF Does, Armed
  <2>9. Listed(d.handlers, "_handle_proceedtls_default") BY <2>1, <2>3, <2>6
  <2> QED BY <2>3, <2>4, <2>6, <2>8, <2>9 DEF Sends, queue
<1>2. CASE ~env.memory BY <1>2, DisconnectGone DEF StartTls
<1> QED BY <1>1, <1>2

LEMMA RequestSends ==
    ASSUME NEW c \in Conn, c.state = "CONNECTED", NEW handler \in IdFns,
           NEW timer \in TimedFns, NEW item \in Items, NEW env
    PROVE  LET d == Request(c, handler, timer, item, env)
           IN \/ ~Going(d)
              \/ /\ Sends(c, d, {}, item, c.sasl_support) /\ handler \in d.id_handlers
                 /\ Armed(d, timer) /\ d.handlers = c.handlers
<1> DEFINE h == AddId(c, handler)
           a == AddTimed(h, timer)
           d == Send(a, item)
           queue == Append(c.send_queue, item)
<1>1. Does(c, h, {}, c.send_queue) /\ handler \in h.id_handlers
      /\ h.sasl_support = c.sasl_support
  BY AddIdDoes
<1>2. h.handlers = c.handlers BY DEF AddId, Conn
<1> HIDE DEF h
<1>3. h \in Conn /\ h.state = "CONNECTED" /\ h.send_queue = c.send_queue
  BY <1>1 DEF Does
<1>4. Does(h, a, {}, c.send_queue) /\ Armed(a, timer) /\ a.sasl_support = c.sasl_support
      /\ a.handlers = c.handlers /\ a.id_handlers = h.id_handlers
  BY <1>1, <1>2, <1>3, AddTimedDoes
<1>5. Request(c, handler, timer, item, env) = IF env.memory THEN d ELSE XmppDisconnect(a)
  BY DEF Request, d, a, h
<1> HIDE DEF a
<1>6. a \in Conn /\ a.state = "CONNECTED" /\ a.send_queue = c.send_queue
  BY <1>3, <1>4 DEF Does
<1>7. Does(a, d, {}, queue) /\ d.sasl_support = c.sasl_support
      /\ d.handlers = c.handlers /\ d.id_handlers = h.id_handlers
      /\ d.timed_handlers = a.timed_handlers
  BY <1>4, <1>6, SendDoes
<1> HIDE DEF d, queue
<1>8. Does(c, d, {}, queue)
  <2>1. {} \cup {} = {} OBVIOUS
  <2>2. Does(c, a, {}, c.send_queue) BY <1>1, <1>3, <1>4, <2>1, DoesTrans
  <2> QED BY <1>6, <1>7, <2>1, <2>2, DoesTrans
<1>9. ~Going(XmppDisconnect(a)) BY <1>6, DisconnectGone
<1> QED BY <1>1, <1>4, <1>5, <1>7, <1>8, <1>9 DEF Sends, Armed, queue

\* The ways on that _auth has.
ByTls(c, d) ==
    c.tls_support /\ Sends(c, d, {"_handle_proceedtls_default"}, "starttls", c.sasl_support)

BySasl(c, d, m, h) ==
    /\ Sends(c, d, {h}, m, c.sasl_support \ {m})
    /\ IF c.jid = "anonymous" THEN m = "ANONYMOUS"
       ELSE \/ m = "DIGEST-MD5" /\ h = "_handle_digestmd5_challenge"
            \/ /\ m = "PLAIN" /\ h = "_handle_sasl_result"
               /\ "DIGEST-MD5" \notin c.sasl_support

ByLegacy(c, d) ==
    /\ Sends(c, d, {}, "legacy", c.sasl_support)
    /\ "_handle_legacy" \in d.id_handlers /\ Armed(d, "_handle_missing_legacy")

InClear(c, d) ==
    \/ ~Going(d)
    \/ \E m \in c.sasl_support, h \in SaslFns \ {"_handle_digestmd5_rspauth"} :
          BySasl(c, d, m, h)
    \/ ByLegacy(c, d)

LEMMA AuthInClearChooses ==
    ASSUME NEW c \in Conn, c.state = "CONNECTED", NEW env
    PROVE  InClear(c, AuthInClear(c, env))
<1> DEFINE d == AuthInClear(c, env)
<1>1. /\ "_handle_sasl_result" \in SaslFns \ {"_handle_digestmd5_rspauth"}
      /\ "_handle_digestmd5_challenge" \in SaslFns \ {"_handle_digestmd5_rspauth"}
      /\ SaslFns \subseteq HandlerFns /\ c.sasl_support \subseteq Mechanisms
  BY DEF SaslFns, HandlerFns, Conn
<1>2. ASSUME NEW m \in c.sasl_support, NEW h \in SaslFns \ {"_handle_digestmd5_rspauth"},
             d = StartSasl(c, m, h, env),
             IF c.jid = "anonymous" THEN m = "ANONYMOUS"
             ELSE \/ m = "DIGEST-MD5" /\ h = "_handle_digestmd5_challenge"
                  \/ /\ m = "PLAIN" /\ h = "_handle_sasl_result"
                     /\ "DIGEST-MD5" \notin c.sasl_support
      PROVE  InClear(c, d)
  <2>1. ~Going(d) \/ Sends(c, d, {h}, m, c.sasl_support \ {m})
    BY <1>1, <1>2, StartSaslSends
  <2> HIDE DEF d
  <2> QED BY <1>2, <2>1 DEF InClear, BySasl
<1>3. CASE c.jid = "anonymous" /\ "ANONYMOUS" \in c.sasl_support
  <2>1. d = StartSasl(c, "ANONYMOUS", "_handle_sasl_result", env)
    BY <1>3 DEF AuthInClear
  <2> HIDE DEF d
  <2>2. InClear(c, d) BY <1>1, <1>2, <1>3, <2>1
  <2> QED BY <2>2 DEF d
<1>4. CASE c.jid = "anonymous" /\ "ANONYMOUS" \notin c.sasl_support
  <2>1. d = XmppDisconnect(c) BY <1>4 DEF AuthInClear
  <2> QED BY <2>1, DisconnectGone DEF InClear
<1>5. CASE c.jid # "anonymous" /\ "DIGEST-MD5" \in c.sasl_support
  <2>1. d = StartSasl(c, "DIGEST-MD5", "_handle_digestmd5_challenge", env)
    BY <1>5 DEF AuthInClear
  <2> HIDE DEF d
  <2>2. InClear(c, d) BY <1>1, <1>2, <1>5, <2>1
  <2> QED BY <2>2 DEF d
<1>6. CASE c.jid # "anonymous" /\ "DIGEST-MD5" \notin c.sasl_support
            /\ c.sasl_support \cap {"DIGEST-MD5", "PLAIN"} = {"PLAIN"}
  <2>1. d = StartSasl(c, "PLAIN", "_handle_sasl_result", env)
    BY <1>6 DEF AuthInClear
  <2>2. "PLAIN" \in c.sasl_support BY <1>6
  <2> HIDE DEF d
  <2>3. InClear(c, d) BY <1>1, <1>2, <1>6, <2>1, <2>2
  <2> QED BY <2>3 DEF d
<1>7. CASE c.jid # "anonymous" /\ "DIGEST-MD5" \notin c.sasl_support
            /\ c.sasl_support \cap {"DIGEST-MD5", "PLAIN"} # {"PLAIN"}
  <2> DEFINE r == Request(c, "_handle_legacy", "_handle_missing_legacy", "legacy", env)
  <2>1. d = StartLegacy(c, env) BY <1>7 DEF AuthInClear
  <2>2. d \in {r, XmppDisconnect(c)} BY <2>1 DEF StartLegacy, Request
  <2>3. \/ ~Going(r)
        \/ /\ Sends(c, r, {}, "legacy", c.sasl_support) /\ "_handle_legacy" \in r.id_handlers
           /\ Armed(r, "_handle_missing_legacy")
    BY RequestSends DEF IdFns, TimedFns, Items
  <2>4. ~Going(XmppDisconnect(c)) BY DisconnectGone
  <2> HIDE DEF d, r
  <2>5. InClear(c, d) BY <2>2, <2>3, <2>4 DEF InClear, ByLegacy
  <2> QED BY <2>5 DEF d
<1> QED BY <1>3, <1>4, <1>5, <1>6, <1>7

LEMMA AuthChooses ==
    ASSUME NEW c \in Conn, c.state = "CONNECTED", NEW env
    PROVE  ByTls(c, Auth(c, env)) \/ InClear(c, Auth(c, env))
<1> DEFINE e == [c EXCEPT !.tls_support = FALSE]
           d == Auth(c, env)
<1>1. CASE c.tls_support /\ env.tls_new
  <2>1. d = StartTls(c, env) BY <1>1 DEF Auth
  <2>2. ~Going(d) \/ Sends(c, d, {"_handle_proceedtls_default"}, "starttls", c.sasl_support)
    BY <2>1, StartTlsSends
  <2> HIDE DEF d
  <2> QED BY <1>1, <2>2 DEF ByTls, InClear, d
<1>2. CASE ~(c.tls_support /\ env.tls_new)
  <2>1. d = AuthInClear(e, env) BY <1>2 DEF Auth
  <2>2. /\ e \in Conn /\ e.state = c.state /\ e.attempts = c.attempts /\ e.peer = c.peer
        /\ e.ups = c.ups /\ e.jid = c.jid /\ e.facts = c.facts /\ e.secured = c.secured
        /\ e.id_handlers = c.id_handlers /\ e.handlers = c.handlers
        /\ e.timed_handlers = c.timed_handlers /\ e.send_queue = c.send_queue
        /\ e.sasl_support = c.sasl_support
    BY DEF Conn
  <2> HIDE DEF d, e
  <2>3. Does(c, e, {}, c.send_queue) BY <2>2, FieldsDo DEF Armed
  <2>4. InClear(e, d) BY <2>1, <2>2, AuthInClearChooses
  <2>5. ASSUME NEW N, NEW q, NEW sasl, Sends(e, d, N, q, sasl) PROVE Sends(c, d, N, q, sasl)
    <3>1. {} \cup N = N OBVIOUS
    <3>2. Does(c, d, {} \cup N, Append(c.send_queue, q))
      BY <2>2, <2>3, <2>5, DoesTrans DEF Sends
    <3> QED BY <2>5, <3>1, <3>2 DEF Sends
  <2>6. InClear(c, d) BY <2>2, <2>4, <2>5 DEF InClear, BySasl, ByLegacy
  <2> QED BY <2>6 DEF d
<1> QED BY <1>1, <1>2

\* f was called on c: a request is on its way, and unless f is kept it is not f that
\* takes the answer.
Speaks(c, d, f, keeps) ==
    \E N, q :
        /\ Does(c, d, N, Append(c.send_queue, q)) /\ q \in Items \ {"user", "close"}
        /\ Tried(d)
        /\ q \in SaslItems =>
              \E g \in SaslFns : Listed(d.handlers, g) /\ (g = f => keeps)
        /\ q = "starttls" =>
              /\ f # "_handle_proceedtls_default"
              /\ Listed(d.handlers, "_handle_proceedtls_default")
        /\ q = "bind"     => "_handle_bind" \in d.id_handlers
        /\ q = "session"  => "_handle_session" \in d.id_handlers
        /\ q = "legacy"   => "_handle_legacy" \in d.id_handlers

LEMMA SpeaksAfter ==
    ASSUME NEW c, NEW h, NEW d, NEW f, NEW keeps, Does(c, h, {}, c.send_queue),
           Speaks(h, d, f, keeps)
    PROVE  Speaks(c, d, f, keeps)
<1>1. PICK N, q :
          /\ Does(h, d, N, Append(h.send_queue, q)) /\ q \in Items \ {"user", "close"}
          /\ Tried(d)
          /\ q \in SaslItems =>
                \E g \in SaslFns : Listed(d.handlers, g) /\ (g = f => keeps)
          /\ q = "starttls" =>
                /\ f # "_handle_proceedtls_default"
                /\ Listed(d.handlers, "_handle_proceedtls_default")
          /\ q = "bind"     => "_handle_bind" \in d.id_handlers
          /\ q = "session"  => "_handle_session" \in d.id_handlers
          /\ q = "legacy"   => "_handle_legacy" \in d.id_handlers
  BY DEF Speaks
<1>2. Does(c, d, {} \cup N, Append(c.send_queue, q))
  <2>1. h.send_queue = c.send_queue BY DEF Does
  <2> QED BY <1>1, <2>1, DoesTrans
<1> QED BY <1>1, <1>2 DEF Speaks

LEMMA SendsTried ==
    ASSUME NEW c, NEW d, NEW N, NEW q, NEW sasl, Sends(c, d, N, q, sasl), Tried(c),
           sasl \subseteq c.sasl_support, N \cap SaslFns = {}
    PROVE  Tried(d)
BY DEF Sends, Does, Tried

\* A request that no SASL or TLS handler takes the answer of.
LEMMA SendsSpeaks ==
    ASSUME NEW c, NEW d, NEW f, NEW keeps, NEW q \in {"header", "bind", "legacy"},
           Sends(c, d, {}, q, c.sasl_support), Tried(c),
           q = "bind"   => "_handle_bind" \in d.id_handlers,
           q = "legacy" => "_handle_legacy" \in d.id_handlers
    PROVE  Speaks(c, d, f, keeps)
<1>1. q \in Items \ {"user", "close"} /\ q \notin SaslItems \cup {"starttls", "session"}
  BY DEF Items, SaslItems, Mechanisms
<1>2. Tried(d) BY SendsTried
<1>3. Does(c, d, {}, Append(c.send_queue, q)) BY DEF Sends
<1> QED BY <1>1, <1>2, <1>3 DEF Speaks

LEMMA ChoiceSpeaks ==
    ASSUME NEW c \in Conn, NEW d, NEW f \in SaslFns \cup FeatureFns, Tried(c),
           f \in SaslFns => Listed(c.handlers, f), ByTls(c, d) \/ InClear(c, d)
    PROVE  ~Going(d) \/ Speaks(c, d, f, FALSE)
<1>1. CASE ByTls(c, d)
  <2> DEFINE p == "_handle_proceedtls_default"
             N == {p}
  <2>1. Sends(c, d, N, "starttls", c.sasl_support) BY <1>1 DEF ByTls
  <2>2. p \notin SaslFns /\ p \notin FeatureFns BY DEF SaslFns, FeatureFns
  <2>3. N \cap SaslFns = {} BY <2>2
  <2>4. Tried(d) BY <2>1, <2>3, SendsTried
  <2>5. Does(c, d, N, Append(c.send_queue, "starttls")) /\ Listed(d.handlers, p)
    BY <2>1 DEF Sends
  <2>6. "starttls" \in Items \ {"user", "close"}
        /\ "starttls" \notin SaslItems \cup {"bind", "session", "legacy"}
    BY DEF Items, SaslItems, Mechanisms
  <2> QED BY <2>2, <2>4, <2>5, <2>6 DEF Speaks
<1>2. ASSUME NEW m \in c.sasl_support, NEW h \in SaslFns \ {"_handle_digestmd5_rspauth"},
             BySasl(c, d, m, h)
      PROVE  Speaks(c, d, f, FALSE)
  <2> DEFINE sasl == c.sasl_support \ {m}
             N == {h}
  <2>1. /\ Does(c, d, N, Append(c.send_queue, m)) /\ Listed(d.handlers, h)
        /\ d.sasl_support = sasl /\ d.jid = c.jid
    BY <1>2 DEF BySasl, Sends, Does
  <2>2. h # f
    <3>1. "_handle_sasl_result" \notin FeatureFns
          /\ "_handle_digestmd5_challenge" \notin FeatureFns
      BY DEF FeatureFns
    <3> SUFFICES ASSUME h = f PROVE FALSE OBVIOUS
    <3>2. f \in SaslFns /\ Listed(c.handlers, f) OBVIOUS
    <3>3. CASE c.jid = "anonymous" BY <1>2, <3>2, <3>3 DEF BySasl, Tried
    <3>4. CASE c.jid # "anonymous" BY <1>2, <3>2, <3>4 DEF BySasl, Tried
    <3> QED BY <3>3, <3>4
  <2>3. Tried(d)
    <3> SUFFICES ASSUME NEW g \in SaslFns, Listed(d.handlers, g)
                 PROVE  IF d.jid = "anonymous" THEN "ANONYMOUS" \notin d.sasl_support
                        ELSE /\ "DIGEST-MD5" \notin d.sasl_support
                             /\ g = "_handle_sasl_result" => "PLAIN" \notin d.sasl_support
      BY DEF Tried
    <3>1. CASE Listed(c.handlers, g) BY <2>1, <3>1 DEF Tried
    <3>2. CASE ~Listed(c.handlers, g)
      <4>1. g = h BY <2>1, <3>2 DEF Does
      <4> QED BY <1>2, <2>1, <4>1 DEF BySasl
    <3> QED BY <3>1, <3>2
  <2>4. m \in Mechanisms BY DEF Conn
  <2>5. m \in Items \ {"user", "close"}
        /\ m \notin {"starttls", "bind", "session", "legacy"}
    BY <2>4 DEF Items, Mechanisms
  <2> QED BY <2>1, <2>2, <2>3, <2>5 DEF Speaks
<1>3. CASE ByLegacy(c, d) BY <1>3, SendsSpeaks DEF ByLegacy
<1> QED BY <1>1, <1>2, <1>3 DEF InClear

LEMMA ReopenSends ==
    ASSUME NEW c \in Conn, c.state = "CONNECTED", NEW open \in OpenFns
    PROVE  Sends(c, OpenStream(PrepareReset(c, open)), {}, "header", c.sasl_support)
<1> DEFINE p == PrepareReset(c, open)
           d == Send(p, "header")
<1>1. /\ p \in Conn /\ p.state = c.state /\ p.attempts = c.attempts /\ p.peer = c.peer
      /\ p.ups = c.ups /\ p.jid = c.jid /\ p.facts = c.facts /\ p.secured = c.secured
      /\ p.id_handlers = c.id_handlers /\ p.handlers = c.handlers
      /\ p.timed_handlers = c.timed_handlers /\ p.send_queue = c.send_queue
      /\ p.sasl_support = c.sasl_support
  BY DEF PrepareReset, Conn
<1>2. OpenStream(p) = d BY DEF OpenStream
<1> HIDE DEF p
<1>3. Does(c, p, {}, c.send_queue) BY <1>1, FieldsDo DEF Armed
<1>4. Does(p, d, {}, Append(c.send_queue, "header")) /\ d.sasl_support = c.sasl_support
  BY <1>1, SendDoes DEF Items
<1> HIDE DEF d
<1>5. Does(c, d, {} \cup {}, Append(c.send_queue, "header")) BY <1>3, <1>4, DoesTrans
<1>6. {} \cup {} = {} OBVIOUS
<1> QED BY <1>2, <1>4, <1>5, <1>6 DEF Sends, p

LEMMA SaslResultSpeaks ==
    ASSUME NEW c \in Conn, c.state = "CONNECTED", Tried(c), NEW f \in SaslFns,
           Listed(c.handlers, f), NEW s, NEW env
    PROVE  LET d == _handle_sasl_result(c, s, env)
           IN ~Going(d) \/ Speaks(c, d, f, FALSE)
<1>1. CASE s.name = "failure"
  <2>1. _handle_sasl_result(c, s, env) = Auth(c, env) BY <1>1 DEF _handle_sasl_result
  <2>2. ByTls(c, Auth(c, env)) \/ InClear(c, Auth(c, env)) BY AuthChooses
  <2> QED BY <2>1, <2>2, ChoiceSpeaks
<1>2. CASE s.name = "success"
  <2> DEFINE d == OpenStream(PrepareReset(c, "_handle_open_sasl"))
  <2>1. _handle_sasl_result(c, s, env) = d BY <1>2 DEF _handle_sasl_result
  <2>2. Sends(c, d, {}, "header", c.sasl_support) BY ReopenSends DEF OpenFns
  <2> HIDE DEF d
  <2>3. Speaks(c, d, f, FALSE) BY <2>2, SendsSpeaks
  <2> QED BY <2>1, <2>3
<1>3. CASE s.name \notin {"failure", "success"}
  <2>1. _handle_sasl_result(c, s, env) = XmppDisconnect(c) BY <1>3 DEF _handle_sasl_result
  <2> QED BY <2>1, DisconnectGone
<1> QED BY <1>1, <1>2, <1>3

LEMMA DigestSpeaks ==
    ASSUME NEW c \in Conn, c.state = "CONNECTED", Tried(c), NEW s, NEW env
    PROVE  LET f == "_handle_digestmd5_challenge"
               g == "_handle_digestmd5_rspauth"
               d == _handle_digestmd5_challenge(c, s, env)
               e == _handle_digestmd5_rspauth(c, s, env)
           IN /\ Listed(c.handlers, f) => ~Going(d) \/ Speaks(c, d, f, FALSE)
              /\ Listed(c.handlers, g) => ~Going(e) \/ Speaks(c, e, g, KeepsHandler(g, s, env))
<1> DEFINE f == "_handle_digestmd5_challenge"
           g == "_handle_digestmd5_rspauth"
           queue == Append(c.send_queue, "response")
<1>0. f \in SaslFns /\ g \in SaslFns /\ g \in HandlerFns /\ f # g
  BY DEF SaslFns, HandlerFns
<1>1. CASE s.name = "challenge" /\ env.memory
  <2> DEFINE h == AddHandler(c, g)
             d == Send(h, "response")
             e == Send(c, "response")
             N == {g}
  <2>1. Does(c, h, N, c.send_queue) /\ Listed(h.handlers, g)
        /\ h.sasl_support = c.sasl_support
    BY <1>0, AddHandlerDoes
  <2>2. /\ _handle_digestmd5_challenge(c, s, env) = d
        /\ _handle_digestmd5_rspauth(c, s, env) = e
    BY <1>1 DEF _handle_digestmd5_challenge, _handle_digestmd5_rspauth
  <2> HIDE DEF h
  <2>3. h \in Conn /\ h.state = "CONNECTED" /\ h.send_queue = c.send_queue
    BY <2>1 DEF Does
  <2>4. Does(h, d, {}, queue) /\ d.sasl_support = c.sasl_support /\ d.handlers = h.handlers
    BY <2>1, <2>3, SendDoes DEF Items
  <2>5. Does(c, e, {}, queue) /\ e.sasl_support = c.sasl_support /\ e.handlers = c.handlers
    BY SendDoes DEF Items
  <2> HIDE DEF d, e
  <2>6. Does(c, d, N, queue)
    <3>1. N \cup {} = N OBVIOUS
    <3> QED BY <2>1, <2>4, <3>1, DoesTrans
  <2>7. "response" \in Items \ {"user", "close"}
        /\ "response" \notin {"starttls", "bind", "session", "legacy"}
    BY DEF Items
  <2>8. ASSUME Listed(c.handlers, f) PROVE Speaks(c, d, f, FALSE)
    <3>1. Tried(d)
      <4> SUFFICES ASSUME NEW k \in SaslFns, Listed(d.handlers, k)
                   PROVE  IF d.jid = "anonymous" THEN "ANONYMOUS" \notin d.sasl_support
                          ELSE /\ "DIGEST-MD5" \notin d.sasl_support
                               /\ k = "_handle_sasl_result" => "PLAIN" \notin d.sasl_support
        BY DEF Tried
      <4>1. d.jid = c.jid BY <2>6 DEF Does
      <4>2. CASE Listed(c.handlers, k) BY <2>4, <4>1, <4>2 DEF Tried
      <4>3. CASE ~Listed(c.handlers, k)
        <5>1. k = g BY <2>6, <4>3 DEF Does
        <5> QED BY <1>0, <2>4, <2>8, <4>1, <5>1 DEF Tried
      <4> QED BY <4>2, <4>3
    <3>2. Listed(d.handlers, g) BY <2>1, <2>4
    <3> QED BY <1>0, <2>6, <2>7, <3>1, <3>2 DEF Speaks
  <2>9. ASSUME Listed(c.handlers, g) PROVE Speaks(c, e, g, KeepsHandler(g, s, env))
    <3>1. Tried(e)
      <4>1. e.jid = c.jid BY <2>5 DEF Does
      <4> QED BY <2>5, <4>1 DEF Tried
    <3>2. Listed(e.handlers, g) BY <2>5, <2>9
    <3>3. KeepsHandler(g, s, env) BY <1>1 DEF KeepsHandler
    <3> QED BY <1>0, <2>5, <2>7, <3>1, <3>2, <3>3 DEF Speaks
  <2> QED BY <2>2, <2>8, <2>9
<1>2. CASE s.name = "challenge" /\ ~env.memory
  <2>1. /\ _handle_digestmd5_challenge(c, s, env) = XmppDisconnect(c)
        /\ _handle_digestmd5_rspauth(c, s, env) = XmppDisconnect(c)
    BY <1>2 DEF _handle_digestmd5_challenge, _handle_digestmd5_rspauth
  <2> QED BY <2>1, DisconnectGone
<1>3. CASE s.name # "challenge"
  <2>1. /\ _handle_digestmd5_challenge(c, s, env) = _handle_sasl_result(c, s, env)
        /\ _handle_digestmd5_rspauth(c, s, env) = _handle_sasl_result(c, s, env)
    BY <1>3 DEF _handle_digestmd5_challenge, _handle_digestmd5_rspauth
  <2>2. ~KeepsHandler(g, s, env) BY <1>3 DEF KeepsHandler
  <2> HIDE DEF f, g
  <2>3. KeepsHandler(g, s, env) = FALSE BY <2>2 DEF KeepsHandler, g
  <2> QED BY <1>0, <2>1, <2>3, SaslResultSpeaks DEF f, g
<1> QED BY <1>1, <1>2, <1>3

LEMMA FeaturesSpeak ==
    ASSUME NEW c \in Conn, c.state = "CONNECTED", NEW s \in Stanza, NEW env,
           \A f \in SaslFns : ~Listed(c.handlers, f)
    PROVE  LET d == _handle_features(c, s, env)
           IN ~Going(d) \/ Speaks(c, d, "_handle_features", FALSE)
<1> DEFINE e == DeleteTimed(c, "_handle_missing_features")
           t == IF c.secured THEN e.tls_support
                ELSE ~c.tls_disabled /\ (e.tls_support \/ "starttls" \in s.offers)
           m == e.sasl_support \cup (s.offers \cap Mechanisms)
           h == [e EXCEPT !.tls_support = t, !.sasl_support = m]
           d == _handle_features(c, s, env)
<1>1. Does(c, e, {}, c.send_queue) BY DeleteTimedDoes
<1>2. e \in Conn /\ e.state = "CONNECTED" /\ e.send_queue = c.send_queue BY <1>1 DEF Does
<1>3. d = Auth(h, env) BY DEF _handle_features
<1> HIDE DEF d, e
<1>4. t \in BOOLEAN /\ m \in SUBSET Mechanisms BY <1>2 DEF Conn
<1> HIDE DEF t, m
<1>5. /\ h \in Conn /\ h.state = e.state /\ h.attempts = e.attempts /\ h.peer = e.peer
      /\ h.ups = e.ups /\ h.jid = e.jid /\ h.facts = e.facts /\ h.secured = e.secured
      /\ h.id_handlers = e.id_handlers /\ h.handlers = e.handlers
      /\ h.timed_handlers = e.timed_handlers /\ h.send_queue = e.send_queue
  BY <1>2, <1>4 DEF Conn
<1> HIDE DEF h
<1>6. Does(e, h, {}, c.send_queue) BY <1>2, <1>5, FieldsDo DEF Armed
<1>7. Does(c, h, {}, c.send_queue)
  <2>1. {} \cup {} = {} OBVIOUS
  <2> QED BY <1>1, <1>6, <2>1, DoesTrans
<1>8. Tried(h) BY <1>7 DEF Tried, Does
<1>9. ByTls(h, d) \/ InClear(h, d) BY <1>2, <1>3, <1>5, AuthChooses
<1>10. "_handle_features" \in FeatureFns /\ "_handle_features" \notin SaslFns
  BY DEF FeatureFns, SaslFns
<1>11. ~Going(d) \/ Speaks(h, d, "_handle_features", FALSE)
  BY <1>5, <1>8, <1>9, <1>10, ChoiceSpeaks
<1>12. ~Going(d) \/ Speaks(c, d, "_handle_features", FALSE) BY <1>7, <1>11, SpeaksAfter
<1> QED BY <1>12 DEF d

LEMMA FeaturesSaslSpeak ==
    ASSUME NEW c \in Conn, c.state = "CONNECTED", NEW s \in Stanza, NEW env, Tried(c)
    PROVE  LET d == _handle_features_sasl(c, s, env)
           IN ~Going(d) \/ Speaks(c, d, "_handle_features_sasl", FALSE)
<1> DEFINE f == "_handle_features_sasl"
           e == DeleteTimed(c, "_handle_missing_features_sasl")
           b == e.bind_required \/ "bind" \in s.offers
           r == e.session_required \/ "session" \in s.offers
           h == [e EXCEPT !.bind_required = b, !.session_required = r]
           q == Request(h, "_handle_bind", "_handle_missing_bind", "bind", env)
<1>1. Does(c, e, {}, c.send_queue) /\ e.sasl_support = c.sasl_support BY DeleteTimedDoes
<1>2. e \in Conn /\ e.state = "CONNECTED" /\ e.send_queue = c.send_queue BY <1>1 DEF Does
<1>3. _handle_features_sasl(c, s, env) = IF h.bind_required THEN q ELSE XmppDisconnect(h)
  BY DEF _handle_features_sasl
<1> HIDE DEF e
<1>4. b \in BOOLEAN /\ r \in BOOLEAN BY <1>2 DEF Conn
<1> HIDE DEF b, r
<1>5. /\ h \in Conn /\ h.state = e.state /\ h.attempts = e.attempts /\ h.peer = e.peer
      /\ h.ups = e.ups /\ h.jid = e.jid /\ h.facts = e.facts /\ h.secured = e.secured
      /\ h.id_handlers = e.id_handlers /\ h.handlers = e.handlers
      /\ h.timed_handlers = e.timed_handlers /\ h.send_queue = e.send_queue
      /\ h.sasl_support = e.sasl_support
  BY <1>2, <1>4 DEF Conn
<1> HIDE DEF h
<1>6. Does(e, h, {}, c.send_queue) BY <1>2, <1>5, FieldsDo DEF Armed
<1>7. Does(c, h, {}, c.send_queue)
  <2>1. {} \cup {} = {} OBVIOUS
  <2> QED BY <1>1, <1>6, <2>1, DoesTrans
<1>8. Tried(h)
  <2>1. h.sasl_support = c.sasl_support BY <1>1, <1>5
  <2> QED BY <1>7, <2>1 DEF Tried, Does
<1>9. \/ ~Going(q)
      \/ Sends(h, q, {}, "bind", h.sasl_support) /\ "_handle_bind" \in q.id_handlers
  BY <1>2, <1>5, RequestSends DEF IdFns, TimedFns, Items
<1> HIDE DEF q
<1>10. ~Going(q) \/ Speaks(h, q, f, FALSE) BY <1>8, <1>9, SendsSpeaks
<1>11. ~Going(q) \/ Speaks(c, q, f, FALSE) BY <1>7, <1>10, SpeaksAfter
<1>12. ~Going(XmppDisconnect(h)) BY <1>5, DisconnectGone
<1> QED BY <1>3, <1>11, <1>12

LEMMA ProceedTlsSpeaks ==
    ASSUME NEW c \in Conn, c.state = "CONNECTED", NEW s, NEW env, Tried(c)
    PROVE  LET d == _handle_proceedtls_default(c, s, env)
           IN \/ ~Going(d) \/ Speaks(c, d, "_handle_proceedtls_default", FALSE)
              \/ s.name # "proceed" /\ d = c
<1> DEFINE f == "_handle_proceedtls_default"
<1>1. CASE s.name = "proceed" /\ env.tls_start
  <2> DEFINE e == [c EXCEPT !.tls = TRUE, !.secured = TRUE]
             d == OpenStream(PrepareReset(e, "auth_handle_open"))
  <2>1. _handle_proceedtls_default(c, s, env) = d BY <1>1 DEF _handle_proceedtls_default
  <2>2. /\ e \in Conn /\ e.state = c.state /\ e.attempts = c.attempts /\ e.peer = c.peer
        /\ e.ups = c.ups /\ e.jid = c.jid /\ e.facts = c.facts /\ e.secured
        /\ e.id_handlers = c.id_handlers /\ e.handlers = c.handlers
        /\ e.timed_handlers = c.timed_handlers /\ e.send_queue = c.send_queue
        /\ e.sasl_support = c.sasl_support
    BY DEF Conn
  <2> HIDE DEF e
  <2>3. Does(c, e, {}, c.send_queue) BY <2>2, FieldsDo DEF Armed
  <2>4. Sends(e, d, {}, "header", e.sasl_support) BY <2>2, ReopenSends DEF OpenFns
  <2> HIDE DEF d
  <2>5. Tried(e) BY <2>2 DEF Tried
  <2>6. Speaks(e, d, f, FALSE) BY <2>4, <2>5, SendsSpeaks
  <2>7. Speaks(c, d, f, FALSE) BY <2>3, <2>6, SpeaksAfter
  <2> QED BY <2>1, <2>7
<1>2. CASE s.name = "proceed" /\ ~env.tls_start
  <2> DEFINE e == [c EXCEPT !.tls = FALSE]
  <2>1. _handle_proceedtls_default(c, s, env) = XmppDisconnect(e)
    BY <1>2 DEF _handle_proceedtls_default
  <2>2. e \in Conn BY DEF Conn
  <2> HIDE DEF e
  <2> QED BY <2>1, <2>2, DisconnectGone
<1>3. CASE s.name # "proceed"
  <2>1. _handle_proceedtls_default(c, s, env) = c BY <1>3 DEF _handle_proceedtls_default
  <2> QED BY <1>3, <2>1
<1> QED BY <1>1, <1>2, <1>3

LEMMA HandlerSpeaks ==
    ASSUME NEW c \in Conn, c.state = "CONNECTED", NEW f \in DialogueFns,
           Listed(c.handlers, f), NEW s \in Stanza, NEW env, Tried(c),
           f \in FeatureFns => \A g \in SaslFns : ~Listed(c.handlers, g)
    PROVE  LET d == CallHandler(f, c, s, env)
           IN \/ ~Going(d) \/ Speaks(c, d, f, KeepsHandler(f, s, env))
              \/ f = "_handle_proceedtls_default" /\ s.name # "proceed" /\ d = c
<1>1. CASE f = "_handle_features"
  <2>1. f \in FeatureFns /\ KeepsHandler(f, s, env) = FALSE
    BY <1>1 DEF FeatureFns, KeepsHandler
  <2> QED BY <1>1, <2>1, FeaturesSpeak DEF CallHandler
<1>2. CASE f = "_handle_features_sasl"
  <2>1. KeepsHandler(f, s, env) = FALSE BY <1>2 DEF KeepsHandler
  <2> QED BY <1>2, <2>1, FeaturesSaslSpeak DEF CallHandler
<1>3. CASE f = "_handle_proceedtls_default"
  <2>1. KeepsHandler(f, s, env) = FALSE BY <1>3 DEF KeepsHandler
  <2> QED BY <1>3, <2>1, ProceedTlsSpeaks DEF CallHandler
<1>4. CASE f = "_handle_sasl_result"
  <2>1. f \in SaslFns /\ KeepsHandler(f, s, env) = FALSE BY <1>4 DEF SaslFns, KeepsHandler
  <2> QED BY <1>4, <2>1, SaslResultSpeaks DEF CallHandler
<1>5. CASE f = "_handle_digestmd5_challenge"
  <2>1. KeepsHandler(f, s, env) = FALSE BY <1>5 DEF KeepsHandler
  <2> QED BY <1>5, <2>1, DigestSpeaks DEF CallHandler
<1>6. CASE f = "_handle_digestmd5_rspauth" BY <1>6, DigestSpeaks DEF CallHandler
<1> QED BY <1>1, <1>2, <1>3, <1>4, <1>5, <1>6 DEF DialogueFns, Exchanges, SaslFns, FeatureFns
-----------------------------------------------------------------------------
(* A handler in the list is called. *)

\* e is what is left of d when f is unlinked, unless it is kept.
Drops(d, e, f, keeps) ==
    /\ e.state = d.state /\ e.attempts = d.attempts /\ e.peer = d.peer /\ e.ups = d.ups
    /\ e.jid = d.jid /\ e.facts = d.facts /\ e.secured = d.secured
    /\ e.id_handlers = d.id_handlers /\ e.send_queue = d.send_queue
    /\ e.sasl_support = d.sasl_support /\ e.timed_handlers = d.timed_handlers
    /\ \A g : Listed(e.handlers, g) <=> Listed(d.handlers, g) /\ (g = f => keeps)

LEMMA DropHandlerDrops ==
    ASSUME NEW d \in Conn, Single(d.handlers), NEW f
    PROVE  /\ Drops(d, DropHandler(d, f), f, FALSE)
           /\ DropHandler(d, f).handlers = Without(d.handlers, f)
<1> DEFINE new == Without(d.handlers, f)
           e == [d EXCEPT !.handlers = new]
<1>1. d.handlers \in Seq(HandlerItem) BY DEF Conn
<1>2. /\ ~Listed(new, f)
      /\ \A g : Listed(new, g) => Listed(d.handlers, g)
      /\ \A g : g # f /\ Listed(d.handlers, g) => Listed(new, g)
  BY <1>1, WithoutIs, WithoutOnly
<1>3. DropHandler(d, f) = e BY DEF DropHandler
<1> HIDE DEF new
<1>4. /\ e.state = d.state /\ e.attempts = d.attempts /\ e.peer = d.peer /\ e.ups = d.ups
      /\ e.jid = d.jid /\ e.facts = d.facts /\ e.secured = d.secured
      /\ e.id_handlers = d.id_handlers /\ e.send_queue = d.send_queue
      /\ e.sasl_support = d.sasl_support /\ e.timed_handlers = d.timed_handlers
      /\ e.handlers = new
  BY DEF Conn
<1> HIDE DEF e
<1> QED BY <1>2, <1>3, <1>4 DEF Drops, new

LEMMA SpeaksHeld ==
    ASSUME NEW c \in Conn, Held(c), Clear(c), NEW f, NEW keeps, NEW d, Speaks(c, d, f, keeps),
           NEW e, Drops(d, e, f, keeps), f \in FeatureFns => "features" \notin c.peer.owed
    PROVE  Held(e) /\ Busy(e)
<1>1. PICK N, q :
        /\ Does(c, d, N, Append(c.send_queue, q)) /\ q \in Items \ {"user", "close"}
        /\ Tried(d)
        /\ q \in SaslItems =>
              \E g \in SaslFns : Listed(d.handlers, g) /\ (g = f => keeps)
        /\ q = "starttls" =>
              /\ f # "_handle_proceedtls_default"
              /\ Listed(d.handlers, "_handle_proceedtls_default")
        /\ q = "bind"     => "_handle_bind" \in d.id_handlers
        /\ q = "session"  => "_handle_session" \in d.id_handlers
        /\ q = "legacy"   => "_handle_legacy" \in d.id_handlers
  BY DEF Speaks
<1> DEFINE A == Asks(c)
           l == c.send_queue
           r == Append(l, q)
<1>2. Late(e) <=> Late(c) BY <1>1 DEF Does, Drops, Late
<1>3. Asks(e) = A BY <1>2, SameAsks
<1>4. e.send_queue = r /\ e.peer = c.peer BY <1>1 DEF Does, Drops
<1>5. /\ DOMAIN r = DOMAIN l \cup {Len(l) + 1} /\ r[Len(l) + 1] = q
      /\ \A i \in DOMAIN l : r[i] = l[i]
  <2>1. l \in Seq(Items) /\ q \in Items BY <1>1 DEF Conn
  <2>2. DOMAIN l = 1 .. Len(l) /\ Len(l) \in Nat BY <2>1
  <2>3. /\ DOMAIN r = 1 .. Len(l) + 1 /\ r[Len(l) + 1] = q
        /\ \A i \in 1 .. Len(l) : r[i] = l[i]
    BY <2>1, AppendProperties
  <2> HIDE DEF l, r
  <2> QED BY <2>2, <2>3
<1> HIDE DEF A, r
<1>6. /\ \A i \in DOMAIN l : l[i] \notin A
      /\ c.peer.owed \cap A = {}
  BY DEF Clear, Asked, A
<1>7. \A i \in DOMAIN r : r[i] \in A => i = Len(l) + 1 BY <1>5, <1>6
<1>8. q \in Asked(e) BY <1>4, <1>5 DEF Asked
<1>9. \A x \in Asked(e) : x \in A => x = q BY <1>4, <1>5, <1>6 DEF Asked
<1>10. Answered(e)
  <2>1. Taken(e, q) BY <1>1 DEF Taken, Drops
  <2> QED BY <1>3, <1>9, <2>1 DEF Answered
<1>11. Once(e) BY <1>3, <1>4, <1>6, <1>7 DEF Once
<1>12. Tried(e) BY <1>1 DEF Tried, Drops
<1>13. Expects(e)
  <2> SUFFICES ASSUME "features" \in e.peer.owed, e.peer.phase = "open"
               PROVE  \E g \in FeatureFns : Listed(e.handlers, g)
    BY DEF Expects
  <2>1. PICK g \in FeatureFns : Listed(c.handlers, g) BY <1>4 DEF Held, Expects
  <2>2. g # f BY <1>4
  <2>3. Listed(d.handlers, g) BY <1>1, <2>1 DEF Does, Grows, Listed
  <2> QED BY <2>2, <2>3 DEF Drops
<1>14. Fallback(e) BY <1>1, <1>2 DEF Held, Fallback, Does, Drops, Armed
<1>15. Busy(e) BY <1>1, <1>8 DEF Busy
<1> QED BY <1>10, <1>11, <1>12, <1>13, <1>14, <1>15 DEF Held

\* Whom the loop has still to come to, when the one at position k has been called.
LEMMA CalledDue ==
    ASSUME NEW c \in Conn, Single(c.handlers), NEW k \in DOMAIN c.handlers,
           NEW d \in Conn, Single(d.handlers), Grows(c.handlers, d.handlers),
           NEW keeps \in BOOLEAN, NEW e, NEW next,
           e.handlers = (IF keeps THEN d.handlers
                                  ELSE Without(d.handlers, c.handlers[k].fn)),
           next = (IF keeps THEN k + 1 ELSE k), NEW g
    PROVE  Due(e, next, g) <=> g # c.handlers[k].fn /\ Due(c, k, g)
<1> DEFINE a == c.handlers
           b == d.handlers
           f == a[k].fn
           w == Without(b, f)
<1>1. /\ a \in Seq(HandlerItem) /\ b \in Seq(HandlerItem)
  BY DEF Conn
<1>2. /\ DOMAIN a = 1 .. Len(a) /\ Len(a) \in Nat /\ DOMAIN b = 1 .. Len(b) /\ Len(b) \in Nat
      /\ k \in 1 .. Len(a) /\ k \in DOMAIN b /\ b[k] = a[k]
  BY <1>1 DEF Grows
<1>3. \A i \in DOMAIN a : a[i].fn = f => i = k BY DEF Single
<1>4. /\ \A i \in DOMAIN a : i \in DOMAIN b /\ b[i] = a[i]
      /\ \A i \in DOMAIN b : b[i].enabled => i \in DOMAIN a
  BY DEF Grows
<1>5. /\ \A i \in DOMAIN w : w[i] = IF i < k THEN b[i] ELSE b[i + 1]
      /\ DOMAIN w = 1 .. Len(b) - 1
  <2>1. b[k].fn = f BY <1>2
  <2>2. \A i \in DOMAIN w : w[i] = IF i < k THEN b[i] ELSE b[i + 1]
    BY <1>1, <1>2, <2>1, WithoutAt
  <2>3. Listed(b, f) BY <1>2, <2>1 DEF Listed
  <2>4. w = Unlink(b, CHOOSE i \in DOMAIN b : b[i].fn = f) BY <2>3 DEF Without
  <2>5. DOMAIN w = 1 .. Len(b) - 1 BY <2>4 DEF Unlink
  <2> QED BY <2>2, <2>5
<1>6. e.handlers = IF keeps THEN b ELSE w OBVIOUS
<1> HIDE DEF a, b, w
<1>7. ASSUME Due(e, next, g) PROVE g # f /\ Due(c, k, g)
  <2>1. PICK i \in DOMAIN e.handlers :
           i >= next /\ e.handlers[i].fn = g /\ e.handlers[i].enabled
    BY <1>7 DEF Due
  <2>2. CASE keeps
    <3>1. i \in DOMAIN b /\ i >= k + 1 /\ b[i].fn = g /\ b[i].enabled BY <1>6, <2>1, <2>2
    <3>2. i \in DOMAIN a /\ a[i] = b[i] /\ i >= k /\ i # k BY <1>2, <1>4, <3>1
    <3>3. g # f BY <1>3, <3>1, <3>2
    <3> QED BY <3>1, <3>2, <3>3 DEF Due, a
  <2>3. CASE ~keeps
    <3>1. i \in DOMAIN w /\ i >= k /\ w[i].fn = g /\ w[i].enabled BY <1>6, <2>1, <2>3
    <3>2. w[i] = b[i + 1] /\ i + 1 \in DOMAIN b /\ i + 1 >= k /\ i + 1 # k
      BY <1>2, <1>5, <3>1
    <3>3. i + 1 \in DOMAIN a /\ a[i + 1] = b[i + 1] BY <1>4, <3>1, <3>2
    <3>4. g # f BY <1>3, <3>1, <3>2, <3>3
    <3> QED BY <3>1, <3>2, <3>3, <3>4 DEF Due, a
  <2> QED BY <2>2, <2>3
<1>8. ASSUME g # f, Due(c, k, g) PROVE Due(e, next, g)
  <2>1. PICK i \in DOMAIN a : i >= k /\ a[i].fn = g /\ a[i].enabled
    BY <1>8 DEF Due, a
  <2>2. i # k /\ i \in DOMAIN b /\ b[i] = a[i] BY <1>4, <1>8, <2>1
  <2>3. CASE keeps
    <3>1. i >= k + 1 BY <1>2, <2>1, <2>2
    <3> QED BY <1>6, <2>1, <2>2, <2>3, <3>1 DEF Due
  <2>4. CASE ~keeps
    <3>1. i - 1 \in DOMAIN w /\ i - 1 >= k /\ ~(i - 1 < k) /\ (i - 1) + 1 = i
      BY <1>2, <1>5, <2>1, <2>2
    <3>2. w[i - 1] = b[i] BY <1>5, <3>1
    <3> QED BY <1>6, <2>1, <2>2, <2>4, <3>1, <3>2 DEF Due
  <2> QED BY <2>3, <2>4
<1> QED BY <1>7, <1>8 DEF a

\* The handler that is called is the only one of the dialogue.
LEMMA Alone ==
    ASSUME NEW c \in Conn, Exclusive(Tokens(c)), NEW f \in DialogueFns, Listed(c.handlers, f)
    PROVE  /\ \A g \in DialogueFns : Listed(c.handlers, g) => g = f
           /\ ~Late(c) => c.id_handlers = {} /\ ~(c.ups > 0)
           /\ f \in Exchanges => "features" \notin c.peer.owed
<1>1. f \in Tokens(c) /\ f # "features" BY TokensAre DEF DialogueFns, Exchanges, SaslFns, FeatureFns
<1>2. ASSUME NEW t \in Tokens(c), t # "features" PROVE t = f
  BY <1>1, <1>2 DEF Exclusive, Beside
<1>3. /\ {"features", "up"} \cap DialogueFns = {} /\ IdFns \cap DialogueFns = {}
      /\ "features" \notin IdFns
  BY DEF DialogueFns, Exchanges, SaslFns, FeatureFns, IdFns
<1>4. ASSUME NEW g \in DialogueFns, Listed(c.handlers, g) PROVE g = f
  <2>1. g \in Tokens(c) BY <1>4, TokensAre
  <2> QED BY <1>2, <1>3, <1>4, <2>1
<1>5. ASSUME ~Late(c) PROVE c.id_handlers = {} /\ ~(c.ups > 0)
  <2>1. ASSUME NEW t \in c.id_handlers PROVE FALSE
    <3>1. t \in IdFns BY <2>1 DEF Conn
    <3>2. t \in Tokens(c) BY <1>5, <2>1, TokensAre
    <3> QED BY <1>2, <1>3, <3>1, <3>2
  <2>2. ASSUME c.ups > 0 PROVE FALSE
    <3>1. "up" \in Tokens(c) BY <1>5, <2>2, TokensAre
    <3> QED BY <1>2, <1>3, <3>1
  <2> QED BY <2>1, <2>2
<1>6. ASSUME f \in Exchanges PROVE "features" \notin c.peer.owed
  <2>1. f \notin FeatureFns \cup {"header"} BY <1>6 DEF Exchanges, SaslFns, FeatureFns
  <2>2. "features" \in c.peer.owed => "features" \in Tokens(c) BY TokensAre
  <2> QED BY <1>1, <2>1, <2>2 DEF Exclusive, Beside
<1> QED BY <1>4, <1>5, <1>6

\* When it is one that takes no answer to a request, none is open.
LEMMA AloneClear ==
    ASSUME NEW c \in Conn, Exclusive(Tokens(c)), Answered(c), NEW f \in DialogueFns,
           Listed(c.handlers, f),
           f \in FeatureFns \/ (f = "_handle_proceedtls_default" /\ ~Accepts)
    PROVE  Clear(c)
<1> SUFFICES ASSUME NEW x \in Asked(c), x \in Asks(c) PROVE FALSE BY DEF Clear
<1>1. Taken(c, x) BY DEF Answered
<1>2. /\ \A g \in DialogueFns : Listed(c.handlers, g) => g = f
      /\ ~Late(c) => c.id_handlers = {}
  BY Alone
<1>3. f \notin SaslFns /\ SaslFns \subseteq DialogueFns
  BY DEF SaslFns, FeatureFns, DialogueFns, Exchanges
<1>4. x \notin SaslItems BY <1>1, <1>2, <1>3 DEF Taken
<1>5. Accepts BY <1>4 DEF Asks
<1>6. x # "starttls"
  <2> SUFFICES ASSUME x = "starttls" PROVE FALSE OBVIOUS
  <2>1. Listed(c.handlers, "_handle_proceedtls_default") BY <1>1 DEF Taken
  <2>2. "_handle_proceedtls_default" \in DialogueFns \ FeatureFns
    BY DEF DialogueFns, Exchanges, FeatureFns
  <2> QED BY <1>2, <1>5, <2>1, <2>2
<1>7. x \in IdItems /\ ~Late(c) BY <1>4, <1>6 DEF Asks
<1> QED BY <1>1, <1>2, <1>7 DEF Taken, IdItems

\* The others leave the dialogue alone.
LEMMA OtherMild ==
    ASSUME NEW c \in Conn, NEW f \in HandlerFns \ DialogueFns, NEW s, NEW env
    PROVE  Mild(c, CallHandler(f, c, s, env))
<1>1. f \in {"_handle_error", "user_stanza"}
  BY DEF HandlerFns, DialogueFns, Exchanges, SaslFns, FeatureFns
<1>2. CASE f = "_handle_error"
  <2>1. CallHandler(f, c, s, env) = [c EXCEPT !.stream_error = TRUE]
    BY <1>2 DEF CallHandler
  <2> QED BY <2>1 DEF Conn, Mild, Armed
<1>3. CASE f = "user_stanza"
  <2>1. CallHandler(f, c, s, env) = CallUser(c) BY <1>3 DEF CallHandler
  <2> QED BY <2>1 DEF CallUser, Conn, Mild, Armed
<1> QED BY <1>1, <1>2, <1>3

\* A call keeps what is going on going, or ends it.
LEMMA CallStarted ==
    ASSUME Inv, Fits, Dialogue, pc = "stanza", NEW f \in HandlerFns, Listed(conn.handlers, f),
           NEW env, Going(CallHandler(f, conn, stanza, env))
    PROVE  Going(conn)
<1> DEFINE d == CallHandler(f, conn, stanza, env)
<1>1. Able(conn) /\ Sound(conn) /\ stanza \in Stanza BY Now DEF Inv, Fits, Sound
<1>2. stanza.name = "success" => Earns(conn, "_handle_open_sasl") BY DEF Fits
<1>3. d.state = conn.state /\ d.attempts = conn.attempts /\ conn.facts \subseteq d.facts
  BY <1>1, <1>2, CallHandlerSound DEF Quiet, Follows
<1>4. conn.secured => d.secured
  <2>1. f \in DialogueFns => Goes(conn, d, f, stanza, env) BY <1>1, CallHandlerTurn
  <2>2. f \notin DialogueFns => Keeps(conn, d) BY <1>1, CallHandlerTurn
  <2> HIDE DEF d
  <2> QED BY <2>1, <2>2 DEF Goes, Keeps, SameStream
<1> HIDE DEF d
<1> QED BY <1>3, <1>4 DEF Going, Straight, Late, d

LEMMA CallOneWaits ==
    ASSUME Inv, Fits, Dialogue, Waiting, CallOne
    PROVE  Waiting'
<1> DEFINE h == conn.handlers[at]
           f == h.fn
<1>1. /\ conn \in Conn /\ Able(conn) /\ Single(conn.handlers) /\ Sane(conn)
      /\ pc = "stanza" /\ pc' = "stanza" /\ stanza' = stanza
      /\ stanza \in Stanza /\ at \in Nat \ {0}
  BY Now DEF CallOne, Able
<1>2. at <= Len(conn.handlers) /\ h.enabled /\ Matches(f, stanza) BY DEF CallOne
<1>3. PICK env \in Choices :
        LET called == CallHandler(f, conn, stanza, env)
        IN IF KeepsHandler(f, stanza, env)
           THEN conn' = called /\ at' = at + 1
           ELSE conn' = DropHandler(called, f) /\ at' = at
  BY DEF CallOne
<1> DEFINE called == CallHandler(f, conn, stanza, env)
           keeps == KeepsHandler(f, stanza, env)
<1>4. at \in DOMAIN conn.handlers /\ h \in HandlerItem
  <2>1. conn.handlers \in Seq(HandlerItem) BY <1>1 DEF Conn
  <2>2. at \in DOMAIN conn.handlers BY <1>1, <1>2, <2>1
  <2> QED BY <2>1, <2>2
<1>5. f \in HandlerFns /\ Listed(conn.handlers, f) /\ Due(conn, at, f)
  BY <1>1, <1>2, <1>4 DEF HandlerItem, Listed, Due
<1>6. Able(called)
  <2>1. f \in DialogueFns => Goes(conn, called, f, stanza, env) BY <1>1, <1>5, CallHandlerTurn
  <2>2. f \notin DialogueFns => Turn(conn, called, {}, {}) BY <1>1, <1>5, CallHandlerTurn
  <2> HIDE DEF called
  <2> QED BY <2>1, <2>2 DEF Goes, Turn
<1>7. called \in Conn /\ Single(called.handlers)
  <2> HIDE DEF called
  <2> QED BY <1>6 DEF Able, Good
<1>8. keeps \in BOOLEAN
  <2>1. env \in Env BY ChoicesAssumption
  <2>2. env.keep \in BOOLEAN /\ env.memory \in BOOLEAN BY <2>1 DEF Env
  <2> HIDE DEF f
  <2> QED BY <2>2 DEF KeepsHandler
<1>9. /\ IF keeps THEN conn' = called /\ at' = at + 1
                  ELSE conn' = DropHandler(called, f) /\ at' = at
  BY <1>3
<1>10. CallHandler(f, conn, stanza, env) = called /\ KeepsHandler(f, stanza, env) = keeps
  OBVIOUS
<1>11. conn.handlers[at].fn = f OBVIOUS
<1> HIDE DEF called, keeps, h, f
<1>12. /\ Drops(called, conn', f, keeps)
       /\ conn'.handlers = IF keeps THEN called.handlers ELSE Without(called.handlers, f)
       /\ at' = IF keeps THEN at + 1 ELSE at
  <2>1. CASE keeps
    <3>1. Drops(called, called, f, TRUE) BY DEF Drops
    <3>2. keeps = TRUE BY <1>8, <2>1
    <3> QED BY <1>9, <3>1, <3>2
  <2>2. CASE ~keeps
    <3>1. keeps = FALSE BY <1>8, <2>2
    <3> QED BY <1>7, <1>9, <3>1, DropHandlerDrops
  <2> QED BY <2>1, <2>2
<1> SUFFICES ASSUME Going(conn')
             PROVE  /\ Held(conn') /\ ToFit(conn', at', stanza')
                    /\ Accepts => \/ conn'.ups > 0 \/ Late(conn') \/ Busy(conn')
                                  \/ ToCall(conn', at', stanza')
  BY <1>1 DEF Waiting
<1>13. Going(called) BY <1>12 DEF Drops, Going, Straight, Late
<1>14. Going(conn) BY <1>1, <1>5, <1>10, <1>13, CallStarted
<1>15. /\ Held(conn) /\ ToFit(conn, at, stanza)
       /\ Accepts => \/ conn.ups > 0 \/ Late(conn) \/ Busy(conn) \/ ToCall(conn, at, stanza)
  BY <1>1, <1>14 DEF Waiting
<1>16. Grows(conn.handlers, called.handlers) =>
          \A g : Due(conn', at', g) <=> g # f /\ Due(conn, at, g)
  <2> SUFFICES ASSUME Grows(conn.handlers, called.handlers), NEW g
               PROVE  Due(conn', at', g) <=> g # f /\ Due(conn, at, g)
    OBVIOUS
  <2> QED BY <1>1, <1>4, <1>7, <1>8, <1>11, <1>12, CalledDue
<1>17. CASE f \notin DialogueFns
  <2>1. called.handlers = conn.handlers BY <1>1, <1>5, <1>10, <1>17, OtherHandlers
  <2>2. \A g : Due(conn', at', g) <=> g # f /\ Due(conn, at, g)
    BY <1>16, <2>1 DEF Grows
  <2>3. Mild(conn, called) BY <1>1, <1>5, <1>10, <1>17, OtherMild
  <2>4. Mild(conn, conn') BY <1>12, <1>17, <2>3 DEF Mild, Drops, Armed
  <2>5. /\ Held(conn') /\ (Clear(conn) => Clear(conn')) /\ (Late(conn') <=> Late(conn))
        /\ Busy(conn) => Busy(conn')
    BY <1>1, <1>15, <2>4, MildHeld
  <2>6. conn'.ups = conn.ups BY <2>4 DEF Mild
  <2>7. ToFit(conn', at', stanza') BY <1>1, <1>15, <2>2, <2>5 DEF ToFit, Fitting
  <2>8. ToCall(conn, at, stanza) => ToCall(conn', at', stanza')
    BY <1>1, <1>17, <2>2 DEF ToCall
  <2> QED BY <1>15, <2>5, <2>6, <2>7, <2>8
<1>18. CASE f \in DialogueFns
  <2>1. conn.state = "CONNECTED" /\ conn.attempts <= 1 /\ Straight(conn) BY <1>14 DEF Going
  <2>2. Exclusive(Tokens(conn)) /\ Settled(conn, stanza)
    BY <1>1, <2>1 DEF Sane, OneAtATime, Dialogue, Heard
  <2>3. \A g \in DialogueFns : Listed(conn.handlers, g) => g = f
    BY <1>1, <1>5, <1>18, <2>2, Alone
  <2>4. f \in FeatureFns =>
           (\A g \in SaslFns : ~Listed(conn.handlers, g)) /\ "features" \notin conn.peer.owed
    <3> SUFFICES ASSUME f \in FeatureFns
                 PROVE  /\ \A g \in SaslFns : ~Listed(conn.handlers, g)
                        /\ "features" \notin conn.peer.owed
      OBVIOUS
    <3>1. SaslFns \subseteq DialogueFns /\ SaslFns \cap FeatureFns = {}
      BY DEF DialogueFns, Exchanges, SaslFns, FeatureFns
    <3>2. stanza.name = "stream:features" BY <1>2 DEF Matches, FeatureFns
    <3>3. "features" \notin Tokens(conn) BY <2>1, <2>2, <3>2 DEF Settled
    <3> QED BY <1>1, <2>3, <3>1, <3>3, HeaderOutIs
  <2>5. f \in Exchanges => Fitting(conn, f, stanza) BY <1>2, <1>5, <1>15 DEF ToFit
  <2>6. Clear(conn)
    <3>1. CASE f \in FeatureFns
      BY <1>1, <1>5, <1>15, <1>18, <2>2, <3>1, AloneClear DEF Held
    <3>2. CASE f \in SaslFns
      <4>1. stanza.name \in {"success", "failure", "challenge"}
        <5> SUFFICES ASSUME stanza.name \notin {"success", "failure", "challenge"} PROVE FALSE
          OBVIOUS
        <5>1. called = XmppDisconnect(conn)
          BY <1>10, <3>2 DEF SaslFns, CallHandler, _handle_sasl_result,
                             _handle_digestmd5_challenge, _handle_digestmd5_rspauth
        <5> QED BY <1>1, <1>13, <5>1, DisconnectGone
      <4>2. f \in Exchanges BY <3>2 DEF Exchanges
      <4> QED BY <2>5, <3>2, <4>1, <4>2 DEF Fitting
    <3>3. CASE f = "_handle_proceedtls_default"
      <4>1. f \in Exchanges BY <3>3 DEF Exchanges
      <4>2. CASE Accepts BY <2>5, <3>3, <4>1, <4>2 DEF Fitting
      <4>3. CASE ~Accepts
        BY <1>1, <1>5, <1>15, <1>18, <2>2, <3>3, <4>3, AloneClear DEF Held
      <4> QED BY <4>2, <4>3
    <3> QED BY <1>18, <3>1, <3>2, <3>3 DEF DialogueFns, Exchanges
  <2>7. \/ Speaks(conn, called, f, keeps)
        \/ f = "_handle_proceedtls_default" /\ stanza.name # "proceed" /\ called = conn
    BY <1>1, <1>5, <1>10, <1>13, <1>15, <1>18, <2>1, <2>4, HandlerSpeaks DEF Held
  <2>8. Grows(conn.handlers, called.handlers) BY <2>7 DEF Speaks, Does, Grows
  <2>9. \A g : Due(conn', at', g) <=> g # f /\ Due(conn, at, g) BY <1>16, <2>8
  <2>10. ToFit(conn', at', stanza')
    <3>1. \A g \in Exchanges : ~Due(conn', at', g)
      <4> SUFFICES ASSUME NEW g \in Exchanges, Due(conn', at', g) PROVE FALSE OBVIOUS
      <4>1. g # f /\ Listed(conn.handlers, g) BY <2>9 DEF Due, Listed
      <4> QED BY <2>3, <4>1 DEF DialogueFns
    <3> QED BY <1>1, <1>15, <3>1 DEF ToFit
  <2>11. CASE Speaks(conn, called, f, keeps)
    <3>1. Drops(called, conn', f, keeps) BY <1>12
    <3>2. f \in FeatureFns => "features" \notin conn.peer.owed BY <2>4
    <3>3. Held(conn') /\ Busy(conn') BY <1>1, <1>15, <2>6, <2>11, <3>1, <3>2, SpeaksHeld
    <3> QED BY <2>10, <3>3
  <2>12. CASE f = "_handle_proceedtls_default" /\ stanza.name # "proceed" /\ called = conn
    <3>1. f \in Exchanges \ (SaslFns \cup FeatureFns)
      BY <2>12 DEF Exchanges, SaslFns, FeatureFns
    <3>2. ~Accepts
      <4>1. stanza \in Incoming /\ stanza.name # "stream:features"
        BY <1>15, <2>5, <3>1 DEF ToFit, Fitting
      <4>2. stanza.name \in TlsNames \/ "starttls" \in stanza.offers BY <1>2, <2>12 DEF Matches
      <4> QED BY <2>12, <4>1, <4>2 DEF Accepts, TlsNames
    <3>3. /\ conn'.peer = conn.peer /\ conn'.send_queue = conn.send_queue
          /\ conn'.jid = conn.jid /\ conn'.sasl_support = conn.sasl_support
          /\ conn'.timed_handlers = conn.timed_handlers /\ conn'.ups = conn.ups
          /\ Late(conn') <=> Late(conn)
          /\ \A g : g # f => (Listed(conn'.handlers, g) <=> Listed(conn.handlers, g))
      BY <1>12, <2>12 DEF Drops, Late
    <3>4. Asks(conn') = Asks(conn) BY <3>3, SameAsks
    <3>5. Asked(conn') = Asked(conn) BY <3>3 DEF Asked
    <3>6. Clear(conn') BY <2>6, <3>4, <3>5 DEF Clear
    <3>7. Answered(conn') /\ Once(conn')
      BY <1>15, <3>3, <3>4, <3>6 DEF Clear, Answered, Held, Once
    <3>8. Tried(conn') /\ Expects(conn') /\ Fallback(conn')
      BY <1>15, <3>1, <3>3 DEF Held, Tried, Expects, Fallback, Armed
    <3> QED BY <2>10, <3>2, <3>7, <3>8 DEF Held
  <2> QED BY <2>7, <2>11, <2>12
<1> QED BY <1>17, <1>18

LEMMA SkipHandlerWaits ==
    ASSUME Inv, Fits, Dialogue, Waiting, SkipHandler \/ EndStanza
    PROVE  Waiting'
<1>1. /\ conn \in Conn /\ at \in Nat \ {0} /\ pc = "stanza" /\ conn' = conn
      /\ conn.handlers \in Seq(HandlerItem)
  BY Now DEF SkipHandler, EndStanza, Conn
<1>2. DOMAIN conn.handlers = 1 .. Len(conn.handlers) /\ Len(conn.handlers) \in Nat BY <1>1
<1>3. \A g : Due(conn', at', g) <=> Due(conn, at', g) BY <1>1
<1> SUFFICES ASSUME Going(conn)
             PROVE  /\ pc' = "stanza" => ToFit(conn', at', stanza')
                    /\ ToCall(conn, at, stanza) =>
                          pc' = "stanza" /\ ToCall(conn', at', stanza')
  BY <1>1 DEF Waiting
<1>4. CASE SkipHandler
  <2>1. pc' = pc /\ at' = at + 1 /\ stanza' = stanza BY <1>4 DEF SkipHandler
  <2>2. \A g : Due(conn, at', g) => Due(conn, at, g) BY <1>1, <1>2, <2>1 DEF Due
  <2>3. ASSUME NEW g \in DialogueFns, Due(conn, at, g), Matches(g, stanza)
        PROVE  Due(conn, at', g)
    <3>1. PICK i \in DOMAIN conn.handlers :
             i >= at /\ conn.handlers[i].fn = g /\ conn.handlers[i].enabled
      BY <2>3 DEF Due
    <3>2. g \notin UserFns BY DEF DialogueFns, Exchanges, SaslFns, FeatureFns, UserFns
    <3>3. i # at BY <1>4, <2>3, <3>1, <3>2 DEF SkipHandler
    <3>4. i >= at' BY <1>1, <1>2, <2>1, <3>1, <3>3
    <3> QED BY <3>1, <3>4 DEF Due
  <2>4. ToFit(conn, at, stanza) BY <1>1 DEF Waiting
  <2>5. ToFit(conn', at', stanza') BY <1>1, <1>3, <2>1, <2>2, <2>4 DEF ToFit
  <2>6. ToCall(conn, at, stanza) => ToCall(conn', at', stanza')
    BY <1>1, <1>3, <2>1, <2>3 DEF ToCall
  <2> QED BY <1>1, <2>1, <2>5, <2>6
<1>5. CASE EndStanza
  <2>1. pc' = "chunk" /\ at > Len(conn.handlers) BY <1>5 DEF EndStanza
  <2>2. \A g : ~Due(conn, at, g) BY <1>1, <1>2, <2>1 DEF Due
  <2> QED BY <2>1, <2>2 DEF ToCall
<1> QED BY <1>4, <1>5
-----------------------------------------------------------------------------
(* A stanza arrives. *)

LEMMA AnswersAre ==
    ASSUME NEW s \in Stanza
    PROVE  \/ s.name = "stream:features" /\ Answers(s) = {"features"}
           \/ s.name \in TlsNames /\ Answers(s) = {"starttls"}
           \/ /\ s.name \in {"success", "failure", "challenge"}
              /\ Answers(s) \subseteq SaslItems /\ Answers(s) # {}
           \/ /\ s.name \notin {"stream:features", "success", "failure", "challenge"} \cup TlsNames
              /\ \/ s.id = "_handle_bind" /\ Answers(s) = {"bind"}
                 \/ s.id = "_handle_session" /\ Answers(s) = {"session"}
                 \/ s.id = "_handle_legacy" /\ Answers(s) = {"legacy"}
                 \/ s.id = "none" /\ Answers(s) = {}
<1>1. s.id \in {"none", "_handle_bind", "_handle_session", "_handle_legacy"}
  BY DEF Stanza, IdFns
<1>2. CASE s.name = "stream:features" BY <1>2 DEF Answers, TlsNames
<1>3. CASE s.name \in TlsNames BY <1>3 DEF Answers, TlsNames
<1>4. CASE s.name \in {"success", "failure", "challenge"}
  BY <1>4 DEF Answers, TlsNames, SaslItems, Mechanisms
<1>5. CASE s.name \notin {"stream:features", "success", "failure", "challenge"} \cup TlsNames
  BY <1>1, <1>5 DEF Answers
<1> QED BY <1>2, <1>3, <1>4, <1>5

\* It answers a request; its handler has not been called yet.
LEMMA ReadHeld ==
    ASSUME NEW c \in Conn, NEW d, NEW A,
           d.state = c.state, d.attempts = c.attempts, d.ups = c.ups, d.jid = c.jid,
           d.handlers = c.handlers, d.id_handlers = c.id_handlers,
           d.send_queue = c.send_queue, d.timed_handlers = c.timed_handlers,
           d.sasl_support = c.sasl_support, d.secured = c.secured,
           d.peer.owed = c.peer.owed \ A, d.peer.phase \in {c.peer.phase, "restart"},
           "closing" \in d.facts <=> "closing" \in c.facts, Late(d) <=> Late(c)
    PROVE  /\ Going(d) <=> Going(c)
           /\ Asks(d) = Asks(c)
           /\ Held(c) => Held(d)
           /\ Held(c) /\ A \cap c.peer.owed \cap Asks(c) # {} => Clear(d)
           /\ Busy(c) => Busy(d) \/ A \cap c.peer.owed # {}
<1>1. Asks(d) = Asks(c) BY SameAsks
<1> DEFINE q == c.send_queue
           O == c.peer.owed
           B == Asks(c)
<1>2. /\ Asked(c) = {q[i] : i \in DOMAIN q} \cup O
      /\ Asked(d) = {q[i] : i \in DOMAIN q} \cup (O \ A)
  BY DEF Asked
<1>3. Going(d) <=> Going(c) BY DEF Going, Straight
<1>4. Held(c) => Held(d)
  <2> SUFFICES ASSUME Held(c) PROVE Held(d) OBVIOUS
  <2>1. Answered(d)
    <3> SUFFICES ASSUME NEW x \in Asked(d) \cap Asks(d) PROVE Taken(d, x) BY DEF Answered
    <3>1. x \in Asked(c) \cap Asks(c) BY <1>1, <1>2
    <3>2. Taken(c, x) BY <3>1 DEF Held, Answered
    <3> QED BY <3>2 DEF Taken
  <2>2. Once(d) BY <1>1 DEF Held, Once
  <2>3. Tried(d) /\ Expects(d) /\ Fallback(d)
    BY DEF Held, Tried, Expects, Fallback, Armed
  <2> QED BY <2>1, <2>2, <2>3 DEF Held
<1>5. Held(c) /\ A \cap O \cap B # {} => Clear(d)
  <2> SUFFICES ASSUME Held(c), NEW x \in A \cap O \cap B PROVE Clear(d) OBVIOUS
  <2>1. /\ \A i \in DOMAIN q : q[i] \notin B
        /\ \A y \in O \cap B : y = x
    BY DEF Held, Once
  <2> HIDE DEF q, O, B
  <2>2. Asked(d) \cap B = {} BY <1>2, <2>1
  <2> QED BY <1>1, <2>2 DEF Clear, B
<1>6. Busy(c) => Busy(d) \/ A \cap O # {}
  <2> HIDE DEF q, O, B
  <2> QED BY <1>2 DEF Busy, Armed
<1> QED BY <1>1, <1>3, <1>4, <1>5, <1>6

\* What a reply by id leads to: a session is asked for, or the user is told CONNECT.
Opens(c, d) ==
    /\ Sends(c, d, {}, "session", c.sasl_support)
    /\ "_handle_session" \in d.id_handlers /\ d.handlers = c.handlers

Tells(c, d) ==
    /\ d.state = c.state /\ d.attempts = c.attempts /\ d.peer = c.peer
    /\ d.jid = c.jid /\ d.facts = c.facts /\ d.secured = c.secured
    /\ d.id_handlers = c.id_handlers /\ d.handlers = c.handlers
    /\ d.send_queue = c.send_queue /\ d.sasl_support = c.sasl_support
    /\ d.ups > 0

LEMMA NotifyTells ==
    ASSUME NEW c \in Conn, NEW env
    PROVE  ~Going(NotifyConnect(c, env)) \/ Tells(c, NotifyConnect(c, env))
<1> DEFINE up == [c EXCEPT !.authenticated = TRUE, !.ups = @ + 1]
<1>1. up \in Conn /\ Tells(c, up)
  <2>1. c.ups \in Nat BY DEF Conn
  <2>2. c.ups + 1 \in Nat /\ c.ups + 1 > 0 BY <2>1
  <2>3. up.ups = c.ups + 1 BY DEF Conn
  <2> QED BY <2>2, <2>3 DEF Conn, Tells
<1>2. NotifyConnect(c, env) \in {up, XmppDisconnect(up)} BY DEF NotifyConnect
<1> HIDE DEF up
<1> QED BY <1>1, <1>2, DisconnectGone

LEMMA IdEither ==
    ASSUME NEW c \in Conn, c.state = "CONNECTED", NEW f \in IdFns, NEW s, NEW env
    PROVE  LET d == CallId(f, c, s, env)
           IN \/ ~Going(d)
              \/ f = "_handle_bind" /\ Opens(c, d)
              \/ Tells(c, d)
<1> DEFINE timer == CASE f = "_handle_bind"    -> "_handle_missing_bind"
                      [] f = "_handle_session" -> "_handle_missing_session"
                      [] f = "_handle_legacy"  -> "_handle_missing_legacy"
           h == DeleteTimed(c, timer)
           d == CallId(f, c, s, env)
           r == Request(h, "_handle_session", "_handle_missing_session", "session", env)
           n == NotifyConnect(h, env)
           x == XmppDisconnect(h)
<1>1. /\ d \in {r, n, x}
      /\ d = r /\ r # n /\ r # x => f = "_handle_bind"
  BY DEF IdFns, CallId, _handle_bind, _handle_session, _handle_legacy
<1>2. f = "_handle_bind" => timer = "_handle_missing_bind" OBVIOUS
<1>3. f = "_handle_bind" => timer # "_handle_missing_legacy" BY <1>2
<1>4. h \in Conn BY DeleteTimedType
<1> HIDE DEF timer
<1>5. /\ h.state = c.state /\ h.attempts = c.attempts /\ h.peer = c.peer
      /\ h.jid = c.jid /\ h.facts = c.facts /\ h.secured = c.secured
      /\ h.id_handlers = c.id_handlers /\ h.handlers = c.handlers
      /\ h.send_queue = c.send_queue /\ h.sasl_support = c.sasl_support
  BY DEF DeleteTimed, Conn
<1>6. timer # "_handle_missing_legacy" => Does(c, h, {}, c.send_queue)
  BY DeleteTimedDoes
<1> HIDE DEF h
<1>7. ~Going(x) BY <1>4, DisconnectGone
<1>8. ~Going(n) \/ Tells(c, n) BY <1>4, <1>5, NotifyTells DEF Tells
<1>9. f = "_handle_bind" => ~Going(r) \/ Opens(c, r)
  <2> SUFFICES ASSUME f = "_handle_bind", Going(r) PROVE Opens(c, r) OBVIOUS
  <2>1. /\ Sends(h, r, {}, "session", h.sasl_support) /\ "_handle_session" \in r.id_handlers
        /\ r.handlers = h.handlers
    BY <1>4, <1>5, RequestSends DEF IdFns, TimedFns, Items
  <2>2. Does(c, h, {}, c.send_queue) BY <1>3, <1>4, <1>6
  <2> HIDE DEF r
  <2>3. {} \cup {} = {} OBVIOUS
  <2>4. Does(c, r, {}, Append(c.send_queue, "session"))
    BY <1>5, <2>1, <2>2, <2>3, DoesTrans DEF Sends
  <2> QED BY <1>5, <2>1, <2>4 DEF Opens, Sends
<1> HIDE DEF r, n, x, d
<1>10. ~Going(d) \/ (f = "_handle_bind" /\ Opens(c, d)) \/ Tells(c, d)
  BY <1>1, <1>7, <1>8, <1>9
<1> QED BY <1>10 DEF d

\* The handler of the id is dropped.
LEMMA IdHeld ==
    ASSUME NEW c \in Conn, c.state = "CONNECTED", NEW f \in IdFns, NEW s, NEW env,
           CallId(f, c, s, env) \in Conn
    PROVE  LET e == [CallId(f, c, s, env) EXCEPT !.id_handlers = @ \ {f}]
           IN Going(e) =>
                 /\ Going(c) /\ (Late(e) <=> Late(c)) /\ e.handlers = c.handlers
                 /\ Held(c) /\ (Clear(c) \/ Asks(c) \cap IdItems = {}) =>
                       Held(e) /\ (e.ups > 0 \/ Busy(e))
                 /\ Clear(c) /\ Asks(c) \cap IdItems = {} => Clear(e)
<1> DEFINE d == CallId(f, c, s, env)
           e == [d EXCEPT !.id_handlers = @ \ {f}]
<1>1. \/ ~Going(d)
      \/ f = "_handle_bind" /\ Opens(c, d)
      \/ Tells(c, d)
  BY IdEither
<1> HIDE DEF d
<1>2. d \in Conn BY DEF d
<1>3. /\ e.state = d.state /\ e.attempts = d.attempts /\ e.peer = d.peer /\ e.ups = d.ups
      /\ e.jid = d.jid /\ e.facts = d.facts /\ e.secured = d.secured
      /\ e.handlers = d.handlers /\ e.timed_handlers = d.timed_handlers
      /\ e.send_queue = d.send_queue /\ e.sasl_support = d.sasl_support
      /\ e.id_handlers = d.id_handlers \ {f}
  BY <1>2 DEF Conn
<1> HIDE DEF e
<1> SUFFICES ASSUME Going(e)
             PROVE  /\ Going(c) /\ (Late(e) <=> Late(c)) /\ e.handlers = c.handlers
                    /\ Held(c) /\ (Clear(c) \/ Asks(c) \cap IdItems = {}) =>
                          Held(e) /\ (e.ups > 0 \/ Busy(e))
                    /\ Clear(c) /\ Asks(c) \cap IdItems = {} => Clear(e)
  BY DEF d, e
<1>4. Going(d) BY <1>3 DEF Going, Straight, Late
<1>5. /\ e.state = c.state /\ e.attempts = c.attempts /\ e.peer = c.peer /\ e.jid = c.jid
      /\ e.facts = c.facts /\ (c.secured => e.secured) /\ e.handlers = c.handlers
      /\ e.sasl_support = c.sasl_support
  BY <1>1, <1>3, <1>4 DEF Opens, Tells, Sends, Does
<1>6. Going(c) /\ (Late(e) <=> Late(c)) BY <1>5 DEF Going, Straight, Late
<1>7. Asks(e) = Asks(c) BY <1>6, SameAsks
<1>8. \/ e.send_queue = c.send_queue /\ e.ups > 0
      \/ /\ e.send_queue = Append(c.send_queue, "session")
         /\ "_handle_session" \in e.id_handlers /\ e.ups = c.ups
         /\ Armed(c, "_handle_missing_legacy") => Armed(e, "_handle_missing_legacy")
  BY <1>1, <1>3, <1>4 DEF Opens, Tells, Sends, Does, Armed
<1> DEFINE l == c.send_queue
           r == e.send_queue
           O == c.peer.owed
           A == Asks(c)
<1>9. /\ DOMAIN l \subseteq DOMAIN r
      /\ \A i \in DOMAIN l : r[i] = l[i]
      /\ \A i, j \in DOMAIN r : i \notin DOMAIN l /\ j \notin DOMAIN l => i = j
      /\ \A i \in DOMAIN r : i \in DOMAIN l \/ (r[i] = "session" /\ "_handle_session" \in e.id_handlers)
      /\ e.ups > 0 \/ \E i \in DOMAIN r : r[i] = "session"
  <2>1. l \in Seq(Items) /\ "session" \in Items BY DEF Conn, Items
  <2>2. DOMAIN l = 1 .. Len(l) /\ Len(l) \in Nat BY <2>1
  <2>3. /\ DOMAIN Append(l, "session") = 1 .. Len(l) + 1
        /\ Append(l, "session")[Len(l) + 1] = "session"
        /\ \A i \in 1 .. Len(l) : Append(l, "session")[i] = l[i]
    BY <2>1, AppendProperties
  <2>4. \/ r = l /\ e.ups > 0
        \/ r = Append(l, "session") /\ "_handle_session" \in e.id_handlers
    BY <1>8
  <2> HIDE DEF l, r
  <2>5. CASE r = l /\ e.ups > 0 BY <2>5
  <2>6. CASE r = Append(l, "session") /\ "_handle_session" \in e.id_handlers
    BY <2>2, <2>3, <2>6
  <2> QED BY <2>4, <2>5, <2>6
<1>10. /\ Asked(c) = {l[i] : i \in DOMAIN l} \cup O
       /\ Asked(e) = {r[i] : i \in DOMAIN r} \cup O
  BY <1>5 DEF Asked
<1> HIDE DEF l, r, O, A
<1>11. Asked(e) \subseteq Asked(c) \cup {"session"} BY <1>9, <1>10
<1>12. Clear(c) /\ A \cap IdItems = {} => Clear(e)
  BY <1>7, <1>11 DEF Clear, A, IdItems
<1>13. ASSUME Held(c), Clear(c) \/ A \cap IdItems = {}
       PROVE  Held(e) /\ (e.ups > 0 \/ Busy(e))
  <2>1. Answered(e)
    <3> SUFFICES ASSUME NEW y \in Asked(e) \cap Asks(e) PROVE Taken(e, y) BY DEF Answered
    <3>1. CASE y \in Asked(c)
      <4>1. Taken(c, y) /\ y \notin IdItems
        BY <1>7, <1>13, <3>1 DEF Clear, Held, Answered, A
      <4> QED BY <1>5, <4>1 DEF Taken, IdItems
    <3>2. CASE y \notin Asked(c)
      <4>1. y = "session" BY <1>11, <3>2
      <4>2. \E i \in DOMAIN r : r[i] = "session" /\ i \notin DOMAIN l
        <5>1. PICK i \in DOMAIN r : r[i] = y BY <1>10, <3>2
        <5> QED BY <1>9, <1>10, <3>2, <4>1, <5>1
      <4>3. "_handle_session" \in e.id_handlers BY <1>9, <4>2
      <4> QED BY <4>1, <4>3 DEF Taken, SaslItems, Mechanisms
    <3> QED BY <3>1, <3>2
  <2>2. Once(e)
    <3>1. /\ \A i, j \in DOMAIN l : l[i] \in A /\ l[j] \in A => i = j
          /\ \A x, y \in O \cap A : x = y
          /\ \A i \in DOMAIN l : l[i] \in A => O \cap A = {}
      BY <1>13 DEF Held, Once, l, O, A
    <3>2. CASE Clear(c)
      <4>1. (\A i \in DOMAIN l : l[i] \notin A) /\ O \cap A = {}
        BY <1>10, <3>2 DEF Clear, A
      <4>2. \A i, j \in DOMAIN r : r[i] \in A /\ r[j] \in A => i = j BY <1>9, <4>1
      <4> QED BY <1>5, <1>7, <3>1, <4>1, <4>2 DEF Once, r, O, A
    <3>3. CASE A \cap IdItems = {}
      <4>1. "session" \notin A BY <3>3 DEF IdItems
      <4>2. \A i \in DOMAIN r : r[i] \in A => i \in DOMAIN l /\ l[i] \in A BY <1>9, <4>1
      <4>3. /\ \A i, j \in DOMAIN r : r[i] \in A /\ r[j] \in A => i = j
            /\ \A i \in DOMAIN r : r[i] \in A => O \cap A = {}
        BY <3>1, <4>2
      <4> QED BY <1>5, <1>7, <3>1, <4>3 DEF Once, r, O, A
    <3> QED BY <1>13, <3>2, <3>3
  <2>3. Tried(e) /\ Expects(e) BY <1>5, <1>13 DEF Held, Tried, Expects
  <2>4. Fallback(e) BY <1>6, <1>8, <1>13 DEF Held, Fallback
  <2>5. e.ups > 0 \/ Busy(e) BY <1>9, <1>10 DEF Busy
  <2> QED BY <2>1, <2>2, <2>3, <2>4, <2>5 DEF Held
<1> QED BY <1>5, <1>6, <1>12, <1>13 DEF A

LEMMA FireStanzaWaits ==
    ASSUME Conforming, Inv, Fits, Dialogue, Waiting, handler_fire_stanza
    PROVE  Waiting'
<1>1. /\ conn \in Conn /\ Good(conn) /\ Sane(conn) /\ Able(conn)
      /\ conn.handlers \in Seq(HandlerItem) /\ conn.id_handlers \subseteq IdFns
      /\ pc = "chunk" /\ pc' = "stanza" /\ at' = 1
  BY Now DEF handler_fire_stanza, Able, Conn
<1>2. PICK s \in Incoming, env \in Choices :
        /\ MayStanza(s)
        /\ LET c == [conn EXCEPT !.peer = AfterStanza(@, s),
                                 !.facts = @ \cup FactsOf(conn, s)]
               called == IF s.id \in c.id_handlers
                         THEN [CallId(s.id, c, s, env) EXCEPT !.id_handlers = @ \ {s.id}]
                         ELSE c
           IN conn' = [called EXCEPT !.handlers = EnableAll(@)]
        /\ stanza' = s
  BY DEF handler_fire_stanza
<1> DEFINE p == AfterStanza(conn.peer, s)
           h == conn.facts \cup FactsOf(conn, s)
           c == [conn EXCEPT !.peer = p, !.facts = h]
           dropped == [CallId(s.id, c, s, env) EXCEPT !.id_handlers = @ \ {s.id}]
           called == IF s.id \in c.id_handlers THEN dropped ELSE c
           O == conn.peer.owed
           A == Answers(s)
<1>3. /\ conn.peer \in Peer /\ conn.peer.phase = "open" /\ s \in Stanza
      /\ A = {} \/ A \cap O # {}
  BY <1>1, <1>2, SessionAssumption DEF Conn, MayStanza
<1>4. p \in Peer /\ p.owed = O \ A /\ p.phase \in {conn.peer.phase, "restart"}
  BY <1>3, PeerType DEF AfterStanza
<1>5. /\ h \in SUBSET Facts /\ ("closing" \in h <=> "closing" \in conn.facts)
      /\ "features_missing" \in h <=> "features_missing" \in conn.facts
  <2>1. FactsOf(conn, s) \subseteq Facts \ {"closing", "features_missing"}
    BY DEF FactsOf, Facts
  <2>2. conn.facts \in SUBSET Facts BY <1>1 DEF Conn
  <2> QED BY <2>1, <2>2
<1>6. conn' = [called EXCEPT !.handlers = EnableAll(@)] /\ stanza' = s BY <1>2
<1> HIDE DEF p, h, A, O
<1>7. /\ c \in Conn /\ c.peer = p /\ c.facts = h /\ c.state = conn.state
      /\ c.attempts = conn.attempts /\ c.ups = conn.ups /\ c.jid = conn.jid
      /\ c.handlers = conn.handlers /\ c.id_handlers = conn.id_handlers
      /\ c.send_queue = conn.send_queue /\ c.timed_handlers = conn.timed_handlers
      /\ c.sasl_support = conn.sasl_support /\ c.tls_support = conn.tls_support
      /\ c.tls_disabled = conn.tls_disabled /\ SameStream(conn, c)
  BY <1>1, <1>4, <1>5 DEF Conn, SameStream
<1>8. Good(c) BY <1>1, <1>5, <1>7, Frame
<1> HIDE DEF c
<1>9. Able(c) BY <1>1, <1>7, <1>8 DEF Able
<1>10. Replied(c, called)
  <2>1. CASE s.id \in c.id_handlers BY <1>9, <2>1, IdReplied
  <2>2. CASE s.id \notin c.id_handlers BY <1>9, <2>2, RepliedTrans
  <2> QED BY <2>1, <2>2
<1>11. /\ called = (IF s.id \in conn.id_handlers THEN dropped ELSE c)
       /\ called.state = c.state /\ called \in Conn /\ called.handlers \in Seq(HandlerItem)
  BY <1>7, <1>10 DEF Replied, Able, Good, Conn
<1>12. s.id \in conn.id_handlers => CallId(s.id, c, s, env) \in Conn
  BY <1>1, <1>9, CallIdTurn DEF Turn, Able, Good
<1> HIDE DEF called, dropped
<1>13. Mild(called, conn') /\ conn'.handlers = EnableAll(called.handlers)
  <2> DEFINE l == EnableAll(called.handlers)
  <2>1. \A f : Listed(l, f) <=> Listed(called.handlers, f) BY <1>11, EnableHandlers
  <2> HIDE DEF l
  <2>2. conn' = [called EXCEPT !.handlers = l] BY <1>6 DEF l
  <2> QED BY <1>11, <2>1, <2>2 DEF Mild, Conn, Armed, l
<1>14. /\ Going(c) <=> Going(conn)
       /\ Asks(c) = Asks(conn)
       /\ Held(conn) => Held(c)
       /\ Held(conn) /\ A \cap O \cap Asks(conn) # {} => Clear(c)
       /\ Busy(conn) => Busy(c) \/ A \cap O # {}
       /\ Late(c) <=> Late(conn)
  <2>1. Late(c) <=> Late(conn) BY <1>5, <1>7 DEF Late
  <2>2. c.secured = conn.secured BY <1>7 DEF SameStream
  <2> QED BY <1>1, <1>4, <1>5, <1>7, <2>1, <2>2, ReadHeld DEF O
<1> SUFFICES ASSUME Going(conn')
             PROVE  /\ Held(conn') /\ ToFit(conn', 1, s)
                    /\ Accepts => \/ conn'.ups > 0 \/ Late(conn') \/ Busy(conn')
                                  \/ ToCall(conn', 1, s)
  BY <1>1, <1>6 DEF Waiting
<1>15. /\ Going(called) /\ (Held(called) => Held(conn')) /\ (Clear(called) => Clear(conn'))
       /\ (Late(conn') <=> Late(called)) /\ (Busy(called) => Busy(conn'))
       /\ conn'.ups = called.ups
  BY <1>11, <1>13, MildHeld DEF Mild
<1>16. ASSUME s.id \in conn.id_handlers
       PROVE  /\ Going(c) /\ (Late(called) <=> Late(c)) /\ called.handlers = c.handlers
              /\ Held(c) /\ (Clear(c) \/ Asks(c) \cap IdItems = {}) =>
                    Held(called) /\ (called.ups > 0 \/ Busy(called))
              /\ Clear(c) /\ Asks(c) \cap IdItems = {} => Clear(called)
  <2>1. called = dropped /\ s.id \in IdFns /\ CallId(s.id, c, s, env) \in Conn
    BY <1>1, <1>11, <1>12, <1>16
  <2>2. c.state = "CONNECTED" BY <1>11, <1>15 DEF Going
  <2>3. Going(dropped) BY <1>15, <2>1
  <2> QED BY <1>7, <2>1, <2>2, <2>3, IdHeld DEF dropped
<1>17. Going(conn) /\ (Late(called) <=> Late(conn)) /\ called.handlers = conn.handlers
  BY <1>7, <1>11, <1>14, <1>15, <1>16
<1>18. /\ Held(conn) /\ Held(c) /\ Exclusive(Tokens(conn))
       /\ Accepts => conn.ups > 0 \/ Late(conn) \/ Busy(conn)
  <2>1. conn.attempts <= 1 /\ Straight(conn) BY <1>17 DEF Going
  <2>2. Exclusive(Tokens(conn)) BY <1>1, <2>1 DEF Sane, OneAtATime
  <2> QED BY <1>1, <1>14, <1>17, <2>2 DEF Waiting
<1>19. \A g : Due(conn', 1, g) <=> Listed(conn.handlers, g)
  <2> DEFINE l == EnableAll(conn.handlers)
  <2>1. /\ DOMAIN l = DOMAIN conn.handlers
        /\ \A i \in DOMAIN l : l[i].enabled /\ l[i].fn = conn.handlers[i].fn
    <3>1. ASSUME NEW i \in DOMAIN conn.handlers
          PROVE  l[i].enabled /\ l[i].fn = conn.handlers[i].fn
      <4>1. conn.handlers[i] \in HandlerItem BY <1>1
      <4>2. l[i] = [conn.handlers[i] EXCEPT !.enabled = TRUE] BY DEF EnableAll
      <4> QED BY <4>1, <4>2 DEF HandlerItem
    <3> QED BY <3>1 DEF EnableAll
  <2>2. conn'.handlers = l BY <1>13, <1>17
  <2>3. DOMAIN conn.handlers = 1 .. Len(conn.handlers) BY <1>1
  <2> HIDE DEF l
  <2> QED BY <2>1, <2>2, <2>3 DEF Due, Listed
<1>20. /\ s.name \in {"success", "failure", "challenge"} => Clear(c)
       /\ s.name \in TlsNames /\ Accepts => Clear(c)
  <2>1. ASSUME s.name \in {"success", "failure", "challenge"} PROVE Clear(c)
    <3>1. A \subseteq SaslItems /\ A # {} BY <1>3, <2>1, AnswersAre DEF A, TlsNames
    <3>2. A \cap O \cap Asks(conn) # {} BY <1>3, <3>1, AsksAre
    <3> QED BY <1>14, <1>18, <3>2
  <2>2. ASSUME s.name \in TlsNames, Accepts PROVE Clear(c)
    <3>1. A = {"starttls"} BY <1>3, <2>2, AnswersAre DEF A, TlsNames
    <3>2. A \cap O \cap Asks(conn) # {} BY <1>3, <2>2, <3>1, AsksAre
    <3> QED BY <1>14, <1>18, <3>2
  <2> QED BY <2>1, <2>2
<1>21. ~Accepts \/ Late(conn) => Asks(c) \cap IdItems = {} BY <1>14, AsksAre
\* The reply meets the handler of its id, and nothing else is open.
<1>22. s.id \in conn.id_handlers => Clear(c) \/ Asks(c) \cap IdItems = {}
  <2> SUFFICES ASSUME s.id \in conn.id_handlers, Accepts, ~Late(conn) PROVE Clear(c)
    BY <1>21
  <2>1. s.id \in IdFns /\ s.id \in Tokens(conn) BY <1>1, TokensAre
  <2>2. s.name # "stream:features"
    <3> SUFFICES ASSUME s.name = "stream:features" PROVE FALSE OBVIOUS
    <3>1. A = {"features"} BY <1>3, AnswersAre DEF A, TlsNames
    <3>2. "features" \in Tokens(conn) BY <1>1, <1>3, <3>1, HeaderOutIs DEF O
    <3>3. s.id # "features" /\ s.id \notin FeatureFns \cup {"header"}
      BY <2>1 DEF IdFns, FeatureFns
    <3> QED BY <1>18, <2>1, <3>2, <3>3 DEF Exclusive, Beside
  <2>3. CASE s.name \in {"success", "failure", "challenge"} \cup TlsNames BY <1>20, <2>3
  <2>4. CASE s.name \notin {"success", "failure", "challenge"} \cup TlsNames
    <3>1. A \subseteq IdItems /\ A # {}
      BY <1>3, <2>1, <2>2, <2>4, AnswersAre DEF A, IdItems, IdFns
    <3>2. A \cap O \cap Asks(conn) # {} BY <1>3, <3>1, AsksAre
    <3> QED BY <1>14, <1>18, <3>2
  <2> QED BY <2>3, <2>4
<1>23. Held(called) /\ (s.id \in conn.id_handlers => called.ups > 0 \/ Busy(called))
  BY <1>11, <1>16, <1>18, <1>22
<1>24. ASSUME NEW f \in Exchanges, Listed(conn.handlers, f)
       PROVE  s.name # "stream:features" /\ (Clear(c) => Clear(conn'))
  <2>1. f \in DialogueFns BY DEF DialogueFns
  <2>2. (~Late(conn) => conn.id_handlers = {}) /\ "features" \notin O
    BY <1>1, <1>18, <1>24, <2>1, Alone DEF O
  <2>3. s.name # "stream:features"
    <3> SUFFICES ASSUME s.name = "stream:features" PROVE FALSE OBVIOUS
    <3>1. A = {"features"} BY <1>3, AnswersAre DEF A, TlsNames
    <3> QED BY <1>3, <2>2, <3>1
  <2>4. s.id \in conn.id_handlers => Asks(c) \cap IdItems = {} BY <1>21, <2>2
  <2>5. Clear(c) => Clear(called) BY <1>11, <1>16, <2>4
  <2> QED BY <1>15, <2>3, <2>5
<1>25. ToFit(conn', 1, s)
  <2> SUFFICES ASSUME NEW f \in Exchanges, Due(conn', 1, f), Matches(f, s)
               PROVE  Fitting(conn', f, s)
    BY <1>2 DEF ToFit
  <2>1. s.name # "stream:features" /\ (Clear(c) => Clear(conn')) BY <1>19, <1>24
  <2>2. f = "_handle_proceedtls_default" /\ Accepts => s.name \in TlsNames
    BY <1>2, <2>1 DEF Matches, Accepts
  <2> QED BY <1>20, <2>1, <2>2 DEF Fitting
<1>26. ASSUME Accepts
       PROVE  conn'.ups > 0 \/ Late(conn') \/ Busy(conn') \/ ToCall(conn', 1, s)
  <2>1. CASE s.id \in conn.id_handlers BY <1>15, <1>23, <2>1
  <2>2. CASE s.id \notin conn.id_handlers /\ ~(A \cap O # {})
    <3>1. called = c BY <1>11, <2>2
    <3> QED BY <1>7, <1>14, <1>15, <1>18, <1>26, <2>2, <3>1
  <2>3. CASE s.id \notin conn.id_handlers /\ ~Late(conn) /\ A \cap O # {}
    <3>1. PICK x \in A : x \in O BY <2>3
    <3>2. x \in Asks(conn) => Taken(conn, x)
      BY <1>18, <3>1 DEF Held, Answered, Asked, O
    <3>3. CASE s.name = "stream:features"
      <4>1. x = "features" BY <1>3, <3>1, <3>3, AnswersAre DEF A, TlsNames
      <4>2. PICK g \in FeatureFns : Listed(conn.handlers, g)
        BY <1>3, <1>18, <3>1, <4>1 DEF Held, Expects, O
      <4>3. Matches(g, s) /\ g \in DialogueFns
        BY <3>3 DEF Matches, FeatureFns, DialogueFns
      <4> QED BY <1>19, <4>2, <4>3 DEF ToCall
    <3>4. CASE s.name \in TlsNames
      <4>1. x = "starttls" BY <1>3, <3>1, <3>4, AnswersAre DEF A, TlsNames
      <4>2. Taken(conn, x) BY <1>26, <3>2, <4>1, AsksAre
      <4>3. Listed(conn.handlers, "_handle_proceedtls_default") BY <4>1, <4>2 DEF Taken
      <4>4. Matches("_handle_proceedtls_default", s) /\ "_handle_proceedtls_default" \in DialogueFns
        BY <3>4 DEF Matches, DialogueFns, Exchanges
      <4> QED BY <1>19, <4>3, <4>4 DEF ToCall
    <3>5. CASE s.name \in {"success", "failure", "challenge"}
      <4>1. x \in SaslItems BY <1>3, <3>1, <3>5, AnswersAre DEF A, TlsNames
      <4>2. Taken(conn, x) BY <3>2, <4>1, AsksAre
      <4>3. PICK g \in SaslFns : Listed(conn.handlers, g) BY <4>1, <4>2 DEF Taken
      <4>4. Matches(g, s) /\ g \in DialogueFns
        BY <3>5 DEF Matches, DialogueFns, Exchanges, SaslFns, SaslNames
      <4> QED BY <1>19, <4>3, <4>4 DEF ToCall
    <3>6. CASE s.name \notin {"stream:features", "success", "failure", "challenge"} \cup TlsNames
      <4>1. \/ s.id = "_handle_bind" /\ x = "bind"
            \/ s.id = "_handle_session" /\ x = "session"
            \/ s.id = "_handle_legacy" /\ x = "legacy"
        BY <1>3, <3>1, <3>6, AnswersAre DEF A
      <4>2. Taken(conn, x) BY <1>26, <2>3, <3>2, <4>1, AsksAre DEF IdItems
      <4>3. s.id \in conn.id_handlers BY <4>1, <4>2 DEF Taken
      <4> QED BY <2>3, <4>3
    <3> QED BY <3>3, <3>4, <3>5, <3>6
  <2>4. CASE Late(conn) BY <1>15, <1>17, <2>4
  <2> QED BY <2>1, <2>2, <2>3, <2>4
<1> QED BY <1>15, <1>23, <1>25, <1>26
-----------------------------------------------------------------------------
(* Timers. *)

LEMMA DeleteTimedGoing ==
    ASSUME NEW d \in Conn, NEW f
    PROVE  Going(DeleteTimed(d, f)) <=> Going(d)
<1> DEFINE list == Without(d.timed_handlers, f)
           e == [d EXCEPT !.timed_handlers = list]
<1>1. DeleteTimed(d, f) = e BY DEF DeleteTimed
<1>2. /\ e.state = d.state /\ e.attempts = d.attempts /\ e.facts = d.facts
      /\ e.secured = d.secured
  BY DEF Conn
<1> HIDE DEF e
<1> QED BY <1>1, <1>2 DEF Going, Straight, Late

\* Features are late: what is left is a legacy authentication, which has a timer.
LEMMA MissingFeaturesHeld ==
    ASSUME NEW c \in Conn, Able(c), Civil(c, FALSE), Listed(c.handlers, "_handle_features"),
           Going(c) => Held(c), NEW env,
           Going(CallTimed("_handle_missing_features", c, env))
    PROVE  LET e == DeleteTimed(CallTimed("_handle_missing_features", c, env),
                                "_handle_missing_features")
           IN Held(e) /\ Late(e)
<1> DEFINE h == c.facts \cup {"features_missing"}
           l == [c EXCEPT !.facts = h]
           d == CallTimed("_handle_missing_features", c, env)
           e == DeleteTimed(d, "_handle_missing_features")
<1>1. /\ h \in SUBSET Facts /\ "features_missing" \in h
      /\ "closing" \in h <=> "closing" \in c.facts
  BY DEF Conn, Facts
<1>2. d = Auth(l, env) BY DEF CallTimed
<1>3. d.state = c.state /\ d.secured = c.secured /\ d \in Conn BY FeaturesMissing
<1> HIDE DEF d, h
<1>4. /\ l \in Conn /\ l.facts = h /\ l.peer = c.peer /\ l.state = c.state
      /\ l.attempts = c.attempts /\ l.handlers = c.handlers /\ l.send_queue = c.send_queue
      /\ l.sasl_support = c.sasl_support /\ l.tls_support = c.tls_support
  BY <1>1 DEF Conn
<1> HIDE DEF l
<1>5. Going(d) /\ d.state = "CONNECTED" BY DEF Going, d
<1>6. ByTls(l, d) \/ InClear(l, d) BY <1>2, <1>3, <1>4, <1>5, AuthChooses
<1>7. d.facts = h /\ d.attempts = c.attempts
  <2>1. \E N, q : Does(l, d, N, q)
    BY <1>5, <1>6 DEF ByTls, InClear, BySasl, ByLegacy, Sends
  <2> QED BY <1>4, <2>1 DEF Does
<1>8. ~c.secured /\ Going(c)
  <2>1. ~d.secured BY <1>1, <1>5, <1>7 DEF Going, Straight, Late
  <2> QED BY <1>1, <1>3, <1>5, <1>7, <2>1 DEF Going, Straight
<1>9. c.sasl_support = {} /\ ~c.tls_support /\ Exclusive(Tokens(c)) /\ Held(c)
  BY <1>8 DEF Civil, Sane, Plainly, Going, OneAtATime
<1>10. ByLegacy(l, d) BY <1>4, <1>5, <1>6, <1>9 DEF ByTls, InClear
<1>11. Does(d, e, {}, d.send_queue) /\ e.sasl_support = d.sasl_support
  BY <1>3, DeleteTimedDoes
<1> HIDE DEF e
<1> DEFINE q == c.send_queue
           r == e.send_queue
<1>12. /\ r = Append(q, "legacy") /\ e.peer = c.peer /\ e.sasl_support = {}
       /\ Armed(e, "_handle_missing_legacy") /\ e.facts = h
       /\ \A f : Listed(c.handlers, f) => Listed(e.handlers, f)
  <2>1. \A f : Listed(l.handlers, f) => Listed(d.handlers, f)
    BY <1>10 DEF ByLegacy, Sends, Does, Grows, Listed
  <2>2. \A f : Listed(d.handlers, f) => Listed(e.handlers, f)
    BY <1>11 DEF Does, Grows, Listed
  <2> QED BY <1>4, <1>7, <1>9, <1>10, <1>11, <2>1, <2>2 DEF ByLegacy, Sends, Does
<1>13. \A i \in DOMAIN r : r[i] = "legacy" \/ \E j \in DOMAIN q : r[i] = q[j]
  <2>1. q \in Seq(Items) /\ "legacy" \in Items BY DEF Conn, Items
  <2>2. /\ DOMAIN q = 1 .. Len(q) /\ Len(q) \in Nat
        /\ DOMAIN Append(q, "legacy") = 1 .. Len(q) + 1
        /\ Append(q, "legacy")[Len(q) + 1] = "legacy"
        /\ \A i \in 1 .. Len(q) : Append(q, "legacy")[i] = q[i]
    BY <2>1, AppendProperties
  <2> HIDE DEF q, r
  <2> QED BY <1>12, <2>2
<1>14. Late(e) BY <1>1, <1>12 DEF Late
<1>15. Asks(e) \subseteq Asks(c) /\ "legacy" \notin Asks(e)
  BY <1>14, SameAsks, AsksAre DEF IdItems
<1>16. Clear(c)
  <2>1. "_handle_features" \in FeatureFns /\ "_handle_features" \in DialogueFns
    BY DEF FeatureFns, DialogueFns
  <2> QED BY <1>9, <2>1, AloneClear DEF Held
<1>17. (\A i \in DOMAIN r : r[i] \notin Asks(e)) /\ e.peer.owed \cap Asks(e) = {}
  <2>1. /\ \A j \in DOMAIN q : q[j] \notin Asks(c)
        /\ e.peer.owed \cap Asks(c) = {}
    BY <1>12, <1>16 DEF Clear, Asked
  <2> HIDE DEF q, r
  <2> QED BY <1>13, <1>15, <2>1
<1>18. Answered(e) /\ Once(e) BY <1>17 DEF Answered, Asked, Once
<1>19. Tried(e) BY <1>12 DEF Tried
<1>20. Expects(e) BY <1>12 DEF Expects, FeatureFns
<1>21. Fallback(e) BY <1>12 DEF Fallback
<1> QED BY <1>14, <1>18, <1>19, <1>20, <1>21 DEF Held, d, e

LEMMA FireTimedWaits ==
    ASSUME Inv, Fits, Dialogue, Waiting, FireTimed
    PROVE  Waiting'
<1> DEFINE list  == conn.timed_handlers
           t     == list[at]
           young == [list EXCEPT ![at] = [t EXCEPT !.age = 0]]
           c     == [conn EXCEPT !.timed_handlers = young]
<1>1. /\ conn \in Conn /\ Good(conn) /\ Able(conn) /\ Paired(conn) /\ Civil(conn, FALSE)
      /\ Sane(conn) /\ at \in Nat \ {0} /\ at <= Len(list)
      /\ pc # "stanza" /\ pc' # "stanza"
  BY Now DEF FireTimed, Able
<1>2. list \in Seq(TimedItem) BY <1>1 DEF Conn
<1>3. at \in DOMAIN list /\ t \in TimedItem
  <2>1. DOMAIN list = 1 .. Len(list) /\ Len(list) \in Nat BY <1>2
  <2>2. at \in DOMAIN list BY <1>1, <2>1
  <2> QED BY <1>2, <2>2
<1>4. t.fn \in TimedFns /\ Armed(conn, t.fn) BY <1>3 DEF TimedItem, Armed, Listed
<1>5. young \in Seq(TimedItem) /\ \A f : Listed(young, f) <=> Listed(list, f)
  <2>1. [t EXCEPT !.age = 0] \in TimedItem /\ [t EXCEPT !.age = 0].fn = t.fn
    BY <1>3 DEF TimedItem
  <2>2. /\ young \in [DOMAIN list -> TimedItem] /\ DOMAIN young = DOMAIN list
        /\ \A i \in DOMAIN list : young[i].fn = list[i].fn
    BY <1>2, <1>3, <2>1
  <2> HIDE DEF young
  <2> QED BY <1>2, <2>2, SameFunctions, JustFunctions
<1>6. PICK env \in Choices :
        LET fired == CallTimed(t.fn, c, env)
        IN IF KeepsTimed(t.fn, env) THEN conn' = fired ELSE conn' = DeleteTimed(fired, t.fn)
  <2>1. [conn EXCEPT !.timed_handlers[at].age = 0] = c BY <1>1, <1>2, <1>3 DEF Conn
  <2> HIDE DEF c
  <2> QED BY <2>1 DEF FireTimed
<1>7. Alike(conn, c) /\ c.state = conn.state /\ Still(conn, c) /\ Good(c) /\ Mild(conn, c)
  <2> HIDE DEF young
  <2> QED BY <1>1, <1>5, TimedStill, RetimedGood, TimedMild DEF Armed
<1> HIDE DEF young, c
<1>8. /\ Able(c) /\ c \in Conn /\ Civil(c, FALSE) /\ c.handlers = conn.handlers
      /\ c.send_queue = conn.send_queue
  BY <1>1, <1>7 DEF Able, Good, Alike, SameStream, Still
<1> DEFINE fired == CallTimed(t.fn, c, env)
<1>9. conn' = DeleteTimed(fired, t.fn) \/ (t.fn = "user_timed" /\ conn' = fired)
  BY <1>6 DEF KeepsTimed
<1>10. fired \in Conn BY <1>4, <1>7, CallTimedGood DEF Good
<1>11. CASE t.fn \notin {"_handle_missing_features", "user_timed"}
  <2>1. fired \in {ConnDisconnect(c, env), XmppDisconnect(c)} BY <1>11 DEF CallTimed
  <2> HIDE DEF fired
  <2>2. ~Going(fired) BY <1>8, <2>1, DisconnectGone
  <2> QED BY <1>9, <1>10, <1>11, <2>2, DeleteTimedGoing, GoneWaits
<1>12. CASE t.fn = "_handle_missing_features"
  <2>1. Listed(c.handlers, "_handle_features") BY <1>1, <1>4, <1>8, <1>12 DEF Paired, Awaited
  <2>2. Going(c) => Held(c) BY <1>1, <1>7, MildHeld DEF Waiting
  <2>3. conn' = DeleteTimed(fired, "_handle_missing_features") BY <1>9, <1>12
  <2>4. fired = CallTimed("_handle_missing_features", c, env) BY <1>12
  <2> HIDE DEF fired
  <2>5. Going(conn') => Going(fired) BY <1>10, <2>3, DeleteTimedGoing
  <2>6. Going(fired) => Held(conn') /\ Late(conn')
    BY <1>8, <2>1, <2>2, <2>3, <2>4, MissingFeaturesHeld
  <2> QED BY <1>1, <2>5, <2>6 DEF Waiting
<1>13. CASE t.fn = "user_timed"
  <2>1. fired = CallUser(c) BY <1>13 DEF CallTimed
  <2>2. /\ Mild(c, fired) /\ fired.send_queue = c.send_queue
        /\ fired.timed_handlers = c.timed_handlers
    BY <1>8, <2>1 DEF CallUser, Conn, Mild, Armed
  <2> DEFINE rest == Without(fired.timed_handlers, "user_timed")
             e == [fired EXCEPT !.timed_handlers = rest]
  <2> HIDE DEF fired
  <2>3. fired.timed_handlers \in Seq(TimedItem) BY <1>10 DEF Conn
  <2>4. \A f : f # "user_timed" => (Listed(rest, f) <=> Listed(fired.timed_handlers, f))
    BY <2>3, WithoutOnly
  <2>5. "user_timed" \in UserFns BY DEF UserFns
  <2> HIDE DEF rest
  <2>6. Mild(fired, e) BY <1>10, <2>4, <2>5, TimedMild DEF Armed
  <2>7. e.send_queue = fired.send_queue BY <1>10 DEF Conn
  <2>8. DeleteTimed(fired, "user_timed") = e BY DEF DeleteTimed, rest
  <2> HIDE DEF e
  <2>9. conn' \in {fired, e} BY <1>9, <1>13, <2>8
  <2>10. Mild(conn, conn') BY <1>7, <1>8, <2>2, <2>6, <2>7, <2>9 DEF Mild
  <2> QED BY <1>1, <2>10, MildWaits
<1> QED BY <1>11, <1>12, <1>13
-----------------------------------------------------------------------------
(* The theorems. *)

LEMMA InitWaits == Init => Waiting
<1> SUFFICES ASSUME Init PROVE Waiting OBVIOUS
<1>1. conn.state = "DISCONNECTED" BY DEF Init, NewConn
<1> QED BY <1>1 DEF Waiting, Going

LEMMA NextWaits ==
    ASSUME Conforming, Inv, Fits, Dialogue, Waiting, [Next]_vars
    PROVE  Waiting'
<1>1. CASE User BY <1>1, UserWaits
<1>2. CASE Tick BY <1>2, TickWaits
<1>3. CASE Loop
  <2>1. CASE handler_fire_stanza BY <2>1, FireStanzaWaits
  <2>2. CASE run_once_write BY <2>2, WriteWaits
  <2>3. CASE FireTimed BY <2>3, FireTimedWaits
  <2>4. CASE SkipTimed \/ EndTimed \/ no_event \/ read_data \/ read_again \/ chunk_done
    BY <2>4, MoveWaits
  <2>5. CASE SkipHandler \/ EndStanza BY <2>5, SkipHandlerWaits
  <2>6. CASE connect_timeout \/ connect_failed \/ read_failed \/ garbage \/ stream_end
    BY <2>6, EndWaits
  <2>7. CASE connect_complete BY <2>7, ConnectCompleteWaits
  <2>8. CASE stream_header BY <2>8, StreamHeaderWaits
  <2>9. CASE CallOne BY <2>9, CallOneWaits
  <2> QED BY <1>3, <2>1, <2>2, <2>3, <2>4, <2>5, <2>6, <2>7, <2>8, <2>9 DEF Loop
<1>4. CASE UNCHANGED vars BY <1>4 DEF vars, Waiting
<1> QED BY <1>1, <1>2, <1>3, <1>4 DEF Next

LEMMA WaitingHolds == ASSUME Conforming PROVE Spec => [](Inv /\ Waiting)
<1>1. Init => Inv /\ Fits /\ Dialogue /\ Waiting BY InitInv, InitFits, InitConverses, InitWaits
<1>2. Inv /\ Fits /\ Dialogue /\ Waiting /\ [Next]_vars => (Inv /\ Fits /\ Dialogue /\ Waiting)'
  BY NextInv, NextFits, NextConverses, NextWaits
<1> QED BY <1>1, <1>2, PTL DEF Spec

\* With a server that keeps to the protocol, in a first attempt to connect, a handler is
\* listed for the answer to every SASL request, from the moment _auth queues it: although
\* handler_add leaves a function that is listed already as it is, and handler_fire_stanza
\* then unlinks it when it returns 0, _auth never starts a mechanism with the function that
\* is being called, because the mechanisms that share it are used up (auth.c:296-452, 508,
\* 528, 563; handler.c:109, 385).  Only the case in which the features of a secured stream came after
\* FEATURES_TIMEOUT is left out: two ways to authenticate then run at once.
THEOREM SaslAnswersAwaited ==
    ASSUME Conforming PROVE Spec => [](Straight(conn) => SaslAnswerAwaited)
<1>1. Waiting => (Straight(conn) => SaslAnswerAwaited)
  <2> SUFFICES ASSUME Waiting, Straight(conn), FirstAttempt, conn.state = "CONNECTED",
                      Outstanding \cap (Mechanisms \cup {"response"}) # {},
                      "closing" \notin conn.facts
               PROVE  \E f \in SaslFns : Listed(conn.handlers, f)
    BY DEF SaslAnswerAwaited, SaslFns
  <2>1. Answered(conn) BY DEF Waiting, Going, FirstAttempt, Held
  <2>2. PICK x \in Asked(conn) : x \in SaslItems
    BY DEF Asked, Outstanding, Queued, SaslItems
  <2>3. x \in Asks(conn) BY <2>2, AsksAre
  <2> QED BY <2>1, <2>2, <2>3 DEF Answered, Taken
<1> QED BY <1>1, WaitingHolds, PTL

\* With a server that keeps to the protocol and never refuses the starttls it has offered,
\* a connected client that is not yet authenticated always waits for something in a first
\* attempt: for an item of the queue to be written, for an answer that is owed, or for a
\* timer.  No callback of auth.c, whichever mechanism it chooses, allocation fails or timer
\* fires, returns without the next request, the end of the stream or CONNECT.  A refusal
\* is what _handle_proceedtls_default forgets (auth.c:260-294); features that come late to a
\* secured stream are left out as in SaslAnswersAwaited.
THEOREM NegotiationNeverStalls ==
    ASSUME Conforming, Accepts
    PROVE  Spec => [](FirstAttempt /\ Straight(conn) => NeverStalled)
<1>1. Inv /\ Waiting => (FirstAttempt /\ Straight(conn) => NeverStalled)
  <2> SUFFICES ASSUME Inv, Waiting, FirstAttempt, Straight(conn),
                      conn.state = "CONNECTED", pc = "select", conn.ups = 0,
                      \A f \in TimedFns \ UserFns : ~Armed(conn, f)
               PROVE  Outstanding # {}
    BY DEF NeverStalled, Armed
  <2>1. {"_disconnect_cleanup", "_handle_missing_legacy"} \subseteq TimedFns \ UserFns
    BY DEF TimedFns, UserFns
  <2>2. "closing" \notin conn.facts BY <2>1 DEF Inv, Good, Armed
  <2>3. Going(conn) BY <2>2 DEF Going, FirstAttempt
  <2>4. ~Late(conn) BY <2>1, <2>3 DEF Waiting, Held, Fallback
  <2>5. Asked(conn) # {} BY <2>3, <2>4 DEF Waiting, Busy
  <2> QED BY <2>5 DEF Asked, Outstanding, Queued
<1> QED BY <1>1, WaitingHolds, PTL
=============================================================================

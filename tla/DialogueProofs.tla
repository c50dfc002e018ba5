--------------------------- MODULE DialogueProofs ---------------------------
(***************************************************************************)
(* Theorems about the dialogue of Session with a server that keeps to the  *)
(* protocol, in the first attempt to connect: one request at a time is     *)
(* under way, so CONNECT is told once and a new stream meets a fresh       *)
(* parser; and once starttls was offered no credentials go out in clear.   *)
(*                                                                         *)
(* A token is something the client or the server has still to do for the   *)
(* negotiation: a handler of an exchange or of features, a reply awaited   *)
(* by id, a header in the queue, a header or features the server owes.     *)
(* Turn says which tokens a callback may bring; all the callbacks that     *)
(* bring one are called when the token they use up is the only one.        *)
(***************************************************************************)
EXTENDS SessionProofs, FiniteSetTheorems

\* Handlers of an answer to <starttls/> or of a SASL exchange, and of features.
SaslFns == {"_handle_sasl_result", "_handle_digestmd5_challenge", "_handle_digestmd5_rspauth"}
Exchanges == SaslFns \cup {"_handle_proceedtls_default"}
FeatureFns == {"_handle_features", "_handle_features_sasl"}
DialogueFns == Exchanges \cup FeatureFns

Late(c) == "features_missing" \in c.facts
Offered(c) == "starttls_offered" \in c.facts

\* The timer of missing features did not start a second way to authenticate which a
\* secured stream might bring to meet the first.
Straight(c) == ~Late(c) \/ ~c.secured

HeaderQueued(c) == \E i \in DOMAIN c.send_queue : c.send_queue[i] = "header"

\* Replies to requests by id, and the notification they lead to, count until features
\* are late: from then on a legacy authentication runs beside the rest.
Tokens(c) ==
    {f \in DialogueFns : Listed(c.handlers, f)}
      \cup (IF HeaderQueued(c) THEN {"queued"} ELSE {})
      \cup (c.peer.owed \cap {"header", "features"})
      \cup (IF Late(c) THEN {} ELSE c.id_handlers \cup (IF c.ups > 0 THEN {"up"} ELSE {}))

\* Features are still owed while the header is, and while their handler waits for them.
Beside(x, y) == x = "features" /\ y \in FeatureFns \cup {"header"}

Exclusive(T) == \A x, y \in T : x = y \/ Beside(x, y) \/ Beside(y, x)

OneHeader(queue) ==
    \A i, j \in DOMAIN queue : queue[i] = "header" /\ queue[j] = "header" => i = j

HeaderOut(c) == Tokens(c) \cap {"queued", "header"} # {}

OneAtATime(c) ==
    /\ Exclusive(Tokens(c)) /\ OneHeader(c.send_queue)
    /\ HeaderOut(c) => c.peer.phase \in {"silent", "restart"}
    /\ ~Late(c) => c.ups <= 1

\* Nothing has been said yet.
Fresh(c) ==
    /\ c.send_queue = <<>> /\ c.peer = NewPeer /\ c.id_handlers = {} /\ c.ups = 0
    /\ c.sasl_support = {} /\ ~c.tls_support /\ ~c.secured
    /\ c.open_handler = "auth_handle_open" /\ (c.reset_parser \/ c.parser = "start")
    /\ \A f \in DialogueFns : ~Listed(c.handlers, f)
    /\ ~Late(c) /\ ~Offered(c)

\* Before the stream is secured: the features of the first stream have found no way to
\* authenticate that is still untried, and no later stream is opened by auth_handle_open.
Plainly(c) ==
    /\ HeaderOut(c) /\ c.open_handler = "auth_handle_open" =>
          c.sasl_support = {} /\ ~c.tls_support /\ ~Offered(c)
    /\ Listed(c.handlers, "_handle_features") => c.sasl_support = {} /\ ~c.tls_support

\* A header that is on its way will meet a fresh parser.
Parsed(c, reading) ==
    /\ "header" \in c.peer.owed /\ (c.state = "CONNECTED" \/ reading) => c.parser = "start"
    /\ HeaderQueued(c) /\ c.state = "CONNECTED" => c.reset_parser \/ c.parser = "start"

Sane(c) ==
    /\ Single(c.handlers) /\ c.attempts <= MaxConnects
    /\ c.attempts = 0 => c.state = "DISCONNECTED"
    /\ c.attempts <= 1 =>
          /\ c.attempts = 0 \/ c.state = "CONNECTING" => Fresh(c)
          /\ Straight(c) => OneAtATime(c)
          /\ ~c.secured => Plainly(c)

\* While data is read the connection is not one that is being made.
Civil(c, reading) ==
    /\ Sane(c)
    /\ c.attempts <= 1 =>
          /\ Straight(c) => Parsed(c, reading)
          /\ reading => c.state # "CONNECTING"

LEMMA TokensAre ==
    ASSUME NEW c, NEW t
    PROVE  t \in Tokens(c) <=>
              \/ t \in DialogueFns /\ Listed(c.handlers, t)
              \/ t = "queued" /\ HeaderQueued(c)
              \/ t \in {"header", "features"} /\ t \in c.peer.owed
              \/ ~Late(c) /\ (t \in c.id_handlers \/ (t = "up" /\ c.ups > 0))
BY DEF Tokens

-----------------------------------------------------------------------------
(* What a callback does to the dialogue. *)

Able(c) == Good(c) /\ Single(c.handlers)

\* Of the handlers and ids of the dialogue only those in N are new, and at most one item
\* of Q goes into the queue.
Turn(c, d, N, Q) ==
    /\ Able(d)
    /\ d.state = c.state /\ d.attempts = c.attempts /\ d.peer = c.peer
    /\ d.tls_disabled = c.tls_disabled
    /\ Late(d) <=> Late(c)
    /\ Offered(d) <=> Offered(c)
    /\ \A f \in DialogueFns : Listed(d.handlers, f) => Listed(c.handlers, f) \/ f \in N
    /\ d.id_handlers \subseteq c.id_handlers \cup N
    /\ \/ d.send_queue = c.send_queue
       \/ c.state = "CONNECTED" /\ \E q \in Q : d.send_queue = Append(c.send_queue, q)

SameStream(c, d) ==
    /\ d.secured = c.secured /\ d.open_handler = c.open_handler
    /\ d.parser = c.parser /\ d.reset_parser = c.reset_parser

Keeps(c, d) ==
    /\ SameStream(c, d) /\ d.ups = c.ups
    /\ d.sasl_support = c.sasl_support /\ d.tls_support = c.tls_support

LEMMA TurnTrans ==
    ASSUME NEW c, NEW d, NEW e, NEW N, NEW M, NEW Q
    PROVE  /\ Turn(c, d, N, {}) /\ Turn(d, e, M, Q) => Turn(c, e, N \cup M, Q)
           /\ Turn(c, d, N, Q) /\ Turn(d, e, M, {}) => Turn(c, e, N \cup M, Q)
           /\ Keeps(c, d) /\ Keeps(d, e) => Keeps(c, e)
           /\ SameStream(c, d) /\ SameStream(d, e) => SameStream(c, e)
BY DEF Turn, Keeps, SameStream

LEMMA TurnWeaken ==
    ASSUME NEW c, NEW d, NEW N, NEW M, NEW Q, NEW R, N \subseteq M, Q \subseteq R
    PROVE  /\ Turn(c, d, N, Q) => Turn(c, d, M, R)
           /\ Able(c) => Turn(c, c, M, R) /\ Keeps(c, c)
BY DEF Turn, Keeps, SameStream

\* The lists of the dialogue as they were, and everything else Turn looks at.
Unmoved(c, d) ==
    /\ d \in Conn /\ d.state = c.state /\ d.attempts = c.attempts /\ d.peer = c.peer
    /\ d.tls_disabled = c.tls_disabled /\ d.timed_handlers = c.timed_handlers
    /\ d.facts = c.facts /\ d.handlers = c.handlers /\ d.id_handlers = c.id_handlers
    /\ d.send_queue = c.send_queue

LEMMA UnmovedTurn ==
    ASSUME NEW c, Able(c), NEW d, Unmoved(c, d), NEW N, NEW Q
    PROVE  Turn(c, d, N, Q)
<1>1. Good(d) BY Frame DEF Able, Unmoved
<1> QED BY <1>1 DEF Able, Turn, Unmoved, Late, Offered

LEMMA RetimedTurn ==
    ASSUME NEW c, Able(c), NEW list \in Seq(TimedItem),
           Good([c EXCEPT !.timed_handlers = list])
    PROVE  LET d == [c EXCEPT !.timed_handlers = list]
           IN Turn(c, d, {}, {}) /\ Keeps(c, d)
<1> DEFINE d == [c EXCEPT !.timed_handlers = list]
<1>1. c \in Conn BY DEF Able, Good
<1>2. /\ d.state = c.state /\ d.attempts = c.attempts /\ d.peer = c.peer
      /\ d.tls_disabled = c.tls_disabled /\ d.facts = c.facts /\ d.handlers = c.handlers
      /\ d.id_handlers = c.id_handlers /\ d.send_queue = c.send_queue
      /\ Keeps(c, d)
  BY <1>1 DEF Conn, Keeps, SameStream
<1> HIDE DEF d
<1> QED BY <1>2 DEF Able, Turn, Late, Offered, d

LEMMA AddTimedTurn ==
    ASSUME NEW c, Able(c), NEW f \in TimedFns
    PROVE  Turn(c, AddTimed(c, f), {}, {}) /\ Keeps(c, AddTimed(c, f))
<1> DEFINE list == Append(c.timed_handlers, [fn |-> f, enabled |-> FALSE, age |-> 0])
<1>1. CASE Listed(c.timed_handlers, f) BY <1>1, TurnWeaken DEF AddTimed
<1>2. CASE ~Listed(c.timed_handlers, f)
  <2>1. AddTimed(c, f) = [c EXCEPT !.timed_handlers = list] BY <1>2 DEF AddTimed
  <2>2. Good(AddTimed(c, f)) BY AddTimedGood DEF Able
  <2>3. c \in Conn BY DEF Able, Good
  <2>4. c.timed_handlers \in Seq(TimedItem) BY <2>3 DEF Conn
  <2>5. [fn |-> f, enabled |-> FALSE, age |-> 0] \in TimedItem BY DEF TimedItem
  <2>6. list \in Seq(TimedItem) BY <2>4, <2>5
  <2> HIDE DEF list
  <2> QED BY <2>1, <2>2, <2>6, RetimedTurn
<1> QED BY <1>1, <1>2

LEMMA DeleteTimedTurn ==
    ASSUME NEW c, Able(c), NEW f, f = "_disconnect_cleanup" => c.state # "CONNECTED"
    PROVE  Turn(c, DeleteTimed(c, f), {}, {}) /\ Keeps(c, DeleteTimed(c, f))
<1>1. c \in Conn BY DEF Able, Good
<1>2. c.timed_handlers \in Seq(TimedItem) BY <1>1 DEF Conn
<1>3. Without(c.timed_handlers, f) \in Seq(TimedItem) BY <1>2, WithoutType
<1>4. DeleteTimed(c, f) = [c EXCEPT !.timed_handlers = Without(c.timed_handlers, f)]
  BY DEF DeleteTimed
<1>5. Good(DeleteTimed(c, f)) BY DeleteTimedGood DEF Able
<1> QED BY <1>3, <1>4, <1>5, RetimedTurn

LEMMA ResetTimedTurn ==
    ASSUME NEW c, Able(c)
    PROVE  Turn(c, ResetTimed(c), {}, {}) /\ Keeps(c, ResetTimed(c))
<1> DEFINE list == [i \in DOMAIN c.timed_handlers |->
                       [c.timed_handlers[i] EXCEPT !.age = 0]]
<1>1. ResetTimed(c) = [c EXCEPT !.timed_handlers = list] BY DEF ResetTimed
<1>2. Good(ResetTimed(c)) BY ResetTimedGood DEF Able
<1>3. ResetTimed(c).timed_handlers = list /\ ResetTimed(c) \in Conn
  BY <1>1, <1>2 DEF Able, Good, Conn
<1>4. list \in Seq(TimedItem) BY <1>3 DEF Conn
<1> HIDE DEF list
<1> QED BY <1>1, <1>2, <1>4, RetimedTurn

LEMMA SendTurn ==
    ASSUME NEW c, Able(c), NEW q \in Items
    PROVE  Turn(c, Send(c, q), {}, {q}) /\ Keeps(c, Send(c, q))
<1> DEFINE d == [c EXCEPT !.send_queue = Append(@, q)]
<1>1. c \in Conn BY DEF Able, Good
<1>2. /\ d.state = c.state /\ d.attempts = c.attempts /\ d.peer = c.peer
      /\ d.tls_disabled = c.tls_disabled /\ d.facts = c.facts /\ d.handlers = c.handlers
      /\ d.id_handlers = c.id_handlers /\ d.send_queue = Append(c.send_queue, q)
      /\ Keeps(c, d)
  BY <1>1 DEF Conn, Keeps, SameStream
<1>3. Good(Send(c, q)) BY SendGood DEF Able
<1>4. CASE c.state = "CONNECTED"
  <2>1. Send(c, q) = d BY <1>4 DEF Send
  <2> HIDE DEF d
  <2> QED BY <1>2, <1>3, <1>4, <2>1 DEF Able, Turn, Late, Offered
<1>5. CASE c.state # "CONNECTED" BY <1>5, TurnWeaken DEF Send
<1> QED BY <1>4, <1>5

LEMMA AddHandlerTurn ==
    ASSUME NEW c, Able(c), NEW f \in HandlerFns
    PROVE  Turn(c, AddHandler(c, f), {f}, {}) /\ Keeps(c, AddHandler(c, f))
<1> DEFINE item == [fn |-> f, enabled |-> FALSE]
           new  == Append(c.handlers, item)
           d    == [c EXCEPT !.handlers = new]
<1>1. c \in Conn BY DEF Able, Good
<1>2. CASE Listed(c.handlers, f) BY <1>2, TurnWeaken DEF AddHandler
<1>3. CASE ~Listed(c.handlers, f)
  <2>1. item \in HandlerItem /\ item.fn = f BY DEF HandlerItem
  <2>2. AddHandler(c, f) = d BY <1>3 DEF AddHandler
  <2> HIDE DEF item
  <2>3. c.handlers \in Seq(HandlerItem) BY <1>1 DEF Conn
  <2>4. /\ Single(new)
        /\ \A g : Listed(new, g) <=> Listed(c.handlers, g) \/ g = f
    BY <1>3, <2>1, <2>3, AppendIs DEF Able
  <2> HIDE DEF new
  <2>5. /\ d.state = c.state /\ d.attempts = c.attempts /\ d.peer = c.peer
        /\ d.tls_disabled = c.tls_disabled /\ d.facts = c.facts /\ d.handlers = new
        /\ d.id_handlers = c.id_handlers /\ d.send_queue = c.send_queue
        /\ Keeps(c, d)
    BY <1>1 DEF Conn, Keeps, SameStream
  <2>6. Good(d) BY <2>2, AddHandlerGood DEF Able
  <2> HIDE DEF d
  <2> QED BY <2>2, <2>4, <2>5, <2>6 DEF Able, Turn, Late, Offered
<1> QED BY <1>2, <1>3

LEMMA AddIdTurn ==
    ASSUME NEW c, Able(c), NEW f \in IdFns
    PROVE  Turn(c, AddId(c, f), {f}, {}) /\ Keeps(c, AddId(c, f))
<1> DEFINE d == [c EXCEPT !.id_handlers = @ \cup {f}]
<1>1. c \in Conn BY DEF Able, Good
<1>2. /\ d.state = c.state /\ d.attempts = c.attempts /\ d.peer = c.peer
      /\ d.tls_disabled = c.tls_disabled /\ d.facts = c.facts /\ d.handlers = c.handlers
      /\ d.id_handlers = c.id_handlers \cup {f} /\ d.send_queue = c.send_queue
      /\ Keeps(c, d)
  BY <1>1 DEF Conn, Keeps, SameStream
<1>3. AddId(c, f) = d BY DEF AddId
<1>4. Good(d) BY <1>3, AddIdGood DEF Able
<1> HIDE DEF d
<1> QED BY <1>2, <1>3, <1>4 DEF Able, Turn, Late, Offered

LEMMA XmppDisconnectTurn ==
    ASSUME NEW c, Able(c)
    PROVE  Turn(c, XmppDisconnect(c), {}, {"close"}) /\ Keeps(c, XmppDisconnect(c))
<1> DEFINE s == Send(c, "close")
           d == [s EXCEPT !.facts = @ \cup {"closing"}]
           cleanup == "_disconnect_cleanup"
           x == XmppDisconnect(c)
<1>1. cleanup \in TimedFns /\ "close" \in Items BY DEF TimedFns, Items
<1>2. c \in Conn /\ c.state \in States /\ Good(x) BY XmppDisconnectGood DEF Able, Good, Conn
<1>3. CASE c.state = "DISCONNECTED"
  BY <1>3, TurnWeaken DEF XmppDisconnect
<1>4. CASE c.state = "CONNECTING"
  <2>1. x = AddTimed(c, cleanup) BY <1>4 DEF XmppDisconnect
  <2>2. Turn(c, x, {}, {}) /\ Keeps(c, x) BY <1>1, <2>1, AddTimedTurn
  <2> HIDE DEF x
  <2> QED BY <2>2, TurnWeaken DEF x
<1>5. CASE c.state = "CONNECTED"
  <2>1. Turn(c, s, {}, {"close"}) /\ Keeps(c, s) BY <1>1, SendTurn
  <2>2. s \in Conn BY <2>1 DEF Turn, Able, Good
  <2> HIDE DEF s
  <2>3. /\ d.state = s.state /\ d.attempts = s.attempts /\ d.peer = s.peer
        /\ d.tls_disabled = s.tls_disabled /\ d.facts = s.facts \cup {"closing"}
        /\ d.handlers = s.handlers /\ d.id_handlers = s.id_handlers
        /\ d.send_queue = s.send_queue /\ Keeps(s, d)
    BY <2>2 DEF Conn, Keeps, SameStream
  <2>4. d \in Conn
    <3>1. s.facts \cup {"closing"} \in SUBSET Facts BY <2>2 DEF Conn, Facts
    <3> QED BY <2>2, <3>1 DEF Conn
  <2> HIDE DEF d
  <2> DEFINE list == Append(d.timed_handlers, [fn |-> cleanup, enabled |-> FALSE, age |-> 0])
             a == [d EXCEPT !.timed_handlers = list]
  <2>5. x \in {d, a} BY <1>5 DEF XmppDisconnect, AddTimed, d, s
  <2> HIDE DEF list
  <2>6. /\ a.state = d.state /\ a.attempts = d.attempts /\ a.peer = d.peer
        /\ a.tls_disabled = d.tls_disabled /\ a.facts = d.facts
        /\ a.handlers = d.handlers /\ a.id_handlers = d.id_handlers
        /\ a.send_queue = d.send_queue /\ Keeps(d, a)
    BY <2>4 DEF Conn, Keeps, SameStream
  <2> HIDE DEF a
  <2>7. /\ x.state = d.state /\ x.attempts = d.attempts /\ x.peer = d.peer
        /\ x.tls_disabled = d.tls_disabled /\ x.facts = d.facts
        /\ x.handlers = d.handlers /\ x.id_handlers = d.id_handlers
        /\ x.send_queue = d.send_queue /\ Keeps(d, x)
    BY <2>5, <2>6 DEF Keeps, SameStream
  <2> HIDE DEF x
  <2>8. Keeps(c, x) BY <2>1, <2>3, <2>7 DEF Keeps, SameStream
  <2>9. Turn(c, x, {}, {"close"})
    BY <1>2, <2>1, <2>3, <2>7 DEF Turn, Able, Late, Offered, x
  <2> QED BY <2>8, <2>9 DEF x
<1> QED BY <1>2, <1>3, <1>4, <1>5 DEF States
-----------------------------------------------------------------------------
(* The callbacks of Auth. *)

\* What _auth does: TLS if it was offered and can be had, else one of the other ways.
Tries(c, d, env) ==
    \E N \in SUBSET (Exchanges \cup {"_handle_legacy"}), Q \in SUBSET (Items \ {"header"}) :
        /\ Turn(c, d, N, Q) /\ SameStream(c, d) /\ d.ups = c.ups
        /\ \A x, y \in N : x = y
        /\ c.tls_support /\ env.tls_new =>
              N \subseteq {"_handle_proceedtls_default"} /\ Q \cap Credentials = {}
        /\ c.sasl_support = {} /\ ~c.tls_support =>
              N \subseteq {"_handle_legacy"} /\ d.sasl_support = {} /\ ~d.tls_support

LEMMA StartSaslTurn ==
    ASSUME NEW c, Able(c), NEW mech \in Mechanisms,
           NEW handler \in {"_handle_sasl_result", "_handle_digestmd5_challenge"}, NEW env
    PROVE  LET d == StartSasl(c, mech, handler, env)
           IN \/ Turn(c, d, {handler}, {mech}) /\ SameStream(c, d) /\ d.ups = c.ups
              \/ Turn(c, d, {}, {"close"}) /\ Keeps(c, d)
<1> DEFINE h == AddHandler(c, handler)
           s == Send(h, mech)
           d == [s EXCEPT !.sasl_support = @ \ {mech}]
<1>1. handler \in HandlerFns /\ mech \in Items BY DEF HandlerFns, Items
<1>2. Turn(c, h, {handler}, {}) /\ Keeps(c, h) BY <1>1, AddHandlerTurn
<1> HIDE DEF h
<1>3. Turn(h, s, {}, {mech}) /\ Keeps(h, s) BY <1>1, <1>2, SendTurn DEF Turn
<1>4. Turn(c, s, {handler}, {mech}) /\ Keeps(c, s)
  <2>1. {handler} \cup {} = {handler} OBVIOUS
  <2> QED BY <1>2, <1>3, <2>1, TurnTrans
<1>5. Able(s) /\ s \in Conn BY <1>3 DEF Turn, Able, Good
<1> HIDE DEF s
<1>6. Unmoved(s, d) /\ SameStream(s, d) /\ d.ups = s.ups
  <2>1. s.sasl_support \ {mech} \in SUBSET Mechanisms BY <1>5 DEF Conn
  <2> QED BY <1>5, <2>1 DEF Conn, Unmoved, SameStream
<1> HIDE DEF d
<1>7. Turn(s, d, {handler}, {}) BY <1>5, <1>6, UnmovedTurn
<1>8. Turn(c, d, {handler}, {mech})
  <2>1. {handler} \cup {handler} = {handler} OBVIOUS
  <2> QED BY <1>4, <1>7, <2>1, TurnTrans
<1>9. SameStream(c, d) /\ d.ups = c.ups BY <1>4, <1>6, TurnTrans DEF Keeps
<1>10. StartSasl(c, mech, handler, env) = IF env.memory THEN d ELSE XmppDisconnect(c)
  BY DEF StartSasl, d, s, h
<1> QED BY <1>8, <1>9, <1>10, XmppDisconnectTurn

LEMMA StartTlsTurn ==
    ASSUME NEW c, Able(c), NEW env
    PROVE  LET d == StartTls(c, env)
           IN \/ /\ Turn(c, d, {"_handle_proceedtls_default"}, {"starttls"})
                 /\ SameStream(c, d) /\ d.ups = c.ups
              \/ Turn(c, d, {}, {"close"}) /\ Keeps(c, d)
<1> DEFINE f == "_handle_proceedtls_default"
           h == AddHandler(c, f)
           s == Send(h, "starttls")
           d == [s EXCEPT !.tls_support = FALSE]
<1>1. f \in HandlerFns /\ "starttls" \in Items BY DEF HandlerFns, Items
<1>2. Turn(c, h, {f}, {}) /\ Keeps(c, h) BY <1>1, AddHandlerTurn
<1> HIDE DEF h
<1>3. Turn(h, s, {}, {"starttls"}) /\ Keeps(h, s) BY <1>1, <1>2, SendTurn DEF Turn
<1>4. Turn(c, s, {f}, {"starttls"}) /\ Keeps(c, s)
  <2>1. {f} \cup {} = {f} OBVIOUS
  <2> QED BY <1>2, <1>3, <2>1, TurnTrans
<1>5. Able(s) /\ s \in Conn BY <1>3 DEF Turn, Able, Good
<1> HIDE DEF s
<1>6. Unmoved(s, d) /\ SameStream(s, d) /\ d.ups = s.ups
  BY <1>5 DEF Conn, Unmoved, SameStream
<1> HIDE DEF d
<1>7. Turn(s, d, {f}, {}) BY <1>5, <1>6, UnmovedTurn
<1>8. Turn(c, d, {f}, {"starttls"})
  <2>1. {f} \cup {f} = {f} OBVIOUS
  <2> QED BY <1>4, <1>7, <2>1, TurnTrans
<1>9. SameStream(c, d) /\ d.ups = c.ups BY <1>4, <1>6, TurnTrans DEF Keeps
<1>10. StartTls(c, env) = IF env.memory THEN d ELSE XmppDisconnect(c)
  BY DEF StartTls, d, s, h
<1> QED BY <1>8, <1>9, <1>10, XmppDisconnectTurn

\* A request by id: its handler, its timer and the item, or the end.
LEMMA RequestTurn ==
    ASSUME NEW c, Able(c), NEW handler \in IdFns, NEW timer \in TimedFns,
           NEW item \in Items, NEW env
    PROVE  LET d == Request(c, handler, timer, item, env)
           IN Turn(c, d, {handler}, {item, "close"}) /\ Keeps(c, d)
<1> DEFINE h == AddId(c, handler)
           a == AddTimed(h, timer)
           Q == {item, "close"}
           N == {handler}
<1>1. Turn(c, h, N, {}) /\ Keeps(c, h) BY AddIdTurn
<1> HIDE DEF h
<1>2. Turn(h, a, {}, {}) /\ Keeps(h, a) BY <1>1, AddTimedTurn DEF Turn
<1>3. Turn(c, a, N, {}) /\ Keeps(c, a)
  <2>1. N \cup {} = N OBVIOUS
  <2> QED BY <1>1, <1>2, <2>1, TurnTrans
<1>4. Able(a) BY <1>2 DEF Turn
<1> HIDE DEF a
<1>5. ASSUME NEW d, Turn(a, d, {}, {item}) \/ Turn(a, d, {}, {"close"}), Keeps(a, d)
      PROVE  Turn(c, d, N, Q) /\ Keeps(c, d)
  <2>1. Turn(a, d, {}, Q)
    <3>1. {item} \subseteq Q /\ {"close"} \subseteq Q OBVIOUS
    <3> HIDE DEF Q
    <3> QED BY <1>5, <3>1, TurnWeaken
  <2>2. N \cup {} = N OBVIOUS
  <2> HIDE DEF Q
  <2> QED BY <1>3, <1>5, <2>1, <2>2, TurnTrans
<1>6. Turn(a, Send(a, item), {}, {item}) /\ Keeps(a, Send(a, item)) BY <1>4, SendTurn
<1>7. Turn(a, XmppDisconnect(a), {}, {"close"}) /\ Keeps(a, XmppDisconnect(a))
  BY <1>4, XmppDisconnectTurn
<1>8. Request(c, handler, timer, item, env) \in {Send(a, item), XmppDisconnect(a)}
  BY DEF Request, a, h
<1> QED BY <1>5, <1>6, <1>7, <1>8

LEMMA StartLegacyTurn ==
    ASSUME NEW c, Able(c), NEW env
    PROVE  LET d == StartLegacy(c, env)
           IN Turn(c, d, {"_handle_legacy"}, {"legacy", "close"}) /\ Keeps(c, d)
<1> DEFINE r == Request(c, "_handle_legacy", "_handle_missing_legacy", "legacy", env)
           N == {"_handle_legacy"}
           Q == {"legacy", "close"}
<1>1. Turn(c, r, N, Q) /\ Keeps(c, r) BY RequestTurn DEF IdFns, TimedFns, Items
<1>2. Turn(c, XmppDisconnect(c), N, Q) /\ Keeps(c, XmppDisconnect(c))
  <2>1. {} \subseteq N /\ {"close"} \subseteq Q OBVIOUS
  <2> HIDE DEF N, Q
  <2> QED BY <2>1, XmppDisconnectTurn, TurnWeaken
<1>3. StartLegacy(c, env) \in {r, XmppDisconnect(c)} BY DEF StartLegacy, Request
<1> QED BY <1>1, <1>2, <1>3

LEMMA AuthInClearTries ==
    ASSUME NEW c, Able(c), ~c.tls_support, NEW env
    PROVE  Tries(c, AuthInClear(c, env), env)
<1> DEFINE d == AuthInClear(c, env)
<1>0. c \in Conn /\ c.sasl_support \subseteq Mechanisms BY DEF Able, Good, Conn
<1>1. ASSUME NEW h \in Exchanges, NEW m \in Mechanisms, c.sasl_support # {},
             Turn(c, d, {h}, {m}), SameStream(c, d), d.ups = c.ups
      PROVE  Tries(c, d, env)
  <2>1. {h} \in SUBSET (Exchanges \cup {"_handle_legacy"}) OBVIOUS
  <2>2. {m} \in SUBSET (Items \ {"header"}) BY DEF Items, Mechanisms
  <2> QED BY <1>1, <2>1, <2>2 DEF Tries
<1>2. ASSUME Turn(c, d, {}, {"close"}), Keeps(c, d) PROVE Tries(c, d, env)
  <2>1. {"close"} \in SUBSET (Items \ {"header"}) BY DEF Items
  <2>2. {} \in SUBSET (Exchanges \cup {"_handle_legacy"}) OBVIOUS
  <2> QED BY <1>2, <2>1, <2>2 DEF Tries, Keeps
<1>3. ASSUME Turn(c, d, {"_handle_legacy"}, {"legacy", "close"}), Keeps(c, d)
      PROVE  Tries(c, d, env)
  <2>1. {"legacy", "close"} \in SUBSET (Items \ {"header"}) BY DEF Items
  <2>2. {"_handle_legacy"} \in SUBSET (Exchanges \cup {"_handle_legacy"}) OBVIOUS
  <2> QED BY <1>3, <2>1, <2>2 DEF Tries, Keeps
<1>4. /\ "_handle_sasl_result" \in Exchanges /\ "_handle_digestmd5_challenge" \in Exchanges
      /\ "ANONYMOUS" \in Mechanisms /\ "DIGEST-MD5" \in Mechanisms /\ "PLAIN" \in Mechanisms
  BY DEF Exchanges, SaslFns, Mechanisms
<1>5. ASSUME NEW h \in {"_handle_sasl_result", "_handle_digestmd5_challenge"},
             NEW m \in Mechanisms, c.sasl_support # {}, d = StartSasl(c, m, h, env)
      PROVE  Tries(c, d, env)
  <2>1. h \in Exchanges BY <1>4
  <2>2. \/ Turn(c, d, {h}, {m}) /\ SameStream(c, d) /\ d.ups = c.ups
        \/ Turn(c, d, {}, {"close"}) /\ Keeps(c, d)
    BY <1>5, StartSaslTurn
  <2> QED BY <1>1, <1>2, <1>5, <2>1, <2>2
<1>6. CASE c.jid = "anonymous" /\ "ANONYMOUS" \in c.sasl_support
  <2>1. d = StartSasl(c, "ANONYMOUS", "_handle_sasl_result", env)
    BY <1>6 DEF AuthInClear
  <2> HIDE DEF d
  <2>2. Tries(c, d, env) BY <1>4, <1>5, <1>6, <2>1
  <2> QED BY <2>2 DEF d
<1>7. CASE c.jid = "anonymous" /\ "ANONYMOUS" \notin c.sasl_support
  <2>1. d = XmppDisconnect(c) BY <1>7 DEF AuthInClear
  <2> QED BY <1>2, <2>1, XmppDisconnectTurn
<1>8. CASE c.jid # "anonymous" /\ "DIGEST-MD5" \in c.sasl_support
  <2>1. d = StartSasl(c, "DIGEST-MD5", "_handle_digestmd5_challenge", env)
    BY <1>8 DEF AuthInClear
  <2> HIDE DEF d
  <2>2. Tries(c, d, env) BY <1>4, <1>5, <1>8, <2>1
  <2> QED BY <2>2 DEF d
<1>9. CASE c.jid # "anonymous" /\ "DIGEST-MD5" \notin c.sasl_support
            /\ c.sasl_support \cap {"DIGEST-MD5", "PLAIN"} = {"PLAIN"}
  <2>1. d = StartSasl(c, "PLAIN", "_handle_sasl_result", env)
    BY <1>9 DEF AuthInClear
  <2>2. c.sasl_support # {} BY <1>9
  <2> HIDE DEF d
  <2>3. Tries(c, d, env) BY <1>4, <1>5, <2>1, <2>2
  <2> QED BY <2>3 DEF d
<1>10. CASE c.jid # "anonymous" /\ "DIGEST-MD5" \notin c.sasl_support
            /\ c.sasl_support \cap {"DIGEST-MD5", "PLAIN"} # {"PLAIN"}
  <2>1. d = StartLegacy(c, env) BY <1>10 DEF AuthInClear
  <2> QED BY <1>3, <2>1, StartLegacyTurn
<1> QED BY <1>6, <1>7, <1>8, <1>9, <1>10

LEMMA AuthTries ==
    ASSUME NEW c, Able(c), NEW env
    PROVE  Tries(c, Auth(c, env), env)
<1> DEFINE e == [c EXCEPT !.tls_support = FALSE]
           d == Auth(c, env)
<1>1. c \in Conn BY DEF Able, Good
<1>2. CASE c.tls_support /\ env.tls_new
  <2>1. d = StartTls(c, env) BY <1>2 DEF Auth
  <2> DEFINE f == "_handle_proceedtls_default"
  <2>2. /\ {f} \in SUBSET (Exchanges \cup {"_handle_legacy"})
        /\ {} \in SUBSET (Exchanges \cup {"_handle_legacy"})
    BY DEF Exchanges
  <2>3. /\ {"starttls"} \in SUBSET (Items \ {"header"})
        /\ {"close"} \in SUBSET (Items \ {"header"})
        /\ {"starttls"} \cap Credentials = {} /\ {"close"} \cap Credentials = {}
    BY DEF Items, Credentials, Mechanisms
  <2>4. \/ Turn(c, d, {f}, {"starttls"}) /\ SameStream(c, d) /\ d.ups = c.ups
        \/ Turn(c, d, {}, {"close"}) /\ SameStream(c, d) /\ d.ups = c.ups
    BY <2>1, StartTlsTurn DEF Keeps
  <2> HIDE DEF d
  <2>5. ASSUME Turn(c, d, {f}, {"starttls"}), SameStream(c, d), d.ups = c.ups
        PROVE  Tries(c, d, env)
    BY <1>2, <2>2, <2>3, <2>5 DEF Tries
  <2>6. ASSUME Turn(c, d, {}, {"close"}), SameStream(c, d), d.ups = c.ups
        PROVE  Tries(c, d, env)
    BY <1>2, <2>2, <2>3, <2>6 DEF Tries
  <2>7. Tries(c, d, env) BY <2>4, <2>5, <2>6
  <2> QED BY <2>7 DEF d
<1>3. CASE ~(c.tls_support /\ env.tls_new)
  <2>1. d = AuthInClear(e, env) BY <1>3 DEF Auth
  <2>2. Unmoved(c, e) /\ SameStream(c, e) /\ e.ups = c.ups
        /\ e.sasl_support = c.sasl_support /\ ~e.tls_support
    BY <1>1 DEF Conn, Unmoved, SameStream
  <2> HIDE DEF d, e
  <2>3. Turn(c, e, {}, {}) BY <2>2, UnmovedTurn
  <2>4. Tries(e, d, env) BY <2>1, <2>2, <2>3, AuthInClearTries DEF Turn
  <2>5. PICK N \in SUBSET (Exchanges \cup {"_handle_legacy"}), Q \in SUBSET (Items \ {"header"}) :
            /\ Turn(e, d, N, Q) /\ SameStream(e, d) /\ d.ups = e.ups
            /\ \A x, y \in N : x = y
            /\ e.sasl_support = {} =>
                  N \subseteq {"_handle_legacy"} /\ d.sasl_support = {} /\ ~d.tls_support
    BY <2>2, <2>4 DEF Tries
  <2>6. Turn(c, d, N, Q)
    <3>1. {} \cup N = N OBVIOUS
    <3> QED BY <2>3, <2>5, <3>1, TurnTrans
  <2>7. SameStream(c, d) /\ d.ups = c.ups BY <2>2, <2>5, TurnTrans
  <2>8. Tries(c, d, env) BY <1>3, <2>2, <2>5, <2>6, <2>7 DEF Tries
  <2> QED BY <2>8 DEF d
<1> QED BY <1>2, <1>3

LEMMA CallOpenHandlerTurn ==
    ASSUME NEW c, Able(c)
    PROVE  LET d == CallOpenHandler(c)
               f == IF c.open_handler = "auth_handle_open" THEN "_handle_features"
                                                           ELSE "_handle_features_sasl"
           IN Turn(c, d, {f}, {}) /\ Keeps(c, d)
<1>0. /\ {"_handle_error", "_handle_features", "_handle_features_sasl"} \subseteq HandlerFns
      /\ {"_handle_missing_features", "_handle_missing_features_sasl"} \subseteq TimedFns
  BY DEF HandlerFns, TimedFns
<1>1. CASE c.open_handler = "auth_handle_open"
  <2> DEFINE r == ResetTimed(c)
             e == AddHandler(r, "_handle_error")
             f == AddHandler(e, "_handle_features")
             a == AddTimed(f, "_handle_missing_features")
             N == {"_handle_features"}
  <2>1. Turn(c, r, {}, {}) /\ Keeps(c, r) BY ResetTimedTurn
  <2> HIDE DEF r
  <2>2. Turn(r, e, {}, {}) /\ Keeps(r, e)
    <3>1. Turn(r, e, {"_handle_error"}, {}) /\ Keeps(r, e)
      BY <1>0, <2>1, AddHandlerTurn DEF Turn
    <3>2. "_handle_error" \notin DialogueFns /\ "_handle_error" \notin IdFns
      BY DEF DialogueFns, Exchanges, SaslFns, FeatureFns, IdFns
    <3>3. e.id_handlers \subseteq IdFns BY <3>1 DEF Turn, Able, Good, Conn
    <3> QED BY <3>1, <3>2, <3>3 DEF Turn
  <2> HIDE DEF e
  <2>3. Turn(e, f, N, {}) /\ Keeps(e, f) BY <1>0, <2>2, AddHandlerTurn DEF Turn
  <2> HIDE DEF f
  <2>4. Turn(f, a, {}, {}) /\ Keeps(f, a) BY <1>0, <2>3, AddTimedTurn DEF Turn
  <2>5. Turn(c, e, {} \cup {}, {}) /\ Keeps(c, e) BY <2>1, <2>2, TurnTrans
  <2>6. Turn(c, f, ({} \cup {}) \cup N, {}) /\ Keeps(c, f) BY <2>3, <2>5, TurnTrans
  <2>7. Turn(c, a, (({} \cup {}) \cup N) \cup {}, {}) /\ Keeps(c, a)
    BY <2>4, <2>6, TurnTrans
  <2>8. (({} \cup {}) \cup N) \cup {} = N OBVIOUS
  <2>9. CallOpenHandler(c) = a BY <1>1 DEF CallOpenHandler, auth_handle_open, a, f, e, r
  <2> HIDE DEF N, a
  <2> QED BY <1>1, <2>7, <2>8, <2>9 DEF N
<1>2. CASE c.open_handler # "auth_handle_open"
  <2> DEFINE f == AddHandler(c, "_handle_features_sasl")
             a == AddTimed(f, "_handle_missing_features_sasl")
             N == {"_handle_features_sasl"}
  <2>1. Turn(c, f, N, {}) /\ Keeps(c, f) BY <1>0, AddHandlerTurn
  <2> HIDE DEF f
  <2>2. Turn(f, a, {}, {}) /\ Keeps(f, a) BY <1>0, <2>1, AddTimedTurn DEF Turn
  <2>3. Turn(c, a, N \cup {}, {}) /\ Keeps(c, a) BY <2>1, <2>2, TurnTrans
  <2>4. N \cup {} = N OBVIOUS
  <2>5. CallOpenHandler(c) = a BY <1>2 DEF CallOpenHandler, _handle_open_sasl, a, f
  <2> HIDE DEF N, a
  <2> QED BY <1>2, <2>3, <2>4, <2>5 DEF N
<1> QED BY <1>1, <1>2
-----------------------------------------------------------------------------
(* The stanza handlers. *)

\* These two never lead to credentials, nor do features with starttls on a clear stream.
Discreet(c, f, s, env) ==
    \/ f \in {"_handle_features_sasl", "_handle_proceedtls_default"}
    \/ /\ f = "_handle_features" /\ env.tls_new
       /\ ~c.secured /\ ~c.tls_disabled /\ "starttls" \in s.offers

\* What the handler f does with the stanza s: one step on in the dialogue, or nothing.
Goes(c, d, f, s, env) ==
    \E N \in SUBSET (Exchanges \cup IdFns \cup {"queued"}), Q \in SUBSET Items :
        /\ Turn(c, d, N, Q) /\ d.ups = c.ups
        /\ \A x, y \in N : x = y
        /\ "header" \in Q => "queued" \in N
        /\ "queued" \in N =>
              /\ s.name \in {"success", "proceed"} /\ f \in Exchanges
              /\ d.reset_parser /\ (d.secured \/ d.open_handler = "_handle_open_sasl")
        /\ d.parser = c.parser /\ (c.reset_parser => d.reset_parser)
        /\ c.secured => d.secured
        /\ KeepsHandler(f, s, env) => N = {}
        /\ Discreet(c, f, s, env) => Q \cap Credentials = {} /\ N \cap SaslFns = {}

LEMMA GoesOn ==
    ASSUME NEW c, NEW d, NEW f, NEW s, NEW env, ~KeepsHandler(f, s, env),
           NEW N \in SUBSET (Exchanges \cup IdFns), NEW Q \in SUBSET (Items \ {"header"}),
           Turn(c, d, N, Q), SameStream(c, d), d.ups = c.ups, \A x, y \in N : x = y,
           Discreet(c, f, s, env) => Q \cap Credentials = {} /\ N \cap SaslFns = {}
    PROVE  Goes(c, d, f, s, env)
<1>1. N \in SUBSET (Exchanges \cup IdFns \cup {"queued"}) /\ Q \in SUBSET Items OBVIOUS
<1>2. "queued" \notin N BY DEF Exchanges, SaslFns, IdFns
<1> QED BY <1>1, <1>2 DEF Goes, SameStream

LEMMA GoesOut ==
    ASSUME NEW c, NEW d, NEW f, NEW s, NEW env, Turn(c, d, {}, {"close"}),
           SameStream(c, d), d.ups = c.ups
    PROVE  Goes(c, d, f, s, env)
<1>1. {} \in SUBSET (Exchanges \cup IdFns \cup {"queued"}) /\ {"close"} \in SUBSET Items
  BY DEF Items
<1>2. {"close"} \cap Credentials = {} /\ "header" \notin {"close"}
  BY DEF Credentials, Mechanisms
<1> QED BY <1>1, <1>2 DEF Goes, SameStream

LEMMA DisconnectGoes ==
    ASSUME NEW c, Able(c), NEW f, NEW s, NEW env
    PROVE  Goes(c, XmppDisconnect(c), f, s, env)
BY XmppDisconnectTurn, GoesOut DEF Keeps

LEMMA TriesGoes ==
    ASSUME NEW c, NEW d, NEW f \in SaslFns \cup {"_handle_features"}, NEW s, NEW env,
           ~KeepsHandler(f, s, env), Tries(c, d, env),
           Discreet(c, f, s, env) => c.tls_support
    PROVE  Goes(c, d, f, s, env)
<1>1. PICK N \in SUBSET (Exchanges \cup {"_handle_legacy"}), Q \in SUBSET (Items \ {"header"}) :
          /\ Turn(c, d, N, Q) /\ SameStream(c, d) /\ d.ups = c.ups
          /\ \A x, y \in N : x = y
          /\ c.tls_support /\ env.tls_new =>
                N \subseteq {"_handle_proceedtls_default"} /\ Q \cap Credentials = {}
  BY DEF Tries
<1>2. N \in SUBSET (Exchanges \cup IdFns) BY DEF IdFns
<1>3. Discreet(c, f, s, env) => env.tls_new BY DEF Discreet, SaslFns
<1>4. "_handle_proceedtls_default" \notin SaslFns BY DEF SaslFns
<1>5. Discreet(c, f, s, env) => Q \cap Credentials = {} /\ N \cap SaslFns = {}
  BY <1>1, <1>3, <1>4
<1> QED BY <1>1, <1>2, <1>5, GoesOn

LEMMA HandleFeaturesGoes ==
    ASSUME NEW c, Able(c), NEW s \in Stanza, NEW env
    PROVE  Goes(c, _handle_features(c, s, env), "_handle_features", s, env)
<1> DEFINE f == "_handle_features"
           e == DeleteTimed(c, "_handle_missing_features")
           t == IF c.secured THEN e.tls_support
                ELSE ~c.tls_disabled /\ (e.tls_support \/ "starttls" \in s.offers)
           m == e.sasl_support \cup (s.offers \cap Mechanisms)
           h == [e EXCEPT !.tls_support = t, !.sasl_support = m]
           d == _handle_features(c, s, env)
<1>1. Turn(c, e, {}, {}) /\ Keeps(c, e) BY DeleteTimedTurn
<1>2. Able(e) /\ e \in Conn /\ c \in Conn BY <1>1 DEF Turn, Able, Good
<1>3. d = Auth(h, env) BY DEF _handle_features
<1>4. Discreet(c, f, s, env) => t BY DEF Discreet
<1> HIDE DEF d, e
<1>5. t \in BOOLEAN /\ m \in SUBSET Mechanisms BY <1>2 DEF Conn
<1> HIDE DEF t, m
<1>6. Unmoved(e, h) /\ SameStream(e, h) /\ h.ups = e.ups /\ h.tls_support = t
  BY <1>2, <1>5 DEF Conn, Unmoved, SameStream
<1> HIDE DEF h
<1>7. Turn(e, h, {}, {}) BY <1>2, <1>6, UnmovedTurn
<1>8. Turn(c, h, {}, {})
  <2>1. {} \cup {} = {} OBVIOUS
  <2> QED BY <1>1, <1>7, <2>1, TurnTrans
<1>9. SameStream(c, h) /\ h.ups = c.ups BY <1>1, <1>6, TurnTrans DEF Keeps
<1>10. Able(h) BY <1>7 DEF Turn
<1>11. Tries(h, d, env) BY <1>3, <1>10, AuthTries
<1>12. PICK N \in SUBSET (Exchanges \cup {"_handle_legacy"}), Q \in SUBSET (Items \ {"header"}) :
          /\ Turn(h, d, N, Q) /\ SameStream(h, d) /\ d.ups = h.ups
          /\ \A x, y \in N : x = y
          /\ h.tls_support /\ env.tls_new =>
                N \subseteq {"_handle_proceedtls_default"} /\ Q \cap Credentials = {}
  BY <1>11 DEF Tries
<1>13. Turn(c, d, N, Q)
  <2>1. {} \cup N = N OBVIOUS
  <2> QED BY <1>8, <1>12, <2>1, TurnTrans
<1>14. SameStream(c, d) /\ d.ups = c.ups BY <1>9, <1>12, TurnTrans
<1>15. N \in SUBSET (Exchanges \cup IdFns) BY DEF IdFns
<1>16. Discreet(c, f, s, env) => Q \cap Credentials = {} /\ N \cap SaslFns = {}
  <2>1. Discreet(c, f, s, env) => env.tls_new BY DEF Discreet
  <2>2. "_handle_proceedtls_default" \notin SaslFns BY DEF SaslFns
  <2> QED BY <1>4, <1>6, <1>12, <2>1, <2>2
<1>17. ~KeepsHandler(f, s, env) BY DEF KeepsHandler
<1>18. Goes(c, d, f, s, env) BY <1>12, <1>13, <1>14, <1>15, <1>16, <1>17, GoesOn
<1> QED BY <1>18 DEF d

LEMMA ReopenTurn ==
    ASSUME NEW c, Able(c), NEW open \in OpenFns
    PROVE  LET d == OpenStream(PrepareReset(c, open))
           IN /\ Turn(c, d, {"queued"}, {"header"}) /\ d.ups = c.ups
              /\ d.parser = c.parser /\ d.secured = c.secured
              /\ d.reset_parser /\ d.open_handler = open
<1> DEFINE p == PrepareReset(c, open)
           d == Send(p, "header")
<1>1. c \in Conn BY DEF Able, Good
<1>2. /\ Unmoved(c, p) /\ p.ups = c.ups /\ p.parser = c.parser /\ p.secured = c.secured
      /\ p.reset_parser /\ p.open_handler = open
  BY <1>1 DEF PrepareReset, Conn, Unmoved
<1>3. OpenStream(p) = d BY DEF OpenStream
<1> HIDE DEF p
<1>4. Turn(c, p, {"queued"}, {}) BY <1>2, UnmovedTurn
<1>5. Able(p) BY <1>4 DEF Turn
<1>6. Turn(p, d, {}, {"header"}) /\ Keeps(p, d) BY <1>5, SendTurn DEF Items
<1>7. Turn(c, d, {"queued"}, {"header"})
  <2>1. {"queued"} \cup {} = {"queued"} OBVIOUS
  <2> QED BY <1>4, <1>6, <2>1, TurnTrans
<1>8. /\ d.ups = c.ups /\ d.parser = c.parser /\ d.secured = c.secured
      /\ d.reset_parser /\ d.open_handler = open
  BY <1>2, <1>6 DEF Keeps, SameStream
<1> HIDE DEF d
<1> QED BY <1>3, <1>7, <1>8 DEF p

LEMMA ReopenGoes ==
    ASSUME NEW c, Able(c), NEW open \in OpenFns, NEW f \in Exchanges, NEW s, NEW env,
           s.name \in {"success", "proceed"}, ~KeepsHandler(f, s, env),
           c.secured \/ open = "_handle_open_sasl"
    PROVE  Goes(c, OpenStream(PrepareReset(c, open)), f, s, env)
<1> DEFINE d == OpenStream(PrepareReset(c, open))
<1>1. /\ Turn(c, d, {"queued"}, {"header"}) /\ d.ups = c.ups
      /\ d.parser = c.parser /\ d.secured = c.secured
      /\ d.reset_parser /\ d.open_handler = open
  BY ReopenTurn
<1> HIDE DEF d
<1>2. /\ {"queued"} \in SUBSET (Exchanges \cup IdFns \cup {"queued"})
      /\ {"header"} \in SUBSET Items
  BY DEF Items
<1>3. {"header"} \cap Credentials = {} /\ {"queued"} \cap SaslFns = {}
  BY DEF Credentials, Mechanisms, SaslFns
<1>4. Goes(c, d, f, s, env) BY <1>1, <1>2, <1>3 DEF Goes
<1> QED BY <1>4 DEF d

LEMMA ProceedTlsGoes ==
    ASSUME NEW c, Able(c), NEW s, NEW env
    PROVE  Goes(c, _handle_proceedtls_default(c, s, env), "_handle_proceedtls_default", s, env)
<1> DEFINE f == "_handle_proceedtls_default"
           d == _handle_proceedtls_default(c, s, env)
<1>0. c \in Conn BY DEF Able, Good
<1>1. CASE s.name = "proceed" /\ env.tls_start
  <2> DEFINE e == [c EXCEPT !.tls = TRUE, !.secured = TRUE]
             N == {"queued"}
  <2>1. d = OpenStream(PrepareReset(e, "auth_handle_open"))
    BY <1>1 DEF _handle_proceedtls_default
  <2>2. /\ Unmoved(c, e) /\ e.ups = c.ups /\ e.parser = c.parser
        /\ e.reset_parser = c.reset_parser /\ e.secured
    BY <1>0 DEF Conn, Unmoved
  <2> HIDE DEF d, e
  <2>3. Turn(c, e, {}, {}) BY <2>2, UnmovedTurn
  <2>4. Able(e) BY <2>3 DEF Turn
  <2>5. /\ Turn(e, d, N, {"header"}) /\ d.ups = e.ups
        /\ d.parser = e.parser /\ d.secured = e.secured /\ d.reset_parser
    BY <2>1, <2>4, ReopenTurn DEF OpenFns
  <2>6. Turn(c, d, N, {"header"})
    <3>1. {} \cup N = N OBVIOUS
    <3> QED BY <2>3, <2>5, <3>1, TurnTrans
  <2>7. N \in SUBSET (Exchanges \cup IdFns \cup {"queued"}) /\ {"header"} \in SUBSET Items
    BY DEF Items
  <2>8. {"header"} \cap Credentials = {} /\ N \cap SaslFns = {} /\ f \in Exchanges
    BY DEF Credentials, Mechanisms, SaslFns, Exchanges
  <2>9. ~KeepsHandler(f, s, env) BY DEF KeepsHandler
  <2>10. Goes(c, d, f, s, env) BY <1>1, <2>2, <2>5, <2>6, <2>7, <2>8, <2>9 DEF Goes
  <2> QED BY <2>10 DEF d
<1>2. CASE s.name = "proceed" /\ ~env.tls_start
  <2> DEFINE e == [c EXCEPT !.tls = FALSE]
  <2>1. d = XmppDisconnect(e) BY <1>2 DEF _handle_proceedtls_default
  <2>2. Unmoved(c, e) /\ SameStream(c, e) /\ e.ups = c.ups
    BY <1>0 DEF Conn, Unmoved, SameStream
  <2> HIDE DEF d, e
  <2>3. Turn(c, e, {}, {}) BY <2>2, UnmovedTurn
  <2>4. Able(e) BY <2>3 DEF Turn
  <2>5. Turn(e, d, {}, {"close"}) /\ Keeps(e, d) BY <2>1, <2>4, XmppDisconnectTurn
  <2>6. Turn(c, d, {}, {"close"})
    <3>1. {} \cup {} = {} OBVIOUS
    <3> QED BY <2>3, <2>5, <3>1, TurnTrans
  <2>7. SameStream(c, d) /\ d.ups = c.ups BY <2>2, <2>5, TurnTrans DEF Keeps
  <2>8. Goes(c, d, f, s, env) BY <2>6, <2>7, GoesOut
  <2> QED BY <2>8 DEF d
<1>3. CASE s.name # "proceed"
  <2>1. d = c BY <1>3 DEF _handle_proceedtls_default
  <2>2. Turn(c, d, {}, {"close"}) /\ Keeps(c, d) BY <2>1, TurnWeaken
  <2> HIDE DEF d
  <2>3. Goes(c, d, f, s, env) BY <2>2, GoesOut DEF Keeps
  <2> QED BY <2>3 DEF d
<1> QED BY <1>1, <1>2, <1>3

LEMMA SaslResultGoes ==
    ASSUME NEW c, Able(c), NEW f \in SaslFns, NEW s, NEW env, ~KeepsHandler(f, s, env)
    PROVE  Goes(c, _handle_sasl_result(c, s, env), f, s, env)
<1>1. CASE s.name = "failure"
  <2>1. _handle_sasl_result(c, s, env) = Auth(c, env) BY <1>1 DEF _handle_sasl_result
  <2>2. ~Discreet(c, f, s, env) BY DEF Discreet, SaslFns
  <2> QED BY <2>1, <2>2, AuthTries, TriesGoes
<1>2. CASE s.name = "success"
  <2>1. _handle_sasl_result(c, s, env) = OpenStream(PrepareReset(c, "_handle_open_sasl"))
    BY <1>2 DEF _handle_sasl_result
  <2>2. f \in Exchanges /\ "_handle_open_sasl" \in OpenFns BY DEF Exchanges, OpenFns
  <2> QED BY <1>2, <2>1, <2>2, ReopenGoes
<1>3. CASE s.name \notin {"failure", "success"}
  <2>1. _handle_sasl_result(c, s, env) = XmppDisconnect(c) BY <1>3 DEF _handle_sasl_result
  <2> QED BY <2>1, DisconnectGoes
<1> QED BY <1>1, <1>2, <1>3

LEMMA DigestGoes ==
    ASSUME NEW c, Able(c), NEW s, NEW env
    PROVE  /\ Goes(c, _handle_digestmd5_challenge(c, s, env),
                   "_handle_digestmd5_challenge", s, env)
           /\ Goes(c, _handle_digestmd5_rspauth(c, s, env),
                   "_handle_digestmd5_rspauth", s, env)
<1> DEFINE f == "_handle_digestmd5_challenge"
           g == "_handle_digestmd5_rspauth"
           Q == {"response"}
<1>0. f \in SaslFns /\ g \in SaslFns /\ g \in HandlerFns /\ g \in Exchanges
      /\ "response" \in Items
  BY DEF SaslFns, HandlerFns, Exchanges, Items
<1>1. CASE s.name = "challenge" /\ env.memory
  <2> DEFINE h == AddHandler(c, g)
             d == Send(h, "response")
             e == Send(c, "response")
             N == {g}
  <2>1. Turn(c, h, N, {}) /\ Keeps(c, h) BY <1>0, AddHandlerTurn
  <2>2. Able(h) BY <2>1 DEF Turn
  <2> HIDE DEF h
  <2>3. Turn(h, d, {}, Q) /\ Keeps(h, d) BY <1>0, <2>2, SendTurn
  <2>4. Turn(c, d, N, Q)
    <3>1. N \cup {} = N OBVIOUS
    <3> QED BY <2>1, <2>3, <3>1, TurnTrans
  <2>5. Keeps(c, d) BY <2>1, <2>3, TurnTrans
  <2> HIDE DEF d
  <2>6. Turn(c, e, {}, Q) /\ Keeps(c, e) BY <1>0, SendTurn
  <2> HIDE DEF e
  <2>7. /\ N \in SUBSET (Exchanges \cup IdFns \cup {"queued"})
        /\ {} \in SUBSET (Exchanges \cup IdFns \cup {"queued"})
        /\ Q \in SUBSET Items /\ "header" \notin Q /\ "queued" \notin N
    BY <1>0
  <2>8. ~Discreet(c, f, s, env) /\ ~Discreet(c, g, s, env) BY DEF Discreet
  <2>9. ~KeepsHandler(f, s, env) BY DEF KeepsHandler
  <2>10. Goes(c, d, f, s, env)
    BY <2>4, <2>5, <2>7, <2>8, <2>9 DEF Goes, Keeps, SameStream
  <2>11. Goes(c, e, g, s, env) BY <2>6, <2>7, <2>8 DEF Goes, Keeps, SameStream
  <2>12. /\ _handle_digestmd5_challenge(c, s, env) = d
         /\ _handle_digestmd5_rspauth(c, s, env) = e
    BY <1>1 DEF _handle_digestmd5_challenge, _handle_digestmd5_rspauth, d, e, h
  <2> QED BY <2>10, <2>11, <2>12
<1>2. CASE s.name = "challenge" /\ ~env.memory
  <2>1. /\ _handle_digestmd5_challenge(c, s, env) = XmppDisconnect(c)
        /\ _handle_digestmd5_rspauth(c, s, env) = XmppDisconnect(c)
    BY <1>2 DEF _handle_digestmd5_challenge, _handle_digestmd5_rspauth
  <2> QED BY <2>1, DisconnectGoes
<1>3. CASE s.name # "challenge"
  <2>1. /\ _handle_digestmd5_challenge(c, s, env) = _handle_sasl_result(c, s, env)
        /\ _handle_digestmd5_rspauth(c, s, env) = _handle_sasl_result(c, s, env)
    BY <1>3 DEF _handle_digestmd5_challenge, _handle_digestmd5_rspauth
  <2>2. ~KeepsHandler(f, s, env) /\ ~KeepsHandler(g, s, env) BY <1>3 DEF KeepsHandler
  <2> QED BY <1>0, <2>1, <2>2, SaslResultGoes
<1> QED BY <1>1, <1>2, <1>3

LEMMA HandleFeaturesSaslGoes ==
    ASSUME NEW c, Able(c), NEW s, NEW env
    PROVE  Goes(c, _handle_features_sasl(c, s, env), "_handle_features_sasl", s, env)
<1> DEFINE f == "_handle_features_sasl"
           e == DeleteTimed(c, "_handle_missing_features_sasl")
           b == e.bind_required \/ "bind" \in s.offers
           r == e.session_required \/ "session" \in s.offers
           h == [e EXCEPT !.bind_required = b, !.session_required = r]
           q == Request(h, "_handle_bind", "_handle_missing_bind", "bind", env)
           N == {"_handle_bind"}
           Q == {"bind", "close"}
<1>1. Turn(c, e, {}, {}) /\ Keeps(c, e) BY DeleteTimedTurn
<1>2. Able(e) /\ e \in Conn BY <1>1 DEF Turn, Able, Good
<1>3. _handle_features_sasl(c, s, env) = IF h.bind_required THEN q ELSE XmppDisconnect(h)
  BY DEF _handle_features_sasl
<1> HIDE DEF e
<1>4. b \in BOOLEAN /\ r \in BOOLEAN BY <1>2 DEF Conn
<1> HIDE DEF b, r
<1>5. Unmoved(e, h) /\ Keeps(e, h) BY <1>2, <1>4 DEF Conn, Unmoved, SameStream, Keeps
<1> HIDE DEF h
<1>6. Turn(e, h, {}, {}) BY <1>2, <1>5, UnmovedTurn
<1>7. Able(h) BY <1>6 DEF Turn
<1>8. Turn(c, h, {}, {}) /\ Keeps(c, h)
  <2>1. {} \cup {} = {} OBVIOUS
  <2> QED BY <1>1, <1>5, <1>6, <2>1, TurnTrans
<1>9. Goes(c, XmppDisconnect(h), f, s, env)
  <2> DEFINE d == XmppDisconnect(h)
  <2>1. Turn(h, d, {}, {"close"}) /\ Keeps(h, d) BY <1>7, XmppDisconnectTurn
  <2> HIDE DEF d
  <2>2. {} \cup {} = {} OBVIOUS
  <2>3. Turn(c, d, {}, {"close"}) /\ Keeps(c, d) BY <1>8, <2>1, <2>2, TurnTrans
  <2>4. Goes(c, d, f, s, env) BY <2>3, GoesOut DEF Keeps
  <2> QED BY <2>4 DEF d
<1>10. Goes(c, q, f, s, env)
  <2>1. Turn(h, q, N, Q) /\ Keeps(h, q) BY <1>7, RequestTurn DEF IdFns, TimedFns, Items
  <2> HIDE DEF q
  <2>2. Turn(c, q, N, Q) /\ Keeps(c, q)
    <3>1. {} \cup N = N OBVIOUS
    <3> QED BY <1>8, <2>1, <3>1, TurnTrans
  <2>3. N \in SUBSET (Exchanges \cup IdFns) /\ Q \in SUBSET (Items \ {"header"})
    BY DEF IdFns, Items
  <2>4. Q \cap Credentials = {} /\ N \cap SaslFns = {}
    BY DEF Credentials, Mechanisms, SaslFns
  <2>5. ~KeepsHandler(f, s, env) BY DEF KeepsHandler
  <2> QED BY <2>2, <2>3, <2>4, <2>5, GoesOn DEF Keeps
<1> QED BY <1>3, <1>9, <1>10

LEMMA CallUserTurn ==
    ASSUME NEW c, Able(c), NEW Q
    PROVE  Turn(c, CallUser(c), {}, Q) /\ Keeps(c, CallUser(c))
<1> DEFINE d == CallUser(c)
<1>1. c \in Conn BY DEF Able, Good
<1>2. Unmoved(c, d) /\ Keeps(c, d)
  <2>1. (c.early \/ c.ups = 0) \in BOOLEAN BY <1>1 DEF Conn
  <2> QED BY <1>1, <2>1 DEF CallUser, Conn, Unmoved, SameStream, Keeps
<1> HIDE DEF d
<1>3. Turn(c, d, {}, Q) BY <1>2, UnmovedTurn
<1> QED BY <1>2, <1>3 DEF d

LEMMA CallHandlerTurn ==
    ASSUME NEW c, Able(c), NEW f \in HandlerFns, NEW s \in Stanza, NEW env
    PROVE  LET d == CallHandler(f, c, s, env)
           IN /\ f \in DialogueFns => Goes(c, d, f, s, env)
              /\ f \notin DialogueFns => Turn(c, d, {}, {}) /\ Keeps(c, d)
<1>1. CASE f = "_handle_error"
  <2> DEFINE d == [c EXCEPT !.stream_error = TRUE]
  <2>1. CallHandler(f, c, s, env) = d BY <1>1 DEF CallHandler
  <2>2. c \in Conn BY DEF Able, Good
  <2>3. Unmoved(c, d) /\ Keeps(c, d) BY <2>2 DEF Conn, Unmoved, SameStream, Keeps
  <2> HIDE DEF d
  <2>4. Turn(c, d, {}, {}) BY <2>3, UnmovedTurn
  <2>5. f \notin DialogueFns BY <1>1 DEF DialogueFns, Exchanges, SaslFns, FeatureFns
  <2> QED BY <2>1, <2>3, <2>4, <2>5
<1>2. CASE f = "user_stanza"
  <2>1. CallHandler(f, c, s, env) = CallUser(c) BY <1>2 DEF CallHandler
  <2>2. f \notin DialogueFns BY <1>2 DEF DialogueFns, Exchanges, SaslFns, FeatureFns
  <2> QED BY <2>1, <2>2, CallUserTurn
<1>3. CASE f = "_handle_features"
  BY <1>3, HandleFeaturesGoes DEF CallHandler, DialogueFns, FeatureFns
<1>4. CASE f = "_handle_features_sasl"
  BY <1>4, HandleFeaturesSaslGoes DEF CallHandler, DialogueFns, FeatureFns
<1>5. CASE f = "_handle_proceedtls_default"
  BY <1>5, ProceedTlsGoes DEF CallHandler, DialogueFns, Exchanges
<1>6. CASE f = "_handle_sasl_result"
  <2>1. f \in SaslFns /\ f \in DialogueFns /\ ~KeepsHandler(f, s, env)
    BY <1>6 DEF SaslFns, DialogueFns, Exchanges, KeepsHandler
  <2> QED BY <1>6, <2>1, SaslResultGoes DEF CallHandler
<1>7. CASE f \in {"_handle_digestmd5_challenge", "_handle_digestmd5_rspauth"}
  BY <1>7, DigestGoes DEF CallHandler, DialogueFns, Exchanges, SaslFns
<1> QED BY <1>1, <1>2, <1>3, <1>4, <1>5, <1>6, <1>7 DEF HandlerFns

-----------------------------------------------------------------------------
(* The handlers of replies, and of timers. *)

\* A reply leads to the next request, or to CONNECT, or to nothing.
LEMMA NotifyConnectTurn ==
    ASSUME NEW c, Able(c), NEW env
    PROVE  LET d == NotifyConnect(c, env)
           IN /\ Turn(c, d, {"up"}, {"close"}) /\ SameStream(c, d) /\ d.ups = c.ups + 1
              /\ d.sasl_support = c.sasl_support /\ d.tls_support = c.tls_support
<1> DEFINE e == [c EXCEPT !.authenticated = TRUE, !.ups = @ + 1]
           d == NotifyConnect(c, env)
           N == {"up"}
<1>1. c \in Conn /\ c.ups \in Nat BY DEF Able, Good, Conn
<1>2. c.ups + 1 \in Nat BY <1>1
<1>3. /\ Unmoved(c, e) /\ SameStream(c, e) /\ e.ups = c.ups + 1
      /\ e.sasl_support = c.sasl_support /\ e.tls_support = c.tls_support
  BY <1>1, <1>2 DEF Conn, Unmoved, SameStream
<1>4. d \in {e, XmppDisconnect(e)} BY DEF NotifyConnect
<1> HIDE DEF e, d
<1>5. Turn(c, e, N, {}) BY <1>3, UnmovedTurn
<1>6. Able(e) BY <1>5 DEF Turn
<1>7. Turn(e, d, {}, {"close"}) /\ Keeps(e, d)
  BY <1>4, <1>6, XmppDisconnectTurn, TurnWeaken
<1>8. Turn(c, d, N, {"close"})
  <2>1. N \cup {} = N OBVIOUS
  <2> QED BY <1>5, <1>7, <2>1, TurnTrans
<1>9. /\ SameStream(c, d) /\ d.ups = c.ups + 1
      /\ d.sasl_support = c.sasl_support /\ d.tls_support = c.tls_support
  BY <1>3, <1>7 DEF Keeps, SameStream
<1> QED BY <1>8, <1>9 DEF d

LEMMA CallIdTurn ==
    ASSUME NEW c, Able(c), NEW f \in IdFns, NEW s, NEW env
    PROVE  LET d == CallId(f, c, s, env)
           IN /\ SameStream(c, d)
              /\ d.sasl_support = c.sasl_support /\ d.tls_support = c.tls_support
              /\ \/ Turn(c, d, {"_handle_session"}, {"session", "close"}) /\ d.ups = c.ups
                 \/ Turn(c, d, {"up"}, {"session", "close"}) /\ d.ups = c.ups + 1
<1> DEFINE Q == {"session", "close"}
           Answered(d) ==
              /\ SameStream(c, d)
              /\ d.sasl_support = c.sasl_support /\ d.tls_support = c.tls_support
              /\ \/ Turn(c, d, {"_handle_session"}, Q) /\ d.ups = c.ups
                 \/ Turn(c, d, {"up"}, Q) /\ d.ups = c.ups + 1
<1>1. ASSUME NEW t, t # "_disconnect_cleanup"
      PROVE  LET e == DeleteTimed(c, t)
             IN /\ Turn(c, e, {}, {}) /\ Keeps(c, e) /\ Able(e)
                /\ Answered(NotifyConnect(e, env)) /\ Answered(XmppDisconnect(e))
  <2> DEFINE e == DeleteTimed(c, t)
             n == NotifyConnect(e, env)
             x == XmppDisconnect(e)
  <2>1. Turn(c, e, {}, {}) /\ Keeps(c, e) BY <1>1, DeleteTimedTurn
  <2>2. Able(e) BY <2>1 DEF Turn
  <2> HIDE DEF e
  <2>3. /\ Turn(e, n, {"up"}, {"close"}) /\ SameStream(e, n) /\ n.ups = e.ups + 1
        /\ n.sasl_support = e.sasl_support /\ n.tls_support = e.tls_support
    BY <2>2, NotifyConnectTurn
  <2>4. Turn(e, x, {}, {"close"}) /\ Keeps(e, x) BY <2>2, XmppDisconnectTurn
  <2>5. {} \cup {"up"} = {"up"} /\ {} \cup {} = {} /\ {"close"} \subseteq Q
        /\ {} \subseteq {"_handle_session"} /\ {"up"} \subseteq {"up"}
    OBVIOUS
  <2> HIDE DEF n, x, Q
  <2>6. Turn(c, n, {"up"}, {"close"}) /\ Turn(c, x, {}, {"close"})
    BY <2>1, <2>3, <2>4, <2>5, TurnTrans
  <2>7. Turn(c, n, {"up"}, Q) /\ Turn(c, x, {"_handle_session"}, Q)
    BY <2>5, <2>6, TurnWeaken
  <2>8. Answered(n) BY <2>1, <2>3, <2>7 DEF Keeps, SameStream
  <2>9. Answered(x) BY <2>1, <2>4, <2>7 DEF Keeps, SameStream
  <2> HIDE DEF Answered
  <2> QED BY <2>1, <2>2, <2>8, <2>9 DEF e, n, x
<1>2. LET e == DeleteTimed(c, "_handle_missing_bind")
      IN Answered(Request(e, "_handle_session", "_handle_missing_session", "session", env))
  <2> DEFINE e == DeleteTimed(c, "_handle_missing_bind")
             N == {"_handle_session"}
             q == Request(e, "_handle_session", "_handle_missing_session", "session", env)
  <2>1. Turn(c, e, {}, {}) /\ Keeps(c, e) /\ Able(e) BY <1>1
  <2> HIDE DEF e
  <2>2. Turn(e, q, N, Q) /\ Keeps(e, q) BY <2>1, RequestTurn DEF IdFns, TimedFns, Items
  <2> HIDE DEF q, Q
  <2>3. Turn(c, q, N, Q)
    <3>1. {} \cup N = N OBVIOUS
    <3> QED BY <2>1, <2>2, <3>1, TurnTrans
  <2>4. Answered(q) BY <2>1, <2>2, <2>3 DEF Keeps, SameStream
  <2> HIDE DEF Answered
  <2> QED BY <2>4 DEF e, q
<1>3. Answered(CallId(f, c, s, env))
  <2> HIDE DEF Answered
  <2>1. CASE f = "_handle_bind"
    BY <1>1, <1>2, <2>1 DEF CallId, _handle_bind
  <2>2. CASE f = "_handle_session" BY <1>1, <2>2 DEF CallId, _handle_session
  <2>3. CASE f = "_handle_legacy" BY <1>1, <2>3 DEF CallId, _handle_legacy
  <2> QED BY <2>1, <2>2, <2>3 DEF IdFns
<1> QED BY <1>3 DEF Q

LEMMA CallTimedTurn ==
    ASSUME NEW c, Able(c), NEW env,
           NEW f \in TimedFns \ {"_handle_missing_features", "_disconnect_cleanup"}
    PROVE  LET d == CallTimed(f, c, env)
           IN Turn(c, d, {}, {"close"}) /\ Keeps(c, d)
<1>1. CASE f = "user_timed"
  <2>1. CallTimed(f, c, env) = CallUser(c) BY <1>1 DEF CallTimed
  <2> QED BY <2>1, CallUserTurn
<1>2. CASE f # "user_timed"
  <2>1. CallTimed(f, c, env) = XmppDisconnect(c) BY <1>2 DEF CallTimed
  <2> QED BY <2>1, XmppDisconnectTurn
<1> QED BY <1>1, <1>2
-----------------------------------------------------------------------------
(* What a step does to the tokens. *)

Credited(queue) == {i \in DOMAIN queue : queue[i] \in Credentials}

LEMMA AppendQueue ==
    ASSUME NEW queue \in Seq(Items), NEW q \in Items
    PROVE  LET new == Append(queue, q)
           IN /\ \A x : (\E i \in DOMAIN new : new[i] = x) <=>
                           (\E i \in DOMAIN queue : queue[i] = x) \/ x = q
              /\ OneHeader(queue)
                    /\ (q = "header" => ~\E i \in DOMAIN queue : queue[i] = "header")
                 => OneHeader(new)
              /\ q \notin Credentials => Credited(new) = Credited(queue)
<1> DEFINE new == Append(queue, q)
           n == Len(queue)
<1>1. n \in Nat /\ DOMAIN queue = 1 .. n OBVIOUS
<1>2. DOMAIN new = 1 .. n + 1 /\ new[n + 1] = q /\ \A i \in 1 .. n : new[i] = queue[i]
  OBVIOUS
<1> HIDE DEF new, n
<1>3. \A i \in 1 .. n + 1 : i \in 1 .. n \/ i = n + 1 BY <1>1
<1>4. n + 1 \in 1 .. n + 1 /\ 1 .. n \subseteq 1 .. n + 1 /\ n + 1 \notin 1 .. n BY <1>1
<1>5. \A x : (\E i \in DOMAIN new : new[i] = x) <=>
                (\E i \in DOMAIN queue : queue[i] = x) \/ x = q
  BY <1>1, <1>2, <1>3, <1>4
<1>6. OneHeader(queue) /\ (q = "header" => ~\E i \in DOMAIN queue : queue[i] = "header")
      => OneHeader(new)
  BY <1>1, <1>2, <1>3, <1>4 DEF OneHeader
<1>7. q \notin Credentials => Credited(new) = Credited(queue)
  BY <1>1, <1>2, <1>3, <1>4 DEF Credited
<1> QED BY <1>5, <1>6, <1>7 DEF new

LEMMA TurnTokens ==
    ASSUME NEW c, Able(c), NEW d, NEW N, NEW Q \in SUBSET Items, Turn(c, d, N, Q),
           "header" \in Q => "queued" \in N, d.ups # c.ups => "up" \in N
    PROVE  /\ Tokens(d) \subseteq Tokens(c) \cup N
           /\ "queued" \notin N => (HeaderQueued(d) <=> HeaderQueued(c))
           /\ OneHeader(c.send_queue) /\ ("queued" \in N => ~HeaderQueued(c)) =>
                 OneHeader(d.send_queue)
           /\ Q \cap Credentials = {} => CredentialsQueued(d) = CredentialsQueued(c)
<1>1. c \in Conn /\ c.send_queue \in Seq(Items) BY DEF Able, Good, Conn
<1>2. CASE d.send_queue = c.send_queue
  <2>1. HeaderQueued(d) <=> HeaderQueued(c) BY <1>2 DEF HeaderQueued
  <2>2. CredentialsQueued(d) = CredentialsQueued(c) BY <1>2 DEF CredentialsQueued
  <2>3. Tokens(d) \subseteq Tokens(c) \cup N BY <2>1 DEF Turn, Tokens
  <2> QED BY <1>2, <2>1, <2>2, <2>3
<1>3. ASSUME NEW q \in Q, d.send_queue = Append(c.send_queue, q)
      PROVE  /\ HeaderQueued(d) <=> HeaderQueued(c) \/ q = "header"
             /\ OneHeader(c.send_queue) /\ ("queued" \in N => ~HeaderQueued(c)) =>
                   OneHeader(d.send_queue)
             /\ Q \cap Credentials = {} => CredentialsQueued(d) = CredentialsQueued(c)
             /\ Tokens(d) \subseteq Tokens(c) \cup N
  <2> DEFINE a == c.send_queue
             b == d.send_queue
  <2>1. q \in Items /\ (q = "header" => "queued" \in N) OBVIOUS
  <2>2. /\ \A x : (\E i \in DOMAIN b : b[i] = x) <=> (\E i \in DOMAIN a : a[i] = x) \/ x = q
        /\ OneHeader(a) /\ (q = "header" => ~\E i \in DOMAIN a : a[i] = "header")
           => OneHeader(b)
        /\ q \notin Credentials => Credited(b) = Credited(a)
    BY <1>1, <1>3, <2>1, AppendQueue
  <2>3. HeaderQueued(d) <=> HeaderQueued(c) \/ q = "header" BY <2>2 DEF HeaderQueued
  <2>4. OneHeader(a) /\ ("queued" \in N => ~HeaderQueued(c)) => OneHeader(b)
    BY <2>1, <2>2 DEF HeaderQueued
  <2>5. Q \cap Credentials = {} => CredentialsQueued(d) = CredentialsQueued(c)
    BY <2>2 DEF CredentialsQueued, Credited
  <2>6. Tokens(d) \subseteq Tokens(c) \cup N BY <2>1, <2>3 DEF Turn, Tokens
  <2> QED BY <2>3, <2>4, <2>5, <2>6
<1>4. d.send_queue = c.send_queue \/ \E q \in Q : d.send_queue = Append(c.send_queue, q)
  BY DEF Turn
<1>5. CASE \E q \in Q : d.send_queue = Append(c.send_queue, q)
  <2>1. PICK q \in Q : d.send_queue = Append(c.send_queue, q) BY <1>5
  <2> QED BY <1>3, <2>1
<1> QED BY <1>2, <1>4, <1>5

LEMMA OneShrinks ==
    ASSUME NEW T, NEW U, T \subseteq U, Exclusive(U)
    PROVE  Exclusive(T)
BY DEF Exclusive

LEMMA FreshTokens ==
    ASSUME NEW c, Fresh(c)
    PROVE  Tokens(c) = {} /\ ~HeaderQueued(c) /\ OneHeader(c.send_queue)
<1>1. ~HeaderQueued(c) /\ OneHeader(c.send_queue) BY DEF Fresh, HeaderQueued, OneHeader
<1>2. c.peer.owed = {} BY DEF Fresh, NewPeer
<1> QED BY <1>1, <1>2 DEF Fresh, Tokens

\* What brings no token and keeps the stream keeps the dialogue sane.
LEMMA QuietSane ==
    ASSUME NEW c, Able(c), NEW d, NEW Q \in SUBSET (Items \ {"header"}),
           Turn(c, d, {}, Q), Keeps(c, d)
    PROVE  /\ Sane(c) => Sane(d)
           /\ \A reading : Civil(c, reading) => Civil(d, reading)
           /\ Straight(d) <=> Straight(c)
           /\ Tokens(d) \subseteq Tokens(c)
<1>1. /\ Tokens(d) \subseteq Tokens(c)
      /\ HeaderQueued(d) <=> HeaderQueued(c)
      /\ OneHeader(c.send_queue) => OneHeader(d.send_queue)
  <2>1. Q \in SUBSET Items /\ "header" \notin Q OBVIOUS
  <2>2. d.ups = c.ups BY DEF Keeps
  <2>3. Tokens(c) \cup {} = Tokens(c) OBVIOUS
  <2> QED BY <2>1, <2>2, <2>3, TurnTokens
<1>2. Straight(d) <=> Straight(c) BY DEF Turn, Keeps, SameStream, Straight
<1>3. ASSUME Sane(c), c.attempts <= 1, c.attempts = 0 \/ c.state = "CONNECTING"
      PROVE  Fresh(d)
  <2>1. Fresh(c) /\ c.state # "CONNECTED" BY <1>3 DEF Sane
  <2>2. d.send_queue = c.send_queue BY <2>1 DEF Turn
  <2> QED BY <2>1, <2>2 DEF Fresh, Turn, Keeps, SameStream
<1>4. OneAtATime(c) => OneAtATime(d)
  BY <1>1, OneShrinks DEF OneAtATime, HeaderOut, Turn, Keeps
<1>5. Plainly(c) => Plainly(d)
  <2>1. HeaderOut(d) => HeaderOut(c) BY <1>1 DEF HeaderOut
  <2>2. Listed(d.handlers, "_handle_features") => Listed(c.handlers, "_handle_features")
    BY DEF Turn, DialogueFns, FeatureFns
  <2> QED BY <2>1, <2>2 DEF Plainly, Turn, Keeps, SameStream
<1>6. Sane(c) => Sane(d)
  BY <1>2, <1>3, <1>4, <1>5 DEF Sane, Turn, Able, Keeps, SameStream
<1>7. ASSUME NEW reading, Civil(c, reading) PROVE Civil(d, reading)
  <2>1. Parsed(c, reading) => Parsed(d, reading)
    BY <1>1 DEF Parsed, Turn, Keeps, SameStream
  <2> QED BY <1>2, <1>6, <1>7, <2>1 DEF Civil, Turn
<1> QED BY <1>1, <1>2, <1>6, <1>7
-----------------------------------------------------------------------------
(* Connecting and disconnecting. *)

\* The same for the dialogue, but for the state.
Alike(c, d) ==
    /\ d.attempts = c.attempts /\ d.peer = c.peer /\ d.ups = c.ups
    /\ (Late(d) <=> Late(c)) /\ (Offered(d) <=> Offered(c))
    /\ d.handlers = c.handlers /\ d.id_handlers = c.id_handlers
    /\ d.send_queue = c.send_queue
    /\ d.sasl_support = c.sasl_support /\ d.tls_support = c.tls_support
    /\ SameStream(c, d)

LEMMA AlikeTokens ==
    ASSUME NEW c, NEW d, Alike(c, d)
    PROVE  /\ Tokens(d) = Tokens(c) /\ (HeaderQueued(d) <=> HeaderQueued(c))
           /\ CredentialsQueued(d) = CredentialsQueued(c)
           /\ Straight(d) <=> Straight(c)
           /\ OneAtATime(d) <=> OneAtATime(c)
           /\ Plainly(d) <=> Plainly(c)
           /\ Fresh(d) <=> Fresh(c)
<1>1. HeaderQueued(d) <=> HeaderQueued(c) BY DEF Alike, HeaderQueued
<1>2. Tokens(d) = Tokens(c) BY <1>1 DEF Alike, Tokens
<1>3. Straight(d) <=> Straight(c) BY DEF Alike, SameStream, Straight
<1>4. OneAtATime(d) <=> OneAtATime(c) BY <1>2 DEF Alike, OneAtATime, HeaderOut
<1>5. Plainly(d) <=> Plainly(c) BY <1>2 DEF Alike, SameStream, Plainly, HeaderOut
<1>6. Fresh(d) <=> Fresh(c) BY DEF Alike, SameStream, Fresh
<1>7. CredentialsQueued(d) = CredentialsQueued(c) BY DEF Alike, CredentialsQueued
<1> QED BY <1>1, <1>2, <1>3, <1>4, <1>5, <1>6, <1>7

LEMMA AlikeSane ==
    ASSUME NEW c, NEW d, Alike(c, d), d.state = c.state
    PROVE  /\ Sane(c) => Sane(d)
           /\ \A reading : Civil(c, reading) => Civil(d, reading)
<1>0. /\ Straight(d) <=> Straight(c)
      /\ OneAtATime(d) <=> OneAtATime(c)
      /\ Plainly(d) <=> Plainly(c)
      /\ Fresh(d) <=> Fresh(c)
      /\ HeaderQueued(d) <=> HeaderQueued(c)
  BY AlikeTokens
<1>1. Sane(c) => Sane(d) BY <1>0 DEF Sane, Alike, SameStream
<1>2. ASSUME NEW reading, Parsed(c, reading) PROVE Parsed(d, reading)
  BY <1>0, <1>2 DEF Parsed, Alike, SameStream
<1> QED BY <1>0, <1>1, <1>2 DEF Civil, Alike

\* The end of a connection: nothing else changes, or the next attempt begins.
Downed(c, d) == Alike(c, d) /\ d.state = "DISCONNECTED"

LEMMA ConnectClientSane ==
    ASSUME NEW c \in Conn, Sane(c), c.attempts < MaxConnects
    PROVE  LET d == ConnectClient(c)
           IN /\ Sane(d) /\ Civil(d, FALSE) /\ d.state = "CONNECTING"
              /\ d.attempts = c.attempts + 1 /\ ~Offered(d)
              /\ d.handlers = c.handlers /\ d.send_queue = c.send_queue
              /\ d.secured = c.secured
<1> DEFINE d == ConnectClient(c)
<1>1. /\ d.state = "CONNECTING" /\ d.attempts = c.attempts + 1
      /\ d.facts = {} /\ d.peer = NewPeer /\ d.ups = 0
      /\ d.handlers = c.handlers /\ d.id_handlers = c.id_handlers
      /\ d.send_queue = c.send_queue
      /\ d.sasl_support = c.sasl_support /\ d.tls_support = c.tls_support
      /\ SameStream(c, d)
  BY DEF ConnectClient, Conn, SameStream
<1>2. c.attempts \in Nat /\ MaxConnects \in Nat BY MaxConnectsAssumption DEF Conn
<1> HIDE DEF d
<1>3. ~Late(d) /\ ~Offered(d) BY <1>1 DEF Late, Offered
<1>4. d.attempts <= MaxConnects /\ d.attempts # 0 /\ (d.attempts <= 1 => c.attempts = 0)
  BY <1>1, <1>2
<1>5. ASSUME d.attempts <= 1 PROVE Fresh(d)
  <2>1. c.attempts = 0 BY <1>4, <1>5
  <2>2. Fresh(c) BY <1>2, <2>1 DEF Sane
  <2> QED BY <1>1, <1>3, <2>2 DEF Fresh, SameStream
<1>6. Sane(d)
  <2>1. Single(d.handlers) BY <1>1 DEF Sane
  <2>2. ASSUME d.attempts <= 1 PROVE OneAtATime(d) /\ Plainly(d)
    <3>1. Fresh(d) /\ Tokens(d) = {} /\ OneHeader(d.send_queue)
      BY <1>5, <2>2, FreshTokens
    <3>2. d.ups <= 1 BY <1>1
    <3> QED BY <3>1, <3>2 DEF OneAtATime, Exclusive, HeaderOut, Plainly, Fresh
  <2> QED BY <1>1, <1>4, <1>5, <2>1, <2>2 DEF Sane
<1>7. Civil(d, FALSE) BY <1>1, <1>6 DEF Civil, Parsed
<1> QED BY <1>1, <1>3, <1>6, <1>7 DEF SameStream, d

LEMMA ConnDisconnectSane ==
    ASSUME NEW c \in Conn, Sane(c), NEW env
    PROVE  LET d == ConnDisconnect(c, env)
           IN /\ Sane(d) /\ Civil(d, FALSE) /\ d.state # "CONNECTED"
              /\ c.attempts # 0 /\ Civil(c, TRUE) => Civil(d, TRUE)
              /\ d.handlers = c.handlers /\ d.send_queue = c.send_queue
              /\ d.secured = c.secured
              /\ Downed(c, d) \/ (d.attempts = c.attempts + 1 /\ ~Offered(d))
<1> DEFINE e == [c EXCEPT !.state = "DISCONNECTED", !.tls = FALSE, !.downs = @ + 1]
           d == ConnDisconnect(c, env)
<1>0. c.attempts \in Nat /\ c.downs + 1 \in Nat BY DEF Conn
<1>1. e \in Conn /\ Downed(c, e)
  BY <1>0 DEF Conn, States, Downed, Alike, SameStream, Late, Offered
<1>2. d = IF env.on_disconnect = "connect" /\ c.attempts < MaxConnects
          THEN ConnectClient(e) ELSE e
  BY DEF ConnDisconnect
<1> HIDE DEF e, d
<1>3. Sane(e)
  <2>1. Alike(c, e) /\ e.state = "DISCONNECTED" BY <1>1 DEF Downed
  <2>2. /\ Straight(e) <=> Straight(c)
        /\ OneAtATime(e) <=> OneAtATime(c)
        /\ Plainly(e) <=> Plainly(c)
        /\ Fresh(e) <=> Fresh(c)
    BY <2>1, AlikeTokens
  <2> QED BY <2>1, <2>2 DEF Sane, Alike, SameStream
<1>4. Civil(e, FALSE) BY <1>1, <1>3 DEF Civil, Parsed, Downed
<1>5. ASSUME Civil(c, TRUE) PROVE Civil(e, TRUE)
  <2>1. Straight(e) <=> Straight(c) BY <1>1, AlikeTokens DEF Downed
  <2>2. Parsed(c, TRUE) => Parsed(e, TRUE)
    BY <1>1, AlikeTokens DEF Parsed, Downed, Alike, SameStream
  <2> QED BY <1>1, <1>3, <1>5, <2>1, <2>2 DEF Civil, Downed, Alike
<1>6. CASE d = e
  <2>1. d.handlers = c.handlers /\ d.send_queue = c.send_queue /\ d.secured = c.secured
        /\ d.state # "CONNECTED"
    BY <1>1, <1>6 DEF Downed, Alike, SameStream
  <2>2. Sane(d) /\ Civil(d, FALSE) /\ Downed(c, d) BY <1>1, <1>3, <1>4, <1>6
  <2>3. Civil(c, TRUE) => Civil(d, TRUE) BY <1>5, <1>6
  <2> QED BY <2>1, <2>2, <2>3 DEF d
<1>7. CASE c.attempts < MaxConnects /\ d = ConnectClient(e)
  <2>1. e.attempts < MaxConnects BY <1>1, <1>7 DEF Downed, Alike
  <2>2. /\ Sane(d) /\ Civil(d, FALSE) /\ d.state = "CONNECTING"
        /\ d.attempts = e.attempts + 1 /\ ~Offered(d)
        /\ d.handlers = e.handlers /\ d.send_queue = e.send_queue
        /\ d.secured = e.secured
    BY <1>1, <1>3, <1>7, <2>1, ConnectClientSane
  <2>3. d.handlers = c.handlers /\ d.send_queue = c.send_queue /\ d.secured = c.secured
        /\ d.attempts = c.attempts + 1
    BY <1>1, <2>2 DEF Downed, Alike, SameStream
  <2>4. c.attempts # 0 => ~(d.attempts <= 1) BY <1>0, <2>3
  <2>5. c.attempts # 0 => Civil(d, TRUE) BY <2>2, <2>4 DEF Civil
  <2> QED BY <2>2, <2>3, <2>5 DEF d
<1> QED BY <1>2, <1>6, <1>7
-----------------------------------------------------------------------------
(* Writing. *)

\* What is left of a queue when its first n items have gone.
LEMMA SubSeqQueue ==
    ASSUME NEW queue \in Seq(Items), NEW n \in 0 .. Len(queue)
    PROVE  LET new  == SubSeq(queue, n + 1, Len(queue))
               gone == {queue[i] : i \in 1 .. n}
           IN /\ \A x : (\E i \in DOMAIN new : new[i] = x) => \E i \in DOMAIN queue : queue[i] = x
              /\ gone \subseteq Items
              /\ \A x \in gone : \E i \in DOMAIN queue : queue[i] = x
              /\ OneHeader(queue) => OneHeader(new)
              /\ OneHeader(queue) /\ "header" \in gone =>
                    ~\E i \in DOMAIN new : new[i] = "header"
              /\ Cardinality(Credited(new)) <= Cardinality(Credited(queue))
<1> DEFINE new  == SubSeq(queue, n + 1, Len(queue))
           gone == {queue[i] : i \in 1 .. n}
           l    == Len(queue)
           S    == Credited(new)
           T    == Credited(queue)
           f    == [i \in S |-> i + n]
<1>1. l \in Nat /\ DOMAIN queue = 1 .. l /\ n \in Nat /\ n <= l OBVIOUS
<1>2. \A i \in n + 1 .. l : queue[i] \in Items BY <1>1
<1>3. /\ new \in Seq(Items) /\ Len(new) = l - n
      /\ \A i \in 1 .. l - n : new[i] = queue[i + n]
  <2>1. n + 1 \in Int /\ l \in Int BY <1>1
  <2>2. /\ new \in Seq(Items)
        /\ Len(new) = IF n + 1 <= l THEN l - (n + 1) + 1 ELSE 0
        /\ \A i \in 1 .. l - (n + 1) + 1 : new[i] = queue[(n + 1) + i - 1]
    <3> HIDE DEF l
    <3>1. new = SubSeq(queue, n + 1, l) BY DEF l
    <3> HIDE DEF new
    <3> QED BY <1>2, <2>1, <3>1, SubSeqProperties
  <2> HIDE DEF new
  <2>3. Len(new) = l - n BY <1>1, <2>2
  <2>4. \A i \in 1 .. l - n : (n + 1) + i - 1 = i + n /\ i \in 1 .. l - (n + 1) + 1 BY <1>1
  <2>5. \A i \in 1 .. l - n : new[i] = queue[i + n] BY <2>2, <2>4
  <2> QED BY <2>2, <2>3, <2>5
<1> HIDE DEF new
<1>4. DOMAIN new = 1 .. l - n BY <1>3
<1>5. \A i \in 1 .. l - n : i + n \in 1 .. l /\ i + n \notin 1 .. n BY <1>1
<1>6. \A i, j \in 1 .. l - n : i + n = j + n => i = j BY <1>1
<1> HIDE DEF l
<1>7. \A x : (\E i \in DOMAIN new : new[i] = x) => \E i \in DOMAIN queue : queue[i] = x
  BY <1>1, <1>3, <1>4, <1>5
<1>8. \A i \in 1 .. n : i \in 1 .. l BY <1>1
<1>9. gone \subseteq Items BY <1>1, <1>8
<1>10. \A x \in gone : \E i \in DOMAIN queue : queue[i] = x BY <1>1, <1>8
<1>11. OneHeader(queue) => OneHeader(new)
  BY <1>1, <1>3, <1>4, <1>5, <1>6 DEF OneHeader
<1>12. ASSUME OneHeader(queue), "header" \in gone, NEW j \in DOMAIN new, new[j] = "header"
       PROVE  FALSE
  <2>1. PICK i \in 1 .. n : queue[i] = "header" BY <1>12
  <2>2. j + n \in 1 .. l /\ j + n \notin 1 .. n /\ queue[j + n] = "header"
    BY <1>3, <1>4, <1>5, <1>12
  <2>3. i = j + n BY <1>1, <1>8, <1>12, <2>1, <2>2 DEF OneHeader
  <2> QED BY <2>1, <2>2, <2>3
<1>13. Cardinality(S) <= Cardinality(T)
  <2>1. S \subseteq 1 .. l - n /\ T \subseteq 1 .. l BY <1>1, <1>4 DEF Credited
  <2>2. f \in [S -> T]
    <3> SUFFICES ASSUME NEW i \in S PROVE i + n \in T OBVIOUS
    <3>1. i \in 1 .. l - n /\ new[i] \in Credentials BY <1>4 DEF Credited
    <3> QED BY <1>1, <1>3, <1>5, <3>1 DEF Credited
  <2>3. \A i, j \in S : f[i] = f[j] => i = j BY <1>6, <2>1
  <2> HIDE DEF S, T, f
  <2>4. f \in Injection(S, T)
    <3>1. \A a, b \in S : f[a] = f[b] => a = b BY <2>3
    <3> QED BY <2>2, <3>1 DEF Injection, IsInjective
  <2>5. IsFiniteSet(1 .. l) BY <1>1, FS_Interval
  <2>6. IsFiniteSet(T) BY <2>1, <2>5, FS_Subset
  <2> QED BY <2>4, <2>6, FS_Injection
<1> QED BY <1>7, <1>9, <1>10, <1>11, <1>12, <1>13 DEF new

\* The parser will be ready for the header when the reset asked for has been done.
Parsable(c) ==
    /\ c.attempts <= 1 /\ Straight(c) /\ c.state = "CONNECTED"
    /\ "header" \in c.peer.owed \/ HeaderQueued(c)
    => c.reset_parser \/ c.parser = "start"

LEMMA ParserResetCivil ==
    ASSUME NEW c \in Conn, Sane(c), Parsable(c)
    PROVE  LET d == ParserReset(c)
           IN /\ Civil(d, FALSE) /\ d.state = c.state /\ d.attempts = c.attempts
              /\ d.handlers = c.handlers /\ d.send_queue = c.send_queue
              /\ d.facts = c.facts /\ d.secured = c.secured
<1> DEFINE e == [c EXCEPT !.reset_parser = FALSE, !.parser = "start"]
           d == ParserReset(c)
<1>1. d = IF c.reset_parser THEN e ELSE c BY DEF ParserReset
<1>2. /\ d.state = c.state /\ d.attempts = c.attempts /\ d.peer = c.peer /\ d.ups = c.ups
      /\ d.handlers = c.handlers /\ d.id_handlers = c.id_handlers
      /\ d.send_queue = c.send_queue /\ d.facts = c.facts
      /\ d.sasl_support = c.sasl_support /\ d.tls_support = c.tls_support
      /\ d.secured = c.secured /\ d.open_handler = c.open_handler
      /\ (c.reset_parser \/ c.parser = "start") => d.parser = "start"
  BY <1>1 DEF Conn
<1> HIDE DEF d
<1>3. HeaderQueued(d) <=> HeaderQueued(c) BY <1>2 DEF HeaderQueued
<1>4. (Late(d) <=> Late(c)) /\ (Offered(d) <=> Offered(c)) BY <1>2 DEF Late, Offered
<1>5. Tokens(d) = Tokens(c) /\ (Straight(d) <=> Straight(c))
  BY <1>2, <1>3, <1>4 DEF Tokens, Straight
<1>6. OneAtATime(c) => OneAtATime(d) BY <1>2, <1>4, <1>5 DEF OneAtATime, HeaderOut
<1>7. Plainly(c) => Plainly(d) BY <1>2, <1>4, <1>5 DEF Plainly, HeaderOut
<1>8. Fresh(c) => Fresh(d) BY <1>2, <1>4 DEF Fresh
<1>9. Sane(d) BY <1>2, <1>5, <1>6, <1>7, <1>8 DEF Sane
<1>10. d.attempts <= 1 /\ Straight(d) => Parsed(d, FALSE)
  BY <1>2, <1>3, <1>5 DEF Parsed, Parsable
<1>11. Civil(d, FALSE) BY <1>9, <1>10 DEF Civil
<1> QED BY <1>2, <1>11 DEF d

LEMMA WriteQueueSane ==
    ASSUME Conforming, NEW c \in Conn, Civil(c, FALSE),
           c.attempts <= 1 => c.attempts # 0 /\ c.state # "CONNECTING",
           NEW n \in 0 .. Len(c.send_queue), NEW fails
    PROVE  LET d == WriteQueue(c, n, fails)
           IN /\ Sane(d) /\ Parsable(d) /\ d.state = c.state /\ d.attempts = c.attempts
              /\ d.handlers = c.handlers /\ d.facts = c.facts /\ d.secured = c.secured
              /\ CredentialsQueued(d) <= CredentialsQueued(c)
<1> DEFINE queue == c.send_queue
           new   == SubSeq(queue, n + 1, Len(queue))
           gone  == {queue[i] : i \in 1 .. n}
           peer  == Receive(c.peer, gone)
           d     == WriteQueue(c, n, fails)
<1>1. /\ d.state = c.state /\ d.attempts = c.attempts /\ d.peer = peer /\ d.ups = c.ups
      /\ d.handlers = c.handlers /\ d.id_handlers = c.id_handlers
      /\ d.send_queue = new /\ d.facts = c.facts
      /\ d.sasl_support = c.sasl_support /\ d.tls_support = c.tls_support
      /\ SameStream(c, d)
  BY DEF WriteQueue, Conn, SameStream
<1> HIDE DEF d
<1>2. queue \in Seq(Items) /\ c.peer \in Peer /\ Sane(c) BY DEF Conn, Civil
<1>3. /\ \A x : (\E i \in DOMAIN new : new[i] = x) => \E i \in DOMAIN queue : queue[i] = x
      /\ gone \subseteq Items
      /\ \A x \in gone : \E i \in DOMAIN queue : queue[i] = x
      /\ OneHeader(queue) => OneHeader(new)
      /\ OneHeader(queue) /\ "header" \in gone => ~\E i \in DOMAIN new : new[i] = "header"
      /\ Cardinality(Credited(new)) <= Cardinality(Credited(queue))
  BY <1>2, SubSeqQueue
<1>4. /\ HeaderQueued(d) => HeaderQueued(c)
      /\ "header" \in gone => HeaderQueued(c)
      /\ OneHeader(queue) => OneHeader(d.send_queue)
      /\ OneHeader(queue) /\ "header" \in gone => ~HeaderQueued(d)
      /\ CredentialsQueued(d) <= CredentialsQueued(c)
  BY <1>1, <1>3 DEF HeaderQueued, CredentialsQueued, Credited
<1>5. /\ peer.phase = c.peer.phase
      /\ peer.owed \cap {"header", "features"} \subseteq
            c.peer.owed \cup (IF "header" \in gone THEN {"header", "features"} ELSE {})
  <2>1. "features" \notin gone BY <1>3 DEF Items, Mechanisms
  <2> HIDE DEF gone
  <2> QED BY <1>2, <2>1 DEF Receive, Peer
<1> HIDE DEF new, gone, peer
<1>6. (Late(d) <=> Late(c)) /\ (Offered(d) <=> Offered(c)) /\ (Straight(d) <=> Straight(c))
  BY <1>1 DEF Late, Offered, Straight, SameStream
<1>7. "header" \notin gone => Tokens(d) \subseteq Tokens(c)
  BY <1>1, <1>4, <1>5, <1>6 DEF Tokens
<1>8. ASSUME "header" \in gone, OneAtATime(c)
      PROVE  Tokens(d) \subseteq {"header", "features"} /\ HeaderOut(c)
  <2>1. "queued" \in Tokens(c) /\ HeaderOut(c) BY <1>4, <1>8 DEF Tokens, HeaderOut
  <2>2. \A x \in Tokens(c) : x = "queued"
    BY <1>8, <2>1 DEF OneAtATime, Exclusive, Beside, FeatureFns
  <2>3. ~HeaderQueued(d) BY <1>4, <1>8 DEF OneAtATime
  <2>4. Tokens(d) \subseteq Tokens(c) \cup {"header", "features"}
    BY <1>1, <1>4, <1>5, <1>6 DEF Tokens
  <2>5. "queued" \notin Tokens(d)
    <3>1. "queued" \notin DialogueFns /\ "queued" \notin IdFns
      BY DEF DialogueFns, Exchanges, SaslFns, FeatureFns, IdFns
    <3>2. d.id_handlers \subseteq IdFns BY <1>1 DEF Conn
    <3> QED BY <2>3, <3>1, <3>2, TokensAre
  <2> QED BY <2>1, <2>2, <2>4, <2>5
<1>9. ASSUME OneAtATime(c) PROVE OneAtATime(d) /\ (HeaderOut(d) => HeaderOut(c))
  <2>1. HeaderOut(d) => HeaderOut(c)
    <3>1. CASE "header" \in gone BY <1>8, <1>9, <3>1
    <3>2. CASE "header" \notin gone BY <1>7, <3>2 DEF HeaderOut
    <3> QED BY <3>1, <3>2
  <2>2. Exclusive(Tokens(d))
    <3>1. CASE "header" \in gone
      <4>1. Exclusive({"header", "features"}) BY DEF Exclusive, Beside
      <4> QED BY <1>8, <1>9, <3>1, <4>1, OneShrinks
    <3>2. CASE "header" \notin gone BY <1>7, <1>9, <3>2, OneShrinks DEF OneAtATime
    <3> QED BY <3>1, <3>2
  <2> QED BY <1>1, <1>4, <1>5, <1>6, <1>9, <2>1, <2>2 DEF OneAtATime
<1>10. ASSUME c.attempts <= 1, ~c.secured PROVE Plainly(d)
  <2>1. Straight(c) /\ OneAtATime(c) /\ Plainly(c) BY <1>2, <1>10 DEF Straight, Sane
  <2> QED BY <1>1, <1>6, <1>9, <2>1 DEF Plainly, SameStream
<1>11. Sane(d)
  <2>1. Single(d.handlers) /\ d.attempts <= MaxConnects BY <1>1, <1>2 DEF Sane
  <2>2. d.attempts = 0 => d.state = "DISCONNECTED" BY <1>1, <1>2 DEF Sane
  <2>3. ASSUME d.attempts <= 1
        PROVE  /\ ~(d.attempts = 0 \/ d.state = "CONNECTING")
               /\ Straight(d) => OneAtATime(d)
               /\ ~d.secured => Plainly(d)
    BY <1>1, <1>2, <1>6, <1>9, <1>10, <2>3 DEF Sane, SameStream
  <2> QED BY <2>1, <2>2, <2>3 DEF Sane
<1>12. Parsable(d)
  <2> SUFFICES ASSUME d.attempts <= 1, Straight(d), d.state = "CONNECTED",
                      "header" \in d.peer.owed \/ HeaderQueued(d)
               PROVE  d.reset_parser \/ d.parser = "start"
    BY DEF Parsable
  <2>1. Parsed(c, FALSE) BY <1>1, <1>6 DEF Civil
  <2>2. "header" \in c.peer.owed \/ HeaderQueued(c) BY <1>1, <1>4, <1>5
  <2> QED BY <1>1, <2>1, <2>2 DEF Parsed, SameStream
<1>13. /\ d.state = c.state /\ d.attempts = c.attempts /\ d.handlers = c.handlers
       /\ d.facts = c.facts /\ d.secured = c.secured
  BY <1>1 DEF SameStream
<1> QED BY <1>4, <1>11, <1>12, <1>13 DEF d
-----------------------------------------------------------------------------
(* The invariants.                                                         *)

\* The handlers see the stanza s when what the server owed with it is settled.
Settled(c, s) ==
    /\ s.name = "stream:features" /\ Straight(c) =>
          Tokens(c) \cap {"queued", "header", "features"} = {}
    /\ s.name \in {"success", "proceed"} => c.peer.phase = "restart"

Heard == Settled(conn, stanza)

Dialogue ==
    /\ Civil(conn, pc \in {"chunk", "stanza"})
    /\ pc = "stanza" /\ conn.attempts <= 1 => Heard

\* The handler of features has still to be called with those that offer starttls.
Ahead ==
    /\ pc = "stanza" /\ stanza.name = "stream:features" /\ "starttls" \in stanza.offers
    /\ ~conn.tls_disabled
    /\ \A i \in DOMAIN conn.handlers : conn.handlers[i].fn = "_handle_features" =>
           i >= at /\ conn.handlers[i].enabled

\* Once starttls was offered no handler can lead to SASL but one that starts TLS first.
Secrecy ==
    conn.attempts <= 1 /\ ~conn.secured /\ Offered(conn) =>
        /\ \A f \in SaslFns : ~Listed(conn.handlers, f)
        /\ Listed(conn.handlers, "_handle_features") => Ahead

Careful ==
    conn'.attempts <= 1 /\ Offered(conn') /\ ~conn.secured =>
        CredentialsQueued(conn') <= CredentialsQueued(conn)

TlsWorks == \A env \in Choices : env.tls_new

Converses == Dialogue' /\ (TlsWorks /\ Secrecy => Secrecy' /\ Careful)

\* Secrecy where no stanza is being handled.
Hidden(c) ==
    c.attempts <= 1 /\ ~c.secured /\ Offered(c) =>
        \A f \in SaslFns \cup {"_handle_features"} : ~Listed(c.handlers, f)

LEMMA HiddenNow ==
    /\ pc # "stanza" => (Secrecy <=> Hidden(conn))
    /\ pc' # "stanza" => (Secrecy' <=> Hidden(conn'))
BY DEF Secrecy, Hidden, Ahead

\* A change that is nothing to the dialogue.
Still(c, d) ==
    /\ d.state = c.state /\ d.attempts = c.attempts
    /\ Sane(c) => Sane(d)
    /\ \A reading : Civil(c, reading) => Civil(d, reading)
    /\ Hidden(c) => Hidden(d)
    /\ CredentialsQueued(d) = CredentialsQueued(c)

LEMMA StillTrans ==
    ASSUME NEW c, NEW d, NEW e
    PROVE  /\ Still(c, c)
           /\ Still(c, d) /\ Still(d, e) => Still(c, e)
BY DEF Still

LEMMA AlikeStill ==
    ASSUME NEW c, NEW d, Alike(c, d), d.state = c.state
    PROVE  Still(c, d)
<1>1. CredentialsQueued(d) = CredentialsQueued(c) BY AlikeTokens
<1>2. Hidden(c) => Hidden(d) BY DEF Hidden, Alike, SameStream
<1> QED BY <1>1, <1>2, AlikeSane DEF Still, Alike

LEMMA TimedStill ==
    ASSUME NEW c \in Conn, NEW list
    PROVE  LET d == [c EXCEPT !.timed_handlers = list]
           IN /\ Alike(c, d) /\ d.state = c.state /\ d.tls_disabled = c.tls_disabled
              /\ Still(c, d)
<1> DEFINE d == [c EXCEPT !.timed_handlers = list]
<1>1. Alike(c, d) /\ d.state = c.state /\ d.tls_disabled = c.tls_disabled
  BY DEF Conn, Alike, SameStream, Late, Offered
<1> HIDE DEF d
<1> QED BY <1>1, AlikeStill DEF d

LEMMA BeginTimedStill ==
    ASSUME NEW c \in Conn
    PROVE  Still(c, BeginTimed(c))
BY TimedStill, StillTrans DEF BeginTimed

LEMMA TurnStill ==
    ASSUME NEW c, Able(c), NEW d, NEW Q \in SUBSET (Items \ {"header"}),
           Q \cap Credentials = {}, Turn(c, d, {}, Q), Keeps(c, d)
    PROVE  Still(c, d)
<1>1. CredentialsQueued(d) = CredentialsQueued(c)
  <2>1. Q \in SUBSET Items /\ "header" \notin Q /\ d.ups = c.ups BY DEF Keeps
  <2> QED BY <2>1, TurnTokens
<1>2. Hidden(c) => Hidden(d)
  <2>1. SaslFns \cup {"_handle_features"} \subseteq DialogueFns
    BY DEF DialogueFns, Exchanges, FeatureFns
  <2>2. \A f \in SaslFns \cup {"_handle_features"} :
           Listed(d.handlers, f) => Listed(c.handlers, f)
    BY <2>1 DEF Turn
  <2> QED BY <2>2 DEF Hidden, Turn, Keeps, SameStream
<1>3. /\ Sane(c) => Sane(d)
      /\ \A reading : Civil(c, reading) => Civil(d, reading)
  BY QuietSane
<1>4. d.state = c.state /\ d.attempts = c.attempts BY DEF Turn
<1> QED BY <1>1, <1>2, <1>3, <1>4 DEF Still

LEMMA CivilReads ==
    ASSUME NEW c
    PROVE  /\ Civil(c, TRUE) => Civil(c, FALSE)
           /\ Civil(c, FALSE) /\ c.state = "CONNECTED" => Civil(c, TRUE)
BY DEF Civil, Parsed

LEMMA Now ==
    ASSUME Inv, Fits, Dialogue
    PROVE  /\ conn \in Conn /\ Able(conn) /\ Sane(conn) /\ Paired(conn)
           /\ Civil(conn, FALSE)
           /\ pc \in {"chunk", "stanza"} => Civil(conn, TRUE) /\ conn.attempts # 0
           /\ conn.attempts \in Nat /\ stanza \in Stanza /\ at \in Nat \ {0}
           /\ conn.attempts = 0 => conn.state = "DISCONNECTED"
<1>1. conn \in Conn /\ Good(conn) /\ stanza \in Stanza /\ at \in Nat \ {0}
  BY DEF Inv, TypeOK
<1>2. Civil(conn, pc \in {"chunk", "stanza"}) /\ Sane(conn) BY DEF Dialogue, Civil
<1>3. Able(conn) BY <1>1, <1>2 DEF Sane, Able
<1>4. Civil(conn, FALSE) BY <1>2 DEF Civil, Parsed
<1>5. ASSUME pc \in {"chunk", "stanza"} PROVE Civil(conn, TRUE)
  BY <1>2, <1>5 DEF Civil, Parsed
<1>6. conn.attempts \in Nat BY <1>1 DEF Conn
<1> QED BY <1>1, <1>2, <1>3, <1>4, <1>5, <1>6 DEF Fits, Kept, Sane

LEMMA CredentialsType ==
    ASSUME NEW c \in Conn
    PROVE  CredentialsQueued(c) \in Nat
<1>1. c.send_queue \in Seq(Items) BY DEF Conn
<1>2. DOMAIN c.send_queue = 1 .. Len(c.send_queue) /\ Len(c.send_queue) \in Nat BY <1>1
<1>3. IsFiniteSet(DOMAIN c.send_queue) BY <1>2, FS_Interval
<1> DEFINE T == {i \in DOMAIN c.send_queue : c.send_queue[i] \in Credentials}
<1>4. IsFiniteSet(T)
  <2>1. T \subseteq DOMAIN c.send_queue OBVIOUS
  <2> HIDE DEF T
  <2> QED BY <1>3, <2>1, FS_Subset
<1> HIDE DEF T
<1>5. Cardinality(T) \in Nat BY <1>4, FS_CardinalityType
<1> QED BY <1>5 DEF T, CredentialsQueued

LEMMA DialogueNext ==
    ASSUME Civil(conn', FALSE), pc' \in {"chunk", "stanza"} => Civil(conn', TRUE),
           pc' = "stanza" /\ conn'.attempts <= 1 => Heard'
    PROVE  Dialogue'
BY DEF Dialogue, Civil, Parsed

LEMMA StillConverses ==
    ASSUME Inv, Fits, Dialogue, Still(conn, conn'), pc # "stanza", pc' # "stanza",
           pc' = "chunk" => pc = "chunk" \/ conn.state = "CONNECTED"
    PROVE  Converses
<1>1. /\ Civil(conn, FALSE) /\ (pc = "chunk" => Civil(conn, TRUE)) /\ conn \in Conn
  BY Now
<1>2. pc' = "chunk" => Civil(conn, TRUE) BY <1>1, CivilReads
<1>3. Dialogue'
  <2>1. Civil(conn', FALSE) /\ (pc' = "chunk" => Civil(conn', TRUE)) BY <1>1, <1>2 DEF Still
  <2> QED BY <2>1, DialogueNext
<1>4. Secrecy => Secrecy' BY HiddenNow DEF Still
<1>5. Careful BY <1>1, CredentialsType DEF Careful, Still
<1> QED BY <1>3, <1>4, <1>5 DEF Converses

\* The connection ends: conn, but for some fields of no matter here, is c when it does.
LEMMA EndConverses ==
    ASSUME Inv, Fits, Dialogue, NEW c \in Conn, Sane(c), NEW env,
           c.attempts = conn.attempts, c.handlers = conn.handlers,
           c.send_queue = conn.send_queue, c.secured = conn.secured,
           Offered(c) => Offered(conn),
           Still(ConnDisconnect(c, env), conn'),
           pc # "stanza", pc' # "stanza", pc' = "chunk" => pc = "chunk" /\ Civil(c, TRUE)
    PROVE  Converses
<1> DEFINE d == ConnDisconnect(c, env)
<1>1. conn \in Conn /\ (pc = "chunk" => conn.attempts # 0) BY Now
<1>2. /\ Sane(d) /\ Civil(d, FALSE) /\ (c.attempts # 0 /\ Civil(c, TRUE) => Civil(d, TRUE))
      /\ d.handlers = c.handlers /\ d.send_queue = c.send_queue /\ d.secured = c.secured
      /\ Downed(c, d) \/ (d.attempts = c.attempts + 1 /\ ~Offered(d))
  BY ConnDisconnectSane
<1>3. Still(d, conn') OBVIOUS
<1> HIDE DEF d
<1>4. Dialogue'
  <2>1. Civil(conn', FALSE) /\ (pc' = "chunk" => Civil(conn', TRUE))
    BY <1>1, <1>2, <1>3 DEF Still
  <2> QED BY <2>1, DialogueNext
<1>5. Secrecy => Secrecy'
  <2>1. Hidden(conn) => Hidden(d) BY <1>2 DEF Hidden, Downed, Alike
  <2> QED BY <1>3, <2>1, HiddenNow DEF Still
<1>6. Careful
  <2>1. CredentialsQueued(conn') = CredentialsQueued(conn)
    BY <1>2, <1>3 DEF Still, CredentialsQueued
  <2> QED BY <1>1, <2>1, CredentialsType DEF Careful
<1> QED BY <1>4, <1>5, <1>6 DEF Converses
-----------------------------------------------------------------------------
(* The steps, one after the other. *)

LEMMA UserConverses == ASSUME Inv, Fits, Dialogue, User PROVE Converses
<1>1. conn \in Conn /\ Able(conn) /\ Sane(conn) BY Now
<1>2. CASE xmpp_connect_client
  <2> DEFINE d == ConnectClient(conn)
  <2>1. conn' = d /\ conn.attempts < MaxConnects /\ pc' = "idle"
    BY <1>2 DEF xmpp_connect_client
  <2>2. Sane(d) /\ Civil(d, FALSE) /\ ~Offered(d) BY <1>1, <2>1, ConnectClientSane
  <2> HIDE DEF d
  <2>3. Dialogue' BY <2>1, <2>2, DialogueNext
  <2>4. Secrecy' /\ Careful BY <2>1, <2>2, HiddenNow DEF Hidden, Careful
  <2> QED BY <2>3, <2>4 DEF Converses
<1>3. CASE xmpp_disconnect
  <2>1. conn' = XmppDisconnect(conn) /\ pc = "idle" /\ pc' = "idle"
    BY <1>3 DEF xmpp_disconnect
  <2>2. {"close"} \in SUBSET (Items \ {"header"}) /\ {"close"} \cap Credentials = {}
    BY DEF Items, Credentials, Mechanisms
  <2>3. Still(conn, XmppDisconnect(conn)) BY <1>1, <2>2, XmppDisconnectTurn, TurnStill
  <2> QED BY <2>1, <2>3, StillConverses
<1>4. CASE xmpp_send
  <2>1. conn' = Send(conn, "user") /\ pc = "idle" /\ pc' = "idle" BY <1>4 DEF xmpp_send
  <2>2. /\ {"user"} \in SUBSET (Items \ {"header"}) /\ {"user"} \cap Credentials = {}
        /\ "user" \in Items
    BY DEF Items, Credentials, Mechanisms
  <2>3. Turn(conn, Send(conn, "user"), {}, {"user"}) /\ Keeps(conn, Send(conn, "user"))
    BY <1>1, <2>2, SendTurn
  <2>4. Still(conn, Send(conn, "user")) BY <1>1, <2>2, <2>3, TurnStill
  <2> QED BY <2>1, <2>4, StillConverses
<1>5. CASE xmpp_conn_disable_tls
  <2>1. conn' = [conn EXCEPT !.tls_disabled = TRUE] /\ pc = "idle" /\ pc' = "idle"
    BY <1>5 DEF xmpp_conn_disable_tls
  <2>2. Alike(conn, conn') /\ conn'.state = conn.state
    BY <1>1, <2>1 DEF Conn, Alike, SameStream, Late, Offered
  <2>3. Still(conn, conn') BY <2>2, AlikeStill
  <2> QED BY <2>1, <2>3, StillConverses
<1>6. CASE xmpp_handler_add
  <2> DEFINE h == AddHandler(conn, "user_stanza")
             d == AddTimed(h, "user_timed")
  <2>1. conn' = d /\ pc = "idle" /\ pc' = "idle" BY <1>6 DEF xmpp_handler_add
  <2>2. "user_stanza" \in HandlerFns /\ "user_timed" \in TimedFns
    BY DEF HandlerFns, TimedFns
  <2>3. Turn(conn, h, {"user_stanza"}, {}) /\ Keeps(conn, h) BY <1>1, <2>2, AddHandlerTurn
  <2>4. Turn(conn, h, {}, {})
    <3>1. "user_stanza" \notin DialogueFns /\ "user_stanza" \notin IdFns
      BY DEF DialogueFns, Exchanges, SaslFns, FeatureFns, IdFns
    <3>2. h.id_handlers \subseteq IdFns BY <2>3 DEF Turn, Able, Good, Conn
    <3> HIDE DEF h
    <3> QED BY <2>3, <3>1, <3>2 DEF Turn
  <2> HIDE DEF h
  <2>5. Able(h) BY <2>4 DEF Turn
  <2>6. Turn(h, d, {}, {}) /\ Keeps(h, d) BY <2>2, <2>5, AddTimedTurn
  <2>7. {} \in SUBSET (Items \ {"header"}) /\ {} \cap Credentials = {} OBVIOUS
  <2> HIDE DEF d
  <2>8. Still(conn, h) /\ Still(h, d) BY <1>1, <2>3, <2>4, <2>5, <2>6, <2>7, TurnStill
  <2>9. Still(conn, d) BY <2>8, StillTrans
  <2> QED BY <2>1, <2>9, StillConverses
<1> QED BY <1>2, <1>3, <1>4, <1>5, <1>6 DEF User

LEMMA TickConverses == ASSUME Inv, Fits, Dialogue, Tick PROVE Converses
<1>1. conn \in Conn /\ Civil(conn, FALSE)
      /\ (pc \in {"chunk", "stanza"} => Civil(conn, TRUE))
  BY Now
<1>2. /\ Alike(conn, conn') /\ conn'.state = conn.state
      /\ conn'.tls_disabled = conn.tls_disabled
      /\ pc' = pc /\ at' = at /\ stanza' = stanza
  BY <1>1 DEF Tick, Conn, Alike, SameStream, Late, Offered
<1>3. Still(conn, conn') BY <1>2, AlikeStill
<1>4. Dialogue'
  <2>1. Civil(conn', FALSE) /\ (pc' \in {"chunk", "stanza"} => Civil(conn', TRUE))
    BY <1>1, <1>2, <1>3 DEF Still
  <2>2. ASSUME pc' = "stanza", conn'.attempts <= 1 PROVE Heard'
    <3>1. Heard BY <1>2, <2>2 DEF Dialogue, Alike
    <3>2. Tokens(conn') = Tokens(conn) /\ (Straight(conn') <=> Straight(conn))
      BY <1>2, AlikeTokens
    <3> QED BY <1>2, <3>1, <3>2 DEF Heard, Settled, Alike
  <2> QED BY <2>1, <2>2, DialogueNext
<1>5. Secrecy => Secrecy' BY <1>2 DEF Secrecy, Ahead, Alike, SameStream
<1>6. Careful BY <1>1, <1>3, CredentialsType DEF Careful, Still
<1> QED BY <1>4, <1>5, <1>6 DEF Converses

LEMMA MoveConverses ==
    ASSUME Inv, Fits, Dialogue, SkipTimed \/ EndTimed \/ no_event \/ read_data
    PROVE  Converses
<1>1. /\ conn' = conn /\ pc # "stanza" /\ pc' # "stanza"
      /\ pc' = "chunk" => conn.state = "CONNECTED"
  BY DEF SkipTimed, EndTimed, no_event, read_data
<1>2. Still(conn, conn') BY <1>1, StillTrans
<1> QED BY <1>1, <1>2, StillConverses

LEMMA StanzaConverses ==
    ASSUME Inv, Fits, Dialogue, SkipHandler \/ EndStanza
    PROVE  Converses
<1>1. conn' = conn /\ pc = "stanza" BY DEF SkipHandler, EndStanza
<1>2. /\ conn \in Conn /\ Civil(conn, FALSE) /\ Civil(conn, TRUE)
      /\ at \in Nat \ {0}
  BY <1>1, Now
<1>3. Careful BY <1>1, <1>2, CredentialsType DEF Careful
<1>4. DOMAIN conn.handlers = 1 .. Len(conn.handlers) /\ Len(conn.handlers) \in Nat
  BY <1>2 DEF Conn
<1>5. CASE SkipHandler
  <2>1. /\ pc' = "stanza" /\ stanza' = stanza /\ at' = at + 1 /\ at <= Len(conn.handlers)
        /\ LET h == conn.handlers[at]
           IN \/ ~h.enabled
              \/ h.fn \in UserFns /\ ~conn.authenticated
              \/ ~Matches(h.fn, stanza)
    BY <1>5 DEF SkipHandler
  <2>2. Dialogue' BY <1>1, <1>2, <2>1, DialogueNext DEF Dialogue, Heard, Settled
  <2>3. ASSUME Ahead PROVE Ahead'
    <3>1. ASSUME conn.handlers[at].fn = "_handle_features" PROVE FALSE
      <4>1. at \in DOMAIN conn.handlers BY <1>2, <1>4, <2>1
      <4>2. conn.handlers[at].enabled BY <2>3, <3>1, <4>1 DEF Ahead
      <4>3. conn.handlers[at].fn \notin UserFns BY <3>1 DEF UserFns
      <4>4. Matches(conn.handlers[at].fn, stanza) BY <2>3, <3>1 DEF Ahead, Matches
      <4> QED BY <2>1, <4>2, <4>3, <4>4
    <3>2. \A i \in DOMAIN conn.handlers : conn.handlers[i].fn = "_handle_features" =>
             i >= at + 1 /\ conn.handlers[i].enabled
      <4> SUFFICES ASSUME NEW i \in DOMAIN conn.handlers,
                          conn.handlers[i].fn = "_handle_features"
                   PROVE  i >= at + 1 /\ conn.handlers[i].enabled
        OBVIOUS
      <4>1. i >= at /\ conn.handlers[i].enabled BY <2>3 DEF Ahead
      <4>2. i # at BY <3>1
      <4> QED BY <1>2, <1>4, <4>1, <4>2
    <3> QED BY <1>1, <2>1, <2>3, <3>2 DEF Ahead
  <2>4. Secrecy => Secrecy' BY <1>1, <2>3 DEF Secrecy
  <2> QED BY <1>3, <2>2, <2>4 DEF Converses
<1>6. CASE EndStanza
  <2>1. pc' = "chunk" /\ at > Len(conn.handlers) BY <1>6 DEF EndStanza
  <2>2. Dialogue' BY <1>1, <1>2, <2>1, DialogueNext
  <2>3. ASSUME Secrecy PROVE Hidden(conn)
    <3>1. ASSUME Ahead PROVE ~Listed(conn.handlers, "_handle_features")
      <4> SUFFICES ASSUME NEW i \in DOMAIN conn.handlers,
                          conn.handlers[i].fn = "_handle_features"
                   PROVE  FALSE
        BY DEF Listed
      <4>1. i >= at BY <3>1 DEF Ahead
      <4> QED BY <1>2, <1>4, <2>1, <4>1
    <3> QED BY <2>3, <3>1 DEF Secrecy, Hidden
  <2>4. Secrecy => Secrecy' BY <1>1, <2>1, <2>3, HiddenNow
  <2> QED BY <1>3, <2>2, <2>4 DEF Converses
<1> QED BY <1>5, <1>6

\* The dialogue does not depend on what the parser has read while there is one.
LEMMA ParserSane ==
    ASSUME NEW c \in Conn, Sane(c), NEW p \in {"ended", "broken"},
           c.attempts <= 1 => c.attempts # 0 /\ c.state # "CONNECTING"
    PROVE  LET d == [c EXCEPT !.parser = p]
           IN /\ d \in Conn /\ Sane(d) /\ d.attempts = c.attempts /\ d.state = c.state
              /\ d.handlers = c.handlers /\ d.send_queue = c.send_queue
              /\ d.secured = c.secured /\ (Offered(d) <=> Offered(c))
<1> DEFINE d == [c EXCEPT !.parser = p]
<1>1. /\ d \in Conn
      /\ d.state = c.state /\ d.attempts = c.attempts /\ d.peer = c.peer /\ d.ups = c.ups
      /\ d.handlers = c.handlers /\ d.id_handlers = c.id_handlers
      /\ d.send_queue = c.send_queue /\ d.facts = c.facts
      /\ d.sasl_support = c.sasl_support /\ d.tls_support = c.tls_support
      /\ d.secured = c.secured /\ d.open_handler = c.open_handler
  BY DEF Conn
<1> HIDE DEF d
<1>2. HeaderQueued(d) <=> HeaderQueued(c) BY <1>1 DEF HeaderQueued
<1>3. (Late(d) <=> Late(c)) /\ (Offered(d) <=> Offered(c)) BY <1>1 DEF Late, Offered
<1>4. Tokens(d) = Tokens(c) /\ (Straight(d) <=> Straight(c))
  BY <1>1, <1>2, <1>3 DEF Tokens, Straight
<1>5. OneAtATime(c) => OneAtATime(d) BY <1>1, <1>3, <1>4 DEF OneAtATime, HeaderOut
<1>6. Plainly(c) => Plainly(d) BY <1>1, <1>3, <1>4 DEF Plainly, HeaderOut
<1>7. Sane(d) BY <1>1, <1>4, <1>5, <1>6 DEF Sane
<1> QED BY <1>1, <1>3, <1>7 DEF d

LEMMA ToTimed2Still ==
    ASSUME NEW c \in Conn, ToTimed2(c)
    PROVE  Still(c, conn') /\ pc' = "timed2"
BY BeginTimedStill DEF ToTimed2

LEMMA ErrorAlike ==
    ASSUME NEW c \in Conn, NEW e
    PROVE  LET d == [c EXCEPT !.error = e]
           IN /\ Alike(c, d) /\ d.state = c.state
              /\ e \in BOOLEAN => d \in Conn
BY DEF Conn, Alike, SameStream, Late, Offered

LEMMA ParseErrorConverses ==
    ASSUME Inv, Fits, Dialogue, pc = "chunk", NEW c \in Conn, Sane(c),
           c.attempts <= 1 => c.attempts # 0 /\ c.state # "CONNECTING",
           c.attempts = conn.attempts, c.handlers = conn.handlers,
           c.send_queue = conn.send_queue, c.secured = conn.secured,
           Offered(c) => Offered(conn), parse_error(c)
    PROVE  Converses
<1> DEFINE b == [c EXCEPT !.parser = "broken"]
<1>1. /\ b \in Conn /\ Sane(b) /\ b.attempts = c.attempts /\ b.handlers = c.handlers
      /\ b.send_queue = c.send_queue /\ b.secured = c.secured /\ (Offered(b) <=> Offered(c))
  BY ParserSane
<1>2. PICK env \in Choices : ToTimed2(ConnDisconnect(b, env)) BY DEF parse_error
<1> HIDE DEF b
<1>3. ConnDisconnect(b, env) \in Conn BY <1>1, ConnDisconnectGood DEF Good
<1>4. Still(ConnDisconnect(b, env), conn') /\ pc' = "timed2" BY <1>2, <1>3, ToTimed2Still
<1> QED BY <1>1, <1>4, EndConverses

LEMMA EndsConverse ==
    ASSUME Inv, Fits, Dialogue,
           \/ connect_timeout \/ connect_failed \/ read_failed
           \/ read_again \/ chunk_done \/ garbage
    PROVE  Converses
<1> DEFINE e == [conn EXCEPT !.error = TRUE]
<1>1. conn \in Conn /\ Sane(conn) BY Now
<1>2. /\ e \in Conn /\ Sane(e) /\ e.attempts = conn.attempts /\ e.handlers = conn.handlers
      /\ e.send_queue = conn.send_queue /\ e.secured = conn.secured
      /\ Offered(e) => Offered(conn)
  <2>1. Alike(conn, e) /\ e.state = conn.state /\ e \in Conn BY <1>1, ErrorAlike
  <2> HIDE DEF e
  <2>2. Sane(e) BY <1>1, <2>1, AlikeSane
  <2> QED BY <2>1, <2>2 DEF Alike, SameStream
<1>3. CASE connect_timeout
  <2>1. PICK env \in Choices : conn' = ConnDisconnect(e, env)
    BY <1>3 DEF connect_timeout
  <2>2. pc = "select" /\ pc' = "idle" BY <1>3 DEF connect_timeout
  <2> HIDE DEF e
  <2>3. Still(ConnDisconnect(e, env), conn') BY <2>1, StillTrans
  <2> QED BY <1>2, <2>2, <2>3, EndConverses
<1>4. CASE connect_failed
  <2>1. PICK env \in Choices : ToTimed2(ConnDisconnect(conn, env))
    BY <1>4 DEF connect_failed
  <2>2. pc = "select" BY <1>4 DEF connect_failed
  <2>3. ConnDisconnect(conn, env) \in Conn BY <1>1, ConnDisconnectGood DEF Good
  <2>4. Still(ConnDisconnect(conn, env), conn') /\ pc' = "timed2"
    BY <2>1, <2>3, ToTimed2Still
  <2> QED BY <1>1, <2>2, <2>4, EndConverses
<1>5. CASE read_failed
  <2>1. PICK env \in Choices : ToTimed2(ConnDisconnect(e, env)) BY <1>5 DEF read_failed
  <2>2. pc = "select" BY <1>5 DEF read_failed
  <2> HIDE DEF e
  <2>3. ConnDisconnect(e, env) \in Conn BY <1>2, ConnDisconnectGood DEF Good
  <2>4. Still(ConnDisconnect(e, env), conn') /\ pc' = "timed2" BY <2>1, <2>3, ToTimed2Still
  <2> QED BY <1>2, <2>2, <2>4, EndConverses
<1>6. CASE read_again \/ chunk_done
  <2>1. ToTimed2(conn) /\ pc # "stanza" BY <1>6 DEF read_again, chunk_done
  <2>2. Still(conn, conn') /\ pc' = "timed2" BY <1>1, <2>1, ToTimed2Still
  <2> QED BY <2>1, <2>2, StillConverses
<1>7. CASE garbage
  <2>1. pc = "chunk" /\ parse_error(conn) BY <1>7 DEF garbage
  <2>2. conn.attempts <= 1 => conn.attempts # 0 /\ conn.state # "CONNECTING"
    BY <2>1, Now DEF Civil
  <2> QED BY <1>1, <2>1, <2>2, ParseErrorConverses
<1> QED BY <1>3, <1>4, <1>5, <1>6, <1>7

LEMMA StreamEndConverses ==
    ASSUME Conforming, Inv, Fits, Dialogue, stream_end
    PROVE  Converses
<1> DEFINE p == InPhase(conn.peer, "ended")
           e == [conn EXCEPT !.peer = p]
           c == [e EXCEPT !.parser = "ended"]
           b == DeleteTimed(c, "_disconnect_cleanup")
<1>1. conn \in Conn /\ Civil(conn, TRUE) /\ conn.attempts # 0 /\ pc = "chunk" /\ pc' = "chunk"
  BY Now DEF stream_end
<1>2. conn.peer \in Peer /\ conn.peer.phase = "open" BY <1>1 DEF Conn, stream_end, MayEnd
<1>3. PICK env \in Choices : conn' = ConnDisconnect(b, env)
  BY DEF stream_end, _handle_stream_end, ConnDisconnectClean
<1>4. p \in Peer /\ p.owed = conn.peer.owed
  BY <1>2, PeerType DEF InPhase, Peer
<1> HIDE DEF p
<1>5. /\ c \in Conn
      /\ c.state = conn.state /\ c.attempts = conn.attempts /\ c.peer = p /\ c.ups = conn.ups
      /\ c.handlers = conn.handlers /\ c.id_handlers = conn.id_handlers
      /\ c.send_queue = conn.send_queue /\ c.facts = conn.facts
      /\ c.sasl_support = conn.sasl_support /\ c.tls_support = conn.tls_support
      /\ c.secured = conn.secured /\ c.open_handler = conn.open_handler
  BY <1>1, <1>4 DEF Conn
<1> HIDE DEF c
<1>6. HeaderQueued(c) <=> HeaderQueued(conn) BY <1>5 DEF HeaderQueued
<1>7. (Late(c) <=> Late(conn)) /\ (Offered(c) <=> Offered(conn)) BY <1>5 DEF Late, Offered
<1>8. Tokens(c) = Tokens(conn) /\ (Straight(c) <=> Straight(conn))
  BY <1>4, <1>5, <1>6, <1>7 DEF Tokens, Straight
<1>9. ASSUME conn.attempts <= 1, Straight(conn)
      PROVE  ~HeaderOut(c) /\ OneAtATime(c) /\ Parsed(c, TRUE)
  <2>1. OneAtATime(conn) BY <1>1, <1>9 DEF Civil, Sane
  <2>2. ~HeaderOut(conn) BY <1>2, <2>1 DEF OneAtATime
  <2>3. ~HeaderOut(c) BY <1>8, <2>2 DEF HeaderOut
  <2>4. ~HeaderQueued(c) /\ "header" \notin c.peer.owed BY <2>3 DEF HeaderOut, Tokens
  <2> QED BY <1>5, <1>7, <1>8, <2>1, <2>3, <2>4 DEF OneAtATime, Parsed
<1>10. ASSUME conn.attempts <= 1, ~conn.secured PROVE Plainly(c)
  <2>1. Straight(conn) /\ Plainly(conn) BY <1>1, <1>10 DEF Civil, Sane, Straight
  <2> QED BY <1>5, <1>7, <1>9, <1>10, <2>1 DEF Plainly
<1>11. Sane(c) /\ Civil(c, TRUE)
  BY <1>1, <1>5, <1>8, <1>9, <1>10 DEF Civil, Sane
<1>12. Alike(c, b) /\ b.state = c.state BY <1>5, TimedStill DEF DeleteTimed
<1>13. b \in Conn BY <1>5, DeleteTimedType
<1> HIDE DEF b
<1>14. /\ Sane(b) /\ Civil(b, TRUE) /\ b.attempts = conn.attempts
       /\ b.handlers = conn.handlers /\ b.send_queue = conn.send_queue
       /\ b.secured = conn.secured /\ (Offered(b) => Offered(conn))
  <2>1. Sane(b) /\ Civil(b, TRUE) BY <1>11, <1>12, AlikeSane
  <2> QED BY <1>5, <1>7, <1>12, <2>1 DEF Alike, SameStream
<1>15. Still(ConnDisconnect(b, env), conn') BY <1>3, StillTrans
<1> QED BY <1>1, <1>13, <1>14, <1>15, EndConverses

LEMMA ConnectCompleteConverses ==
    ASSUME Inv, Fits, Dialogue, connect_complete
    PROVE  Converses
<1> DEFINE c == [conn EXCEPT !.state = "CONNECTED"]
           d == OpenStream(c)
<1>1. /\ conn \in Conn /\ Sane(conn) /\ Good(conn) /\ conn.attempts # 0
      /\ conn.state = "CONNECTING" /\ pc = "select"
  BY Now DEF connect_complete, Able
<1>2. ToTimed2(d) BY DEF connect_complete
<1>3. c \in Conn /\ Alike(conn, c) /\ c.state = "CONNECTED" /\ c.facts = conn.facts
  BY <1>1 DEF Conn, States, Alike, SameStream, Late, Offered
<1>4. Able(c) BY <1>1, <1>3 DEF Able, Good, Sane, Alike
<1> HIDE DEF c
<1>5. Turn(c, d, {}, {"header"}) /\ Keeps(c, d)
  BY <1>4, SendTurn DEF OpenStream, Items
<1> HIDE DEF d
<1>6. d \in Conn /\ Single(d.handlers) /\ d.attempts = conn.attempts /\ d.state = "CONNECTED"
  BY <1>3, <1>5 DEF Turn, Able, Good, Alike
<1>7. ASSUME conn.attempts <= 1
      PROVE  OneAtATime(d) /\ Plainly(d) /\ Parsed(d, FALSE) /\ ~Offered(d)
  <2>1. Fresh(conn) BY <1>1, <1>7 DEF Sane
  <2>2. Fresh(c) BY <1>3, <2>1, AlikeTokens
  <2>3. Tokens(c) = {} /\ ~HeaderQueued(c) /\ OneHeader(c.send_queue) BY <2>2, FreshTokens
  <2>4. Turn(c, d, {"queued"}, {"header"}) BY <1>5, TurnWeaken
  <2>5. {"header"} \in SUBSET Items /\ d.ups = c.ups BY <1>5 DEF Items, Keeps
  <2>6. Tokens(d) \subseteq Tokens(c) \cup {"queued"} /\ OneHeader(d.send_queue)
    BY <1>4, <2>3, <2>4, <2>5, TurnTokens
  <2>7. Tokens(d) \subseteq {"queued"} BY <2>3, <2>6
  <2>8. d.peer.phase = "silent" /\ d.ups = 0 /\ d.peer.owed = {}
    BY <1>5, <2>2 DEF Turn, Keeps, Fresh, NewPeer
  <2>9. OneAtATime(d) BY <2>6, <2>7, <2>8 DEF OneAtATime, Exclusive
  <2>10. /\ d.sasl_support = {} /\ ~d.tls_support /\ ~Offered(d)
         /\ d.reset_parser \/ d.parser = "start"
    BY <1>5, <2>2 DEF Turn, Keeps, SameStream, Fresh
  <2> QED BY <2>8, <2>9, <2>10 DEF Plainly, Parsed
<1>8. Civil(d, FALSE) BY <1>1, <1>6, <1>7 DEF Civil, Sane
<1>9. Still(d, conn') /\ pc' = "timed2" BY <1>2, <1>6, ToTimed2Still
<1>10. Dialogue' BY <1>8, <1>9, DialogueNext DEF Still
<1>11. Hidden(d) BY <1>6, <1>7 DEF Hidden
<1>12. Secrecy' BY <1>9, <1>11, HiddenNow DEF Still
<1>13. Careful
  <2>1. {"header"} \in SUBSET Items /\ {"header"} \cap Credentials = {} /\ d.ups = c.ups
    BY <1>5 DEF Items, Credentials, Mechanisms, Keeps
  <2>2. Turn(c, d, {"queued"}, {"header"}) BY <1>5, TurnWeaken
  <2>4. CredentialsQueued(d) = CredentialsQueued(c) BY <1>4, <2>1, <2>2, TurnTokens
  <2>5. CredentialsQueued(conn') = CredentialsQueued(conn)
    BY <1>3, <1>9, <2>4, AlikeTokens DEF Still
  <2> QED BY <1>1, <2>5, CredentialsType DEF Careful
<1> QED BY <1>10, <1>12, <1>13 DEF Converses

\* What writing leaves of the dialogue: no more of what must stay secret.
Lessens(c, d) ==
    /\ d.handlers = c.handlers /\ d.secured = c.secured
    /\ c.attempts <= d.attempts
    /\ Offered(d) => Offered(c)
    /\ CredentialsQueued(d) <= CredentialsQueued(c)

LEMMA LessensTrans ==
    ASSUME NEW c \in Conn, NEW d \in Conn, NEW e \in Conn, Lessens(c, d), Lessens(d, e)
    PROVE  Lessens(c, e)
<1>1. /\ CredentialsQueued(c) \in Nat /\ CredentialsQueued(d) \in Nat
      /\ CredentialsQueued(e) \in Nat
  BY CredentialsType
<1>2. CredentialsQueued(e) <= CredentialsQueued(c) BY <1>1 DEF Lessens
<1>3. c.attempts \in Nat /\ d.attempts \in Nat /\ e.attempts \in Nat BY DEF Conn
<1>4. c.attempts <= e.attempts BY <1>3 DEF Lessens
<1> QED BY <1>2, <1>4 DEF Lessens

LEMMA ConnDisconnectLessens ==
    ASSUME NEW c \in Conn, Sane(c), NEW env
    PROVE  Lessens(c, ConnDisconnect(c, env))
<1> DEFINE d == ConnDisconnect(c, env)
<1>1. /\ d.handlers = c.handlers /\ d.send_queue = c.send_queue /\ d.secured = c.secured
      /\ Downed(c, d) \/ (d.attempts = c.attempts + 1 /\ ~Offered(d))
  BY ConnDisconnectSane
<1> HIDE DEF d
<1>2. CredentialsQueued(c) \in Nat /\ c.attempts \in Nat BY CredentialsType DEF Conn
<1>3. CredentialsQueued(d) = CredentialsQueued(c) BY <1>1 DEF CredentialsQueued
<1> QED BY <1>1, <1>2, <1>3 DEF Lessens, Downed, Alike, d

LEMMA WriteConverses ==
    ASSUME Conforming, Inv, Fits, Dialogue, run_once_write
    PROVE  Converses
<1>1. /\ conn \in Conn /\ Good(conn) /\ Sane(conn) /\ Civil(conn, FALSE)
      /\ conn.attempts \in Nat
      /\ conn.attempts = 0 => conn.state = "DISCONNECTED"
  BY Now DEF Able
<1>2. pc = "idle" /\ pc' = "timed1" BY DEF run_once_write
<1>3. ASSUME NEW r \in Conn, Lessens(conn, r), Sane(r), Parsable(r),
             Still(ParserReset(r), conn')
      PROVE  Converses
  <2> DEFINE d == ParserReset(r)
  <2>1. /\ Civil(d, FALSE) /\ d.state = r.state /\ d.attempts = r.attempts
        /\ d.handlers = r.handlers /\ d.send_queue = r.send_queue
        /\ d.facts = r.facts /\ d.secured = r.secured
    BY <1>3, ParserResetCivil
  <2>2. Still(d, conn') BY <1>3
  <2> HIDE DEF d
  <2>3. Dialogue' BY <1>2, <2>1, <2>2, DialogueNext DEF Still
  <2>4. Hidden(conn) => Hidden(d)
    <3>0. r.attempts \in Nat BY <1>3 DEF Conn
    <3>1. d.attempts <= 1 => conn.attempts <= 1 BY <1>1, <1>3, <2>1, <3>0 DEF Lessens
    <3>2. Offered(d) => Offered(conn) BY <1>3, <2>1 DEF Lessens, Offered
    <3> QED BY <1>3, <2>1, <3>1, <3>2 DEF Hidden, Lessens
  <2>5. Secrecy => Secrecy' BY <1>2, <2>2, <2>4, HiddenNow DEF Still
  <2>6. CredentialsQueued(conn') <= CredentialsQueued(conn)
    <3>1. CredentialsQueued(d) = CredentialsQueued(r) BY <2>1 DEF CredentialsQueued
    <3> QED BY <1>3, <2>2, <3>1 DEF Lessens, Still
  <2> QED BY <2>3, <2>5, <2>6 DEF Converses, Careful
<1>4. CASE conn.state # "CONNECTED"
  <2>1. conn' = ParserReset(conn) BY <1>4 DEF run_once_write
  <2>2. Parsable(conn) BY <1>4 DEF Parsable
  <2>3. Lessens(conn, conn) BY <1>1, CredentialsType DEF Lessens
  <2> QED BY <1>1, <1>3, <2>1, <2>2, <2>3, StillTrans
<1>5. CASE conn.state = "CONNECTED"
  <2>1. PICK env \in Choices, n \in 0 .. Len(conn.send_queue),
             fails \in BOOLEAN, pending \in BOOLEAN :
          /\ pending => n = 0
          /\ conn' = BeginTimed(ParserReset(write_queued(pending, n, fails, env)))
    BY <1>5 DEF run_once_write
  <2> DEFINE bad == [conn EXCEPT !.error = TRUE]
             a == ClearPending(conn, pending, env)
             w == WriteQueue(a, n, fails)
             r == write_queued(pending, n, fails, env)
  <2>2. Good(r) BY <1>1, <2>1, WriteQueuedGood
  <2>3. Good(ParserReset(r)) BY <2>2, ParserResetGood
  <2>4. Still(ParserReset(r), conn')
    <3>1. conn' = BeginTimed(ParserReset(r)) BY <2>1
    <3> HIDE DEF r
    <3>2. ParserReset(r) \in Conn BY <2>3 DEF Good
    <3> QED BY <3>1, <3>2, BeginTimedStill
  <2>5. /\ Good(a) /\ Lessens(conn, a) /\ Civil(a, FALSE)
        /\ a.attempts <= 1 => a.attempts # 0 /\ a.state # "CONNECTING"
        /\ n \in 0 .. Len(a.send_queue)
    <3>1. CASE ~pending
      <4>1. a = conn BY <3>1 DEF ClearPending
      <4>2. Lessens(conn, conn) BY <1>1, CredentialsType DEF Lessens
      <4> QED BY <1>1, <1>5, <2>1, <4>1, <4>2
    <3>2. CASE pending
      <4>1. a = ConnDisconnect(bad, env) BY <3>2 DEF ClearPending
      <4>2. Alike(conn, bad) /\ bad.state = conn.state /\ bad \in Conn BY <1>1, ErrorAlike
      <4> HIDE DEF bad
      <4>3. Sane(bad) /\ Civil(bad, TRUE) BY <1>1, <1>5, <4>2, CivilReads, AlikeSane
      <4>4. bad.attempts # 0 BY <1>1, <1>5, <4>2 DEF Alike
      <4>5. Good(a) /\ a.state # "CONNECTED" BY <4>1, <4>2, ConnDisconnectGood
      <4>6. Civil(a, FALSE) /\ Civil(a, TRUE) BY <4>1, <4>2, <4>3, <4>4, ConnDisconnectSane
      <4>7. Lessens(bad, a) BY <4>1, <4>2, <4>3, ConnDisconnectLessens
      <4> HIDE DEF a
      <4>8. Lessens(conn, a)
        <5>1. CredentialsQueued(bad) = CredentialsQueued(conn) BY <4>2, AlikeTokens
        <5> QED BY <4>2, <4>7, <5>1 DEF Lessens, Alike, SameStream
      <4>9. a.attempts <= 1 => a.attempts # 0 /\ a.state # "CONNECTING"
        <5>1. a.attempts # 0 BY <1>1, <4>2, <4>4, <4>5, <4>7 DEF Lessens, Alike, Good, Conn
        <5> QED BY <4>6, <5>1 DEF Civil
      <4>10. n = 0 /\ a.send_queue \in Seq(Items) BY <2>1, <3>2, <4>5 DEF Good, Conn
      <4>11. n \in 0 .. Len(a.send_queue) BY <4>10
      <4> QED BY <4>5, <4>6, <4>8, <4>9, <4>11
    <3> QED BY <3>1, <3>2
  <2>6. a \in Conn BY <2>5 DEF Good
  <2>7. r = TearDownOnError(w, env) BY DEF write_queued
  <2> HIDE DEF a, bad
  <2>8. Good(w) BY <2>5, WriteQueueGood
  <2>9. /\ Sane(w) /\ Parsable(w) /\ w.state = a.state /\ w.attempts = a.attempts
        /\ w.handlers = a.handlers /\ w.facts = a.facts /\ w.secured = a.secured
        /\ CredentialsQueued(w) <= CredentialsQueued(a)
    BY <2>5, <2>6, WriteQueueSane
  <2>10. Lessens(a, w) BY <2>6, <2>9 DEF Lessens, Offered, Conn
  <2> HIDE DEF w, r
  <2>11. w \in Conn BY <2>8 DEF Good
  <2>12. Lessens(conn, w) BY <1>1, <2>5, <2>6, <2>9, <2>10, <2>11, LessensTrans
  <2>13. CASE ~w.error
    <3>1. r = w BY <2>7, <2>13 DEF TearDownOnError
    <3> QED BY <1>3, <2>4, <2>9, <2>11, <2>12, <3>1
  <2>14. CASE w.error
    <3>1. r = ConnDisconnect(w, env) BY <2>7, <2>14 DEF TearDownOnError
    <3>2. Sane(r) /\ r.state # "CONNECTED" BY <2>9, <2>11, <3>1, ConnDisconnectSane
    <3>3. Parsable(r) BY <3>2 DEF Parsable
    <3>6. Lessens(w, r) BY <2>9, <2>11, <3>1, ConnDisconnectLessens
    <3>4. r \in Conn BY <2>2, <2>7 DEF Good
    <3>5. Lessens(conn, r) BY <1>1, <2>11, <2>12, <3>6, <3>4, LessensTrans
    <3> QED BY <1>3, <2>4, <3>2, <3>3, <3>4, <3>5
  <2> QED BY <2>13, <2>14
<1> QED BY <1>4, <1>5

\* The header of a stream is the only thing under way when it comes, but for its features.
LEMMA HeaderTaken ==
    ASSUME NEW c, Civil(c, TRUE), c.attempts # 0, "header" \in c.peer.owed, NEW m \in Conn,
           m.peer.owed = c.peer.owed \ {"header"},
           m.state = c.state, m.attempts = c.attempts, m.ups = c.ups, m.facts = c.facts,
           m.handlers = c.handlers, m.id_handlers = c.id_handlers,
           m.send_queue = c.send_queue, m.sasl_support = c.sasl_support,
           m.tls_support = c.tls_support, m.secured = c.secured,
           m.open_handler = c.open_handler
    PROVE  /\ Sane(m) /\ Civil(m, TRUE)
           /\ m.attempts <= 1 /\ Straight(m) => Tokens(m) \subseteq {"features"}
           /\ m.attempts <= 1 /\ ~m.secured /\ m.open_handler = "auth_handle_open" =>
                 m.sasl_support = {} /\ ~m.tls_support /\ ~Offered(m)
<1>1. HeaderQueued(m) <=> HeaderQueued(c) BY DEF HeaderQueued
<1>2. /\ Late(m) <=> Late(c)
      /\ Offered(m) <=> Offered(c)
      /\ Straight(m) <=> Straight(c)
  BY DEF Late, Offered, Straight
<1>3. "header" \in Tokens(c) /\ HeaderOut(c) BY DEF Tokens, HeaderOut
<1>4. Tokens(m) \subseteq Tokens(c) BY <1>1, <1>2 DEF Tokens
<1>5. "header" \notin Tokens(m)
  <2>1. "header" \notin DialogueFns /\ "header" \notin IdFns
    BY DEF DialogueFns, Exchanges, SaslFns, FeatureFns, IdFns
  <2>2. m.id_handlers \subseteq IdFns BY DEF Conn
  <2> QED BY <2>1, <2>2, TokensAre
<1>6. ASSUME m.attempts <= 1, Straight(m)
      PROVE  Tokens(m) \subseteq {"features"} /\ OneAtATime(m) /\ Parsed(m, TRUE)
  <2>1. OneAtATime(c) BY <1>2, <1>6 DEF Civil, Sane
  <2>2. \A x \in Tokens(c) : x \in {"header", "features"}
    BY <1>3, <2>1 DEF OneAtATime, Exclusive, Beside, FeatureFns
  <2>3. Tokens(m) \subseteq {"features"} BY <1>4, <1>5, <2>2
  <2>4. ~HeaderOut(m) BY <2>3 DEF HeaderOut
  <2>5. ~HeaderQueued(m) BY <2>4 DEF HeaderOut, Tokens
  <2>6. OneAtATime(m) BY <1>2, <2>1, <2>3, <2>4 DEF OneAtATime, Exclusive
  <2> QED BY <2>3, <2>5, <2>6 DEF Parsed
<1>7. ASSUME m.attempts <= 1, ~m.secured
      PROVE  /\ Plainly(m)
             /\ m.open_handler = "auth_handle_open" =>
                   m.sasl_support = {} /\ ~m.tls_support /\ ~Offered(m)
  BY <1>2, <1>3, <1>7 DEF Civil, Sane, Plainly
<1> QED BY <1>6, <1>7 DEF Civil, Sane

\* The callback of the parser registers the handler of features.
LEMMA OpensCivil ==
    ASSUME NEW c, Able(c), Civil(c, TRUE), c.attempts # 0,
           c.attempts <= 1 /\ Straight(c) => Tokens(c) \subseteq {"features"},
           c.attempts <= 1 /\ ~c.secured /\ c.open_handler = "auth_handle_open" =>
              c.sasl_support = {} /\ ~c.tls_support /\ ~Offered(c)
    PROVE  LET d == CallOpenHandler(c)
           IN /\ Civil(d, TRUE) /\ Civil(d, FALSE) /\ (Hidden(c) => Hidden(d))
              /\ d.send_queue = c.send_queue /\ d.attempts = c.attempts
<1> DEFINE d == CallOpenHandler(c)
           f == IF c.open_handler = "auth_handle_open" THEN "_handle_features"
                                                       ELSE "_handle_features_sasl"
           N == {f}
<1>1. Turn(c, d, N, {}) /\ Keeps(c, d) BY CallOpenHandlerTurn
<1>2. f \in FeatureFns /\ (f = "_handle_features" => c.open_handler = "auth_handle_open")
  BY DEF FeatureFns
<1> HIDE DEF d, f
<1>3. d.send_queue = c.send_queue /\ d.attempts = c.attempts /\ d.state = c.state
      /\ d.secured = c.secured /\ d.peer = c.peer
  BY <1>1 DEF Turn, Keeps, SameStream
<1>4. /\ Late(d) <=> Late(c)
      /\ Offered(d) <=> Offered(c)
      /\ Straight(d) <=> Straight(c)
  BY <1>1, <1>3 DEF Turn, Straight
<1>5. ASSUME c.attempts <= 1, Straight(c)
      PROVE  OneAtATime(d) /\ Parsed(d, TRUE) /\ ~HeaderOut(d)
  <2>1. Tokens(d) \subseteq Tokens(c) \cup N /\ (OneHeader(c.send_queue) => OneHeader(d.send_queue))
    <3>1. {} \in SUBSET Items /\ "header" \notin {} /\ d.ups = c.ups BY <1>1 DEF Keeps
    <3> HIDE DEF N
    <3>2. Tokens(d) \subseteq Tokens(c) \cup N BY <1>1, <3>1, TurnTokens
    <3> QED BY <1>3, <3>2
  <2>2. Tokens(d) \subseteq {"features", f} BY <1>5, <2>1
  <2>3. ~HeaderOut(d) BY <1>2, <2>2 DEF HeaderOut, FeatureFns
  <2>4. ~HeaderQueued(d) /\ "header" \notin d.peer.owed BY <2>3 DEF HeaderOut, Tokens
  <2>5. Exclusive(Tokens(d)) BY <1>2, <2>2 DEF Exclusive, Beside
  <2>6. OneAtATime(c) BY <1>5 DEF Civil, Sane
  <2> QED BY <1>1, <1>4, <2>1, <2>3, <2>4, <2>5, <2>6 DEF OneAtATime, Parsed, Keeps
<1>6. \A g \in DialogueFns : Listed(d.handlers, g) => Listed(c.handlers, g) \/ g = f
  BY <1>1 DEF Turn
<1>7. ASSUME c.attempts <= 1, ~c.secured PROVE Plainly(d)
  <2>1. Straight(c) /\ Plainly(c) BY <1>7 DEF Straight, Civil, Sane
  <2>2. ~HeaderOut(d) BY <1>5, <1>7, <2>1
  <2>3. "_handle_features" \in DialogueFns BY DEF DialogueFns, FeatureFns
  <2>4. Listed(d.handlers, "_handle_features") => c.sasl_support = {} /\ ~c.tls_support
    BY <1>2, <1>6, <1>7, <2>1, <2>3 DEF Plainly
  <2> QED BY <1>1, <2>2, <2>4 DEF Plainly, Keeps
<1>8. Sane(d)
  BY <1>1, <1>3, <1>4, <1>5, <1>7 DEF Civil, Sane, Turn, Able
<1>9. Civil(d, TRUE) BY <1>3, <1>4, <1>5, <1>8 DEF Civil
<1>10. Civil(d, FALSE) BY <1>9, CivilReads
<1>11. Hidden(c) => Hidden(d)
  <2> SUFFICES ASSUME Hidden(c), d.attempts <= 1, ~d.secured, Offered(d),
                      NEW g \in SaslFns \cup {"_handle_features"}, Listed(d.handlers, g)
               PROVE  FALSE
    BY DEF Hidden
  <2>1. ~Listed(c.handlers, g) BY <1>3, <1>4 DEF Hidden
  <2>2. g \in DialogueFns BY DEF DialogueFns, Exchanges, FeatureFns
  <2>3. g = f BY <1>6, <2>1, <2>2
  <2>4. f = "_handle_features" BY <1>2, <2>3 DEF FeatureFns, SaslFns
  <2> QED BY <1>2, <1>3, <1>4, <2>4
<1> QED BY <1>3, <1>9, <1>10, <1>11 DEF d

LEMMA StreamHeaderConverses ==
    ASSUME Conforming, Inv, Fits, Dialogue, stream_header
    PROVE  Converses
<1> DEFINE o == InPhase(conn.peer, "open")
           p == [o EXCEPT !.owed = @ \ {"header"}]
           c == [conn EXCEPT !.peer = p]
<1>1. /\ conn \in Conn /\ Good(conn) /\ Sane(conn) /\ Civil(conn, TRUE) /\ conn.attempts # 0
      /\ pc = "chunk" /\ "header" \in conn.peer.owed
  BY Now DEF stream_header, MayHeader, Able
<1>2. p \in Peer /\ p.owed = conn.peer.owed \ {"header"}
  <2>1. conn.peer \in Peer BY <1>1 DEF Conn
  <2>2. o \in Peer /\ o.owed = conn.peer.owed BY <2>1, PeerType DEF InPhase, Peer
  <2> HIDE DEF o
  <2> QED BY <2>2, PeerType DEF Peer
<1>3. IF conn.parser = "start"
      THEN /\ \E root \in IncomingRoots, env \in Choices :
                 conn' = _handle_stream_start(c, root, env)
           /\ pc' = pc
      ELSE parse_error(c)
  BY DEF stream_header
<1>4. /\ c \in Conn /\ c.peer = p /\ c.state = conn.state /\ c.attempts = conn.attempts
      /\ c.ups = conn.ups /\ c.facts = conn.facts /\ c.handlers = conn.handlers
      /\ c.id_handlers = conn.id_handlers /\ c.send_queue = conn.send_queue
      /\ c.sasl_support = conn.sasl_support /\ c.tls_support = conn.tls_support
      /\ c.secured = conn.secured /\ c.open_handler = conn.open_handler
  <2> HIDE DEF p
  <2> QED BY <1>1, <1>2 DEF Conn
<1> HIDE DEF p, c
<1>5. CASE conn.parser # "start"
  <2>1. parse_error(c) BY <1>3, <1>5
  <2>2. Sane(c) BY <1>1, <1>2, <1>4, HeaderTaken
  <2>3. c.attempts <= 1 => c.attempts # 0 /\ c.state # "CONNECTING" BY <1>1, <1>4 DEF Civil
  <2>4. Offered(c) => Offered(conn) BY <1>4 DEF Offered
  <2> QED BY <1>1, <1>4, <2>1, <2>2, <2>3, <2>4, ParseErrorConverses
<1>6. CASE conn.parser = "start"
  <2>1. PICK root \in IncomingRoots, env \in Choices :
          conn' = _handle_stream_start(c, root, env)
    BY <1>3, <1>6
  <2> DEFINE opened == [c EXCEPT !.parser = "open"]
             id == CASE root = "stream"      -> "set"
                     [] root = "other"       -> opened.stream_id
                     [] root = "stream_noid" ->
                          IF opened.stream_id = "null" THEN opened.stream_id ELSE "freed"
             m == [opened EXCEPT !.stream_id = id]
             bad == root = "other" \/ m.stream_id = "null"
             n == IF bad THEN ConnDisconnect(m, env) ELSE m
             d == CallOpenHandler(n)
  <2>2. conn' = d BY <2>1 DEF _handle_stream_start
  <2>3. root \in Roots BY SessionAssumption
  <2>4. opened \in Conn BY <1>4 DEF Conn
  <2>5. id \in {"null", "set", "freed"} BY <2>3, <2>4 DEF Conn, Roots
  <2> HIDE DEF id
  <2>6. /\ m \in Conn /\ m.peer = p /\ m.state = conn.state
        /\ m.attempts = conn.attempts /\ m.ups = conn.ups /\ m.facts = conn.facts
        /\ m.handlers = conn.handlers
        /\ m.id_handlers = conn.id_handlers /\ m.send_queue = conn.send_queue
        /\ m.sasl_support = conn.sasl_support /\ m.tls_support = conn.tls_support
        /\ m.secured = conn.secured /\ m.open_handler = conn.open_handler
        /\ m.timed_handlers = conn.timed_handlers
    BY <1>1, <1>4, <2>4, <2>5 DEF Conn, c
  <2> HIDE DEF m, bad, d
  <2>7. /\ Sane(m) /\ Civil(m, TRUE)
        /\ m.attempts <= 1 /\ Straight(m) => Tokens(m) \subseteq {"features"}
        /\ m.attempts <= 1 /\ ~m.secured /\ m.open_handler = "auth_handle_open" =>
              m.sasl_support = {} /\ ~m.tls_support /\ ~Offered(m)
    BY <1>1, <1>2, <2>6, HeaderTaken
  <2>8. Good(m) BY <1>1, <2>6, Frame
  <2>9. /\ Able(n) /\ Civil(n, TRUE) /\ n.attempts # 0
        /\ n.attempts <= 1 /\ Straight(n) => Tokens(n) \subseteq {"features"}
        /\ n.attempts <= 1 /\ ~n.secured /\ n.open_handler = "auth_handle_open" =>
              n.sasl_support = {} /\ ~n.tls_support /\ ~Offered(n)
        /\ Hidden(m) => Hidden(n)
        /\ n.send_queue = conn.send_queue
    <3>1. CASE ~bad
      <4>1. n = m BY <3>1
      <4> HIDE DEF n
      <4> QED BY <1>1, <2>6, <2>7, <2>8, <4>1 DEF Able, Sane
    <3>2. CASE bad
      <4>1. n = ConnDisconnect(m, env) BY <3>2
      <4>2. /\ Sane(n) /\ Civil(n, TRUE)
            /\ n.handlers = m.handlers /\ n.send_queue = m.send_queue
            /\ n.secured = m.secured
            /\ Downed(m, n) \/ (n.attempts = m.attempts + 1 /\ ~Offered(n))
        BY <1>1, <2>6, <2>7, <4>1, ConnDisconnectSane
      <4>3. Good(n) BY <2>6, <4>1, ConnDisconnectGood
      <4> HIDE DEF n
      <4>4. Able(n) BY <4>2, <4>3 DEF Able, Sane
      <4>5. CASE n.attempts = m.attempts + 1 /\ ~Offered(n)
        <5>1. m.attempts \in Nat BY <2>6 DEF Conn
        <5>2. n.attempts # 0 /\ ~(n.attempts <= 1) BY <1>1, <2>6, <4>5, <5>1
        <5> QED BY <2>6, <4>2, <4>4, <5>2 DEF Hidden
      <4>6. CASE Downed(m, n)
        <5>1. Alike(m, n) BY <4>6 DEF Downed
        <5>2. Tokens(n) = Tokens(m) /\ (Straight(n) <=> Straight(m)) BY <5>1, AlikeTokens
        <5>3. Hidden(m) => Hidden(n) BY <5>1 DEF Hidden, Alike, SameStream
        <5> QED BY <1>1, <2>6, <2>7, <4>2, <4>4, <5>1, <5>2, <5>3 DEF Alike, SameStream
      <4> QED BY <4>2, <4>5, <4>6
    <3> QED BY <3>1, <3>2
  <2> HIDE DEF n
  <2>10. /\ Civil(d, TRUE) /\ Civil(d, FALSE) /\ (Hidden(n) => Hidden(d))
         /\ d.send_queue = n.send_queue
    BY <2>9, OpensCivil DEF d
  <2>11. pc' = "chunk" BY <1>1, <1>3, <1>6
  <2>12. Dialogue' BY <2>2, <2>10, <2>11, DialogueNext
  <2>13. Hidden(conn) => Hidden(m) BY <2>6 DEF Hidden, Offered
  <2>14. Secrecy => Secrecy' BY <1>1, <2>2, <2>9, <2>10, <2>11, <2>13, HiddenNow
  <2>15. Careful
    <3>1. CredentialsQueued(conn') = CredentialsQueued(conn)
      BY <2>2, <2>9, <2>10 DEF CredentialsQueued
    <3> QED BY <1>1, <3>1, CredentialsType DEF Careful
  <2> QED BY <2>12, <2>14, <2>15 DEF Converses
<1> QED BY <1>5, <1>6

LEMMA HeaderOutIs ==
    ASSUME NEW c \in Conn
    PROVE  /\ HeaderOut(c) <=> HeaderQueued(c) \/ "header" \in c.peer.owed
           /\ "features" \in Tokens(c) <=> "features" \in c.peer.owed
           /\ "header" \in Tokens(c) <=> "header" \in c.peer.owed
           /\ "queued" \in Tokens(c) <=> HeaderQueued(c)
<1>1. c.id_handlers \subseteq IdFns BY DEF Conn
<1>2. {"queued", "header", "features"} \cap (DialogueFns \cup IdFns) = {}
  BY DEF DialogueFns, Exchanges, SaslFns, FeatureFns, IdFns
<1>3. /\ "features" \in Tokens(c) <=> "features" \in c.peer.owed
      /\ "header" \in Tokens(c) <=> "header" \in c.peer.owed
      /\ "queued" \in Tokens(c) <=> HeaderQueued(c)
  BY <1>1, <1>2, TokensAre
<1> QED BY <1>3 DEF HeaderOut

\* What happens to a stanza before the handlers in the list see it.
Replied(c, d) ==
    /\ Able(d) /\ SameStream(c, d)
    /\ d.state = c.state /\ d.attempts = c.attempts /\ d.peer = c.peer
    /\ d.tls_disabled = c.tls_disabled
    /\ d.sasl_support = c.sasl_support /\ d.tls_support = c.tls_support
    /\ Late(d) <=> Late(c)
    /\ Offered(d) <=> Offered(c)
    /\ \A f \in DialogueFns : Listed(d.handlers, f) => Listed(c.handlers, f)
    /\ HeaderQueued(d) <=> HeaderQueued(c)
    /\ CredentialsQueued(d) = CredentialsQueued(c)
    /\ OneAtATime(c) => OneAtATime(d)

LEMMA RepliedTrans ==
    ASSUME NEW c, Able(c), NEW d, NEW e
    PROVE  /\ Replied(c, c)
           /\ Replied(c, d) /\ Replied(d, e) => Replied(c, e)
BY DEF Replied, SameStream

\* The handler of an id is called and dropped: the reply it waited for was all.
LEMMA IdReplied ==
    ASSUME NEW c, Able(c), NEW f \in c.id_handlers, NEW s, NEW env
    PROVE  Replied(c, [CallId(f, c, s, env) EXCEPT !.id_handlers = @ \ {f}])
<1> DEFINE k == CallId(f, c, s, env)
           d == [k EXCEPT !.id_handlers = @ \ {f}]
           Q == {"session", "close"}
<1>1. c \in Conn /\ f \in IdFns BY DEF Able, Good, Conn
<1>2. /\ SameStream(c, k)
      /\ k.sasl_support = c.sasl_support /\ k.tls_support = c.tls_support
      /\ \/ Turn(c, k, {"_handle_session"}, Q) /\ k.ups = c.ups
         \/ Turn(c, k, {"up"}, Q) /\ k.ups = c.ups + 1
  BY <1>1, CallIdTurn
<1>3. PICK N \in {{"_handle_session"}, {"up"}} :
          /\ Turn(c, k, N, Q)
          /\ \/ N = {"_handle_session"} /\ k.ups = c.ups
             \/ N = {"up"} /\ k.ups = c.ups + 1
  BY <1>2
<1> HIDE DEF k
<1>4. Able(k) /\ Good(k) /\ k \in Conn BY <1>2 DEF Turn, Able, Good
<1>5. /\ d \in Conn /\ d.state = k.state /\ d.attempts = k.attempts /\ d.peer = k.peer
      /\ d.tls_disabled = k.tls_disabled /\ d.facts = k.facts /\ d.handlers = k.handlers
      /\ d.send_queue = k.send_queue /\ d.ups = k.ups
      /\ d.sasl_support = k.sasl_support /\ d.tls_support = k.tls_support
      /\ d.timed_handlers = k.timed_handlers
      /\ SameStream(k, d) /\ d.id_handlers = k.id_handlers \ {f}
  BY <1>4 DEF Conn, SameStream
<1>6. Good(d) BY <1>4, <1>5, Frame
<1> HIDE DEF d
<1>7. Able(d) BY <1>4, <1>5, <1>6 DEF Able
<1>8. /\ Q \in SUBSET Items /\ "header" \notin Q /\ Q \cap Credentials = {}
      /\ "queued" \notin N
  BY DEF Items, Credentials, Mechanisms
<1> HIDE DEF Q
<1>9. c.ups \in Nat BY <1>1 DEF Conn
<1>10. /\ Tokens(k) \subseteq Tokens(c) \cup N
       /\ HeaderQueued(k) <=> HeaderQueued(c)
       /\ OneHeader(c.send_queue) => OneHeader(k.send_queue)
       /\ CredentialsQueued(k) = CredentialsQueued(c)
  <2>1. k.ups # c.ups => "up" \in N BY <1>3
  <2> QED BY <1>3, <1>8, <2>1, TurnTokens
<1>11. /\ HeaderQueued(d) <=> HeaderQueued(c)
       /\ OneHeader(c.send_queue) => OneHeader(d.send_queue)
       /\ CredentialsQueued(d) = CredentialsQueued(c)
  BY <1>5, <1>10 DEF HeaderQueued, CredentialsQueued
<1>12. /\ Late(d) <=> Late(c)
       /\ Offered(d) <=> Offered(c)
       /\ \A g \in DialogueFns : Listed(d.handlers, g) => Listed(c.handlers, g)
       /\ d.state = c.state /\ d.attempts = c.attempts /\ d.peer = c.peer
       /\ d.tls_disabled = c.tls_disabled
  <2>1. N \cap DialogueFns = {} BY DEF DialogueFns, Exchanges, SaslFns, FeatureFns
  <2> QED BY <1>3, <1>5, <2>1 DEF Turn, Late, Offered
<1>13. SameStream(c, d) /\ d.sasl_support = c.sasl_support /\ d.tls_support = c.tls_support
  BY <1>2, <1>5 DEF SameStream
<1>14. ASSUME OneAtATime(c) PROVE OneAtATime(d)
  <2>1. HeaderOut(d) <=> HeaderOut(c) BY <1>1, <1>5, <1>11, <1>12, HeaderOutIs
  <2>2. CASE Late(c)
    <3>1. Tokens(d) \subseteq Tokens(c) BY <1>11, <1>12, <2>2 DEF Tokens
    <3>2. Exclusive(Tokens(d)) BY <1>14, <3>1, OneShrinks DEF OneAtATime
    <3> QED BY <1>11, <1>12, <1>14, <2>1, <2>2, <3>2 DEF OneAtATime
  <2>3. CASE ~Late(c)
    <3>1. f \in Tokens(c) BY <2>3 DEF Tokens
    <3>2. f \notin FeatureFns /\ f \notin {"header", "features", "up"} /\ f \notin DialogueFns
          /\ f # "queued"
      BY <1>1 DEF IdFns, DialogueFns, Exchanges, SaslFns, FeatureFns
    <3>3. Tokens(c) = {f}
      <4>1. \A x \in Tokens(c) : x = f
        BY <1>14, <3>1, <3>2 DEF OneAtATime, Exclusive, Beside
      <4> QED BY <3>1, <4>1
    <3>4. f \notin Tokens(d) BY <1>5, <3>2, TokensAre
    <3>5. \A x \in Tokens(d) : x \in Tokens(k) BY <1>5 DEF Tokens, HeaderQueued, Late
    <3>6. Tokens(d) \subseteq N BY <1>10, <3>3, <3>4, <3>5
    <3>7. Exclusive(Tokens(d)) BY <3>6 DEF Exclusive
    <3>8. c.ups = 0
      <4>1. "up" \notin Tokens(c) BY <3>2, <3>3
      <4>2. ~(c.ups > 0) BY <2>3, <4>1, TokensAre
      <4> QED BY <1>9, <4>2
    <3>9. d.ups <= 1 BY <1>3, <1>5, <3>8
    <3> QED BY <1>11, <1>12, <1>14, <2>1, <3>7, <3>9 DEF OneAtATime
  <2> QED BY <2>2, <2>3
<1> QED BY <1>7, <1>11, <1>12, <1>13, <1>14 DEF Replied, d, k

LEMMA EnableReplied ==
    ASSUME NEW c, Able(c)
    PROVE  LET d == [c EXCEPT !.handlers = EnableAll(@)]
           IN /\ Replied(c, d)
              /\ \A i \in DOMAIN d.handlers : d.handlers[i].enabled
<1> DEFINE list == EnableAll(c.handlers)
           d == [c EXCEPT !.handlers = list]
<1>1. c \in Conn /\ Good(c) /\ c.handlers \in Seq(HandlerItem) BY DEF Able, Good, Conn
<1>2. /\ list \in Seq(HandlerItem)
      /\ \A f : Listed(list, f) <=> Listed(c.handlers, f)
  BY <1>1, EnableHandlers
<1>3. /\ DOMAIN list = DOMAIN c.handlers
      /\ \A i \in DOMAIN list : list[i].enabled /\ list[i].fn = c.handlers[i].fn
  <2>1. ASSUME NEW i \in DOMAIN c.handlers
        PROVE  list[i].enabled /\ list[i].fn = c.handlers[i].fn
    <3>1. c.handlers[i] \in HandlerItem BY <1>1
    <3>2. list[i] = [c.handlers[i] EXCEPT !.enabled = TRUE] BY DEF EnableAll
    <3> QED BY <3>1, <3>2 DEF HandlerItem
  <2> QED BY <2>1 DEF EnableAll
<1>4. Single(list) BY <1>3 DEF Able, Single
<1> HIDE DEF list
<1>5. /\ d \in Conn /\ d.state = c.state /\ d.attempts = c.attempts /\ d.peer = c.peer
      /\ d.tls_disabled = c.tls_disabled /\ d.facts = c.facts /\ d.handlers = list
      /\ d.send_queue = c.send_queue /\ d.ups = c.ups /\ d.id_handlers = c.id_handlers
      /\ d.sasl_support = c.sasl_support /\ d.tls_support = c.tls_support
      /\ d.timed_handlers = c.timed_handlers /\ SameStream(c, d)
  BY <1>1, <1>2 DEF Conn, SameStream
<1>6. Good(d) BY <1>1, <1>5, Frame
<1>7. d = [c EXCEPT !.handlers = EnableAll(@)] BY DEF list
<1> HIDE DEF d
<1>8. /\ HeaderQueued(d) <=> HeaderQueued(c)
      /\ Late(d) <=> Late(c)
      /\ Offered(d) <=> Offered(c)
      /\ CredentialsQueued(d) = CredentialsQueued(c)
  BY <1>5 DEF HeaderQueued, Late, Offered, CredentialsQueued
<1>9. Tokens(d) = Tokens(c) BY <1>2, <1>5, <1>8 DEF Tokens
<1>10. OneAtATime(c) => OneAtATime(d) BY <1>5, <1>8, <1>9 DEF OneAtATime, HeaderOut
<1> QED BY <1>2, <1>3, <1>4, <1>5, <1>6, <1>7, <1>8, <1>10 DEF Replied, Able

LEMMA FireStanzaConverses ==
    ASSUME Conforming, Inv, Fits, Dialogue, handler_fire_stanza
    PROVE  Converses
<1>1. /\ conn \in Conn /\ Good(conn) /\ Sane(conn) /\ Able(conn) /\ Civil(conn, TRUE)
      /\ conn.attempts # 0 /\ pc = "chunk" /\ pc' = "stanza" /\ at' = 1
  BY Now DEF handler_fire_stanza, Able
<1>2. PICK s \in Incoming, env \in Choices :
        /\ MayStanza(s)
        /\ LET c == [conn EXCEPT !.peer = AfterStanza(@, s),
                                 !.facts = @ \cup FactsOf(conn, s)]
               called == IF s.id \in c.id_handlers
                         THEN [CallId(s.id, c, s, env) EXCEPT !.id_handlers = @ \ {s.id}]
                         ELSE c
           IN conn' = [called EXCEPT !.handlers = EnableAll(@)]
        /\ stanza' = s
  BY DEF handler_fire_stanza
<1> DEFINE p == AfterStanza(conn.peer, s)
           h == conn.facts \cup FactsOf(conn, s)
           c == [conn EXCEPT !.peer = p, !.facts = h]
           dropped == [CallId(s.id, c, s, env) EXCEPT !.id_handlers = @ \ {s.id}]
           called == IF s.id \in c.id_handlers THEN dropped ELSE c
           news == s.name = "stream:features" /\ "starttls" \in s.offers
                      /\ ~conn.secured /\ ~conn.tls_disabled
<1>3. conn.peer \in Peer /\ conn.peer.phase = "open"
      /\ (Answers(s) = {} \/ Answers(s) \cap conn.peer.owed # {})
  BY <1>1, <1>2 DEF Conn, MayStanza
<1>4. /\ p \in Peer /\ p.owed = conn.peer.owed \ Answers(s)
      /\ s.name \in {"success", "proceed"} => p.phase = "restart"
  BY <1>3, PeerType DEF AfterStanza
<1>5. /\ h \in SUBSET Facts /\ ("closing" \in h <=> "closing" \in conn.facts)
      /\ "features_missing" \in h <=> "features_missing" \in conn.facts
      /\ "starttls_offered" \in h => "starttls_offered" \in conn.facts \/ news
      /\ "starttls_offered" \in conn.facts => "starttls_offered" \in h
  <2>1. FactsOf(conn, s) \subseteq Facts \ {"closing", "features_missing"}
    BY DEF FactsOf, Facts
  <2>2. "starttls_offered" \in FactsOf(conn, s) => news BY DEF FactsOf
  <2>3. conn.facts \in SUBSET Facts BY <1>1 DEF Conn
  <2> QED BY <2>1, <2>2, <2>3
<1>6. conn' = [called EXCEPT !.handlers = EnableAll(@)] /\ stanza' = s BY <1>2
<1> HIDE DEF p, h
<1>7. /\ c \in Conn /\ c.peer = p /\ c.facts = h /\ c.state = conn.state
      /\ c.attempts = conn.attempts /\ c.ups = conn.ups
      /\ c.handlers = conn.handlers /\ c.id_handlers = conn.id_handlers
      /\ c.send_queue = conn.send_queue /\ c.timed_handlers = conn.timed_handlers
      /\ c.sasl_support = conn.sasl_support /\ c.tls_support = conn.tls_support
      /\ c.tls_disabled = conn.tls_disabled /\ SameStream(conn, c)
  BY <1>1, <1>4, <1>5 DEF Conn, SameStream
<1>8. Good(c) BY <1>1, <1>5, <1>7, Frame
<1> HIDE DEF c
<1>9. Able(c) BY <1>1, <1>7, <1>8 DEF Able
<1>10. Replied(c, called)
  <2>1. CASE s.id \in c.id_handlers BY <1>9, <2>1, IdReplied
  <2>2. CASE s.id \notin c.id_handlers BY <1>9, <2>2, RepliedTrans
  <2> QED BY <2>1, <2>2
<1> HIDE DEF called
<1>11. /\ Replied(called, conn')
       /\ \A i \in DOMAIN conn'.handlers : conn'.handlers[i].enabled
  <2>1. Able(called) BY <1>10 DEF Replied
  <2> QED BY <1>6, <2>1, EnableReplied
<1>12. Replied(c, conn') BY <1>9, <1>10, <1>11, RepliedTrans
<1>13. /\ HeaderQueued(c) <=> HeaderQueued(conn)
       /\ Late(c) <=> Late(conn)
       /\ Offered(c) => Offered(conn) \/ news
       /\ Offered(conn) => Offered(c)
       /\ CredentialsQueued(c) = CredentialsQueued(conn)
  BY <1>5, <1>7 DEF HeaderQueued, Late, Offered, CredentialsQueued
<1>14. Tokens(c) \subseteq Tokens(conn) BY <1>4, <1>7, <1>13 DEF Tokens
<1>15. /\ conn'.attempts = conn.attempts /\ conn'.state = conn.state /\ conn'.peer = p
       /\ conn'.secured = conn.secured /\ (Straight(conn') <=> Straight(conn))
       /\ conn'.tls_disabled = conn.tls_disabled
       /\ conn' \in Conn /\ Single(conn'.handlers)
  BY <1>7, <1>12, <1>13 DEF Replied, SameStream, Straight, Able, Good
<1>16. ASSUME conn.attempts <= 1, Straight(conn)
       PROVE  /\ OneAtATime(conn') /\ ~HeaderOut(conn')
              /\ Parsed(conn', TRUE) /\ Exclusive(Tokens(conn))
  <2>1. OneAtATime(conn) BY <1>1, <1>16 DEF Civil, Sane
  <2>2. ~HeaderOut(conn) BY <1>3, <2>1 DEF OneAtATime
  <2>3. ~HeaderOut(c) BY <1>14, <2>2 DEF HeaderOut
  <2>4. OneAtATime(c)
    <3>1. Exclusive(Tokens(c)) BY <1>14, <2>1, OneShrinks DEF OneAtATime
    <3> QED BY <1>7, <1>13, <2>1, <2>3, <3>1 DEF OneAtATime
  <2>5. OneAtATime(conn') BY <1>12, <2>4 DEF Replied
  <2>6. ~HeaderQueued(conn') /\ "header" \notin conn'.peer.owed
    BY <1>7, <1>12, <2>3, HeaderOutIs DEF Replied
  <2>7. ~HeaderOut(conn') BY <1>15, <2>6, HeaderOutIs
  <2> QED BY <2>1, <2>5, <2>6, <2>7 DEF Parsed, OneAtATime
<1>17. \A f \in DialogueFns : Listed(conn'.handlers, f) => Listed(conn.handlers, f)
  BY <1>7, <1>12 DEF Replied
<1>18. ASSUME conn.attempts <= 1, ~conn.secured PROVE Plainly(conn')
  <2>1. Straight(conn) /\ Plainly(conn) BY <1>1, <1>18 DEF Straight, Sane
  <2>2. ~HeaderOut(conn') BY <1>16, <1>18, <2>1
  <2>3. "_handle_features" \in DialogueFns BY DEF DialogueFns, FeatureFns
  <2> QED BY <1>7, <1>12, <1>17, <2>1, <2>2, <2>3 DEF Plainly, Replied
<1>19. Civil(conn', TRUE)
  BY <1>1, <1>15, <1>16, <1>18 DEF Civil, Sane
<1>20. ASSUME conn'.attempts <= 1 PROVE Heard'
  <2>1. ASSUME s.name = "stream:features" PROVE "features" \notin conn'.peer.owed
    BY <1>4, <1>15, <2>1 DEF Answers, TlsNames
  <2>2. ASSUME s.name = "stream:features", Straight(conn')
        PROVE  Tokens(conn') \cap {"queued", "header", "features"} = {}
    <3>1. ~HeaderOut(conn') BY <1>15, <1>16, <1>20, <2>2
    <3>2. "features" \notin Tokens(conn') BY <1>15, <2>1, <2>2, HeaderOutIs
    <3> QED BY <3>1, <3>2 DEF HeaderOut
  <2>3. s.name \in {"success", "proceed"} => conn'.peer.phase = "restart" BY <1>4, <1>15
  <2> QED BY <1>6, <2>2, <2>3 DEF Heard, Settled
<1>21. Dialogue' BY <1>19, <1>20, CivilReads, DialogueNext
<1>22. ASSUME Secrecy PROVE Secrecy'
  <2> SUFFICES ASSUME conn'.attempts <= 1, ~conn'.secured, Offered(conn')
               PROVE  /\ \A f \in SaslFns : ~Listed(conn'.handlers, f)
                      /\ Listed(conn'.handlers, "_handle_features") => Ahead'
    BY DEF Secrecy
  <2>1. SaslFns \cup {"_handle_features"} \subseteq DialogueFns
    BY DEF DialogueFns, Exchanges, FeatureFns
  <2>2. conn.attempts <= 1 /\ ~conn.secured /\ Straight(conn) BY <1>15 DEF Straight
  <2>3. CASE Offered(conn)
    <3>1. Hidden(conn) BY <1>1, <1>22, HiddenNow
    <3>2. \A f \in SaslFns \cup {"_handle_features"} : ~Listed(conn.handlers, f)
      BY <2>2, <2>3, <3>1 DEF Hidden
    <3> QED BY <1>17, <2>1, <3>2
  <2>4. CASE ~Offered(conn)
    <3>1. news BY <1>12, <1>13, <2>4 DEF Replied
    <3>2. "features" \in Tokens(conn)
      <4>1. Answers(s) = {"features"} BY <3>1 DEF Answers, TlsNames
      <4> QED BY <1>1, <1>3, <4>1, HeaderOutIs
    <3>3. \A f \in SaslFns : ~Listed(conn.handlers, f)
      <4> SUFFICES ASSUME NEW f \in SaslFns, Listed(conn.handlers, f) PROVE FALSE OBVIOUS
      <4>1. f \in Tokens(conn) BY <2>1, TokensAre
      <4>2. f # "features" /\ f \notin FeatureFns \cup {"header"} BY DEF SaslFns, FeatureFns
      <4> QED BY <1>16, <2>2, <3>2, <4>1, <4>2 DEF Exclusive, Beside
    <3>4. \A f \in SaslFns : ~Listed(conn'.handlers, f) BY <1>17, <2>1, <3>3
    <3>5. DOMAIN conn'.handlers \subseteq Nat \ {0}
      <4>1. conn'.handlers \in Seq(HandlerItem) BY <1>15 DEF Conn
      <4> QED BY <4>1
    <3>6. \A i \in DOMAIN conn'.handlers : i >= at' /\ conn'.handlers[i].enabled
      BY <1>1, <1>11, <3>5
    <3>7. Ahead' BY <1>1, <1>6, <1>15, <3>1, <3>6 DEF Ahead
    <3> QED BY <3>4, <3>7
  <2> QED BY <2>3, <2>4
<1>23. Careful
  <2>1. CredentialsQueued(conn') = CredentialsQueued(conn) BY <1>12, <1>13 DEF Replied
  <2> QED BY <1>1, <2>1, CredentialsType DEF Careful
<1> QED BY <1>21, <1>22, <1>23 DEF Converses

LEMMA DropHandlerTurn ==
    ASSUME NEW c, Able(c), NEW f
    PROVE  LET d == DropHandler(c, f)
           IN /\ Turn(c, d, {}, {}) /\ Keeps(c, d)
              /\ ~Listed(d.handlers, f) /\ d.handlers = Without(c.handlers, f)
<1> DEFINE new == Without(c.handlers, f)
           d == [c EXCEPT !.handlers = new]
<1>1. c \in Conn /\ Good(c) /\ c.handlers \in Seq(HandlerItem) BY DEF Able, Good, Conn
<1>2. /\ new \in Seq(HandlerItem) /\ Single(new) /\ ~Listed(new, f)
      /\ \A g : Listed(new, g) => Listed(c.handlers, g)
  BY <1>1, WithoutIs, WithoutOnly DEF Able
<1>3. DropHandler(c, f) = d BY DEF DropHandler
<1> HIDE DEF new
<1>4. /\ d \in Conn /\ d.state = c.state /\ d.attempts = c.attempts /\ d.peer = c.peer
      /\ d.tls_disabled = c.tls_disabled /\ d.facts = c.facts /\ d.handlers = new
      /\ d.id_handlers = c.id_handlers /\ d.send_queue = c.send_queue
      /\ d.timed_handlers = c.timed_handlers /\ Keeps(c, d)
  BY <1>1, <1>2 DEF Conn, Keeps, SameStream
<1>5. Good(d) BY <1>1, <1>4, Frame
<1> HIDE DEF d
<1>6. Turn(c, d, {}, {}) BY <1>2, <1>4, <1>5 DEF Turn, Able, Late, Offered
<1> QED BY <1>2, <1>3, <1>4, <1>6 DEF new

LEMMA GoesCivil ==
    ASSUME NEW c, Able(c), Civil(c, TRUE), c.attempts # 0, NEW s, c.attempts <= 1 => Settled(c, s),
           NEW f \in DialogueFns, Listed(c.handlers, f), Matches(f, s),
           NEW env, NEW d, Goes(c, d, f, s, env),
           Listed(d.handlers, f) => KeepsHandler(f, s, env)
    PROVE  /\ Civil(d, TRUE) /\ d.attempts = c.attempts
           /\ d.attempts <= 1 => Settled(d, s)
<1>1. PICK N \in SUBSET (Exchanges \cup IdFns \cup {"queued"}), Q \in SUBSET Items :
        /\ Turn(c, d, N, Q) /\ d.ups = c.ups
        /\ \A x, y \in N : x = y
        /\ "header" \in Q => "queued" \in N
        /\ "queued" \in N =>
              /\ s.name \in {"success", "proceed"} /\ f \in Exchanges
              /\ d.reset_parser /\ (d.secured \/ d.open_handler = "_handle_open_sasl")
        /\ c.secured => d.secured
        /\ KeepsHandler(f, s, env) => N = {}
  BY DEF Goes
<1>2. /\ d.state = c.state /\ d.attempts = c.attempts /\ d.peer = c.peer
      /\ Late(d) <=> Late(c)
      /\ d \in Conn /\ c \in Conn /\ Able(d) /\ Single(d.handlers)
  BY <1>1 DEF Turn, Able, Good
<1>3. Straight(d) => Straight(c) BY <1>1, <1>2 DEF Straight
<1>4. ASSUME c.attempts <= 1, Straight(c)
      PROVE  /\ OneAtATime(d) /\ Parsed(d, TRUE)
             /\ HeaderOut(d) => "queued" \in N
             /\ "features" \notin Tokens(d)
             /\ ~Listed(d.handlers, "_handle_features")
  <2>1. OneAtATime(c) BY <1>4 DEF Civil, Sane
  <2>2. f \in Tokens(c) BY TokensAre
  <2>3. \A x \in Tokens(c) : x = f
    <3>1. CASE f \in FeatureFns
      <4>1. s.name = "stream:features" BY <3>1 DEF Matches, FeatureFns
      <4>2. Tokens(c) \cap {"queued", "header", "features"} = {} BY <1>4, <4>1 DEF Settled
      <4>3. f \notin {"features", "header"} BY <3>1 DEF FeatureFns
      <4> QED BY <2>1, <2>2, <4>2, <4>3 DEF OneAtATime, Exclusive, Beside
    <3>2. CASE f \in Exchanges
      <4>1. f # "features" /\ f \notin FeatureFns \cup {"header"}
        BY <3>2 DEF Exchanges, SaslFns, FeatureFns
      <4> QED BY <2>1, <2>2, <4>1 DEF OneAtATime, Exclusive, Beside
    <3> QED BY <3>1, <3>2 DEF DialogueFns
  <2>4. f \notin IdFns \cup {"queued", "header", "features", "up"}
    BY DEF IdFns, DialogueFns, Exchanges, SaslFns, FeatureFns
  <2>5. ~HeaderQueued(c) /\ c.peer.owed \cap {"header", "features"} = {}
    BY <1>2, <2>3, <2>4, HeaderOutIs
  <2>6. Tokens(d) \subseteq Tokens(c) \cup N /\ OneHeader(d.send_queue)
    <3>1. d.ups # c.ups => "up" \in N BY <1>1
    <3> QED BY <1>1, <2>1, <2>5, <3>1, TurnTokens DEF OneAtATime
  <2>7. Tokens(d) \subseteq {f} \/ Tokens(d) \subseteq N
    <3>1. CASE KeepsHandler(f, s, env) BY <1>1, <2>3, <2>6, <3>1
    <3>2. CASE ~KeepsHandler(f, s, env)
      <4>1. d.id_handlers \subseteq IdFns BY <1>2 DEF Conn
      <4>2. f \notin Tokens(d) BY <2>4, <3>2, <4>1, TokensAre
      <4> QED BY <2>3, <2>6, <4>2
    <3> QED BY <3>1, <3>2
  <2>8. Exclusive(Tokens(d)) BY <1>1, <2>7 DEF Exclusive
  <2>9. "header" \notin Tokens(d) /\ "features" \notin Tokens(d)
    BY <1>2, <2>5, HeaderOutIs
  <2>10. HeaderOut(d) => "queued" \in N BY <2>4, <2>7, <2>9 DEF HeaderOut
  <2>11. "queued" \in N => d.peer.phase = "restart" /\ d.reset_parser
    BY <1>1, <1>2, <1>4 DEF Settled
  <2>12. OneAtATime(d) BY <1>1, <1>2, <2>1, <2>6, <2>8, <2>10, <2>11 DEF OneAtATime
  <2>13. Parsed(d, TRUE) BY <1>2, <2>9, <2>10, <2>11, HeaderOutIs DEF Parsed
  <2>14. ~Listed(d.handlers, "_handle_features")
    <3> SUFFICES ASSUME Listed(d.handlers, "_handle_features") PROVE FALSE OBVIOUS
    <3>1. "_handle_features" \in DialogueFns BY DEF DialogueFns, FeatureFns
    <3>2. "_handle_features" \in Tokens(d) BY <3>1, TokensAre
    <3>3. "_handle_features" \notin N
      BY DEF Exchanges, SaslFns, IdFns
    <3>4. f = "_handle_features" BY <2>7, <3>2, <3>3
    <3> QED BY <3>4 DEF KeepsHandler
  <2> QED BY <2>9, <2>10, <2>12, <2>13, <2>14
<1>5. ASSUME d.attempts <= 1, ~d.secured PROVE Plainly(d)
  <2>1. ~c.secured /\ Straight(c) BY <1>1, <1>5 DEF Straight
  <2>2. /\ HeaderOut(d) => "queued" \in N
        /\ ~Listed(d.handlers, "_handle_features")
    BY <1>2, <1>4, <1>5, <2>1
  <2> QED BY <1>1, <1>5, <2>2 DEF Plainly
<1>6. Civil(d, TRUE) BY <1>2, <1>3, <1>4, <1>5 DEF Civil, Sane
<1>7. ASSUME d.attempts <= 1 PROVE Settled(d, s)
  <2>1. ASSUME s.name = "stream:features", Straight(d)
        PROVE  Tokens(d) \cap {"queued", "header", "features"} = {}
    <3>1. "queued" \notin N BY <1>1, <2>1
    <3> QED BY <1>2, <1>3, <1>4, <1>7, <2>1, <3>1 DEF HeaderOut
  <2> QED BY <1>2, <1>7, <2>1 DEF Settled
<1> QED BY <1>2, <1>6, <1>7

\* Of the handlers that are not the dialogue's, what the list is left with.
LEMMA OtherHandlers ==
    ASSUME NEW c \in Conn, NEW f \in HandlerFns \ DialogueFns, NEW s, NEW env
    PROVE  CallHandler(f, c, s, env).handlers = c.handlers
<1>1. f \in {"_handle_error", "user_stanza"}
  BY DEF HandlerFns, DialogueFns, Exchanges, SaslFns, FeatureFns
<1>2. CASE f = "_handle_error"
  <2>1. CallHandler(f, c, s, env) = [c EXCEPT !.stream_error = TRUE]
    BY <1>2 DEF CallHandler
  <2> QED BY <2>1 DEF Conn
<1>3. CASE f = "user_stanza"
  <2>1. CallHandler(f, c, s, env) = CallUser(c) BY <1>3 DEF CallHandler
  <2> QED BY <2>1 DEF CallUser, Conn
<1> QED BY <1>1, <1>2, <1>3

\* Unlinking the item at position k moves those behind it.
LEMMA WithoutAt ==
    ASSUME NEW list \in Seq(HandlerItem), Single(list), NEW k \in DOMAIN list
    PROVE  LET new == Without(list, list[k].fn)
           IN \A i \in DOMAIN new :
                 new[i] = IF i < k THEN list[i] ELSE list[i + 1]
<1> DEFINE f == list[k].fn
           j == CHOOSE j \in DOMAIN list : list[j].fn = f
<1>1. j \in DOMAIN list /\ list[j].fn = f OBVIOUS
<1>2. j = k BY <1>1 DEF Single
<1>3. Listed(list, f) BY DEF Listed
<1>4. Without(list, f) = Unlink(list, k) BY <1>2, <1>3 DEF Without
<1> HIDE DEF j
<1>5. \A i \in DOMAIN Unlink(list, k) :
         Unlink(list, k)[i] = IF i < k THEN list[i] ELSE list[i + 1]
  BY DEF Unlink
<1> QED BY <1>4, <1>5

LEMMA CallOneConverses ==
    ASSUME Inv, Fits, Dialogue, CallOne
    PROVE  Converses
<1> DEFINE h == conn.handlers[at]
           f == h.fn
<1>1. /\ conn \in Conn /\ Good(conn) /\ Sane(conn) /\ Able(conn) /\ Civil(conn, TRUE)
      /\ conn.attempts # 0 /\ pc = "stanza" /\ pc' = "stanza" /\ stanza' = stanza
      /\ stanza \in Stanza /\ at \in Nat \ {0}
  BY Now DEF CallOne, Able
<1>2. at <= Len(conn.handlers) /\ h.enabled /\ Matches(f, stanza) BY DEF CallOne
<1>3. PICK env \in Choices :
        LET called == CallHandler(f, conn, stanza, env)
        IN IF KeepsHandler(f, stanza, env)
           THEN conn' = called /\ at' = at + 1
           ELSE conn' = DropHandler(called, f) /\ at' = at
  BY DEF CallOne
<1> DEFINE called == CallHandler(f, conn, stanza, env)
<1>4. /\ conn.handlers \in Seq(HandlerItem) /\ at \in DOMAIN conn.handlers
      /\ h \in HandlerItem
  <2>1. conn.handlers \in Seq(HandlerItem) BY <1>1 DEF Conn
  <2>2. at \in DOMAIN conn.handlers BY <1>1, <1>2, <2>1
  <2> QED BY <2>1, <2>2
<1>5. f \in HandlerFns /\ Listed(conn.handlers, f) BY <1>4 DEF HandlerItem, Listed
<1>6. Single(conn.handlers) BY <1>1 DEF Able
<1>7. \A i \in DOMAIN conn.handlers : conn.handlers[i].fn = f => i = at
  BY <1>4, <1>6 DEF Single
<1>8. /\ f \in DialogueFns => Goes(conn, called, f, stanza, env)
      /\ f \notin DialogueFns => Turn(conn, called, {}, {}) /\ Keeps(conn, called)
  BY <1>1, <1>5, CallHandlerTurn
<1>9. f \notin DialogueFns => called.handlers = conn.handlers
  BY <1>1, <1>5, OtherHandlers
<1>10. IF KeepsHandler(f, stanza, env)
       THEN conn' = called /\ at' = at + 1
       ELSE conn' = DropHandler(called, f) /\ at' = at
  BY <1>3
<1> HIDE DEF called
<1>11. Able(called) BY <1>8 DEF Turn, Goes
<1>12. /\ Turn(called, conn', {}, {}) /\ Keeps(called, conn')
       /\ Listed(conn'.handlers, f) => KeepsHandler(f, stanza, env)
  BY <1>10, <1>11, DropHandlerTurn, TurnWeaken
<1>13. f \in DialogueFns => Goes(conn, conn', f, stanza, env)
  <2> SUFFICES ASSUME f \in DialogueFns PROVE Goes(conn, conn', f, stanza, env) OBVIOUS
  <2>1. PICK N \in SUBSET (Exchanges \cup IdFns \cup {"queued"}), Q \in SUBSET Items :
        /\ Turn(conn, called, N, Q) /\ called.ups = conn.ups
        /\ \A x, y \in N : x = y
        /\ "header" \in Q => "queued" \in N
        /\ "queued" \in N =>
              /\ stanza.name \in {"success", "proceed"} /\ f \in Exchanges
              /\ called.reset_parser
              /\ (called.secured \/ called.open_handler = "_handle_open_sasl")
        /\ called.parser = conn.parser /\ (conn.reset_parser => called.reset_parser)
        /\ conn.secured => called.secured
        /\ KeepsHandler(f, stanza, env) => N = {}
        /\ Discreet(conn, f, stanza, env) => Q \cap Credentials = {} /\ N \cap SaslFns = {}
    BY <1>8 DEF Goes
  <2>2. Turn(conn, conn', N, Q)
    <3>1. N \cup {} = N OBVIOUS
    <3> QED BY <1>12, <2>1, <3>1, TurnTrans
  <2> QED BY <1>12, <2>1, <2>2 DEF Goes, Keeps, SameStream
<1>14. f \notin DialogueFns => Turn(conn, conn', {}, {}) /\ Keeps(conn, conn')
  <2>1. {} \cup {} = {} OBVIOUS
  <2> QED BY <1>8, <1>12, <2>1, TurnTrans
<1> HIDE DEF h, f
<1>15. conn.attempts <= 1 => Settled(conn, stanza) BY <1>1 DEF Dialogue, Heard
<1>16. Civil(conn', TRUE) /\ (conn'.attempts <= 1 => Settled(conn', stanza))
  <2>1. CASE f \in DialogueFns BY <1>1, <1>2, <1>5, <1>12, <1>13, <1>15, <2>1, GoesCivil
  <2>2. CASE f \notin DialogueFns
    <3>1. {} \in SUBSET (Items \ {"header"}) OBVIOUS
    <3>2. Turn(conn, conn', {}, {}) /\ Keeps(conn, conn') BY <1>14, <2>2
    <3>3. /\ Civil(conn', TRUE) /\ Tokens(conn') \subseteq Tokens(conn)
          /\ Straight(conn') <=> Straight(conn)
      BY <1>1, <3>1, <3>2, QuietSane
    <3>4. conn'.attempts = conn.attempts /\ conn'.peer = conn.peer BY <3>2 DEF Turn
    <3> QED BY <1>15, <3>3, <3>4 DEF Settled
  <2> QED BY <2>1, <2>2
<1>17. Dialogue'
  <2>1. conn'.attempts <= 1 => Heard' BY <1>1, <1>16 DEF Heard
  <2> QED BY <1>1, <1>16, <2>1, CivilReads, DialogueNext
<1>18. conn.handlers[at].fn = f BY DEF f, h
<1>19. /\ conn'.attempts = conn.attempts /\ conn'.tls_disabled = conn.tls_disabled
       /\ Offered(conn') <=> Offered(conn)
       /\ conn.secured => conn'.secured
       /\ \A g \in DialogueFns \ (Exchanges \cup IdFns) :
             Listed(conn'.handlers, g) => Listed(conn.handlers, g)
  <2>1. CASE f \in DialogueFns
    <3>1. PICK N \in SUBSET (Exchanges \cup IdFns \cup {"queued"}), Q \in SUBSET Items :
          Turn(conn, conn', N, Q) /\ (conn.secured => conn'.secured)
      BY <1>13, <2>1 DEF Goes
    <3>2. \A g \in DialogueFns \ (Exchanges \cup IdFns) : g \notin N
      BY DEF DialogueFns, FeatureFns, Exchanges, SaslFns
    <3> QED BY <3>1, <3>2 DEF Turn
  <2>2. CASE f \notin DialogueFns BY <1>14, <2>2 DEF Turn, Keeps, SameStream
  <2> QED BY <2>1, <2>2
<1>20. ASSUME TlsWorks, Secrecy, conn.attempts <= 1, ~conn.secured, Offered(conn)
       PROVE  /\ CredentialsQueued(conn') = CredentialsQueued(conn)
              /\ \A g \in SaslFns : ~Listed(conn'.handlers, g)
              /\ Listed(conn'.handlers, "_handle_features") =>
                    Ahead /\ f \notin DialogueFns
  <2>1. \A g \in SaslFns : ~Listed(conn.handlers, g) BY <1>20 DEF Secrecy
  <2>2. SaslFns \subseteq DialogueFns /\ "_handle_features" \in DialogueFns
        /\ "_handle_features" \notin Exchanges \cup IdFns
    BY DEF DialogueFns, Exchanges, SaslFns, FeatureFns, IdFns
  <2>3. Listed(conn'.handlers, "_handle_features") => Listed(conn.handlers, "_handle_features")
    BY <1>19, <2>2
  <2>4. CASE f \in DialogueFns
    <3>1. f \in {"_handle_features", "_handle_features_sasl", "_handle_proceedtls_default"}
      BY <1>5, <2>1, <2>4 DEF DialogueFns, Exchanges, FeatureFns
    <3>2. Discreet(conn, f, stanza, env)
      <4>1. CASE f = "_handle_features"
        <5>1. Ahead BY <1>5, <1>20, <4>1 DEF Secrecy
        <5>2. env.tls_new BY <1>20 DEF TlsWorks
        <5> QED BY <1>20, <4>1, <5>1, <5>2 DEF Ahead, Discreet
      <4>2. CASE f # "_handle_features" BY <3>1, <4>2 DEF Discreet
      <4> QED BY <4>1, <4>2
    <3>3. PICK N \in SUBSET (Exchanges \cup IdFns \cup {"queued"}), Q \in SUBSET Items :
          /\ Turn(conn, conn', N, Q) /\ conn'.ups = conn.ups
          /\ "header" \in Q => "queued" \in N
          /\ Q \cap Credentials = {} /\ N \cap SaslFns = {}
      BY <1>13, <2>4, <3>2 DEF Goes
    <3>4. CredentialsQueued(conn') = CredentialsQueued(conn) BY <1>1, <3>3, TurnTokens
    <3>5. \A g \in SaslFns : ~Listed(conn'.handlers, g) BY <2>1, <2>2, <3>3 DEF Turn
    <3>6. ~Listed(conn'.handlers, "_handle_features")
      <4> SUFFICES ASSUME Listed(conn'.handlers, "_handle_features") PROVE FALSE OBVIOUS
      <4>1. f \in Tokens(conn) /\ "_handle_features" \in Tokens(conn)
        BY <1>5, <2>2, <2>3, <2>4, TokensAre
      <4>2. Exclusive(Tokens(conn)) BY <1>1, <1>20 DEF Sane, Straight, OneAtATime
      <4>3. f # "features" /\ f \notin {"header"} BY <3>1
      <4>4. f = "_handle_features" BY <4>1, <4>2, <4>3 DEF Exclusive, Beside
      <4> QED BY <1>12, <4>4 DEF KeepsHandler
    <3> QED BY <3>4, <3>5, <3>6
  <2>5. CASE f \notin DialogueFns
    <3>1. Turn(conn, conn', {}, {}) /\ Keeps(conn, conn') BY <1>14, <2>5
    <3>2. {} \in SUBSET (Items \ {"header"}) /\ {} \cap Credentials = {} OBVIOUS
    <3>3. CredentialsQueued(conn') = CredentialsQueued(conn)
      BY <1>1, <3>1, <3>2, TurnStill DEF Still
    <3>4. \A g \in SaslFns : ~Listed(conn'.handlers, g) BY <2>1, <2>2, <3>1 DEF Turn
    <3> QED BY <1>20, <2>3, <2>5, <3>3, <3>4 DEF Secrecy
  <2> QED BY <2>4, <2>5
<1>21. ASSUME Ahead, f \notin DialogueFns PROVE Ahead'
  <2>1. f # "_handle_features" BY <1>21 DEF DialogueFns, FeatureFns
  <2>2. called.handlers = conn.handlers BY <1>9, <1>21
  <2>3. DOMAIN conn.handlers = 1 .. Len(conn.handlers) /\ Len(conn.handlers) \in Nat
    BY <1>4
  <2>4. \A i \in DOMAIN conn.handlers : conn.handlers[i].fn = "_handle_features" =>
           i > at /\ conn.handlers[i].enabled
    <3> SUFFICES ASSUME NEW i \in DOMAIN conn.handlers,
                        conn.handlers[i].fn = "_handle_features"
                 PROVE  i > at /\ conn.handlers[i].enabled
      OBVIOUS
    <3>1. i >= at /\ conn.handlers[i].enabled BY <1>21 DEF Ahead
    <3>2. i # at BY <1>18, <2>1
    <3> QED BY <1>1, <2>3, <3>1, <3>2
  <2>5. \A i \in DOMAIN conn'.handlers : conn'.handlers[i].fn = "_handle_features" =>
           i >= at' /\ conn'.handlers[i].enabled
    <3>1. CASE KeepsHandler(f, stanza, env)
      <4>1. conn'.handlers = conn.handlers /\ at' = at + 1 BY <1>10, <2>2, <3>1
      <4> QED BY <1>1, <2>3, <2>4, <4>1
    <3>2. CASE ~KeepsHandler(f, stanza, env)
      <4>1. at' = at /\ conn'.handlers = Without(conn.handlers, f)
        BY <1>10, <1>11, <2>2, <3>2, DropHandlerTurn
      <4>2. \A i \in DOMAIN conn'.handlers :
               conn'.handlers[i] = IF i < at THEN conn.handlers[i] ELSE conn.handlers[i + 1]
        BY <1>4, <1>6, <1>18, <4>1, WithoutAt
      <4>3. DOMAIN conn'.handlers \subseteq 1 .. Len(conn.handlers) - 1
        <5>1. Without(conn.handlers, f) =
                 Unlink(conn.handlers, CHOOSE i \in DOMAIN conn.handlers :
                                          conn.handlers[i].fn = f)
          BY <1>5 DEF Without
        <5> QED BY <4>1, <5>1 DEF Unlink
      <4> SUFFICES ASSUME NEW i \in DOMAIN conn'.handlers,
                          conn'.handlers[i].fn = "_handle_features"
                   PROVE  i >= at' /\ conn'.handlers[i].enabled
        OBVIOUS
      <4>4. i \in DOMAIN conn.handlers /\ i + 1 \in DOMAIN conn.handlers
        BY <2>3, <4>3
      <4>5. CASE i < at
        <5>1. conn'.handlers[i] = conn.handlers[i] BY <4>2, <4>5
        <5>2. i > at BY <2>4, <4>4, <5>1
        <5> QED BY <1>1, <2>3, <4>4, <4>5, <5>2
      <4>6. CASE ~(i < at)
        <5>1. conn'.handlers[i] = conn.handlers[i + 1] BY <4>2, <4>6
        <5>2. conn'.handlers[i].enabled BY <2>4, <4>4, <5>1
        <5> QED BY <1>1, <2>3, <4>1, <4>4, <4>6, <5>2
      <4> QED BY <4>5, <4>6
    <3> QED BY <3>1, <3>2
  <2> QED BY <1>1, <1>19, <1>21, <2>5 DEF Ahead
<1>22. TlsWorks /\ Secrecy => Secrecy' /\ Careful
  <2> SUFFICES ASSUME TlsWorks, Secrecy PROVE Secrecy' /\ Careful OBVIOUS
  <2>1. Careful BY <1>1, <1>19, <1>20, CredentialsType DEF Careful
  <2>2. Secrecy' BY <1>19, <1>20, <1>21 DEF Secrecy
  <2> QED BY <2>1, <2>2
<1> QED BY <1>17, <1>22 DEF Converses

\* Features come too late: what _auth then tries is legacy authentication, in clear.
LEMMA FeaturesMissing ==
    ASSUME NEW c, Able(c), Civil(c, FALSE), Listed(c.handlers, "_handle_features"), NEW env
    PROVE  LET d == CallTimed("_handle_missing_features", c, env)
           IN /\ d \in Conn /\ Civil(d, FALSE) /\ d.state = c.state
              /\ Hidden(c) => ~(d.attempts <= 1 /\ ~d.secured /\ Offered(d))
              /\ d.secured = c.secured
<1> DEFINE h == c.facts \cup {"features_missing"}
           l == [c EXCEPT !.facts = h]
           d == CallTimed("_handle_missing_features", c, env)
<1>1. c \in Conn /\ Good(c) /\ Single(c.handlers) BY DEF Able, Good
<1>2. /\ h \in SUBSET Facts /\ ("closing" \in h <=> "closing" \in c.facts)
      /\ ("starttls_offered" \in h <=> "starttls_offered" \in c.facts)
      /\ "features_missing" \in h
  <2>1. "features_missing" \in Facts BY DEF Facts
  <2> QED BY <1>1, <2>1 DEF Conn
<1>3. d = Auth(l, env) BY DEF CallTimed
<1> HIDE DEF h
<1>4. /\ l \in Conn /\ l.facts = h /\ l.peer = c.peer /\ l.state = c.state
      /\ l.attempts = c.attempts /\ l.ups = c.ups
      /\ l.handlers = c.handlers /\ l.id_handlers = c.id_handlers
      /\ l.send_queue = c.send_queue /\ l.timed_handlers = c.timed_handlers
      /\ l.sasl_support = c.sasl_support /\ l.tls_support = c.tls_support
      /\ SameStream(c, l)
  BY <1>1, <1>2 DEF Conn, SameStream
<1>5. Good(l) BY <1>1, <1>2, <1>4, Frame
<1> HIDE DEF l
<1>6. Able(l) BY <1>1, <1>4, <1>5 DEF Able
<1>7. Tries(l, d, env) BY <1>3, <1>6, AuthTries
<1> HIDE DEF d
<1>8. PICK N \in SUBSET (Exchanges \cup {"_handle_legacy"}), Q \in SUBSET (Items \ {"header"}) :
        /\ Turn(l, d, N, Q) /\ SameStream(l, d) /\ d.ups = l.ups
        /\ l.sasl_support = {} /\ ~l.tls_support =>
              N \subseteq {"_handle_legacy"} /\ d.sasl_support = {} /\ ~d.tls_support
  BY <1>7 DEF Tries
<1>9. /\ d \in Conn /\ Single(d.handlers) /\ d.state = c.state /\ d.attempts = c.attempts
      /\ d.peer = c.peer /\ SameStream(c, d) /\ Late(d) /\ Late(l)
      /\ Offered(d) <=> Offered(c)
  <2>1. SameStream(c, d) BY <1>4, <1>8, TurnTrans
  <2> QED BY <1>2, <1>4, <1>8, <2>1 DEF Turn, Able, Good, Late, Offered
<1>10. /\ Tokens(d) \subseteq Tokens(l) \cup N
       /\ HeaderQueued(d) <=> HeaderQueued(c)
       /\ OneHeader(c.send_queue) => OneHeader(d.send_queue)
  <2>1. Q \in SUBSET Items /\ "header" \notin Q /\ "queued" \notin N
    BY DEF Exchanges, SaslFns
  <2>2. HeaderQueued(l) <=> HeaderQueued(c) BY <1>4 DEF HeaderQueued
  <2> QED BY <1>4, <1>6, <1>8, <2>1, <2>2, TurnTokens
<1>11. HeaderOut(d) <=> HeaderOut(c) BY <1>1, <1>9, <1>10, HeaderOutIs
<1>12. Sane(c) BY DEF Civil
<1>13. ASSUME c.attempts <= 1 PROVE c.attempts # 0 /\ c.state # "CONNECTING"
  <2>1. "_handle_features" \in DialogueFns BY DEF DialogueFns, FeatureFns
  <2>2. ~Fresh(c) BY <2>1 DEF Fresh
  <2> QED BY <1>12, <1>13, <2>2 DEF Sane
<1>14. ASSUME c.attempts <= 1, ~c.secured
       PROVE  OneAtATime(d) /\ Plainly(d) /\ Parsed(d, FALSE)
  <2>1. Straight(c) /\ Plainly(c) /\ OneAtATime(c) /\ Parsed(c, FALSE)
    BY <1>14 DEF Civil, Sane, Straight
  <2>2. /\ N \subseteq {"_handle_legacy"} /\ d.sasl_support = {} /\ ~d.tls_support
    BY <1>4, <1>8, <2>1 DEF Plainly
  <2>3. Tokens(d) \subseteq Tokens(c)
    <3>1. "_handle_legacy" \notin Tokens(d)
      <4>1. "_handle_legacy" \notin DialogueFns BY DEF DialogueFns, Exchanges, SaslFns, FeatureFns
      <4> QED BY <1>9, <4>1, TokensAre
    <3>2. Tokens(l) \subseteq Tokens(c)
      <4>1. HeaderQueued(l) <=> HeaderQueued(c) BY <1>4 DEF HeaderQueued
      <4> QED BY <1>4, <1>9, <4>1 DEF Tokens
    <3> QED BY <1>10, <2>2, <3>1, <3>2
  <2>4. Exclusive(Tokens(d)) BY <2>1, <2>3, OneShrinks DEF OneAtATime
  <2>5. OneAtATime(d) BY <1>9, <1>10, <1>11, <2>1, <2>4 DEF OneAtATime
  <2>6. Plainly(d) BY <1>9, <1>11, <2>1, <2>2 DEF Plainly, SameStream
  <2>7. Parsed(d, FALSE) BY <1>9, <1>10, <2>1 DEF Parsed, SameStream
  <2> QED BY <2>5, <2>6, <2>7
<1>15. Straight(d) => ~c.secured BY <1>9 DEF Straight, SameStream
<1>16. Sane(d)
  BY <1>9, <1>12, <1>13, <1>14, <1>15 DEF Sane, SameStream
<1>17. Civil(d, FALSE) BY <1>9, <1>14, <1>15, <1>16 DEF Civil
<1>18. Hidden(c) => ~(d.attempts <= 1 /\ ~d.secured /\ Offered(d))
  BY <1>9 DEF Hidden, SameStream
<1> QED BY <1>9, <1>17, <1>18 DEF SameStream, d

LEMMA FireTimedConverses ==
    ASSUME Inv, Fits, Dialogue, FireTimed
    PROVE  Converses
<1> DEFINE list  == conn.timed_handlers
           t     == list[at]
           young == [list EXCEPT ![at] = [t EXCEPT !.age = 0]]
           c     == [conn EXCEPT !.timed_handlers = young]
<1>1. /\ conn \in Conn /\ Good(conn) /\ Able(conn) /\ Paired(conn) /\ Civil(conn, FALSE)
      /\ Sane(conn) /\ at \in Nat \ {0} /\ at <= Len(list)
      /\ pc \in {"timed1", "timed2"} /\ pc' = pc
  BY Now DEF FireTimed, Able
<1>2. list \in Seq(TimedItem) BY <1>1 DEF Conn
<1>3. at \in DOMAIN list /\ t \in TimedItem
  <2>1. DOMAIN list = 1 .. Len(list) /\ Len(list) \in Nat BY <1>2
  <2>2. at \in DOMAIN list BY <1>1, <2>1
  <2> QED BY <1>2, <2>2
<1>4. t.fn \in TimedFns /\ Armed(conn, t.fn) BY <1>3 DEF TimedItem, Armed, Listed
<1>5. young \in Seq(TimedItem) /\ \A f : Listed(list, f) => Listed(young, f)
  <2>1. [t EXCEPT !.age = 0] \in TimedItem /\ [t EXCEPT !.age = 0].fn = t.fn
    BY <1>3 DEF TimedItem
  <2>2. /\ young \in [DOMAIN list -> TimedItem]
        /\ \A i \in DOMAIN list : young[i].fn = list[i].fn
    BY <1>2, <1>3, <2>1
  <2> HIDE DEF young
  <2> QED BY <1>2, <2>2, SameFunctions
<1>6. PICK env \in Choices :
        LET fired == CallTimed(t.fn, c, env)
        IN IF KeepsTimed(t.fn, env) THEN conn' = fired ELSE conn' = DeleteTimed(fired, t.fn)
  <2>1. [conn EXCEPT !.timed_handlers[at].age = 0] = c BY <1>1, <1>2, <1>3 DEF Conn
  <2> HIDE DEF c
  <2> QED BY <2>1 DEF FireTimed
<1>7. Alike(conn, c) /\ c.state = conn.state /\ Still(conn, c) /\ Good(c)
  <2> HIDE DEF young
  <2> QED BY <1>1, <1>5, TimedStill, RetimedGood
<1> HIDE DEF young, c
<1>8. /\ Able(c) /\ c \in Conn /\ Sane(c) /\ Civil(c, FALSE)
      /\ c.attempts = conn.attempts /\ c.handlers = conn.handlers
      /\ c.send_queue = conn.send_queue /\ c.secured = conn.secured
      /\ Offered(c) <=> Offered(conn)
  BY <1>1, <1>7 DEF Able, Good, Alike, SameStream, Still
<1> DEFINE fired == CallTimed(t.fn, c, env)
<1>9. fired \in Conn => Still(fired, conn')
  <2> HIDE DEF fired
  <2>1. conn' \in {fired, DeleteTimed(fired, t.fn)} BY <1>6 DEF fired
  <2>2. fired \in Conn => Still(fired, DeleteTimed(fired, t.fn)) BY TimedStill DEF DeleteTimed
  <2> QED BY <2>1, <2>2, StillTrans
<1>10. fired \in Conn BY <1>4, <1>7, CallTimedGood DEF Good
<1>11. CASE t.fn = "_disconnect_cleanup"
  <2>1. fired = ConnDisconnect(c, env) BY <1>11 DEF CallTimed
  <2> HIDE DEF fired
  <2>2. Still(ConnDisconnect(c, env), conn') BY <1>9, <1>10, <2>1
  <2> QED BY <1>1, <1>8, <2>2, EndConverses
<1>12. CASE t.fn = "_handle_missing_features"
  <2>1. Listed(c.handlers, "_handle_features") BY <1>1, <1>4, <1>8, <1>12 DEF Paired, Awaited
  <2>2. /\ Civil(fired, FALSE) /\ fired.secured = conn.secured
        /\ Hidden(c) => ~(fired.attempts <= 1 /\ ~fired.secured /\ Offered(fired))
    BY <1>8, <1>12, <2>1, FeaturesMissing
  <2> HIDE DEF fired
  <2>3. Still(fired, conn') BY <1>9, <1>10
  <2>4. Dialogue' BY <1>1, <2>2, <2>3, DialogueNext DEF Still
  <2>5. ASSUME Secrecy PROVE Secrecy' /\ Careful
    <3>1. Hidden(c) BY <1>1, <1>7, <2>5, HiddenNow DEF Still
    <3>2. Hidden(fired) BY <2>2, <3>1 DEF Hidden
    <3>3. Secrecy' BY <1>1, <2>3, <3>2, HiddenNow DEF Still
    <3>4. conn'.facts = fired.facts /\ conn'.attempts = fired.attempts
      BY <1>6, <1>10 DEF DeleteTimed, Conn, fired
    <3>5. Careful BY <2>2, <3>1, <3>4 DEF Careful, Offered
    <3> QED BY <3>3, <3>5
  <2> QED BY <2>4, <2>5 DEF Converses
<1>13. CASE t.fn \notin {"_disconnect_cleanup", "_handle_missing_features"}
  <2>1. Turn(c, fired, {}, {"close"}) /\ Keeps(c, fired) BY <1>4, <1>8, <1>13, CallTimedTurn
  <2> HIDE DEF fired
  <2>2. {"close"} \in SUBSET (Items \ {"header"}) /\ {"close"} \cap Credentials = {}
    BY DEF Items, Credentials, Mechanisms
  <2>3. Still(c, fired) BY <1>8, <2>1, <2>2, TurnStill
  <2>4. Still(conn, conn') BY <1>7, <1>9, <1>10, <2>3, StillTrans
  <2> QED BY <1>1, <2>4, StillConverses
<1> QED BY <1>11, <1>12, <1>13
-----------------------------------------------------------------------------
(* The theorems. *)

LEMMA InitConverses == Init => Dialogue /\ Secrecy
<1> SUFFICES ASSUME Init PROVE Dialogue /\ Secrecy OBVIOUS
<1>1. PICK jid \in Jids : conn = NewConn(jid) BY DEF Init
<1>2. /\ conn.state = "DISCONNECTED" /\ conn.attempts = 0 /\ conn.facts = {}
      /\ conn.send_queue = <<>> /\ conn.peer = NewPeer /\ conn.id_handlers = {}
      /\ conn.ups = 0 /\ conn.sasl_support = {} /\ ~conn.tls_support /\ ~conn.secured
      /\ conn.open_handler = "auth_handle_open" /\ conn.parser = "start"
      /\ conn.handlers = <<>>
  BY <1>1 DEF NewConn
<1>3. ~Late(conn) /\ ~Offered(conn) BY <1>2 DEF Late, Offered
<1>4. Fresh(conn) BY <1>2, <1>3 DEF Fresh, Listed
<1>5. Tokens(conn) = {} /\ ~HeaderQueued(conn) /\ OneHeader(conn.send_queue)
  BY <1>4, FreshTokens
<1>6. OneAtATime(conn) BY <1>2, <1>5 DEF OneAtATime, Exclusive, HeaderOut
<1>7. Plainly(conn) BY <1>2, <1>3 DEF Plainly
<1>8. Sane(conn)
  <2>1. Single(conn.handlers) BY <1>2 DEF Single
  <2>2. conn.attempts <= MaxConnects BY <1>2, MaxConnectsAssumption
  <2> QED BY <1>2, <1>4, <1>6, <1>7, <2>1, <2>2 DEF Sane
<1>9. pc = "idle" BY DEF Init
<1>10. Dialogue BY <1>2, <1>8, <1>9 DEF Dialogue, Civil, Parsed
<1>11. Secrecy BY <1>3 DEF Secrecy
<1> QED BY <1>10, <1>11

LEMMA NextConverses ==
    ASSUME Conforming, Inv, Fits, Dialogue, [Next]_vars
    PROVE  Dialogue' /\ (TlsWorks /\ Secrecy => Secrecy' /\ [Careful]_vars)
<1>1. Converses => Dialogue' /\ (TlsWorks /\ Secrecy => Secrecy' /\ [Careful]_vars)
  BY DEF Converses
<1>2. CASE User BY <1>1, <1>2, UserConverses
<1>3. CASE Tick BY <1>1, <1>3, TickConverses
<1>4. CASE Loop
  <2>1. CASE handler_fire_stanza BY <1>1, <2>1, FireStanzaConverses
  <2>2. CASE run_once_write BY <1>1, <2>2, WriteConverses
  <2>3. CASE FireTimed BY <1>1, <2>3, FireTimedConverses
  <2>4. CASE SkipTimed \/ EndTimed \/ no_event \/ read_data BY <1>1, <2>4, MoveConverses
  <2>5. CASE SkipHandler \/ EndStanza BY <1>1, <2>5, StanzaConverses
  <2>6. CASE \/ connect_timeout \/ connect_failed \/ read_failed
             \/ read_again \/ chunk_done \/ garbage
    BY <1>1, <2>6, EndsConverse
  <2>7. CASE connect_complete BY <1>1, <2>7, ConnectCompleteConverses
  <2>8. CASE stream_header BY <1>1, <2>8, StreamHeaderConverses
  <2>9. CASE stream_end BY <1>1, <2>9, StreamEndConverses
  <2>10. CASE CallOne BY <1>1, <2>10, CallOneConverses
  <2> QED BY <1>4, <2>1, <2>2, <2>3, <2>4, <2>5, <2>6, <2>7, <2>8, <2>9, <2>10 DEF Loop
<1>5. CASE UNCHANGED vars
  <2>1. Dialogue' BY <1>5 DEF vars, Dialogue, Heard
  <2>2. Secrecy => Secrecy' BY <1>5 DEF vars, Secrecy, Ahead
  <2> QED BY <1>5, <2>1, <2>2
<1> QED BY <1>2, <1>3, <1>4, <1>5 DEF Next

LEMMA DialogueHolds == ASSUME Conforming PROVE Spec => [](Inv /\ Fits /\ Dialogue)
<1>1. Init => Inv /\ Fits /\ Dialogue BY InitInv, InitFits, InitConverses
<1>2. Inv /\ Fits /\ Dialogue /\ [Next]_vars => (Inv /\ Fits /\ Dialogue)'
  BY NextInv, NextFits, NextConverses
<1> QED BY <1>1, <1>2, PTL DEF Spec

\* With a server that keeps to the protocol the user is told CONNECT at most once in a
\* first attempt to connect, whichever of legacy authentication, a binding and a session
\* it ends with and however often a mechanism fails and _auth tries the next; the one
\* exception are features that come after FEATURES_TIMEOUT (_handle_missing_features
\* of auth.c).  Allocations, writes, timers and the user may do anything.
THEOREM ConnectToldOnce ==
    ASSUME Conforming PROVE Spec => [](FirstAttempt => ConnectOnceUnlessLate)
<1>1. Dialogue => (FirstAttempt => ConnectOnceUnlessLate)
  BY DEF Dialogue, Civil, Sane, OneAtATime, Straight, Late, FirstAttempt,
         ConnectOnceUnlessLate, ConnectOnce
<1> QED BY <1>1, DialogueHolds, PTL

\* With a server that keeps to the protocol the parser has been reset when the header of
\* a new stream arrives, after <proceed/> and after <success/>: the loop writes a
\* header and resets the parser before it can read the answer (conn_prepare_reset of
\* conn.c, event.c:172).  Only the case in which the features of a secured stream came
\* after FEATURES_TIMEOUT is left out.
THEOREM HeaderMeetsReset ==
    ASSUME Conforming PROVE Spec => [](Straight(conn) => HeaderMeetsFreshParser)
<1>1. Dialogue => (Straight(conn) => HeaderMeetsFreshParser)
  BY DEF Dialogue, Civil, Parsed, FirstAttempt, HeaderMeetsFreshParser, MayHeader
<1> QED BY <1>1, DialogueHolds, PTL

\* Once a server that keeps to the protocol has offered starttls, nothing puts
\* credentials into the queue before the stream is secured: no failing mechanism, late
\* timer or handler that runs in the same stanza (_auth of auth.c).  For one attempt to
\* connect and a TLS library whose tls_new works; if it does not, the code goes on in
\* clear.
THEOREM NoCredentialsInClear ==
    ASSUME Conforming, MaxConnects <= 1, \A env \in Choices : env.tls_new
    PROVE  Spec => NoCleartextCredentials
<1> DEFINE A == "starttls_offered" \in conn'.facts /\ ~conn.secured /\ ~conn.tls_disabled =>
                   CredentialsQueued(conn') <= CredentialsQueued(conn)
<1>1. TlsWorks BY DEF TlsWorks
<1>2. Init => Inv /\ Fits /\ Dialogue /\ Secrecy BY InitInv, InitFits, InitConverses
<1>3. ASSUME Inv, Fits, Dialogue, Secrecy, [Next]_vars
      PROVE  Inv' /\ Fits' /\ Dialogue' /\ Secrecy' /\ [A]_vars
  <2>1. Inv' /\ Fits' BY <1>3, NextInv, NextFits
  <2>2. Dialogue' /\ Secrecy' /\ [Careful]_vars BY <1>1, <1>3, NextConverses
  <2>3. conn'.attempts <= 1
    <3>1. conn'.attempts <= MaxConnects BY <2>2 DEF Dialogue, Civil, Sane
    <3>2. conn'.attempts \in Nat BY <2>1 DEF Inv, TypeOK, Conn
    <3> QED BY <3>1, <3>2, MaxConnectsAssumption
  <2>4. Careful => A BY <2>3 DEF Careful, Offered
  <2> QED BY <2>1, <2>2, <2>4
<1>4. Spec => [][A]_vars
  <2>1. Inv /\ Fits /\ Dialogue /\ Secrecy /\ [Next]_vars =>
           (Inv /\ Fits /\ Dialogue /\ Secrecy)' /\ [A]_vars
    BY <1>3
  <2> HIDE DEF A
  <2> QED BY <1>2, <2>1, PTL DEF Spec
<1> QED BY <1>4 DEF NoCleartextCredentials
=============================================================================

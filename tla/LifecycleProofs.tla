-------------------------- MODULE LifecycleProofs ---------------------------
(***************************************************************************)
(* Session implements Lifecycle, for every value of its constants for      *)
(* which the server and the network keep to the protocol (Polite): every   *)
(* step of the loop and of the user is one action of the life of a         *)
(* connection, or nothing its user could see.                              *)
(*                                                                         *)
(* The invariants are those of SessionProofs and DialogueProofs; here is   *)
(* only what each step shows.                                              *)
(***************************************************************************)
EXTENDS DialogueProofs

\* Nothing the user could see.
Unseen(c, d) ==
    /\ d.state = c.state /\ d.attempts = c.attempts /\ d.ups = c.ups
    /\ d.downs = c.downs /\ d.authenticated = c.authenticated

\* The user is told DISCONNECT, and may connect again.
Ending(c, d) ==
    /\ d.authenticated = c.authenticated
    /\ \/ /\ d.state = "DISCONNECTED" /\ d.attempts = c.attempts
          /\ d.ups = c.ups /\ d.downs = c.downs + 1
       \/ /\ d.state = "CONNECTING" /\ d.attempts = c.attempts + 1
          /\ d.ups = 0 /\ d.downs = 0

\* The user is told CONNECT.
Rising(c, d) ==
    /\ d.state = c.state /\ d.attempts = c.attempts /\ d.downs = c.downs
    /\ d.ups = c.ups + 1 /\ d.authenticated = TRUE

Shown ==
    \/ Unseen(conn, conn')
    \/ conn.state # "DISCONNECTED" /\ Ending(conn, conn')
    \/ Life!Connect \/ Life!Establish \/ Life!TellConnect

LEMMA UnseenTrans ==
    ASSUME NEW c, NEW d, NEW e
    PROVE  /\ Unseen(c, c)
           /\ Unseen(c, d) /\ Unseen(d, e) => Unseen(c, e)
           /\ Unseen(c, d) /\ Ending(d, e) => Ending(c, e)
           /\ Ending(c, d) /\ Unseen(d, e) => Ending(c, e)
           /\ Unseen(c, d) /\ Rising(d, e) => Rising(c, e)
           /\ Rising(c, d) /\ Unseen(d, e) => Rising(c, e)
BY DEF Unseen, Ending, Rising

LEMMA QuietUnseen ==
    ASSUME NEW c, NEW d, d.ups = c.ups
    PROVE  /\ \A T : Quiet(c, d, T) => Unseen(c, d)
           /\ Passes(c, d) => Unseen(c, d)
BY DEF Unseen, Quiet, Follows, Passes

\* What only one of the invariants of the other modules knows.
Both(c) == Sound(c) /\ Able(c)

LEMMA BothIs ==
    ASSUME NEW c
    PROVE  /\ Both(c) => c \in Conn /\ Kept(c) /\ Good(c) /\ Single(c.handlers)
           /\ Sound(c) /\ Single(c.handlers) => Both(c)
BY DEF Both, Sound, Kept, Able

-----------------------------------------------------------------------------
(* What the operations show. *)

LEMMA FieldsUnseen ==
    ASSUME NEW c \in Conn
    PROVE  /\ \A x : Unseen(c, [c EXCEPT !.timed_handlers = x])
           /\ \A x : Unseen(c, [c EXCEPT !.handlers = x])
           /\ \A x : Unseen(c, [c EXCEPT !.id_handlers = x])
           /\ \A x : Unseen(c, [c EXCEPT !.error = x])
           /\ \A x : Unseen(c, [c EXCEPT !.parser = x])
           /\ \A x : Unseen(c, [c EXCEPT !.peer = x])
           /\ \A x : Unseen(c, [c EXCEPT !.tls_disabled = x])
           /\ \A x, y : Unseen(c, [c EXCEPT !.peer = x, !.facts = y])
           /\ \A x, y : Unseen(c, [c EXCEPT !.age = x, !.timed_handlers = y])
           /\ \A x, y, z : Unseen(c, [c EXCEPT !.send_queue = x, !.peer = y, !.error = z])
BY DEF Conn, Unseen

LEMMA ListsUnseen ==
    ASSUME NEW c \in Conn
    PROVE  /\ \A f : Unseen(c, DeleteTimed(c, f)) /\ Unseen(c, DropHandler(c, f))
           /\ Unseen(c, BeginTimed(c)) /\ Unseen(c, ParserReset(c))
           /\ \A n, fails : Unseen(c, WriteQueue(c, n, fails))
<1>1. Unseen(c, BeginTimed(c)) BY FieldsUnseen, UnseenTrans DEF BeginTimed
<1>2. Unseen(c, ParserReset(c)) BY DEF ParserReset, Conn, Unseen
<1> QED BY <1>1, <1>2, FieldsUnseen DEF DeleteTimed, DropHandler, WriteQueue

LEMMA ConnDisconnectEnding ==
    ASSUME NEW c \in Conn, NEW env
    PROVE  Ending(c, ConnDisconnect(c, env))
BY DEF ConnDisconnect, ConnectClient, Conn, Ending

LEMMA XmppDisconnectUnseen ==
    ASSUME NEW c, Both(c)
    PROVE  Unseen(c, XmppDisconnect(c))
<1>1. Quiet(c, XmppDisconnect(c), AuthTimers) BY XmppDisconnectSound DEF Both
<1>2. XmppDisconnect(c).ups = c.ups BY XmppDisconnectTurn DEF Both, Keeps
<1> QED BY <1>1, <1>2, QuietUnseen

LEMMA CallHandlerUnseen ==
    ASSUME NEW c, Both(c), NEW f \in HandlerFns, Listed(c.handlers, f), NEW s \in Stanza,
           s.name = "success" => Earns(c, "_handle_open_sasl"), NEW env
    PROVE  LET d == CallHandler(f, c, s, env)
           IN Unseen(c, d) /\ d \in Conn
<1> DEFINE d == CallHandler(f, c, s, env)
<1>1. Sound(d) /\ Quiet(c, d, TimedFns) BY CallHandlerSound DEF Both
<1>2. d.ups = c.ups
  <2>1. Goes(c, d, f, s, env) => d.ups = c.ups BY DEF Goes
  <2>2. Keeps(c, d) => d.ups = c.ups BY DEF Keeps
  <2>3. Goes(c, d, f, s, env) \/ Keeps(c, d) BY CallHandlerTurn DEF Both
  <2> QED BY <2>1, <2>2, <2>3
<1> QED BY <1>1, <1>2, QuietUnseen DEF Sound, Kept

\* A timer other than the one that forces the end.
LEMMA CallTimedUnseen ==
    ASSUME NEW c, Both(c), NEW f \in TimedFns, NEW env
    PROVE  LET d == CallTimed(f, c, env)
           IN /\ d \in Conn
              /\ f # "_disconnect_cleanup" => Unseen(c, d)
              /\ f = "_disconnect_cleanup" => Ending(c, d)
<1> DEFINE d == CallTimed(f, c, env)
<1>1. Sound(d) /\ (f # "_disconnect_cleanup" => Quiet(c, d, AuthTimers))
  BY CallTimedSound DEF Both
<1>2. c \in Conn /\ d \in Conn BY <1>1, BothIs DEF Sound, Kept
<1>3. CASE f = "_disconnect_cleanup"
  BY <1>2, <1>3, ConnDisconnectEnding DEF CallTimed
<1>4. CASE f = "_handle_missing_features"
  <2> DEFINE h == c.facts \cup {"features_missing"}
             l == [c EXCEPT !.facts = h]
  <2>1. h \in SUBSET Facts /\ ("closing" \in h => "closing" \in c.facts)
    <3>1. "features_missing" \in Facts BY DEF Facts
    <3> QED BY <1>2, <3>1 DEF Conn
  <2>2. d = Auth(l, env) BY <1>4 DEF CallTimed
  <2> HIDE DEF h
  <2>3. /\ l \in Conn /\ l.facts = h /\ l.state = c.state /\ l.ups = c.ups
        /\ l.handlers = c.handlers /\ l.timed_handlers = c.timed_handlers
    BY <1>2, <2>1 DEF Conn
  <2> HIDE DEF l, d
  <2>4. Able(l) BY <2>1, <2>3, Frame DEF Both, Able
  <2>5. Tries(l, d, env) BY <2>2, <2>4, AuthTries
  <2>6. d.ups = c.ups BY <2>3, <2>5 DEF Tries
  <2> QED BY <1>1, <1>2, <1>4, <2>6, QuietUnseen DEF d
<1>5. CASE f \notin {"_disconnect_cleanup", "_handle_missing_features"}
  <2>1. d.ups = c.ups BY <1>5, CallTimedTurn DEF Both, Keeps
  <2> QED BY <1>1, <1>2, <1>5, <2>1, QuietUnseen
<1> QED BY <1>3, <1>4, <1>5

LEMMA NotifyConnectRising ==
    ASSUME NEW c, Both(c), NEW env
    PROVE  Rising(c, NotifyConnect(c, env))
<1> DEFINE up == [c EXCEPT !.authenticated = TRUE, !.ups = @ + 1]
           d  == NotifyConnect(c, env)
<1>1. c \in Conn /\ c.ups + 1 \in Nat BY BothIs DEF Conn
<1>2. Sound(d) /\ Follows(c, d, {"_disconnect_cleanup"}) BY NotifyConnectSound DEF Both
<1>3. d.ups = c.ups + 1 BY NotifyConnectTurn DEF Both
<1>4. up \in Conn /\ up.authenticated = TRUE BY <1>1 DEF Conn
<1>5. d \in {up, XmppDisconnect(up)} BY DEF NotifyConnect
<1> HIDE DEF up
<1>6. XmppDisconnect(up).authenticated = TRUE
  <2>1. ASSUME NEW x \in Conn PROVE AddTimed(x, "_disconnect_cleanup").authenticated = x.authenticated
    BY DEF AddTimed, Conn
  <2> DEFINE s == Send(up, "close")
             x == [s EXCEPT !.facts = @ \cup {"closing"}]
  <2>2. s \in Conn /\ s.authenticated = up.authenticated BY <1>4, SendSame DEF Same, Items
  <2>3. x \in Conn /\ x.authenticated = s.authenticated
    <3>1. "closing" \in Facts BY DEF Facts
    <3> HIDE DEF s
    <3> QED BY <2>2, <3>1 DEF Conn
  <2>4. XmppDisconnect(up) \in {up, AddTimed(up, "_disconnect_cleanup"),
                                AddTimed(x, "_disconnect_cleanup")}
    <3>1. up.state \in States BY <1>4 DEF Conn
    <3> HIDE DEF x
    <3>2. x = [Send(up, "close") EXCEPT !.facts = @ \cup {"closing"}] BY DEF x
    <3> QED BY <3>1, <3>2 DEF XmppDisconnect, States
  <2> HIDE DEF x, s
  <2> QED BY <1>4, <2>1, <2>2, <2>3, <2>4
<1> QED BY <1>2, <1>3, <1>4, <1>5, <1>6 DEF Rising, Follows

\* The answer to a request with an id brings the connection up or cannot be seen.
LEMMA CallIdShown ==
    ASSUME NEW c, Both(c), NEW f \in IdFns, f \in c.id_handlers, NEW s, NEW env,
           c.attempts <= 1 /\ f = "_handle_bind" /\ s.type = "result" =>
               "bind_result" \in c.facts
    PROVE  LET d == CallId(f, c, s, env)
           IN d \in Conn /\ (Unseen(c, d) \/ Rising(c, d))
<1> DEFINE d == CallId(f, c, s, env)
           timer == CASE f = "_handle_bind"    -> "_handle_missing_bind"
                      [] f = "_handle_session" -> "_handle_missing_session"
                      [] f = "_handle_legacy"  -> "_handle_missing_legacy"
           heard == DeleteTimed(c, timer)
           r == Request(heard, "_handle_session", "_handle_missing_session", "session", env)
<1>1. d \in Conn BY CallIdSound DEF Both, Sound, Kept
<1>2. timer # "_disconnect_cleanup" BY DEF IdFns
<1>3. \/ d \in {NotifyConnect(heard, env), XmppDisconnect(heard)}
      \/ d = r /\ f = "_handle_bind" /\ s.type = "result"
  BY DEF IdFns, CallId, _handle_bind, _handle_session, _handle_legacy
<1> HIDE DEF d, timer
<1>4. /\ Both(heard) /\ Unseen(c, heard) /\ Quiet(c, heard, AuthTimers)
      /\ heard.facts = c.facts
  <2>1. Sound(heard) /\ Quiet(c, heard, AuthTimers) /\ heard.facts = c.facts
    BY <1>2, DeleteTimedSound DEF Both
  <2>2. Turn(c, heard, {}, {}) BY <1>2, DeleteTimedTurn DEF Both
  <2>3. Unseen(c, heard) BY BothIs, ListsUnseen
  <2> QED BY <2>1, <2>2, <2>3 DEF Both, Turn
<1> HIDE DEF heard
<1>5. Rising(heard, NotifyConnect(heard, env)) BY <1>4, NotifyConnectRising
<1>6. Unseen(heard, XmppDisconnect(heard)) BY <1>4, XmppDisconnectUnseen
<1>7. ASSUME f = "_handle_bind", s.type = "result" PROVE Unseen(heard, r)
  <2>1. /\ "_handle_session" \in IdFns /\ "_handle_missing_session" \in TimedFns
        /\ "session" \in Items
    BY DEF IdFns, TimedFns, Items
  <2>2. Earns(heard, "_handle_session")
    <3>1. Earns(c, "_handle_bind") BY <1>7 DEF Both, Sound, Kept, Earned, Registered
    <3>2. heard.attempts = c.attempts BY <1>4 DEF Unseen
    <3> QED BY <1>4, <1>7, <3>1, <3>2 DEF Earns
  <2>3. \A e : "_handle_session" \in e.id_handlers => Awaited(e, "_handle_missing_session")
    BY DEF Awaited
  <2>4. \E T : Quiet(heard, r, T) BY <1>4, <2>1, <2>2, <2>3, RequestSound DEF Both
  <2>5. r.ups = heard.ups
    <3>1. Able(heard) BY <1>4 DEF Both
    <3>2. Keeps(heard, r) BY <2>1, <3>1, RequestTurn
    <3> HIDE DEF r
    <3> QED BY <3>2 DEF Keeps
  <2> QED BY <2>4, <2>5, QuietUnseen
<1> HIDE DEF r
<1>8. Unseen(heard, d) \/ Rising(heard, d) BY <1>3, <1>5, <1>6, <1>7
<1> QED BY <1>1, <1>4, <1>8, UnseenTrans DEF d

-----------------------------------------------------------------------------
(* What each step shows. *)

LEMMA ShowsNow ==
    ASSUME Inv, Fits, Dialogue
    PROVE  /\ Both(conn) /\ conn \in Conn /\ conn.attempts \in Nat
           /\ at \in Nat \ {0} /\ stanza \in Stanza
BY SoundNow, Now DEF Both

LEMMA UserShown == ASSUME Inv, Fits, Dialogue, User PROVE Shown
<1>1. Both(conn) /\ conn \in Conn BY ShowsNow
<1>2. CASE xmpp_connect_client
  <2>1. conn' = ConnectClient(conn) /\ conn.state = "DISCONNECTED"
    BY <1>2 DEF xmpp_connect_client
  <2>2. /\ conn'.state = "CONNECTING" /\ conn'.attempts = conn.attempts + 1
        /\ conn'.ups = 0 /\ conn'.downs = 0 /\ conn'.authenticated = conn.authenticated
    BY <1>1, <2>1 DEF ConnectClient, Conn
  <2>3. Life!Connect BY <2>1, <2>2 DEF Life!Connect, Life!Begin
  <2> QED BY <2>3 DEF Shown
<1>3. CASE xmpp_disconnect
  BY <1>1, <1>3, XmppDisconnectUnseen DEF xmpp_disconnect, Shown
<1>4. CASE xmpp_send
  <2>1. conn' = Send(conn, "user") /\ "user" \in Items BY <1>4 DEF xmpp_send, Items
  <2>2. Quiet(conn, conn', {}) BY <1>1, <2>1, SendSound DEF Both
  <2>3. conn'.ups = conn.ups BY <1>1, <2>1, SendTurn DEF Both, Keeps
  <2> QED BY <2>2, <2>3, QuietUnseen DEF Shown
<1>5. CASE xmpp_conn_disable_tls
  BY <1>1, <1>5, FieldsUnseen DEF xmpp_conn_disable_tls, Shown
<1>6. CASE xmpp_handler_add
  <2> DEFINE h == AddHandler(conn, "user_stanza")
  <2>1. h \in Conn /\ Unseen(conn, h)
    <3>1. Good(h) BY <1>1, AddHandlerGood DEF Both, Sound, HandlerFns
    <3>2. Unseen(conn, h) BY <1>1 DEF AddHandler, Conn, Unseen
    <3> QED BY <3>1, <3>2 DEF Good
  <2>2. conn' = AddTimed(h, "user_timed") BY <1>6 DEF xmpp_handler_add
  <2> HIDE DEF h
  <2>3. Unseen(h, conn') BY <2>1, <2>2 DEF AddTimed, Conn, Unseen
  <2> QED BY <2>1, <2>3, UnseenTrans DEF Shown
<1> QED BY <1>2, <1>3, <1>4, <1>5, <1>6 DEF User

LEMMA TickShown == ASSUME Inv, Fits, Dialogue, Tick PROVE Shown
<1>1. conn \in Conn BY ShowsNow
<1> DEFINE a == IF conn.state = "CONNECTING" THEN Older(conn.age, CONNECT_TIMEOUT + 1)
                                             ELSE conn.age
           l == AllOlder(conn.timed_handlers)
<1>2. conn' = [conn EXCEPT !.age = a, !.timed_handlers = l] BY DEF Tick
<1> HIDE DEF a, l
<1> QED BY <1>1, <1>2, FieldsUnseen DEF Shown

LEMMA WriteShown == ASSUME Polite, Inv, Fits, Dialogue, run_once_write PROVE Shown
<1>1. conn \in Conn /\ Both(conn) /\ Sound(conn) BY ShowsNow DEF Both
<1>2. CASE conn.state # "CONNECTED"
  BY <1>1, <1>2, ListsUnseen DEF run_once_write, Shown
<1>3. CASE conn.state = "CONNECTED"
  <2>1. PICK env \in Choices, n \in 0 .. Len(conn.send_queue), fails \in BOOLEAN :
          conn' = BeginTimed(ParserReset(write_queued(FALSE, n, fails, env)))
    BY <1>3 DEF run_once_write, Polite
  <2> DEFINE w == WriteQueue(conn, n, fails)
             t == TearDownOnError(w, env)
             r == ParserReset(t)
  <2>2. Sound(w) /\ Unseen(conn, w) BY <1>1, ListsUnseen, WriteQueueSound
  <2>3. conn' = BeginTimed(r) BY <2>1 DEF write_queued, ClearPending
  <2>4. t = IF w.error THEN ConnDisconnect(w, env) ELSE w BY DEF TearDownOnError
  <2> HIDE DEF w
  <2>5. Sound(t) /\ (Unseen(w, t) \/ Ending(w, t))
    BY <2>2, <2>4, ConnDisconnectSound, ConnDisconnectEnding, UnseenTrans DEF Sound, Kept
  <2> HIDE DEF t
  <2>6. Sound(r) /\ Unseen(t, r)
    BY <2>5, ParserResetSound, ListsUnseen DEF Sound, Kept
  <2> HIDE DEF r
  <2>7. Unseen(r, conn') BY <2>3, <2>6, ListsUnseen DEF Sound, Kept
  <2>8. Unseen(conn, conn') \/ Ending(conn, conn')
    BY <2>2, <2>5, <2>6, <2>7, UnseenTrans
  <2> QED BY <1>3, <2>8 DEF Shown
<1> QED BY <1>2, <1>3

\* The timer that forces the end fires only while there is a connection to end.
LEMMA FireTimedShown == ASSUME OnceInv, Inv, Fits, Dialogue, FireTimed PROVE Shown
<1> DEFINE list  == conn.timed_handlers
           t     == list[at]
           young == [list EXCEPT ![at] = [t EXCEPT !.age = 0]]
           c     == [conn EXCEPT !.timed_handlers = young]
<1>1. Both(conn) /\ conn \in Conn /\ list \in Seq(TimedItem) BY ShowsNow DEF Conn
<1>2. /\ pc \in {"timed1", "timed2"} /\ at <= Len(list) /\ at \in Nat \ {0} /\ t.enabled
  BY ShowsNow DEF FireTimed
<1>3. at \in DOMAIN list /\ t \in TimedItem
  <2>1. DOMAIN list = 1 .. Len(list) /\ Len(list) \in Nat BY <1>1
  <2>2. at \in DOMAIN list BY <1>2, <2>1
  <2> QED BY <1>1, <2>2
<1>4. t.fn \in TimedFns BY <1>3 DEF TimedItem
<1>5. /\ young \in Seq(TimedItem) /\ DOMAIN young = DOMAIN list
      /\ \A i \in DOMAIN young : young[i].fn = list[i].fn
  <2>1. [t EXCEPT !.age = 0] \in TimedItem /\ [t EXCEPT !.age = 0].fn = t.fn
    BY <1>3 DEF TimedItem
  <2>2. /\ young \in [DOMAIN list -> TimedItem] /\ DOMAIN young = DOMAIN list
        /\ \A i \in DOMAIN list : young[i].fn = list[i].fn
    BY <1>1, <1>3, <2>1
  <2> HIDE DEF young
  <2> QED BY <1>1, <2>2, SameFunctions
<1>6. PICK env \in Choices :
        LET fired == CallTimed(t.fn, c, env)
        IN IF KeepsTimed(t.fn, env) THEN conn' = fired ELSE conn' = DeleteTimed(fired, t.fn)
  <2>1. [conn EXCEPT !.timed_handlers[at].age = 0] = c BY <1>1, <1>3 DEF Conn
  <2> HIDE DEF c
  <2> QED BY <2>1 DEF FireTimed
<1> HIDE DEF young
<1>7. Both(c) /\ Unseen(conn, c)
  <2>1. Kept(c) BY <1>1, <1>5, RetimedKept, BothIs
  <2>2. Good(c)
    <3>1. \A f : Listed(list, f) => Listed(young, f) BY <1>5 DEF Listed
    <3> QED BY <1>1, <1>5, <3>1, RetimedGood, BothIs
  <2>3. c.handlers = conn.handlers BY <1>1 DEF Conn
  <2>4. Unseen(conn, c) BY <1>1, FieldsUnseen
  <2> HIDE DEF c
  <2> QED BY <1>1, <2>1, <2>2, <2>3, <2>4, BothIs DEF Sound
<1> HIDE DEF c
<1> DEFINE fired == CallTimed(t.fn, c, env)
<1>8. /\ fired \in Conn
      /\ t.fn # "_disconnect_cleanup" => Unseen(c, fired)
      /\ t.fn = "_disconnect_cleanup" => Ending(c, fired)
  BY <1>4, <1>7, CallTimedUnseen
<1> HIDE DEF fired
<1>9. Unseen(fired, conn')
  <2>1. conn' \in {fired, DeleteTimed(fired, t.fn)} BY <1>6 DEF fired
  <2> QED BY <1>8, <2>1, ListsUnseen, UnseenTrans
<1>10. CASE t.fn # "_disconnect_cleanup"
  BY <1>7, <1>8, <1>9, <1>10, UnseenTrans DEF Shown
<1>11. CASE t.fn = "_disconnect_cleanup"
  <2>1. Ready(conn) BY <1>2, <1>3, <1>11 DEF Ready
  <2>2. conn.state = "CONNECTED"
    <3>1. Len(list) \in Nat BY <1>1
    <3> QED BY <1>2, <2>1, <3>1 DEF OnceInv, Over
  <2>3. Ending(conn, conn') BY <1>7, <1>8, <1>9, <1>11, UnseenTrans
  <2> QED BY <2>2, <2>3 DEF Shown
<1> QED BY <1>10, <1>11

LEMMA ToTimed2Unseen ==
    ASSUME NEW c \in Conn, ToTimed2(c)
    PROVE  Unseen(c, conn')
BY ListsUnseen DEF ToTimed2

LEMMA EventShown ==
    ASSUME Inv, Fits, Dialogue,
           \/ connect_timeout \/ no_event \/ connect_complete \/ connect_failed
           \/ read_failed \/ read_again \/ read_data \/ chunk_done
    PROVE  Shown
<1>1. conn \in Conn BY ShowsNow
<1> DEFINE e == [conn EXCEPT !.error = TRUE]
<1>2. e \in Conn /\ Unseen(conn, e) BY <1>1, FieldsUnseen DEF Conn
<1> HIDE DEF e
<1>3. \A env : /\ ConnDisconnect(conn, env) \in Conn /\ Ending(conn, ConnDisconnect(conn, env))
               /\ ConnDisconnect(e, env) \in Conn /\ Ending(conn, ConnDisconnect(e, env))
  BY <1>1, <1>2, ConnDisconnectGood, ConnDisconnectEnding, UnseenTrans DEF Good
<1>4. CASE connect_timeout
  <2>1. conn.state # "DISCONNECTED" BY <1>4 DEF connect_timeout, ConnectTimedOut
  <2>2. \E env \in Choices : conn' = ConnDisconnect(e, env) BY <1>4 DEF connect_timeout, e
  <2> QED BY <1>3, <2>1, <2>2 DEF Shown
<1>5. CASE connect_failed
  <2>1. PICK env \in Choices : ToTimed2(ConnDisconnect(conn, env)) BY <1>5 DEF connect_failed
  <2>2. Unseen(ConnDisconnect(conn, env), conn') BY <1>3, <2>1, ToTimed2Unseen
  <2>3. Ending(conn, conn') BY <1>3, <2>2, UnseenTrans
  <2> QED BY <1>5, <2>3 DEF connect_failed, Shown
<1>6. CASE read_failed
  <2>1. PICK env \in Choices : ToTimed2(ConnDisconnect(e, env)) BY <1>6 DEF read_failed, e
  <2>2. Unseen(ConnDisconnect(e, env), conn') BY <1>3, <2>1, ToTimed2Unseen
  <2>3. Ending(conn, conn') BY <1>3, <2>2, UnseenTrans
  <2> QED BY <1>6, <2>3 DEF read_failed, Shown
<1>7. CASE connect_complete
  <2> DEFINE c == [conn EXCEPT !.state = "CONNECTED"]
             d == OpenStream(c)
  <2>1. /\ c \in Conn /\ c.state = "CONNECTED" /\ c.attempts = conn.attempts
        /\ c.ups = conn.ups /\ c.downs = conn.downs /\ c.authenticated = conn.authenticated
    BY <1>1 DEF Conn, States
  <2>2. ToTimed2(d) BY <1>7 DEF connect_complete
  <2> HIDE DEF c
  <2>3. d \in Conn /\ Unseen(c, d)
    <3>1. d \in Conn BY <2>1, SendSame DEF OpenStream, Items, Same
    <3>2. Unseen(c, d) BY <2>1 DEF OpenStream, Send, Conn, Unseen
    <3> QED BY <3>1, <3>2
  <2> HIDE DEF d
  <2>4. Unseen(c, conn') BY <2>2, <2>3, ToTimed2Unseen, UnseenTrans
  <2>5. Life!Establish BY <1>7, <2>1, <2>4 DEF connect_complete, Unseen, Life!Establish
  <2> QED BY <2>5 DEF Shown
<1>8. CASE read_again \/ chunk_done
  <2>1. ToTimed2(conn) BY <1>8 DEF read_again, chunk_done
  <2> QED BY <1>1, <2>1, ToTimed2Unseen DEF Shown
<1>9. CASE no_event \/ read_data
  <2>1. conn' = conn BY <1>9 DEF no_event, read_data
  <2> QED BY <2>1, UnseenTrans DEF Shown
<1> QED BY <1>4, <1>5, <1>6, <1>7, <1>8, <1>9

LEMMA MoveShown ==
    ASSUME SkipTimed \/ EndTimed \/ SkipHandler \/ EndStanza
    PROVE  Shown
<1>1. conn' = conn BY DEF SkipTimed, EndTimed, SkipHandler, EndStanza
<1> QED BY <1>1, UnseenTrans DEF Shown

\* Data of a conforming server reaches the parser only while there is a connection.
LEMMA Reached ==
    ASSUME Polite, OnceInv, pc = "chunk"
    PROVE  /\ MayHeader \/ MayEnd => conn.state = "CONNECTED"
           /\ \A s : MayStanza(s) => conn.state = "CONNECTED"
BY DEF OnceInv, MayHeader, MayEnd, MayStanza, Polite, NewPeer

LEMMA StreamHeaderShown ==
    ASSUME Polite, OnceInv, Inv, Fits, Dialogue, stream_header
    PROVE  Shown
<1> DEFINE o == InPhase(conn.peer, "open")
           p == [o EXCEPT !.owed = @ \ {"header"}]
           c == [conn EXCEPT !.peer = p]
<1>1. conn \in Conn /\ Both(conn) BY ShowsNow
<1>2. conn.state = "CONNECTED" BY Reached DEF stream_header
<1>3. p \in Peer
  <2>1. conn.peer \in Peer BY <1>1 DEF Conn
  <2>2. o \in Peer BY <2>1, PeerType
  <2> HIDE DEF o
  <2> QED BY <2>2, PeerType
<1>4. IF conn.parser = "start"
      THEN \E root \in IncomingRoots, env \in Choices : conn' = _handle_stream_start(c, root, env)
      ELSE parse_error(c)
  BY DEF stream_header
<1> HIDE DEF p
<1>5. Both(c) /\ Unseen(conn, c) /\ c \in Conn
  <2>1. Sound(c) BY <1>1, <1>3, RepeeredSound DEF Both
  <2>2. c.handlers = conn.handlers BY <1>1 DEF Conn
  <2>3. Unseen(conn, c) BY <1>1, FieldsUnseen
  <2> HIDE DEF c
  <2> QED BY <1>1, <2>1, <2>2, <2>3, BothIs
<1> HIDE DEF c
<1>6. CASE conn.parser # "start"
  <2> DEFINE b == [c EXCEPT !.parser = "broken"]
  <2>1. b \in Conn /\ Unseen(c, b) BY <1>5, FieldsUnseen DEF Conn
  <2>2. PICK env \in Choices : ToTimed2(ConnDisconnect(b, env))
    BY <1>4, <1>6 DEF parse_error
  <2> HIDE DEF b
  <2>3. ConnDisconnect(b, env) \in Conn /\ Ending(b, ConnDisconnect(b, env))
    BY <2>1, ConnDisconnectGood, ConnDisconnectEnding DEF Good
  <2>4. Unseen(ConnDisconnect(b, env), conn') BY <2>2, <2>3, ToTimed2Unseen
  <2>5. Ending(conn, conn') BY <1>5, <2>1, <2>3, <2>4, UnseenTrans
  <2> QED BY <1>2, <2>5 DEF Shown
<1>7. CASE conn.parser = "start"
  <2>1. PICK env \in Choices : conn' = _handle_stream_start(c, "stream", env)
    BY <1>4, <1>7 DEF Polite
  <2> DEFINE opened == [c EXCEPT !.parser = "open"]
             m == [opened EXCEPT !.stream_id = "set"]
             d == CallOpenHandler(m)
  <2>2. opened \in Conn BY <1>5 DEF Conn
  <2>3. /\ m \in Conn /\ Same(c, m) /\ m.handlers = c.handlers /\ m.stream_id = "set"
        /\ m.ups = c.ups
    BY <1>5, <2>2 DEF Conn, Same
  <2>4. conn' = d BY <2>1, <2>3 DEF _handle_stream_start
  <2> HIDE DEF m
  <2>5. Both(m) /\ Quiet(c, m, {}) BY <1>5, <2>3, SameSound, BothIs DEF Both
  <2>6. Quiet(m, d, OpenTimers) BY <2>5, CallOpenHandlerSound DEF Both
  <2>7. d.ups = m.ups BY <2>5, CallOpenHandlerTurn DEF Both, Keeps
  <2> HIDE DEF d
  <2>8. Unseen(c, m) /\ Unseen(m, d) BY <2>3, <2>5, <2>6, <2>7, QuietUnseen
  <2> QED BY <1>5, <2>4, <2>8, UnseenTrans DEF Shown
<1> QED BY <1>6, <1>7

LEMMA StreamEndShown ==
    ASSUME Polite, OnceInv, Inv, Fits, Dialogue, stream_end
    PROVE  Shown
<1> DEFINE p == InPhase(conn.peer, "ended")
           e == [conn EXCEPT !.peer = p]
           c == [e EXCEPT !.parser = "ended"]
           b == DeleteTimed(c, "_disconnect_cleanup")
<1>1. conn \in Conn BY ShowsNow
<1>2. conn.state = "CONNECTED" BY Reached DEF stream_end
<1>3. PICK env \in Choices : conn' = ConnDisconnect(b, env)
  BY DEF stream_end, _handle_stream_end, ConnDisconnectClean
<1>4. p \in Peer
  <2>1. conn.peer \in Peer BY <1>1 DEF Conn
  <2> QED BY <2>1, PeerType
<1> HIDE DEF p
<1>5. e \in Conn /\ Unseen(conn, e) BY <1>1, <1>4, FieldsUnseen DEF Conn
<1> HIDE DEF e
<1>6. c \in Conn /\ Unseen(e, c) BY <1>5, FieldsUnseen DEF Conn
<1> HIDE DEF c
<1>7. b \in Conn /\ Unseen(c, b) BY <1>6, DeleteTimedType, ListsUnseen
<1> HIDE DEF b
<1>8. Ending(b, conn') BY <1>3, <1>7, ConnDisconnectEnding
<1>9. Ending(conn, conn') BY <1>5, <1>6, <1>7, <1>8, UnseenTrans
<1> QED BY <1>2, <1>9 DEF Shown

LEMMA CallOneShown == ASSUME Inv, Fits, Dialogue, CallOne PROVE Shown
<1> DEFINE h == conn.handlers[at]
<1>1. Both(conn) /\ conn \in Conn /\ at \in Nat \ {0} /\ stanza \in Stanza BY ShowsNow
<1>2. pc = "stanza" /\ at <= Len(conn.handlers) BY DEF CallOne
<1>3. h.fn \in HandlerFns /\ Listed(conn.handlers, h.fn)
  <2>1. conn.handlers \in Seq(HandlerItem) BY <1>1 DEF Conn
  <2>2. DOMAIN conn.handlers = 1 .. Len(conn.handlers) /\ Len(conn.handlers) \in Nat BY <2>1
  <2>3. at \in DOMAIN conn.handlers BY <1>1, <1>2, <2>2
  <2>4. h \in HandlerItem BY <2>1, <2>3
  <2> QED BY <2>3, <2>4 DEF HandlerItem, Listed
<1>4. PICK env \in Choices :
        LET called == CallHandler(h.fn, conn, stanza, env)
        IN conn' \in {called, DropHandler(called, h.fn)}
  BY DEF CallOne
<1> HIDE DEF h
<1> DEFINE called == CallHandler(h.fn, conn, stanza, env)
<1>5. Unseen(conn, called) /\ called \in Conn
  BY <1>1, <1>2, <1>3, CallHandlerUnseen DEF Fits
<1>6. conn' \in {called, DropHandler(called, h.fn)} BY <1>4
<1> HIDE DEF called
<1>7. Unseen(called, conn') BY <1>5, <1>6, ListsUnseen, UnseenTrans
<1> QED BY <1>5, <1>7, UnseenTrans DEF Shown

LEMMA FireStanzaShown ==
    ASSUME Polite, OnceInv, Inv, Fits, Dialogue, handler_fire_stanza
    PROVE  Shown
<1>1. Both(conn) /\ Sound(conn) /\ Kept(conn) /\ Good(conn) /\ conn \in Conn
  BY ShowsNow, BothIs DEF Both
<1>2. PICK s \in Incoming, env \in Choices :
        /\ MayStanza(s)
        /\ LET c == [conn EXCEPT !.peer = AfterStanza(@, s),
                                 !.facts = @ \cup FactsOf(conn, s)]
               called == IF s.id \in c.id_handlers
                         THEN [CallId(s.id, c, s, env) EXCEPT !.id_handlers = @ \ {s.id}]
                         ELSE c
           IN conn' = [called EXCEPT !.handlers = EnableAll(@)]
  BY DEF handler_fire_stanza
<1>3. conn.state = "CONNECTED" /\ conn.attempts # 0
  BY <1>2, Reached DEF handler_fire_stanza, Fits
<1> DEFINE p == AfterStanza(conn.peer, s)
           f == conn.facts \cup FactsOf(conn, s)
           c == [conn EXCEPT !.peer = p, !.facts = f]
           k == CallId(s.id, c, s, env)
           dropped == [k EXCEPT !.id_handlers = @ \ {s.id}]
           called == IF s.id \in c.id_handlers THEN dropped ELSE c
<1>4. p \in Peer
  <2>1. conn.peer \in Peer BY <1>1 DEF Conn
  <2> QED BY <2>1, PeerType
<1>5. /\ f \in SUBSET Facts /\ conn.facts \subseteq f
      /\ "closing" \in f => "closing" \in conn.facts
      /\ s.type = "result" /\ s.id = "_handle_bind" => "bind_result" \in f
  <2>1. FactsOf(conn, s) \subseteq Facts \ {"closing"} BY DEF FactsOf, Facts
  <2>2. conn.facts \in SUBSET Facts BY <1>1 DEF Conn
  <2>3. s.type = "result" /\ s.id = "_handle_bind" => "bind_result" \in FactsOf(conn, s)
    BY DEF FactsOf
  <2> QED BY <2>1, <2>2, <2>3
<1>6. conn' = [called EXCEPT !.handlers = EnableAll(@)] BY <1>2
<1> HIDE DEF p, f
<1>7. /\ c \in Conn /\ c.timed_handlers = conn.timed_handlers /\ c.state = conn.state
      /\ c.facts = f /\ c.attempts = conn.attempts
      /\ c.handlers = conn.handlers /\ c.id_handlers = conn.id_handlers
      /\ c.open_handler = conn.open_handler
  BY <1>1, <1>4, <1>5 DEF Conn
<1>8. Unseen(conn, c) BY <1>1, FieldsUnseen
<1> HIDE DEF c
<1>9. Both(c)
  <2>1. Good(c) BY <1>1, <1>5, <1>7, Frame
  <2>2. Paired(c) BY <1>1, <1>7 DEF Kept, Paired, Armed, Awaited
  <2>3. Earned(c)
    <3>1. \A g : Registered(c, g) => Registered(conn, g) BY <1>7 DEF Registered
    <3>2. \A g : Earns(conn, g) => Earns(c, g) BY <1>5, <1>7 DEF Earns
    <3> QED BY <1>1, <1>3, <1>7, <3>1, <3>2 DEF Kept, Earned
  <2> QED BY <1>1, <1>7, <2>1, <2>2, <2>3, BothIs DEF Sound, Kept
<1>10. called \in Conn /\ (Unseen(c, called) \/ Rising(c, called))
  <2>1. CASE s.id \in c.id_handlers
    <3>1. s.id \in IdFns BY <1>7, <2>1 DEF Conn
    <3>2. k \in Conn /\ (Unseen(c, k) \/ Rising(c, k))
      BY <1>5, <1>7, <1>9, <2>1, <3>1, CallIdShown
    <3> HIDE DEF k
    <3>3. dropped \in Conn /\ Unseen(k, dropped) BY <3>2, FieldsUnseen DEF Conn
    <3> HIDE DEF dropped
    <3> QED BY <2>1, <3>2, <3>3, UnseenTrans
  <2>2. CASE s.id \notin c.id_handlers BY <1>7, <2>2, UnseenTrans
  <2> QED BY <2>1, <2>2
<1> HIDE DEF called
<1>11. Unseen(called, conn') BY <1>6, <1>10, FieldsUnseen
<1>12. Unseen(conn, conn') \/ Rising(conn, conn') BY <1>8, <1>10, <1>11, UnseenTrans
<1>13. ASSUME Rising(conn, conn') PROVE Life!TellConnect
  BY <1>3, <1>13 DEF Rising, Life!TellConnect
<1> QED BY <1>12, <1>13 DEF Shown

-----------------------------------------------------------------------------
(* The theorem. *)

LEMMA NextShown ==
    ASSUME Polite, OnceInv, Inv, Fits, Dialogue, Next
    PROVE  Shown
<1>1. CASE User BY <1>1, UserShown
<1>2. CASE Tick BY <1>2, TickShown
<1>3. CASE Loop
  <2>1. CASE run_once_write BY <2>1, WriteShown
  <2>2. CASE FireTimed BY <2>2, FireTimedShown
  <2>3. CASE connect_timeout \/ no_event \/ connect_complete \/ connect_failed
               \/ read_failed \/ read_again \/ read_data \/ chunk_done
    BY <2>3, EventShown
  <2>4. CASE SkipTimed \/ EndTimed \/ SkipHandler \/ EndStanza BY <2>4, MoveShown
  <2>5. CASE stream_header BY <2>5, StreamHeaderShown
  <2>6. CASE handler_fire_stanza BY <2>6, FireStanzaShown
  <2>7. CASE CallOne BY <2>7, CallOneShown
  <2>8. CASE stream_end BY <2>8, StreamEndShown
  <2>9. CASE garbage BY <2>9 DEF garbage, Polite
  <2> QED BY <1>3, <2>1, <2>2, <2>3, <2>4, <2>5, <2>6, <2>7, <2>8, <2>9 DEF Loop
<1> QED BY <1>1, <1>2, <1>3 DEF Next

LEMMA NextLives ==
    ASSUME Polite, OnceInv, Inv, Fits, Dialogue, [Next]_vars
    PROVE  [Life!Next]_(Life!life)
<1>1. CASE UNCHANGED vars BY <1>1 DEF vars, Life!life
<1>2. CASE Next
  <2>1. Shown BY <1>2, NextShown
  <2>2. CASE Unseen(conn, conn') BY <2>2 DEF Unseen, Life!life
  <2>3. CASE conn.state # "DISCONNECTED" /\ Ending(conn, conn')
    <3>1. conn.downs = 0 BY <2>3 DEF OnceInv, Told
    <3>2. Life!TellDisconnect \/ Life!ConnectWhenTold
      BY <2>3, <3>1 DEF Ending, Life!TellDisconnect, Life!ConnectWhenTold, Life!Begin
    <3> QED BY <3>2 DEF Life!Next
  <2>4. CASE Life!Connect \/ Life!Establish \/ Life!TellConnect BY <2>4 DEF Life!Next
  <2> QED BY <2>1, <2>2, <2>3, <2>4 DEF Shown
<1> QED BY <1>1, <1>2

\* For a server and a network that keep to the protocol the session implements
\* Lifecycle: every callback, timer, failure and reconnection looks to the user like a
\* connection that is made, comes up and ends in this order, each end told once and no
\* CONNECT without a connection, however data of one read, timers and the user's own
\* calls follow each other (conn.c, auth.c, event.c).
THEOREM SessionIsLifecycle == ASSUME Polite PROVE Spec => LifecycleSpec
<1>0. Conforming BY DEF Polite
<1> DEFINE I == Inv /\ Fits /\ Dialogue /\ OnceInv
<1>1. Init => Life!Init
  BY DEF Init, NewConn, Life!Init
<1>2. Init => I BY InitInv, InitFits, InitConverses
<1>3. I /\ [Next]_vars => I' BY <1>0, NextInv, NextFits, NextConverses
<1>4. I /\ [Next]_vars => [Life!Next]_(Life!life) BY NextLives
<1> HIDE DEF I
<1> QED BY <1>1, <1>2, <1>3, <1>4, PTL DEF Spec, LifecycleSpec, Life!Spec
=============================================================================

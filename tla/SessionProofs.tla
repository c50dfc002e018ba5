--------------------------- MODULE SessionProofs ---------------------------
(***************************************************************************)
(* Theorems about Session, for every value of its constants: every         *)
(* variable keeps its type; once </stream:stream> has been queued the      *)
(* timer that forces the end of the connection stays armed; a timer never  *)
(* outlives the handler it watches; nobody is authenticated without the    *)
(* server having agreed; and with a server that keeps to the protocol      *)
(* DISCONNECT is told once.                                                *)
(*                                                                         *)
(* The first two come from one inductive invariant.  Its part about the    *)
(* connection, Good, is preserved by every operation of Conn and every     *)
(* callback of Auth: there is one lemma for each, in the order of those    *)
(* modules, then one for each step of Session.  The second half of the     *)
(* module does the same for Kept, what the operations and callbacks        *)
(* preserve, and Follows, what they do to the rest of the connection.      *)
(***************************************************************************)
EXTENDS Session, TLAPS, SequenceTheorems

\* CloseWatched, and what makes it inductive: an attempt still waiting for its socket
\* has not queued </stream:stream>, so nothing has to be armed when it is connected.
Good(c) ==
    /\ c \in Conn
    /\ c.state = "CONNECTED" /\ "closing" \in c.facts =>
           Listed(c.timed_handlers, "_disconnect_cleanup")
    /\ c.state = "CONNECTING" => "closing" \notin c.facts

Inv == Good(conn) /\ TypeOK /\ (pc = "stanza" => left > 0)

-----------------------------------------------------------------------------
(* The lists of handler.c. *)

\* Unlinking an item leaves a list of the same kind of items.
LEMMA UnlinkType ==
    ASSUME NEW S, NEW list \in Seq(S), NEW i \in DOMAIN list
    PROVE  Unlink(list, i) \in Seq(S)
<1>1. Len(list) \in Nat /\ Len(list) > 0 /\ Len(list) - 1 \in Nat OBVIOUS
<1>2. ASSUME NEW j \in 1 .. Len(list) - 1
      PROVE  (IF j < i THEN list[j] ELSE list[j + 1]) \in S
  OBVIOUS
<1>3. Unlink(list, i) \in [1 .. Len(list) - 1 -> S]
  BY <1>2 DEF Unlink
<1> QED BY <1>1, <1>3, SeqDef

\* Deleting a function leaves a list of the same kind of items.
LEMMA WithoutType ==
    ASSUME NEW S, NEW list \in Seq(S), NEW f
    PROVE  Without(list, f) \in Seq(S)
<1>1. CASE Listed(list, f)
  <2> DEFINE i == CHOOSE i \in DOMAIN list : list[i].fn = f
  <2>1. i \in DOMAIN list BY <1>1 DEF Listed
  <2> QED BY <1>1, <2>1, UnlinkType DEF Without
<1>2. CASE ~Listed(list, f) BY <1>2 DEF Without
<1> QED BY <1>1, <1>2

\* Deleting a function leaves every other function in the list.
LEMMA WithoutKeeps ==
    ASSUME NEW S, NEW list \in Seq(S), NEW f, NEW g, f # g, Listed(list, g)
    PROVE  Listed(Without(list, f), g)
<1>1. CASE Listed(list, f)
  <2> DEFINE i == CHOOSE i \in DOMAIN list : list[i].fn = f
             new == Unlink(list, i)
  <2>1. i \in DOMAIN list /\ list[i].fn = f BY <1>1 DEF Listed
  <2>2. PICK k \in DOMAIN list : list[k].fn = g BY DEF Listed
  <2>3. k # i BY <2>1, <2>2
  <2>4. Without(list, f) = new BY <1>1 DEF Without
  <2> HIDE DEF i
  <2>5. DOMAIN list = 1 .. Len(list) /\ Len(list) \in Nat OBVIOUS
  <2>6. DOMAIN new = 1 .. Len(list) - 1 BY DEF Unlink
  <2>7. CASE k < i
    <3>1. k \in DOMAIN new BY <2>1, <2>2, <2>5, <2>6, <2>7
    <3>2. new[k] = list[k] BY <3>1, <2>6, <2>7 DEF Unlink
    <3> QED BY <2>2, <2>4, <3>1, <3>2 DEF Listed
  <2>8. CASE k > i
    <3>1. k - 1 \in DOMAIN new BY <2>1, <2>2, <2>5, <2>6, <2>8
    <3>2. ~(k - 1 < i) /\ (k - 1) + 1 = k BY <2>1, <2>2, <2>5, <2>8
    <3>3. new[k - 1] = list[k] BY <3>1, <3>2, <2>6 DEF Unlink
    <3> QED BY <2>2, <2>4, <3>1, <3>3 DEF Listed
  <2> QED BY <2>1, <2>2, <2>3, <2>5, <2>7, <2>8
<1>2. CASE ~Listed(list, f) BY <1>2 DEF Without
<1> QED BY <1>1, <1>2

\* Enabling or resetting all items of a list neither adds nor removes a function.
LEMMA EnableAllType ==
    /\ \A list \in Seq(TimedItem) :
          /\ EnableAll(list) \in Seq(TimedItem)
          /\ \A f : Listed(list, f) => Listed(EnableAll(list), f)
    /\ \A list \in Seq(HandlerItem) : EnableAll(list) \in Seq(HandlerItem)
<1>1. ASSUME NEW list \in Seq(TimedItem)
      PROVE  /\ EnableAll(list) \in Seq(TimedItem)
             /\ \A f : Listed(list, f) => Listed(EnableAll(list), f)
  <2>1. DOMAIN list = 1 .. Len(list) /\ Len(list) \in Nat OBVIOUS
  <2>2. ASSUME NEW i \in DOMAIN list
        PROVE  /\ [list[i] EXCEPT !.enabled = TRUE] \in TimedItem
               /\ [list[i] EXCEPT !.enabled = TRUE].fn = list[i].fn
    <3>1. list[i] \in TimedItem OBVIOUS
    <3> QED BY <3>1 DEF TimedItem
  <2>3. EnableAll(list) \in [1 .. Len(list) -> TimedItem] BY <2>1, <2>2 DEF EnableAll
  <2>4. EnableAll(list) \in Seq(TimedItem) BY <2>1, <2>3, SeqDef
  <2>5. \A i \in DOMAIN list : EnableAll(list)[i].fn = list[i].fn
    BY <2>2 DEF EnableAll
  <2>6. DOMAIN EnableAll(list) = DOMAIN list BY DEF EnableAll
  <2> QED BY <2>4, <2>5, <2>6 DEF Listed
<1>2. ASSUME NEW list \in Seq(HandlerItem)
      PROVE  EnableAll(list) \in Seq(HandlerItem)
  <2>1. DOMAIN list = 1 .. Len(list) /\ Len(list) \in Nat OBVIOUS
  <2>2. ASSUME NEW i \in DOMAIN list
        PROVE  [list[i] EXCEPT !.enabled = TRUE] \in HandlerItem
    <3>1. list[i] \in HandlerItem OBVIOUS
    <3> QED BY <3>1 DEF HandlerItem
  <2>3. EnableAll(list) \in [1 .. Len(list) -> HandlerItem]
    BY <2>1, <2>2 DEF EnableAll
  <2> QED BY <2>1, <2>3, SeqDef
<1> QED BY <1>1, <1>2

-----------------------------------------------------------------------------
(* The operations of Conn. *)

\* A change of anything but the state, the facts and the timers keeps Good.
LEMMA Frame ==
    ASSUME NEW c, Good(c), NEW d \in Conn, d.state = c.state,
           "closing" \in d.facts => "closing" \in c.facts,
           d.timed_handlers = c.timed_handlers
    PROVE  Good(d)
BY DEF Good

LEMMA AddTimedType ==
    ASSUME NEW c \in Conn, NEW f \in TimedFns
    PROVE  LET d == AddTimed(c, f)
           IN /\ d \in Conn /\ d.state = c.state /\ d.facts = c.facts
              /\ Listed(d.timed_handlers, f)
              /\ \A g : Listed(c.timed_handlers, g) => Listed(d.timed_handlers, g)
<1> DEFINE item == [fn |-> f, enabled |-> FALSE, age |-> 0]
           list == c.timed_handlers
           new  == Append(list, item)
           d    == [c EXCEPT !.timed_handlers = new]
<1>1. CASE Listed(list, f) BY <1>1 DEF AddTimed
<1>2. CASE ~Listed(list, f)
  <2>1. list \in Seq(TimedItem) BY DEF Conn
  <2>2. item \in TimedItem /\ item.fn = f BY DEF TimedItem
  <2>3. /\ new \in Seq(TimedItem)
        /\ \A i \in DOMAIN list : i \in DOMAIN new /\ new[i] = list[i]
        /\ Len(new) \in DOMAIN new /\ new[Len(new)] = item
    <3> HIDE DEF item
    <3>1. /\ DOMAIN list = 1 .. Len(list) /\ Len(list) \in Nat
          /\ new \in Seq(TimedItem) /\ Len(new) = Len(list) + 1
          /\ DOMAIN new = 1 .. Len(new)
      BY <2>1, <2>2
    <3>2. /\ \A i \in 1 .. Len(list) : new[i] = list[i]
          /\ new[Len(list) + 1] = item
      BY <2>1, <2>2, AppendProperties
    <3> QED BY <3>1, <3>2
  <2>4. Listed(new, f) /\ \A g : Listed(list, g) => Listed(new, g)
    BY <2>2, <2>3 DEF Listed
  <2> HIDE DEF new
  <2>5. d \in Conn /\ d.timed_handlers = new /\ d.state = c.state /\ d.facts = c.facts
    BY <2>1, <2>3 DEF Conn
  <2>6. AddTimed(c, f) = d BY <1>2 DEF AddTimed, new
  <2> QED BY <2>4, <2>5, <2>6
<1> QED BY <1>1, <1>2

LEMMA AddTimedGood ==
    ASSUME NEW c, Good(c), NEW f \in TimedFns
    PROVE  Good(AddTimed(c, f))
BY AddTimedType DEF Good

LEMMA DeleteTimedType ==
    ASSUME NEW c \in Conn, NEW f
    PROVE  /\ DeleteTimed(c, f) \in Conn
           /\ DeleteTimed(c, f).state = c.state
           /\ DeleteTimed(c, f).facts = c.facts
           /\ DeleteTimed(c, f).timed_handlers = Without(c.timed_handlers, f)
<1>1. c.timed_handlers \in Seq(TimedItem) BY DEF Conn
<1>2. Without(c.timed_handlers, f) \in Seq(TimedItem) BY <1>1, WithoutType
<1> QED BY <1>2 DEF DeleteTimed, Conn

LEMMA DeleteTimedGood ==
    ASSUME NEW c, Good(c), NEW f,
           f = "_disconnect_cleanup" => c.state # "CONNECTED"
    PROVE  Good(DeleteTimed(c, f))
<1>1. c \in Conn BY DEF Good
<1>2. c.timed_handlers \in Seq(TimedItem) BY <1>1 DEF Conn
<1> QED BY <1>1, <1>2, DeleteTimedType, WithoutKeeps DEF Good

LEMMA ResetTimedGood ==
    ASSUME NEW c, Good(c)
    PROVE  Good(ResetTimed(c))
<1> DEFINE list == c.timed_handlers
           new  == [i \in DOMAIN list |-> [list[i] EXCEPT !.age = 0]]
           d    == [c EXCEPT !.timed_handlers = new]
<1>1. c \in Conn /\ list \in Seq(TimedItem) BY DEF Good, Conn
<1>2. DOMAIN list = 1 .. Len(list) /\ Len(list) \in Nat BY <1>1
<1>3. ASSUME NEW i \in DOMAIN list
      PROVE  /\ [list[i] EXCEPT !.age = 0] \in TimedItem
             /\ [list[i] EXCEPT !.age = 0].fn = list[i].fn
  <2>1. list[i] \in TimedItem BY <1>1
  <2> QED BY <2>1 DEF TimedItem
<1>4. new \in [1 .. Len(list) -> TimedItem] BY <1>2, <1>3
<1>5. new \in Seq(TimedItem) BY <1>2, <1>4, SeqDef
<1>6. \A f : Listed(list, f) => Listed(new, f) BY <1>3 DEF Listed
<1>7. ResetTimed(c) = d BY DEF ResetTimed
<1> HIDE DEF new
<1>8. d \in Conn /\ d.timed_handlers = new /\ d.state = c.state /\ d.facts = c.facts
  BY <1>1, <1>5 DEF Conn
<1> QED BY <1>6, <1>7, <1>8 DEF Good

LEMMA AddIdGood ==
    ASSUME NEW c, Good(c), NEW f \in IdFns
    PROVE  Good(AddId(c, f))
<1> DEFINE d == [c EXCEPT !.id_handlers = @ \cup {f}]
<1>1. c \in Conn BY DEF Good
<1>2. d \in Conn /\ d.timed_handlers = c.timed_handlers /\ d.state = c.state
        /\ d.facts = c.facts
  BY <1>1 DEF Conn
<1> QED BY <1>2, Frame DEF AddId

LEMMA AddHandlerGood ==
    ASSUME NEW c, Good(c), NEW f \in HandlerFns
    PROVE  Good(AddHandler(c, f))
<1> DEFINE item == [fn |-> f, enabled |-> FALSE]
           new  == Append(c.handlers, item)
           d    == [c EXCEPT !.handlers = new]
<1>1. c \in Conn /\ c.handlers \in Seq(HandlerItem) BY DEF Good, Conn
<1>2. item \in HandlerItem BY DEF HandlerItem
<1>3. new \in Seq(HandlerItem)
  <2> HIDE DEF item
  <2> QED BY <1>1, <1>2
<1>4. AddHandler(c, f) \in {c, d} BY DEF AddHandler
<1> HIDE DEF new
<1>5. d \in Conn /\ d.timed_handlers = c.timed_handlers /\ d.state = c.state
        /\ d.facts = c.facts
  BY <1>1, <1>3 DEF Conn
<1>6. Good(d) BY <1>5, Frame
<1> QED BY <1>4, <1>6

LEMMA DropHandlerGood ==
    ASSUME NEW c, Good(c), NEW f
    PROVE  Good(DropHandler(c, f))
<1> DEFINE d == [c EXCEPT !.handlers = Without(@, f)]
<1>1. c \in Conn /\ c.handlers \in Seq(HandlerItem) BY DEF Good, Conn
<1>2. Without(c.handlers, f) \in Seq(HandlerItem) BY <1>1, WithoutType
<1>3. d \in Conn /\ d.timed_handlers = c.timed_handlers /\ d.state = c.state
        /\ d.facts = c.facts
  BY <1>1, <1>2 DEF Conn
<1> QED BY <1>3, Frame DEF DropHandler

LEMMA SendGood ==
    ASSUME NEW c, Good(c), NEW item \in Items
    PROVE  /\ Good(Send(c, item))
           /\ Send(c, item).timed_handlers = c.timed_handlers
           /\ Send(c, item).state = c.state
           /\ Send(c, item).facts = c.facts
<1> DEFINE d == [c EXCEPT !.send_queue = Append(@, item)]
<1>1. c \in Conn /\ c.send_queue \in Seq(Items) BY DEF Good, Conn
<1>2. Append(c.send_queue, item) \in Seq(Items) BY <1>1
<1>3. d \in Conn /\ d.timed_handlers = c.timed_handlers /\ d.state = c.state
        /\ d.facts = c.facts
  BY <1>1, <1>2 DEF Conn
<1>4. Good(d) BY <1>3, Frame
<1> QED BY <1>3, <1>4 DEF Send

LEMMA OpenStreamGood ==
    ASSUME NEW c, Good(c)
    PROVE  Good(OpenStream(c))
BY SendGood DEF OpenStream, Items

LEMMA PrepareResetGood ==
    ASSUME NEW c, Good(c), NEW open \in OpenFns
    PROVE  Good(PrepareReset(c, open))
<1> DEFINE d == [c EXCEPT !.reset_parser = TRUE, !.open_handler = open]
<1>1. c \in Conn BY DEF Good
<1>2. d \in Conn /\ d.timed_handlers = c.timed_handlers /\ d.state = c.state
        /\ d.facts = c.facts
  BY <1>1 DEF Conn
<1> QED BY <1>2, Frame DEF PrepareReset

LEMMA ParserResetGood ==
    ASSUME NEW c, Good(c)
    PROVE  Good(ParserReset(c))
<1> DEFINE d == [c EXCEPT !.reset_parser = FALSE, !.parser = "start"]
<1>1. c \in Conn BY DEF Good
<1>2. d \in Conn /\ d.timed_handlers = c.timed_handlers /\ d.state = c.state
        /\ d.facts = c.facts
  BY <1>1 DEF Conn
<1>3. Good(d) BY <1>2, Frame
<1> QED BY <1>3 DEF ParserReset

LEMMA ConnectClientGood ==
    ASSUME NEW c \in Conn
    PROVE  Good(ConnectClient(c)) /\ ConnectClient(c).state = "CONNECTING"
<1> DEFINE d == ConnectClient(c)
<1>1. NewPeer \in Peer BY DEF NewPeer, Peer
<1>2. c.attempts + 1 \in Nat BY DEF Conn
<1>3. {} \in SUBSET Facts OBVIOUS
<1>4. d \in Conn /\ d.state = "CONNECTING" /\ d.facts = {}
  BY <1>1, <1>2, <1>3 DEF ConnectClient, Conn, States
<1> QED BY <1>4 DEF Good

LEMMA ConnDisconnectGood ==
    ASSUME NEW c \in Conn, NEW env
    PROVE  Good(ConnDisconnect(c, env)) /\ ConnDisconnect(c, env).state # "CONNECTED"
<1> DEFINE down == [c EXCEPT !.state = "DISCONNECTED", !.tls = FALSE, !.downs = @ + 1]
<1>1. c.downs + 1 \in Nat BY DEF Conn
<1>2. down \in Conn /\ down.state = "DISCONNECTED" BY <1>1 DEF Conn, States
<1>3. Good(down) BY <1>2 DEF Good
<1>4. Good(ConnectClient(down)) /\ ConnectClient(down).state = "CONNECTING"
  BY <1>2, ConnectClientGood
<1> HIDE DEF down
<1>5. ConnDisconnect(c, env) \in {down, ConnectClient(down)} BY DEF ConnDisconnect, down
<1> QED BY <1>2, <1>3, <1>4, <1>5

LEMMA XmppDisconnectGood ==
    ASSUME NEW c, Good(c)
    PROVE  Good(XmppDisconnect(c))
<1> DEFINE s == Send(c, "close")
           d == [s EXCEPT !.facts = @ \cup {"closing"}]
<1>1. "_disconnect_cleanup" \in TimedFns /\ "close" \in Items BY DEF TimedFns, Items
<1>2. c \in Conn /\ c.state \in States BY DEF Good, Conn
<1>3. CASE c.state = "DISCONNECTED" BY <1>3 DEF XmppDisconnect
<1>4. CASE c.state = "CONNECTING"
  BY <1>1, <1>4, AddTimedGood DEF XmppDisconnect
<1>5. CASE c.state = "CONNECTED"
  <2>1. Good(s) /\ s \in Conn /\ s.state = "CONNECTED" BY <1>1, <1>5, SendGood DEF Good
  <2> HIDE DEF s
  <2>2. s.facts \cup {"closing"} \in SUBSET Facts BY <2>1 DEF Conn, Facts
  <2>3. d \in Conn /\ d.state = "CONNECTED" /\ d.timed_handlers = s.timed_handlers
    BY <2>1, <2>2 DEF Conn
  <2> DEFINE a == AddTimed(d, "_disconnect_cleanup")
  <2> HIDE DEF d
  <2>4. a \in Conn /\ a.state = "CONNECTED" /\ Listed(a.timed_handlers, "_disconnect_cleanup")
    BY <1>1, <2>3, AddTimedType
  <2>5. XmppDisconnect(c) = a BY <1>5 DEF XmppDisconnect, d, s
  <2> QED BY <2>4, <2>5 DEF Good
<1> QED BY <1>2, <1>3, <1>4, <1>5 DEF States

LEMMA ConnDisconnectCleanGood ==
    ASSUME NEW c \in Conn, NEW env
    PROVE  Good(ConnDisconnectClean(c, env))
BY DeleteTimedType, ConnDisconnectGood DEF ConnDisconnectClean

-----------------------------------------------------------------------------
(* The callbacks of Auth. *)

LEMMA StartSaslGood ==
    ASSUME NEW c, Good(c), NEW mech \in Mechanisms, NEW handler \in HandlerFns, NEW env
    PROVE  Good(StartSasl(c, mech, handler, env))
<1> DEFINE s == Send(AddHandler(c, handler), mech)
           d == [s EXCEPT !.sasl_support = @ \ {mech}]
<1>1. Good(s) /\ s \in Conn
  <2>1. mech \in Items BY DEF Items
  <2> QED BY <2>1, AddHandlerGood, SendGood DEF Good
<1> HIDE DEF s
<1>2. s.sasl_support \ {mech} \in SUBSET Mechanisms BY <1>1 DEF Conn
<1>3. d \in Conn /\ d.timed_handlers = s.timed_handlers /\ d.state = s.state
        /\ d.facts = s.facts
  BY <1>1, <1>2 DEF Conn
<1>4. Good(d) BY <1>1, <1>3, Frame
<1> HIDE DEF d
<1>5. StartSasl(c, mech, handler, env) \in {d, XmppDisconnect(c)} BY DEF StartSasl, d, s
<1> QED BY <1>4, <1>5, XmppDisconnectGood

LEMMA StartTlsGood ==
    ASSUME NEW c, Good(c), NEW env
    PROVE  Good(StartTls(c, env))
<1> DEFINE s == Send(AddHandler(c, "_handle_proceedtls_default"), "starttls")
           d == [s EXCEPT !.tls_support = FALSE]
<1>1. Good(s) /\ s \in Conn
  <2>1. "starttls" \in Items /\ "_handle_proceedtls_default" \in HandlerFns
    BY DEF Items, HandlerFns
  <2> QED BY <2>1, AddHandlerGood, SendGood DEF Good
<1> HIDE DEF s
<1>2. d \in Conn /\ d.timed_handlers = s.timed_handlers /\ d.state = s.state
        /\ d.facts = s.facts
  BY <1>1 DEF Conn
<1>3. Good(d) BY <1>1, <1>2, Frame
<1> HIDE DEF d
<1>4. StartTls(c, env) \in {d, XmppDisconnect(c)} BY DEF StartTls, d, s
<1> QED BY <1>3, <1>4, XmppDisconnectGood

LEMMA RequestGood ==
    ASSUME NEW c, Good(c), NEW handler \in IdFns, NEW timer \in TimedFns,
           NEW item \in Items, NEW env
    PROVE  Good(Request(c, handler, timer, item, env))
<1>1. Good(AddTimed(AddId(c, handler), timer)) BY AddIdGood, AddTimedGood
<1> QED BY <1>1, SendGood, XmppDisconnectGood DEF Request

LEMMA StartLegacyGood ==
    ASSUME NEW c, Good(c), NEW env
    PROVE  Good(StartLegacy(c, env))
<1>1. /\ "_handle_legacy" \in IdFns /\ "_handle_missing_legacy" \in TimedFns
      /\ "legacy" \in Items
  BY DEF IdFns, TimedFns, Items
<1>2. Good(AddTimed(AddId(c, "_handle_legacy"), "_handle_missing_legacy"))
  BY <1>1, AddIdGood, AddTimedGood
<1> QED BY <1>1, <1>2, SendGood, XmppDisconnectGood DEF StartLegacy

LEMMA AuthInClearGood ==
    ASSUME NEW c, Good(c), NEW env
    PROVE  Good(AuthInClear(c, env))
<1>1. /\ {"PLAIN", "DIGEST-MD5", "ANONYMOUS"} \subseteq Mechanisms
      /\ {"_handle_sasl_result", "_handle_digestmd5_challenge"} \subseteq HandlerFns
  BY DEF Mechanisms, HandlerFns
<1>2. /\ Good(StartSasl(c, "ANONYMOUS", "_handle_sasl_result", env))
      /\ Good(StartSasl(c, "DIGEST-MD5", "_handle_digestmd5_challenge", env))
      /\ Good(StartSasl(c, "PLAIN", "_handle_sasl_result", env))
  BY <1>1, StartSaslGood
<1>3. Good(XmppDisconnect(c)) /\ Good(StartLegacy(c, env))
  BY XmppDisconnectGood, StartLegacyGood
<1> QED BY <1>2, <1>3 DEF AuthInClear

LEMMA AuthGood ==
    ASSUME NEW c, Good(c), NEW env
    PROVE  Good(Auth(c, env))
<1> DEFINE d == [c EXCEPT !.tls_support = FALSE]
<1>1. c \in Conn BY DEF Good
<1>2. d \in Conn /\ d.timed_handlers = c.timed_handlers /\ d.state = c.state
        /\ d.facts = c.facts
  BY <1>1 DEF Conn
<1>3. Good(d) BY <1>2, Frame
<1> HIDE DEF d
<1>4. Auth(c, env) \in {StartTls(c, env), AuthInClear(d, env)} BY DEF Auth, d
<1> QED BY <1>3, <1>4, StartTlsGood, AuthInClearGood

LEMMA CallOpenHandlerGood ==
    ASSUME NEW c, Good(c)
    PROVE  Good(CallOpenHandler(c))
<1>1. /\ {"_handle_error", "_handle_features", "_handle_features_sasl"} \subseteq HandlerFns
      /\ {"_handle_missing_features", "_handle_missing_features_sasl"} \subseteq TimedFns
  BY DEF HandlerFns, TimedFns
<1>2. Good(AddHandler(ResetTimed(c), "_handle_error")) BY <1>1, ResetTimedGood, AddHandlerGood
<1>3. Good(AddHandler(AddHandler(ResetTimed(c), "_handle_error"), "_handle_features"))
  BY <1>1, <1>2, AddHandlerGood
<1>4. Good(auth_handle_open(c)) BY <1>1, <1>3, AddTimedGood DEF auth_handle_open
<1>5. Good(AddHandler(c, "_handle_features_sasl")) BY <1>1, AddHandlerGood
<1>6. Good(_handle_open_sasl(c)) BY <1>1, <1>5, AddTimedGood DEF _handle_open_sasl
<1> QED BY <1>4, <1>6 DEF CallOpenHandler

LEMMA StreamStartGood ==
    ASSUME NEW c, Good(c), NEW root \in Roots, NEW env
    PROVE  Good(_handle_stream_start(c, root, env))
<1> DEFINE opened == [c EXCEPT !.parser = "open"]
           id == CASE root = "stream"      -> "set"
                   [] root = "other"       -> opened.stream_id
                   [] root = "stream_noid" ->
                        IF opened.stream_id = "null" THEN opened.stream_id ELSE "freed"
           named == [opened EXCEPT !.stream_id = id]
           bad == root = "other" \/ named.stream_id = "null"
<1>1. c \in Conn BY DEF Good
<1>2. opened \in Conn /\ opened.timed_handlers = c.timed_handlers
        /\ opened.state = c.state /\ opened.facts = c.facts
  BY <1>1 DEF Conn
<1> HIDE DEF opened
<1>3. id \in {"null", "set", "freed"} BY <1>2 DEF Conn, Roots
<1> HIDE DEF id
<1>4. named \in Conn /\ named.timed_handlers = c.timed_handlers
        /\ named.state = c.state /\ named.facts = c.facts
  BY <1>2, <1>3 DEF Conn
<1>5. Good(named) /\ Good(ConnDisconnect(named, env)) BY <1>4, Frame, ConnDisconnectGood
<1> HIDE DEF named
<1>6. Good(IF bad THEN ConnDisconnect(named, env) ELSE named) BY <1>5
<1>7. _handle_stream_start(c, root, env)
        = CallOpenHandler(IF bad THEN ConnDisconnect(named, env) ELSE named)
  BY DEF _handle_stream_start, named, id, opened
<1> QED BY <1>6, <1>7, CallOpenHandlerGood

LEMMA StreamEndGood ==
    ASSUME NEW c \in Conn, NEW env
    PROVE  Good(_handle_stream_end(c, env))
<1>1. [c EXCEPT !.parser = "ended"] \in Conn BY DEF Conn
<1> QED BY <1>1, ConnDisconnectCleanGood DEF _handle_stream_end

LEMMA NotifyConnectGood ==
    ASSUME NEW c, Good(c), NEW env
    PROVE  Good(NotifyConnect(c, env))
<1> DEFINE up == [c EXCEPT !.authenticated = TRUE, !.ups = @ + 1]
<1>1. c \in Conn /\ c.ups + 1 \in Nat BY DEF Good, Conn
<1>2. up \in Conn /\ up.timed_handlers = c.timed_handlers /\ up.state = c.state
        /\ up.facts = c.facts
  BY <1>1 DEF Conn
<1>3. Good(up) BY <1>2, Frame
<1> HIDE DEF up
<1>4. NotifyConnect(c, env) \in {up, XmppDisconnect(up)} BY DEF NotifyConnect, up
<1> QED BY <1>3, <1>4, XmppDisconnectGood

LEMMA HandleFeaturesGood ==
    ASSUME NEW c, Good(c), NEW s, NEW env
    PROVE  Good(_handle_features(c, s, env))
<1> DEFINE e == DeleteTimed(c, "_handle_missing_features")
           t == IF c.secured THEN e.tls_support
                ELSE ~c.tls_disabled /\ (e.tls_support \/ "starttls" \in s.offers)
           m == e.sasl_support \cup (s.offers \cap Mechanisms)
           heard == [e EXCEPT !.tls_support = t, !.sasl_support = m]
<1>1. Good(e) /\ e \in Conn /\ c \in Conn BY DeleteTimedGood DEF Good
<1> HIDE DEF e
<1>2. t \in BOOLEAN
  <2>1. e.tls_support \in BOOLEAN BY <1>1 DEF Conn
  <2> QED BY <2>1
<1>3. m \in SUBSET Mechanisms
  <2>1. e.sasl_support \in SUBSET Mechanisms BY <1>1 DEF Conn
  <2> QED BY <2>1
<1> HIDE DEF t, m
<1>4. heard \in Conn /\ heard.timed_handlers = e.timed_handlers
        /\ heard.state = e.state /\ heard.facts = e.facts
  BY <1>1, <1>2, <1>3 DEF Conn
<1>5. Good(heard) BY <1>1, <1>4, Frame
<1>6. _handle_features(c, s, env) = Auth(heard, env)
  BY DEF _handle_features, heard, t, m, e
<1> HIDE DEF heard
<1> QED BY <1>5, <1>6, AuthGood

LEMMA ProceedTlsGood ==
    ASSUME NEW c, Good(c), NEW s, NEW env
    PROVE  Good(_handle_proceedtls_default(c, s, env))
<1> DEFINE up   == [c EXCEPT !.tls = TRUE, !.secured = TRUE]
           down == [c EXCEPT !.tls = FALSE]
<1>1. c \in Conn BY DEF Good
<1>2. up \in Conn /\ up.timed_handlers = c.timed_handlers /\ up.state = c.state
        /\ up.facts = c.facts
  BY <1>1 DEF Conn
<1>3. down \in Conn /\ down.timed_handlers = c.timed_handlers /\ down.state = c.state
        /\ down.facts = c.facts
  BY <1>1 DEF Conn
<1>4. Good(up) /\ Good(down) BY <1>2, <1>3, Frame
<1> HIDE DEF up, down
<1>5. Good(OpenStream(PrepareReset(up, "auth_handle_open")))
  BY <1>4, PrepareResetGood, OpenStreamGood DEF OpenFns
<1>6. Good(XmppDisconnect(down)) BY <1>4, XmppDisconnectGood
<1> QED BY <1>5, <1>6 DEF _handle_proceedtls_default, up, down

LEMMA SaslResultGood ==
    ASSUME NEW c, Good(c), NEW s, NEW env
    PROVE  Good(_handle_sasl_result(c, s, env))
<1>1. Good(OpenStream(PrepareReset(c, "_handle_open_sasl")))
  BY PrepareResetGood, OpenStreamGood DEF OpenFns
<1> QED BY <1>1, AuthGood, XmppDisconnectGood DEF _handle_sasl_result

LEMMA DigestGood ==
    ASSUME NEW c, Good(c), NEW s, NEW env
    PROVE  /\ Good(_handle_digestmd5_challenge(c, s, env))
           /\ Good(_handle_digestmd5_rspauth(c, s, env))
<1>1. "response" \in Items /\ "_handle_digestmd5_rspauth" \in HandlerFns
  BY DEF Items, HandlerFns
<1>2. Good(AddHandler(c, "_handle_digestmd5_rspauth")) BY <1>1, AddHandlerGood
<1>3. /\ Good(Send(AddHandler(c, "_handle_digestmd5_rspauth"), "response"))
      /\ Good(Send(c, "response"))
  BY <1>1, <1>2, SendGood
<1> QED BY <1>3, SaslResultGood, XmppDisconnectGood
     DEF _handle_digestmd5_challenge, _handle_digestmd5_rspauth

LEMMA HandleFeaturesSaslGood ==
    ASSUME NEW c, Good(c), NEW s, NEW env
    PROVE  Good(_handle_features_sasl(c, s, env))
<1> DEFINE e == DeleteTimed(c, "_handle_missing_features_sasl")
           b == e.bind_required \/ "bind" \in s.offers
           n == e.session_required \/ "session" \in s.offers
           heard == [e EXCEPT !.bind_required = b, !.session_required = n]
<1>1. Good(e) /\ e \in Conn BY DeleteTimedGood DEF Good
<1> HIDE DEF e
<1>2. b \in BOOLEAN /\ n \in BOOLEAN OBVIOUS
<1> HIDE DEF b, n
<1>3. heard \in Conn /\ heard.timed_handlers = e.timed_handlers
        /\ heard.state = e.state /\ heard.facts = e.facts
  BY <1>1, <1>2 DEF Conn
<1>4. Good(heard) BY <1>1, <1>3, Frame
<1>5. "_handle_bind" \in IdFns /\ "_handle_missing_bind" \in TimedFns /\ "bind" \in Items
  BY DEF IdFns, TimedFns, Items
<1> HIDE DEF heard
<1>6. /\ Good(Request(heard, "_handle_bind", "_handle_missing_bind", "bind", env))
      /\ Good(XmppDisconnect(heard))
  BY <1>4, <1>5, RequestGood, XmppDisconnectGood
<1> QED BY <1>6 DEF _handle_features_sasl, heard, b, n, e

LEMMA CallIdGood ==
    ASSUME NEW c, Good(c), NEW f \in IdFns, NEW s, NEW env
    PROVE  Good(CallId(f, c, s, env))
<1>1. ASSUME NEW timer \in TimedFns, timer # "_disconnect_cleanup"
      PROVE  LET heard == DeleteTimed(c, timer)
             IN Good(heard) /\ Good(NotifyConnect(heard, env)) /\ Good(XmppDisconnect(heard))
  BY <1>1, DeleteTimedGood, NotifyConnectGood, XmppDisconnectGood
<1>2. /\ "_handle_session" \in IdFns /\ "session" \in Items
      /\ {"_handle_missing_bind", "_handle_missing_session", "_handle_missing_legacy"}
            \subseteq TimedFns
  BY DEF IdFns, TimedFns, Items
<1>3. Good(_handle_bind(c, s, env))
  <2> DEFINE heard == DeleteTimed(c, "_handle_missing_bind")
  <2>1. Good(heard) /\ Good(NotifyConnect(heard, env)) /\ Good(XmppDisconnect(heard))
    BY <1>1, <1>2
  <2> HIDE DEF heard
  <2>2. Good(Request(heard, "_handle_session", "_handle_missing_session", "session", env))
    BY <1>2, <2>1, RequestGood
  <2> QED BY <2>1, <2>2 DEF _handle_bind, heard
<1>4. Good(_handle_session(c, s, env)) BY <1>1, <1>2 DEF _handle_session
<1>5. Good(_handle_legacy(c, s, env)) BY <1>1, <1>2 DEF _handle_legacy
<1> QED BY <1>3, <1>4, <1>5 DEF CallId, IdFns

LEMMA CallUserGood ==
    ASSUME NEW c, Good(c)
    PROVE  Good(CallUser(c))
<1> DEFINE e == c.early \/ c.ups = 0
           d == [c EXCEPT !.early = e]
<1>1. c \in Conn BY DEF Good
<1>2. e \in BOOLEAN OBVIOUS
<1>3. CallUser(c) = d BY DEF CallUser
<1> HIDE DEF e
<1>4. d \in Conn /\ d.timed_handlers = c.timed_handlers /\ d.state = c.state
        /\ d.facts = c.facts
  BY <1>1, <1>2 DEF Conn
<1> QED BY <1>3, <1>4, Frame

LEMMA CallHandlerGood ==
    ASSUME NEW c, Good(c), NEW f \in HandlerFns, NEW s, NEW env
    PROVE  Good(CallHandler(f, c, s, env))
<1> DEFINE d == [c EXCEPT !.stream_error = TRUE]
<1>1. c \in Conn BY DEF Good
<1>2. d \in Conn /\ d.timed_handlers = c.timed_handlers /\ d.state = c.state
        /\ d.facts = c.facts
  BY <1>1 DEF Conn
<1>3. Good(d) BY <1>2, Frame
<1> HIDE DEF d
<1> QED BY <1>3, HandleFeaturesGood, HandleFeaturesSaslGood, ProceedTlsGood, SaslResultGood,
           DigestGood, CallUserGood
        DEF CallHandler, HandlerFns, d

\* The forced end of the connection leaves it in a state where its timer may go.
LEMMA CallTimedGood ==
    ASSUME NEW c, Good(c), NEW f \in TimedFns, NEW env
    PROVE  /\ Good(CallTimed(f, c, env))
           /\ f = "_disconnect_cleanup" => CallTimed(f, c, env).state # "CONNECTED"
<1> DEFINE d == [c EXCEPT !.facts = @ \cup {"features_missing"}]
<1>1. c \in Conn BY DEF Good
<1>2. d \in Conn /\ d.timed_handlers = c.timed_handlers /\ d.state = c.state
        /\ d.facts = c.facts \cup {"features_missing"}
  <2>1. c.facts \cup {"features_missing"} \in SUBSET Facts BY <1>1 DEF Conn, Facts
  <2> QED BY <1>1, <2>1 DEF Conn
<1>3. Good(d) BY <1>2, Frame
<1> HIDE DEF d
<1>4. Good(Auth(d, env)) BY <1>3, AuthGood
<1>5. Good(ConnDisconnect(c, env)) /\ ConnDisconnect(c, env).state # "CONNECTED"
  BY <1>1, ConnDisconnectGood
<1> QED BY <1>4, <1>5, CallUserGood, XmppDisconnectGood DEF CallTimed, TimedFns, d

-----------------------------------------------------------------------------
(* The parts of the steps of Session. *)

\* A list with the functions of another has what is listed there.
LEMMA SameFunctions ==
    ASSUME NEW list \in Seq(TimedItem), NEW new \in [DOMAIN list -> TimedItem],
           \A i \in DOMAIN list : new[i].fn = list[i].fn
    PROVE  /\ new \in Seq(TimedItem)
           /\ \A f : Listed(list, f) => Listed(new, f)
<1>1. DOMAIN list = 1 .. Len(list) /\ Len(list) \in Nat OBVIOUS
<1>2. new \in Seq(TimedItem) BY <1>1, SeqDef
<1> QED BY <1>2 DEF Listed

\* A change of the timers that loses no function keeps Good.
LEMMA RetimedGood ==
    ASSUME NEW c, Good(c), NEW new \in Seq(TimedItem),
           \A f : Listed(c.timed_handlers, f) => Listed(new, f)
    PROVE  Good([c EXCEPT !.timed_handlers = new])
<1> DEFINE d == [c EXCEPT !.timed_handlers = new]
<1>1. c \in Conn BY DEF Good
<1>2. d \in Conn /\ d.timed_handlers = new /\ d.state = c.state /\ d.facts = c.facts
  BY <1>1 DEF Conn
<1> QED BY <1>2 DEF Good

LEMMA BeginTimedGood ==
    ASSUME NEW c, Good(c)
    PROVE  Good(BeginTimed(c))
<1>1. c.timed_handlers \in Seq(TimedItem) BY DEF Good, Conn
<1>2. Good([c EXCEPT !.timed_handlers = EnableAll(c.timed_handlers)])
  BY <1>1, EnableAllType, RetimedGood
<1> QED BY <1>2 DEF BeginTimed

LEMMA FirstTimedType ==
    ASSUME NEW c \in Conn
    PROVE  FirstTimed(c) \in Nat \ {0}
<1>1. c.timed_handlers \in Seq(TimedItem) BY DEF Conn
<1>2. Len(c.timed_handlers) \in Nat BY <1>1
<1> QED BY <1>2 DEF FirstTimed

\* What a step that ends in the second handler_fire_timed establishes.
LEMMA ToTimed2Inv ==
    ASSUME Inv, NEW c, Good(c), ToTimed2(c), stanza' = stanza, left' \in Nat
    PROVE  Inv'
<1>1. Good(conn') /\ pc' = "timed2" BY BeginTimedGood DEF ToTimed2
<1>2. at' \in Nat \ {0} BY FirstTimedType DEF ToTimed2, Good
<1> QED BY <1>1, <1>2 DEF Inv, TypeOK, Good

LEMMA ReceiveType ==
    ASSUME NEW peer \in Peer, NEW items \in SUBSET Items
    PROVE  Receive(peer, items) \in Peer
<1> DEFINE o == peer.owed \cup (items \ {"user", "close"})
                  \cup (IF "header" \in items THEN {"features"} ELSE {})
<1>1. o \in SUBSET (Items \cup {"features"}) BY DEF Peer
<1>2. Receive(peer, items) \in {peer, [peer EXCEPT !.owed = o]} BY DEF Receive
<1> HIDE DEF o
<1>3. [peer EXCEPT !.owed = o] \in Peer BY <1>1 DEF Peer
<1> QED BY <1>2, <1>3

LEMMA ErrorGood ==
    ASSUME NEW c \in Conn, NEW e \in BOOLEAN
    PROVE  [c EXCEPT !.error = e] \in Conn
BY DEF Conn

LEMMA WriteQueueGood ==
    ASSUME NEW c, Good(c), NEW n \in 0 .. Len(c.send_queue), NEW fails \in BOOLEAN
    PROVE  Good(WriteQueue(c, n, fails))
<1> DEFINE q == c.send_queue
           rest == SubSeq(q, n + 1, Len(q))
           p == Receive(c.peer, {q[i] : i \in 1 .. n})
           e == c.error \/ fails
           d == [c EXCEPT !.send_queue = rest, !.peer = p, !.error = e]
<1>1. c \in Conn /\ q \in Seq(Items) BY DEF Good, Conn
<1>2. Len(q) \in Nat /\ DOMAIN q = 1 .. Len(q) BY <1>1
<1>3. rest \in Seq(Items)
  <2>1. n + 1 \in 1 .. Len(q) + 1 /\ Len(q) \in (n + 1) - 1 .. Len(q) BY <1>2
  <2> QED BY <1>1, <2>1, SubSeqProperties
<1>4. p \in Peer
  <2>1. {q[i] : i \in 1 .. n} \in SUBSET Items BY <1>1, <1>2
  <2>2. c.peer \in Peer BY <1>1 DEF Conn
  <2> QED BY <2>1, <2>2, ReceiveType
<1>5. e \in BOOLEAN BY <1>1 DEF Conn
<1>6. WriteQueue(c, n, fails) = d BY DEF WriteQueue
<1> HIDE DEF rest, p, e
<1>7. d \in Conn /\ d.timed_handlers = c.timed_handlers /\ d.state = c.state
        /\ d.facts = c.facts
  BY <1>1, <1>3, <1>4, <1>5 DEF Conn
<1> QED BY <1>6, <1>7, Frame

\* A failed tls_clear_pending_write is only modelled with nothing written after it.
LEMMA WriteQueuedGood ==
    ASSUME Good(conn), NEW pending \in BOOLEAN, NEW fails \in BOOLEAN, NEW env,
           NEW n \in 0 .. Len(conn.send_queue), pending => n = 0
    PROVE  Good(write_queued(pending, n, fails, env))
<1> DEFINE cleared == ClearPending(conn, pending, env)
           written == WriteQueue(cleared, n, fails)
<1>1. Good(cleared) /\ n \in 0 .. Len(cleared.send_queue)
  <2>1. CASE pending
    <3>1. [conn EXCEPT !.error = TRUE] \in Conn BY ErrorGood DEF Good
    <3>2. Good(cleared) BY <2>1, <3>1, ConnDisconnectGood DEF ClearPending
    <3>3. cleared.send_queue \in Seq(Items) BY <3>2 DEF Good, Conn
    <3>4. Len(cleared.send_queue) \in Nat BY <3>3
    <3>5. n = 0 BY <2>1
    <3> HIDE DEF cleared
    <3> QED BY <3>2, <3>4, <3>5
  <2>2. CASE ~pending BY <2>2 DEF ClearPending
  <2> QED BY <2>1, <2>2
<1> HIDE DEF cleared
<1>2. Good(written) BY <1>1, WriteQueueGood
<1>3. write_queued(pending, n, fails, env) = TearDownOnError(written, env)
  BY DEF write_queued, cleared
<1> HIDE DEF written
<1> QED BY <1>2, <1>3, ConnDisconnectGood DEF TearDownOnError, Good

-----------------------------------------------------------------------------
(* The steps of Session, one lemma for each that changes the connection. *)

LEMMA InitInv == Init => Inv
<1> SUFFICES ASSUME Init PROVE Inv OBVIOUS
<1>1. PICK jid \in Jids : conn = NewConn(jid) BY DEF Init
<1>2. jid \in {"anonymous", "bare", "full"} BY SessionAssumption
<1>3. NewPeer \in Peer BY DEF NewPeer, Peer
<1>4. /\ <<>> \in Seq(Items) /\ <<>> \in Seq(TimedItem) /\ <<>> \in Seq(HandlerItem)
  OBVIOUS
<1>5. conn \in Conn /\ conn.state = "DISCONNECTED"
  BY <1>1, <1>2, <1>3, <1>4 DEF NewConn, Conn, States, OpenFns
<1>6. NoStanza \in Stanza BY DEF NoStanza, Plain, Stanza, StanzaNames
<1> QED BY <1>5, <1>6 DEF Inv, Good, TypeOK, Init

LEMMA UserStep == Inv /\ User => Inv'
<1> SUFFICES ASSUME Inv, User PROVE Inv' OBVIOUS
<1>1. Good(conn) /\ conn \in Conn BY DEF Inv, Good
<1>2. Good(ConnectClient(conn)) BY <1>1, ConnectClientGood
<1>3. Good(XmppDisconnect(conn)) BY <1>1, XmppDisconnectGood
<1>4. Good(Send(conn, "user")) BY <1>1, SendGood DEF Items
<1>5. Good([conn EXCEPT !.tls_disabled = TRUE])
  <2> DEFINE d == [conn EXCEPT !.tls_disabled = TRUE]
  <2>1. d \in Conn /\ d.timed_handlers = conn.timed_handlers /\ d.state = conn.state
          /\ d.facts = conn.facts
    BY <1>1 DEF Conn
  <2> QED BY <1>1, <2>1, Frame
<1>6. Good(AddTimed(AddHandler(conn, "user_stanza"), "user_timed"))
  <2>1. Good(AddHandler(conn, "user_stanza")) BY <1>1, AddHandlerGood DEF HandlerFns
  <2> QED BY <2>1, AddTimedGood DEF TimedFns
<1>7. Good(conn') /\ UNCHANGED <<pc, at, stanza, left>>
  BY <1>2, <1>3, <1>4, <1>5, <1>6
  DEF User, xmpp_connect_client, xmpp_disconnect, xmpp_send, xmpp_conn_disable_tls,
      xmpp_handler_add
<1> QED BY <1>7 DEF Inv, TypeOK, Good

LEMMA OlderType ==
    ASSUME NEW age \in Nat, NEW limit
    PROVE  Older(age, limit) \in Nat
BY DEF Older

LEMMA TickStep == Inv /\ Tick => Inv'
<1> SUFFICES ASSUME Inv, Tick PROVE Inv' OBVIOUS
<1> DEFINE list == conn.timed_handlers
           new  == AllOlder(list)
           a    == IF conn.state = "CONNECTING" THEN Older(conn.age, CONNECT_TIMEOUT + 1)
                                                ELSE conn.age
           d    == [conn EXCEPT !.age = a]
<1>1. Good(conn) /\ conn \in Conn BY DEF Inv, Good
<1>2. list \in Seq(TimedItem) /\ conn.age \in Nat BY <1>1 DEF Conn
<1>3. ASSUME NEW i \in DOMAIN list
      PROVE  new[i] \in TimedItem /\ new[i].fn = list[i].fn
  <2>1. list[i] \in TimedItem BY <1>2
  <2>2. list[i].age \in Nat BY <2>1 DEF TimedItem
  <2>3. Older(list[i].age, Period[list[i].fn]) \in Nat BY <2>2, OlderType
  <2> DEFINE k == Older(list[i].age, Period[list[i].fn])
  <2>4. new[i] = [list[i] EXCEPT !.age = k] BY DEF AllOlder
  <2> HIDE DEF k, new
  <2>5. [list[i] EXCEPT !.age = k] \in TimedItem /\ [list[i] EXCEPT !.age = k].fn = list[i].fn
    BY <2>1, <2>3 DEF TimedItem, k
  <2> QED BY <2>4, <2>5
<1>4. new \in [DOMAIN list -> TimedItem] BY <1>3 DEF AllOlder
<1>5. new \in Seq(TimedItem) /\ \A f : Listed(list, f) => Listed(new, f)
  <2> HIDE DEF new
  <2> QED BY <1>2, <1>3, <1>4, SameFunctions
<1>6. a \in Nat
  <2>1. Older(conn.age, CONNECT_TIMEOUT + 1) \in Nat BY <1>2, OlderType
  <2> QED BY <1>2, <2>1
<1>7. conn' = [d EXCEPT !.timed_handlers = new]
  BY <1>1 DEF Tick, Conn
<1> HIDE DEF a, new
<1>8. d \in Conn /\ d.timed_handlers = list /\ d.state = conn.state
        /\ d.facts = conn.facts
  BY <1>1, <1>6 DEF Conn
<1>9. Good(d) BY <1>1, <1>8, Frame
<1> HIDE DEF d
<1>10. Good([d EXCEPT !.timed_handlers = new]) BY <1>5, <1>8, <1>9, RetimedGood
<1> QED BY <1>7, <1>10 DEF Tick, Inv, TypeOK, Good

LEMMA WriteStep == Inv /\ run_once_write => Inv'
<1> SUFFICES ASSUME Inv, run_once_write PROVE Inv' OBVIOUS
<1>1. Good(conn) BY DEF Inv
<1>2. Good(conn')
  <2>1. CASE conn.state = "CONNECTED"
    <3>1. PICK env \in Choices, n \in 0 .. Len(conn.send_queue),
               fails \in BOOLEAN, pending \in BOOLEAN :
            /\ pending => n = 0
            /\ conn' = BeginTimed(ParserReset(write_queued(pending, n, fails, env)))
      BY <2>1 DEF run_once_write
    <3>2. Good(write_queued(pending, n, fails, env)) BY <1>1, <3>1, WriteQueuedGood
    <3> QED BY <3>1, <3>2, ParserResetGood, BeginTimedGood
  <2>2. CASE conn.state # "CONNECTED"
    BY <1>1, <2>2, ParserResetGood DEF run_once_write
  <2> QED BY <2>1, <2>2
<1>3. at' \in Nat \ {0} BY <1>2, FirstTimedType DEF run_once_write, Good
<1> QED BY <1>2, <1>3 DEF run_once_write, Inv, TypeOK, Good

\* The only timer whose loss could break Good ends the connection when it fires.
LEMMA FireTimedStep == Inv /\ FireTimed => Inv'
<1> SUFFICES ASSUME Inv, FireTimed PROVE Inv' OBVIOUS
<1> DEFINE list  == conn.timed_handlers
           t     == list[at]
           young == [list EXCEPT ![at] = [t EXCEPT !.age = 0]]
           c     == [conn EXCEPT !.timed_handlers = young]
<1>1. Good(conn) /\ conn \in Conn /\ at \in Nat \ {0} /\ at <= Len(list)
  BY DEF Inv, TypeOK, Good, FireTimed
<1>2. list \in Seq(TimedItem) BY <1>1 DEF Conn
<1>3. at \in DOMAIN list /\ t \in TimedItem
  <2>1. DOMAIN list = 1 .. Len(list) /\ Len(list) \in Nat BY <1>2
  <2>2. at \in DOMAIN list BY <1>1, <2>1
  <2> QED BY <1>2, <2>2
<1>4. t.fn \in TimedFns BY <1>3 DEF TimedItem
<1>5. young \in Seq(TimedItem) /\ \A f : Listed(list, f) => Listed(young, f)
  <2>1. [t EXCEPT !.age = 0] \in TimedItem /\ [t EXCEPT !.age = 0].fn = t.fn
    BY <1>3 DEF TimedItem
  <2>2. /\ young \in [DOMAIN list -> TimedItem]
        /\ \A i \in DOMAIN list : young[i].fn = list[i].fn
    BY <1>2, <1>3, <2>1
  <2> HIDE DEF young
  <2> QED BY <1>2, <2>2, SameFunctions
<1>6. Good(c)
  <2> HIDE DEF young
  <2> QED BY <1>1, <1>5, RetimedGood
<1>7. PICK env \in Choices :
        LET fired == CallTimed(t.fn, c, env)
        IN IF KeepsTimed(t.fn, env) THEN conn' = fired /\ at' = at + 1
                                    ELSE conn' = DeleteTimed(fired, t.fn) /\ at' = at
  <2>1. [conn EXCEPT !.timed_handlers[at].age = 0] = c BY <1>1, <1>2, <1>3 DEF Conn
  <2> HIDE DEF c
  <2> QED BY <2>1 DEF FireTimed
<1> HIDE DEF c, young
<1>8. /\ Good(CallTimed(t.fn, c, env))
      /\ t.fn = "_disconnect_cleanup" => CallTimed(t.fn, c, env).state # "CONNECTED"
  BY <1>4, <1>6, CallTimedGood
<1>9. Good(DeleteTimed(CallTimed(t.fn, c, env), t.fn)) BY <1>8, DeleteTimedGood
<1>10. Good(conn') /\ at' \in Nat \ {0} BY <1>1, <1>7, <1>8, <1>9
<1> QED BY <1>10 DEF FireTimed, Inv, TypeOK, Good

LEMMA ConnectCompleteStep == Inv /\ connect_complete => Inv'
<1> SUFFICES ASSUME Inv, connect_complete PROVE Inv' OBVIOUS
<1> DEFINE up == [conn EXCEPT !.state = "CONNECTED"]
<1>1. Good(conn) /\ conn \in Conn /\ conn.state = "CONNECTING" /\ left \in Nat
  BY DEF Inv, TypeOK, Good, connect_complete
<1>2. up \in Conn /\ up.facts = conn.facts BY <1>1 DEF Conn, States
<1>3. Good(up)
  <2>1. "closing" \notin up.facts BY <1>1, <1>2 DEF Good
  <2>2. up.state = "CONNECTED" BY <1>1 DEF Conn
  <2> HIDE DEF up
  <2> QED BY <1>2, <2>1, <2>2 DEF Good
<1>4. ToTimed2(OpenStream(up)) /\ stanza' = stanza /\ left' = left
  BY DEF connect_complete
<1> HIDE DEF up
<1>5. Good(OpenStream(up)) BY <1>3, OpenStreamGood
<1> QED BY <1>1, <1>4, <1>5, ToTimed2Inv

LEMMA OtherEventStep ==
    /\ Inv
    /\ connect_timeout \/ no_event \/ connect_failed \/ read_failed \/ read_again
          \/ read_data \/ chunk_done
    => Inv'
<1> SUFFICES ASSUME Inv PROVE
        connect_timeout \/ no_event \/ connect_failed \/ read_failed \/ read_again
           \/ read_data \/ chunk_done => Inv'
  OBVIOUS
<1>1. Good(conn) /\ conn \in Conn /\ left \in Nat BY DEF Inv, TypeOK, Good
<1>2. ASSUME NEW env
      PROVE  /\ Good(ConnDisconnect(conn, env))
             /\ Good(ConnDisconnect([conn EXCEPT !.error = TRUE], env))
  <2>1. [conn EXCEPT !.error = TRUE] \in Conn BY <1>1, ErrorGood
  <2> QED BY <1>1, <2>1, ConnDisconnectGood
<1>3. connect_timeout => Inv' BY <1>2 DEF connect_timeout, Inv, TypeOK, Good
<1>4. no_event => Inv' BY DEF no_event, Inv, TypeOK, Good
<1>5. connect_failed => Inv'
  <2> SUFFICES ASSUME connect_failed PROVE Inv' OBVIOUS
  <2>1. PICK env \in Choices : ToTimed2(ConnDisconnect(conn, env)) BY DEF connect_failed
  <2> QED BY <1>1, <1>2, <2>1, ToTimed2Inv DEF connect_failed
<1>6. read_failed => Inv'
  <2> SUFFICES ASSUME read_failed PROVE Inv' OBVIOUS
  <2>1. PICK env \in Choices : ToTimed2(ConnDisconnect([conn EXCEPT !.error = TRUE], env))
    BY DEF read_failed
  <2> QED BY <1>1, <1>2, <2>1, ToTimed2Inv DEF read_failed
<1>7. read_again => Inv' BY <1>1, ToTimed2Inv DEF read_again
<1>8. read_data => Inv' BY SessionAssumption DEF read_data, Inv, TypeOK, Good
<1>9. chunk_done => Inv' BY <1>1, ToTimed2Inv DEF chunk_done
<1> QED BY <1>3, <1>4, <1>5, <1>6, <1>7, <1>8, <1>9

LEMMA ParseErrorStep ==
    ASSUME Inv, NEW c \in Conn, parse_error(c)
    PROVE  Inv'
<1>1. [c EXCEPT !.parser = "broken"] \in Conn BY DEF Conn
<1>2. PICK env \in Choices : ToTimed2(ConnDisconnect([c EXCEPT !.parser = "broken"], env))
  BY DEF parse_error
<1>3. Good(ConnDisconnect([c EXCEPT !.parser = "broken"], env)) BY <1>1, ConnDisconnectGood
<1> QED BY <1>2, <1>3, ToTimed2Inv DEF parse_error

\* What the server's side does to its own record.
LEMMA PeerType ==
    ASSUME NEW peer \in Peer
    PROVE  /\ InPhase(peer, "open") \in Peer /\ InPhase(peer, "ended") \in Peer
           /\ \A items : [peer EXCEPT !.owed = @ \ items] \in Peer
           /\ \A s : AfterStanza(peer, s) \in Peer
<1>1. InPhase(peer, "open") \in Peer /\ InPhase(peer, "ended") \in Peer
  BY DEF InPhase, Peer
<1>2. \A items : [peer EXCEPT !.owed = @ \ items] \in Peer BY DEF Peer
<1>3. ASSUME NEW s PROVE AfterStanza(peer, s) \in Peer
  <2> DEFINE ph == IF s.name \in {"proceed", "success"} THEN "restart" ELSE peer.phase
             ow == peer.owed \ Answers(s)
             ch == peer.challenges + IF s.name = "challenge" THEN 1 ELSE 0
  <2>1. ph \in {"silent", "open", "restart", "ended"} BY DEF Peer
  <2>2. ow \in SUBSET (Items \cup {"features"}) BY DEF Peer
  <2>3. ch \in Nat BY DEF Peer
  <2>4. AfterStanza(peer, s) \in {peer, [phase |-> ph, owed |-> ow, challenges |-> ch]}
    BY DEF AfterStanza
  <2> HIDE DEF ph, ow, ch
  <2> QED BY <2>1, <2>2, <2>3, <2>4 DEF Peer
<1> QED BY <1>1, <1>2, <1>3

LEMMA PeerGood ==
    ASSUME NEW c, Good(c), NEW peer \in Peer
    PROVE  Good([c EXCEPT !.peer = peer])
<1> DEFINE d == [c EXCEPT !.peer = peer]
<1>1. c \in Conn BY DEF Good
<1>2. d \in Conn /\ d.timed_handlers = c.timed_handlers /\ d.state = c.state
        /\ d.facts = c.facts
  BY <1>1 DEF Conn
<1> QED BY <1>2, Frame

LEMMA StreamHeaderStep == Inv /\ stream_header => Inv'
<1> SUFFICES ASSUME Inv, stream_header PROVE Inv' OBVIOUS
<1> DEFINE o == InPhase(conn.peer, "open")
           p == [o EXCEPT !.owed = @ \ {"header"}]
           c == [conn EXCEPT !.peer = p]
<1>1. Good(conn) /\ conn \in Conn /\ left \in Nat /\ left > 0
  BY DEF Inv, TypeOK, Good, stream_header
<1>2. p \in Peer
  <2>1. conn.peer \in Peer BY <1>1 DEF Conn
  <2>2. o \in Peer BY <2>1, PeerType
  <2> HIDE DEF o
  <2> QED BY <2>2, PeerType
<1>3. Good(c) /\ c \in Conn
  <2> HIDE DEF p
  <2> QED BY <1>1, <1>2, PeerGood DEF Good
<1>4. IF conn.parser = "start"
      THEN /\ \E root \in IncomingRoots, env \in Choices :
                 conn' = _handle_stream_start(c, root, env)
           /\ left' = left - 1
           /\ UNCHANGED <<pc, at, stanza>>
      ELSE parse_error(c)
  BY DEF stream_header
<1>5. pc = "chunk" BY DEF stream_header
<1> HIDE DEF c, p
<1>6. CASE conn.parser = "start"
  <2>1. PICK root \in IncomingRoots, env \in Choices :
          conn' = _handle_stream_start(c, root, env)
    BY <1>4, <1>6
  <2>2. root \in Roots BY SessionAssumption
  <2>3. Good(conn') BY <1>3, <2>1, <2>2, StreamStartGood
  <2>4. left' \in Nat BY <1>1, <1>4, <1>6
  <2> QED BY <1>4, <1>5, <1>6, <2>3, <2>4 DEF Inv, TypeOK, Good
<1>7. CASE conn.parser # "start" BY <1>3, <1>4, <1>7, ParseErrorStep
<1> QED BY <1>6, <1>7

LEMMA FireStanzaStep == Inv /\ handler_fire_stanza => Inv'
<1> SUFFICES ASSUME Inv, handler_fire_stanza PROVE Inv' OBVIOUS
<1>1. Good(conn) /\ conn \in Conn /\ left \in Nat /\ left > 0
  BY DEF Inv, TypeOK, Good, handler_fire_stanza
<1>2. PICK s \in Incoming, env \in Choices :
        /\ LET c == [conn EXCEPT !.peer = AfterStanza(@, s),
                                 !.facts = @ \cup FactsOf(conn, s)]
               called == IF s.id \in c.id_handlers
                         THEN [CallId(s.id, c, s, env) EXCEPT !.id_handlers = @ \ {s.id}]
                         ELSE c
           IN conn' = [called EXCEPT !.handlers = EnableAll(@)]
        /\ stanza' = s
  BY DEF handler_fire_stanza
<1> DEFINE p == AfterStanza(conn.peer, s)
           f == conn.facts \cup FactsOf(conn, s)
           c == [conn EXCEPT !.peer = p, !.facts = f]
           k == CallId(s.id, c, s, env)
           dropped == [k EXCEPT !.id_handlers = @ \ {s.id}]
           called == IF s.id \in c.id_handlers THEN dropped ELSE c
<1>3. s \in Stanza BY SessionAssumption
<1>4. p \in Peer
  <2>1. conn.peer \in Peer BY <1>1 DEF Conn
  <2> QED BY <2>1, PeerType
<1>5. f \in SUBSET Facts /\ ("closing" \in f => "closing" \in conn.facts)
  <2>1. FactsOf(conn, s) \subseteq Facts \ {"closing"} BY DEF FactsOf, Facts
  <2>2. conn.facts \in SUBSET Facts BY <1>1 DEF Conn
  <2> QED BY <2>1, <2>2
<1>6. conn' = [called EXCEPT !.handlers = EnableAll(@)] BY <1>2
<1> HIDE DEF p, f
<1>7. c \in Conn /\ c.timed_handlers = conn.timed_handlers /\ c.state = conn.state
        /\ c.facts = f
  BY <1>1, <1>4, <1>5 DEF Conn
<1>8. Good(c) BY <1>1, <1>5, <1>7, Frame
<1> HIDE DEF c
<1>9. s.id \in c.id_handlers => Good(dropped)
  <2> SUFFICES ASSUME s.id \in c.id_handlers PROVE Good(dropped) OBVIOUS
  <2>1. s.id \in IdFns BY <1>7 DEF Conn
  <2>2. Good(k) /\ k \in Conn BY <1>8, <2>1, CallIdGood DEF Good
  <2> HIDE DEF k
  <2>3. dropped \in Conn /\ dropped.timed_handlers = k.timed_handlers
          /\ dropped.state = k.state /\ dropped.facts = k.facts
    BY <2>2 DEF Conn
  <2> QED BY <2>2, <2>3, Frame
<1>10. Good(called) /\ called \in Conn BY <1>8, <1>9 DEF Good
<1> HIDE DEF called
<1>11. Good(conn')
  <2>1. EnableAll(called.handlers) \in Seq(HandlerItem)
    <3>1. called.handlers \in Seq(HandlerItem) BY <1>10 DEF Conn
    <3> QED BY <3>1, EnableAllType
  <2> DEFINE h == EnableAll(called.handlers)
             d == [called EXCEPT !.handlers = h]
  <2>2. conn' = d BY <1>6
  <2> HIDE DEF h
  <2>3. d \in Conn /\ d.timed_handlers = called.timed_handlers
          /\ d.state = called.state /\ d.facts = called.facts
    BY <1>10, <2>1 DEF Conn, h
  <2> QED BY <1>10, <2>2, <2>3, Frame
<1> QED BY <1>1, <1>2, <1>3, <1>11 DEF handler_fire_stanza, Inv, TypeOK, Good

LEMMA CallOneStep == Inv /\ CallOne => Inv'
<1> SUFFICES ASSUME Inv, CallOne PROVE Inv' OBVIOUS
<1> DEFINE h == conn.handlers[at]
<1>1. Good(conn) /\ conn \in Conn /\ at \in Nat \ {0} /\ at <= Len(conn.handlers)
  BY DEF Inv, TypeOK, Good, CallOne
<1>2. h.fn \in HandlerFns
  <2>1. conn.handlers \in Seq(HandlerItem) BY <1>1 DEF Conn
  <2>2. DOMAIN conn.handlers = 1 .. Len(conn.handlers) /\ Len(conn.handlers) \in Nat BY <2>1
  <2>3. at \in DOMAIN conn.handlers BY <1>1, <2>2
  <2>4. h \in HandlerItem BY <2>1, <2>3
  <2> QED BY <2>4 DEF HandlerItem
<1>3. PICK env \in Choices :
        LET called == CallHandler(h.fn, conn, stanza, env)
        IN IF KeepsHandler(h.fn, stanza, env)
           THEN conn' = called /\ at' = at + 1
           ELSE conn' = DropHandler(called, h.fn) /\ at' = at
  BY DEF CallOne
<1> HIDE DEF h
<1>4. Good(CallHandler(h.fn, conn, stanza, env)) BY <1>1, <1>2, CallHandlerGood
<1>5. Good(DropHandler(CallHandler(h.fn, conn, stanza, env), h.fn))
  BY <1>4, DropHandlerGood
<1>6. Good(conn') /\ at' \in Nat \ {0} BY <1>1, <1>3, <1>4, <1>5
<1> QED BY <1>6 DEF CallOne, Inv, TypeOK, Good

LEMMA StreamEndStep == Inv /\ stream_end => Inv'
<1> SUFFICES ASSUME Inv, stream_end PROVE Inv' OBVIOUS
<1> DEFINE p == InPhase(conn.peer, "ended")
           c == [conn EXCEPT !.peer = p]
<1>1. Good(conn) /\ conn \in Conn /\ left \in Nat /\ left > 0 /\ pc = "chunk"
  BY DEF Inv, TypeOK, Good, stream_end
<1>2. p \in Peer
  <2>1. conn.peer \in Peer BY <1>1 DEF Conn
  <2> QED BY <2>1, PeerType
<1>3. PICK env \in Choices : conn' = _handle_stream_end(c, env) BY DEF stream_end
<1> HIDE DEF p
<1>4. c \in Conn BY <1>1, <1>2, PeerGood DEF Good
<1>5. Good(conn') BY <1>3, <1>4, StreamEndGood
<1>6. left' \in Nat BY <1>1 DEF stream_end
<1> QED BY <1>1, <1>5, <1>6 DEF stream_end, Inv, TypeOK, Good

\* The steps that only move along a list or end one, and a malformed document.
LEMMA RestStep ==
    Inv /\ (SkipTimed \/ EndTimed \/ SkipHandler \/ EndStanza \/ garbage) => Inv'
<1> SUFFICES ASSUME Inv
    PROVE SkipTimed \/ EndTimed \/ SkipHandler \/ EndStanza \/ garbage => Inv'
  OBVIOUS
<1>1. /\ Good(conn) /\ conn \in Conn /\ at \in Nat \ {0} /\ left \in Nat
      /\ pc = "stanza" => left > 0
  BY DEF Inv, TypeOK, Good
<1>2. SkipTimed => Inv' BY <1>1 DEF SkipTimed, Inv, TypeOK, Good
<1>3. EndTimed => Inv' BY <1>1 DEF EndTimed, Inv, TypeOK, Good
<1>4. SkipHandler => Inv' BY <1>1 DEF SkipHandler, Inv, TypeOK, Good
<1>5. EndStanza => Inv'
  <2>1. NoStanza \in Stanza BY DEF NoStanza, Plain, Stanza, StanzaNames
  <2> QED BY <1>1, <2>1 DEF EndStanza, Inv, TypeOK, Good
<1>6. garbage => Inv' BY <1>1, ParseErrorStep DEF garbage
<1> QED BY <1>2, <1>3, <1>4, <1>5, <1>6

LEMMA NextInv == Inv /\ [Next]_vars => Inv'
<1> SUFFICES ASSUME Inv, [Next]_vars PROVE Inv' OBVIOUS
<1>1. CASE User BY <1>1, UserStep
<1>2. CASE Tick BY <1>2, TickStep
<1>3. CASE Loop
  BY <1>3, WriteStep, FireTimedStep, ConnectCompleteStep, OtherEventStep, StreamHeaderStep,
     FireStanzaStep, CallOneStep, StreamEndStep, RestStep
  DEF Loop
<1>4. CASE UNCHANGED vars BY <1>4 DEF vars, Inv, TypeOK, Good
<1> QED BY <1>1, <1>2, <1>3, <1>4 DEF Next

-----------------------------------------------------------------------------
(* The theorems. *)

LEMMA InvHolds == Spec => []Inv
BY InitInv, NextInv, PTL DEF Spec

\* Every variable keeps its type: no callback, whatever the server, the user or a
\* failing allocation does, leaves a field of the connection with a foreign value.
THEOREM TypeCorrect == Spec => []TypeOK
<1>1. Inv => TypeOK BY DEF Inv
<1> QED BY <1>1, InvHolds, PTL

\* After xmpp_disconnect has queued </stream:stream> on a connected stream, the timer
\* that forces the end of the connection stays armed until the connection is down:
\* nothing auth.c, the event loop or the user does deletes it earlier.
THEOREM CloseIsWatched == Spec => []CloseWatched
<1>1. Inv => CloseWatched BY DEF Inv, Good, CloseWatched
<1> QED BY <1>1, InvHolds, PTL

-----------------------------------------------------------------------------
(* Who waits for what, who is authenticated, who is told. *)

Armed(c, t) == Listed(c.timed_handlers, t)

\* The handler of the answer that timer t gives up waiting for.
Awaited(c, t) ==
    CASE t = "_handle_missing_features"      -> Listed(c.handlers, "_handle_features")
      [] t = "_handle_missing_features_sasl" -> Listed(c.handlers, "_handle_features_sasl")
      [] t = "_handle_missing_bind"          -> "_handle_bind" \in c.id_handlers
      [] t = "_handle_missing_session"       -> "_handle_session" \in c.id_handlers
      [] t = "_handle_missing_legacy"        -> "_handle_legacy" \in c.id_handlers
      [] OTHER                               -> TRUE

Single(list) == \A i, j \in DOMAIN list : list[i].fn = list[j].fn => i = j

Paired(c) ==
    /\ Single(c.timed_handlers)
    /\ \A t \in TimedFns : Armed(c, t) => Awaited(c, t)

\* What the server has said before f may be registered, in a first attempt.
Earns(c, f) ==
    c.attempts <= 1 =>
        /\ f \in {"_handle_open_sasl", "_handle_features_sasl", "_handle_bind"} =>
              "success" \in c.facts
        /\ f = "_handle_session" => {"success", "bind_result"} \subseteq c.facts

Registered(c, f) == f \in c.id_handlers \/ f = c.open_handler \/ Listed(c.handlers, f)

Earned(c) ==
    /\ c.attempts = 0 =>
          c.state = "DISCONNECTED" /\ c.facts \cap {"success", "bind_result"} = {}
    /\ \A f : Registered(c, f) => Earns(c, f)

Kept(c) == c \in Conn /\ Paired(c) /\ Earned(c)

Sound(c) == Good(c) /\ Kept(c)

\* The timer that forces the end would fire if its time had come.
Ready(c) ==
    \E i \in DOMAIN c.timed_handlers :
        c.timed_handlers[i].fn = "_disconnect_cleanup" /\ c.timed_handlers[i].enabled

\* What comes of c without the connection going down: only timers in T are armed.
Follows(c, d, T) ==
    /\ d.state = c.state /\ d.attempts = c.attempts /\ d.downs = c.downs
    /\ d.peer = c.peer /\ c.facts \subseteq d.facts
    /\ \A t : Armed(d, t) => Armed(c, t) \/ t \in T
    /\ Ready(d) => Ready(c)

Quiet(c, d, T) == Follows(c, d, T) /\ d.authenticated = c.authenticated

AuthTimers == {"_disconnect_cleanup", "_handle_missing_legacy"}

LEMMA FollowsTrans ==
    ASSUME NEW c, NEW d, NEW e, NEW T, NEW U, NEW V, T \subseteq V, U \subseteq V
    PROVE  /\ Follows(c, d, T) /\ Follows(d, e, U) => Follows(c, e, V)
           /\ Quiet(c, d, T) /\ Quiet(d, e, U) => Quiet(c, e, V)
<1>1. Follows(c, d, T) /\ Follows(d, e, U) => Follows(c, e, V) BY DEF Follows
<1> QED BY <1>1 DEF Quiet

LEMMA FollowsWeaken ==
    ASSUME NEW c, NEW d, NEW T, NEW V, T \subseteq V
    PROVE  /\ Follows(c, d, T) => Follows(c, d, V)
           /\ Quiet(c, d, T) => Quiet(c, d, V)
           /\ Quiet(c, c, V)
BY DEF Follows, Quiet

-----------------------------------------------------------------------------
(* The lists of handler.c. *)

\* Deleting a function from a list without doubles takes it away and nothing else.
LEMMA WithoutIs ==
    ASSUME NEW S, NEW list \in Seq(S), Single(list), NEW f
    PROVE  LET new == Without(list, f)
           IN /\ new \in Seq(S) /\ Single(new) /\ ~Listed(new, f)
              /\ \A j \in DOMAIN new : \E i \in DOMAIN list : new[j] = list[i]
              /\ \A g : g # f /\ Listed(list, g) => Listed(new, g)
<1>1. CASE ~Listed(list, f) BY <1>1 DEF Without
<1>2. CASE Listed(list, f)
  <2> DEFINE i == CHOOSE i \in DOMAIN list : list[i].fn = f
             new == Unlink(list, i)
  <2>1. i \in DOMAIN list /\ list[i].fn = f BY <1>2 DEF Listed
  <2>2. Without(list, f) = new BY <1>2 DEF Without
  <2>3. new \in Seq(S) BY <2>1, UnlinkType
  <2>4. PICK k \in DOMAIN list : k = i BY <2>1
  <2>5. DOMAIN list = 1 .. Len(list) /\ Len(list) \in Nat OBVIOUS
  <2>6. DOMAIN new = 1 .. Len(list) - 1 BY DEF Unlink
  <2>7. \A j \in 1 .. Len(list) - 1 : new[j] = IF j < k THEN list[j] ELSE list[j + 1]
    BY <2>4 DEF Unlink
  <2> DEFINE from(j) == IF j < k THEN j ELSE j + 1
  <2> HIDE DEF i, new
  <2>8. \A j \in DOMAIN new : from(j) \in DOMAIN list /\ new[j] = list[from(j)] /\ from(j) # k
    BY <2>5, <2>6, <2>7
  <2>9. \A j, l \in DOMAIN new : from(j) = from(l) => j = l BY <2>5, <2>6
  <2> HIDE DEF from
  <2>10. Single(new) BY <2>8, <2>9 DEF Single
  <2>11. ~Listed(new, f) BY <2>1, <2>4, <2>8 DEF Listed, Single
  <2>12. \A g : g # f /\ Listed(list, g) => Listed(new, g) BY <2>2, WithoutKeeps
  <2> QED BY <2>2, <2>3, <2>8, <2>10, <2>11, <2>12
<1> QED BY <1>1, <1>2

\* What is unlinked may have been there twice; nothing else goes.
LEMMA WithoutOnly ==
    ASSUME NEW S, NEW list \in Seq(S), NEW f
    PROVE  /\ Without(list, f) \in Seq(S)
           /\ \A g : Listed(Without(list, f), g) => Listed(list, g)
           /\ \A g : g # f /\ Listed(list, g) => Listed(Without(list, f), g)
<1>1. CASE ~Listed(list, f) BY <1>1 DEF Without
<1>2. CASE Listed(list, f)
  <2> DEFINE i == CHOOSE i \in DOMAIN list : list[i].fn = f
  <2>1. PICK k \in DOMAIN list : k = i BY <1>2 DEF Listed
  <2>2. Without(list, f) = Unlink(list, k) BY <1>2, <2>1 DEF Without
  <2>3. DOMAIN list = 1 .. Len(list) /\ Len(list) \in Nat OBVIOUS
  <2>4. \A j \in 1 .. Len(list) - 1 :
            \E l \in DOMAIN list : Unlink(list, k)[j] = list[l]
    BY <2>3 DEF Unlink
  <2>5. DOMAIN Unlink(list, k) = 1 .. Len(list) - 1 BY DEF Unlink
  <2>6. \A g : Listed(Without(list, f), g) => Listed(list, g)
    BY <2>2, <2>4, <2>5 DEF Listed
  <2> QED BY <2>6, WithoutType, WithoutKeeps
<1> QED BY <1>1, <1>2

\* Appending an item to a list without that function.
LEMMA AppendIs ==
    ASSUME NEW S, NEW list \in Seq(S), NEW item \in S, ~Listed(list, item.fn)
    PROVE  LET new == Append(list, item)
           IN /\ new \in Seq(S)
              /\ Single(list) => Single(new)
              /\ \A g : Listed(new, g) <=> Listed(list, g) \/ g = item.fn
              /\ \A j \in DOMAIN new : new[j] = item \/ \E i \in DOMAIN list : new[j] = list[i]
<1> DEFINE new == Append(list, item)
<1>1. /\ DOMAIN list = 1 .. Len(list) /\ Len(list) \in Nat
      /\ new \in Seq(S) /\ DOMAIN new = 1 .. Len(list) + 1
  OBVIOUS
<1>2. /\ \A i \in 1 .. Len(list) : new[i] = list[i]
      /\ new[Len(list) + 1] = item
  BY AppendProperties
<1> HIDE DEF new
<1>3. \A j \in DOMAIN new : \/ j \in DOMAIN list /\ new[j] = list[j]
                            \/ j = Len(list) + 1 /\ new[j] = item
  BY <1>1, <1>2
<1>4. \A i \in DOMAIN list : i \in DOMAIN new /\ new[i] = list[i] BY <1>1, <1>2
<1>5. Len(list) + 1 \in DOMAIN new BY <1>1
<1>6. \A g : Listed(new, g) <=> Listed(list, g) \/ g = item.fn
  BY <1>2, <1>3, <1>4, <1>5 DEF Listed
<1>7. Single(list) => Single(new) BY <1>3 DEF Single, Listed
<1> QED BY <1>1, <1>3, <1>6, <1>7 DEF new

-----------------------------------------------------------------------------
(* The operations of Conn. *)

\* A change that leaves the timers alone and registers nothing unearned.
LEMMA KeptFrom ==
    ASSUME NEW c, Kept(c), NEW d \in Conn, d.state = c.state, d.attempts = c.attempts,
           d.downs = c.downs, d.peer = c.peer, c.facts \subseteq d.facts,
           d.facts \cap {"success", "bind_result"} \subseteq c.facts,
           d.timed_handlers = c.timed_handlers,
           \A f : Registered(d, f) => Registered(c, f) \/ Earns(d, f),
           \A f : Listed(c.handlers, f) => Listed(d.handlers, f),
           c.id_handlers \subseteq d.id_handlers
    PROVE  Kept(d) /\ Follows(c, d, {})
<1>1. Paired(d)
  <2>1. \A t \in TimedFns : Awaited(c, t) => Awaited(d, t) BY DEF Awaited
  <2> QED BY <2>1 DEF Kept, Paired, Armed
<1>2. Earned(d)
  <2>1. \A f : Earns(c, f) => Earns(d, f) BY DEF Earns
  <2> QED BY <2>1 DEF Kept, Earned
<1> QED BY <1>1, <1>2 DEF Kept, Follows, Armed, Ready

\* d differs from c in nothing that Kept and Follows look at.
Same(c, d) ==
    /\ d \in Conn /\ d.state = c.state /\ d.attempts = c.attempts /\ d.downs = c.downs
    /\ d.peer = c.peer /\ d.facts = c.facts /\ d.authenticated = c.authenticated
    /\ d.timed_handlers = c.timed_handlers /\ d.handlers = c.handlers
    /\ d.id_handlers = c.id_handlers /\ d.open_handler = c.open_handler

LEMMA SameSound ==
    ASSUME NEW c, Sound(c), NEW d, Same(c, d), NEW T
    PROVE  Sound(d) /\ Quiet(c, d, T)
<1>1. Good(d) BY Frame DEF Sound, Same
<1>2. \A f : Registered(d, f) <=> Registered(c, f) BY DEF Registered, Same
<1>3. Kept(d) /\ Follows(c, d, {}) BY <1>2, KeptFrom DEF Sound, Same
<1>4. d.authenticated = c.authenticated BY DEF Same
<1> QED BY <1>1, <1>3, <1>4 DEF Sound, Quiet, Follows

LEMMA SendSame ==
    ASSUME NEW c \in Conn, NEW item \in Items
    PROVE  Same(c, Send(c, item))
<1> DEFINE d == [c EXCEPT !.send_queue = Append(@, item)]
<1>1. Append(c.send_queue, item) \in Seq(Items) BY DEF Conn
<1>2. Same(c, d) BY <1>1 DEF Conn, Same
<1>3. Same(c, c) BY DEF Same
<1> QED BY <1>2, <1>3 DEF Send

LEMMA SendSound ==
    ASSUME NEW c, Sound(c), NEW item \in Items, NEW T
    PROVE  Sound(Send(c, item)) /\ Quiet(c, Send(c, item), T)
BY SendSame, SameSound DEF Sound, Kept

LEMMA OpenStreamSound ==
    ASSUME NEW c, Sound(c), NEW T
    PROVE  Sound(OpenStream(c)) /\ Quiet(c, OpenStream(c), T)
BY SendSound DEF OpenStream, Items

LEMMA ParserResetSound ==
    ASSUME NEW c, Sound(c), NEW T
    PROVE  Sound(ParserReset(c)) /\ Quiet(c, ParserReset(c), T)
<1> DEFINE d == [c EXCEPT !.reset_parser = FALSE, !.parser = "start"]
<1>1. c \in Conn BY DEF Sound, Kept
<1>2. Same(c, d) /\ Same(c, c) BY <1>1 DEF Conn, Same
<1>3. Same(c, ParserReset(c)) BY <1>2 DEF ParserReset
<1> QED BY <1>3, SameSound

\* A timer may be armed when what it waits for is registered.
LEMMA AddTimedKept ==
    ASSUME NEW c, Kept(c), NEW f \in TimedFns, Awaited(c, f)
    PROVE  LET d == AddTimed(c, f)
           IN Kept(d) /\ Quiet(c, d, {f})
<1> DEFINE item == [fn |-> f, enabled |-> FALSE, age |-> 0]
           list == c.timed_handlers
           new  == Append(list, item)
           d    == [c EXCEPT !.timed_handlers = new]
<1>0. c \in Conn /\ list \in Seq(TimedItem) BY DEF Kept, Conn
<1>1. CASE Listed(list, f)
  <2>1. AddTimed(c, f) = c BY <1>1 DEF AddTimed
  <2> QED BY <2>1, FollowsWeaken
<1>2. CASE ~Listed(list, f)
  <2>1. item \in TimedItem /\ item.fn = f /\ item.enabled = FALSE BY DEF TimedItem
  <2> HIDE DEF item
  <2>2. /\ new \in Seq(TimedItem) /\ Single(new)
        /\ \A g : Listed(new, g) <=> Listed(list, g) \/ g = f
        /\ \A j \in DOMAIN new : new[j] = item \/ \E i \in DOMAIN list : new[j] = list[i]
    <3>1. Single(list) BY DEF Kept, Paired
    <3> QED BY <1>0, <1>2, <2>1, <3>1, AppendIs
  <2> HIDE DEF new
  <2>3. /\ d \in Conn /\ d.timed_handlers = new /\ d.state = c.state
        /\ d.attempts = c.attempts /\ d.downs = c.downs /\ d.peer = c.peer
        /\ d.facts = c.facts /\ d.handlers = c.handlers /\ d.id_handlers = c.id_handlers
        /\ d.open_handler = c.open_handler /\ d.authenticated = c.authenticated
    BY <1>0, <2>2 DEF Conn
  <2>4. AddTimed(c, f) = d BY <1>2 DEF AddTimed, new, item
  <2> HIDE DEF d
  <2>5. Paired(d)
    <3>1. \A t : Awaited(c, t) <=> Awaited(d, t) BY <2>3 DEF Awaited
    <3> QED BY <2>2, <2>3, <3>1 DEF Paired, Kept, Armed
  <2>6. Earned(d) BY <2>3 DEF Kept, Earned, Registered, Earns
  <2>7. Ready(d) => Ready(c) BY <2>1, <2>2, <2>3 DEF Ready
  <2> QED BY <2>2, <2>3, <2>4, <2>5, <2>6, <2>7 DEF Kept, Quiet, Follows, Armed
<1> QED BY <1>1, <1>2

LEMMA DeleteTimedKept ==
    ASSUME NEW c, Kept(c), NEW f, NEW T
    PROVE  LET d == DeleteTimed(c, f)
           IN /\ Kept(d) /\ Quiet(c, d, T) /\ ~Armed(d, f)
              /\ d.facts = c.facts /\ d.session_required = c.session_required
<1> DEFINE list == c.timed_handlers
           new  == Without(list, f)
           d    == [c EXCEPT !.timed_handlers = new]
<1>1. c \in Conn /\ list \in Seq(TimedItem) /\ Single(list) BY DEF Kept, Conn, Paired
<1>2. /\ new \in Seq(TimedItem) /\ Single(new) /\ ~Listed(new, f)
      /\ \A j \in DOMAIN new : \E i \in DOMAIN list : new[j] = list[i]
  BY <1>1, WithoutIs
<1>3. \A g : Listed(new, g) => Listed(list, g) BY <1>2 DEF Listed
<1> HIDE DEF new
<1>4. /\ d \in Conn /\ d.timed_handlers = new /\ d.state = c.state
      /\ d.attempts = c.attempts /\ d.downs = c.downs /\ d.peer = c.peer
      /\ d.facts = c.facts /\ d.handlers = c.handlers /\ d.id_handlers = c.id_handlers
      /\ d.open_handler = c.open_handler /\ d.authenticated = c.authenticated
      /\ d.session_required = c.session_required
  BY <1>1, <1>2 DEF Conn
<1>5. DeleteTimed(c, f) = d BY DEF DeleteTimed, new
<1> HIDE DEF d
<1>6. Paired(d)
  <2>1. \A t : Awaited(c, t) <=> Awaited(d, t) BY <1>4 DEF Awaited
  <2> QED BY <1>2, <1>3, <1>4, <2>1 DEF Paired, Kept, Armed
<1>7. Earned(d) BY <1>4 DEF Kept, Earned, Registered, Earns
<1>8. Ready(d) => Ready(c) BY <1>2, <1>4 DEF Ready
<1> QED BY <1>2, <1>3, <1>4, <1>5, <1>6, <1>7, <1>8 DEF Kept, Quiet, Follows, Armed

LEMMA DeleteTimedSound ==
    ASSUME NEW c, Sound(c), NEW f, f # "_disconnect_cleanup", NEW T
    PROVE  LET d == DeleteTimed(c, f)
           IN /\ Sound(d) /\ Quiet(c, d, T) /\ ~Armed(d, f)
              /\ d.facts = c.facts /\ d.session_required = c.session_required
BY DeleteTimedKept, DeleteTimedGood DEF Sound

LEMMA AddTimedSound ==
    ASSUME NEW c, Sound(c), NEW f \in TimedFns, Awaited(c, f)
    PROVE  Sound(AddTimed(c, f)) /\ Quiet(c, AddTimed(c, f), {f})
BY AddTimedKept, AddTimedGood DEF Sound

\* A change of the items of the list that keeps their functions.
LEMMA RetimedKept ==
    ASSUME NEW c, Kept(c), NEW new \in Seq(TimedItem), DOMAIN new = DOMAIN c.timed_handlers,
           \A i \in DOMAIN new : new[i].fn = c.timed_handlers[i].fn
    PROVE  LET d == [c EXCEPT !.timed_handlers = new]
           IN /\ Kept(d) /\ d.state = c.state /\ d.attempts = c.attempts
              /\ d.downs = c.downs /\ d.peer = c.peer /\ d.facts = c.facts
              /\ d.authenticated = c.authenticated /\ d.timed_handlers = new
              /\ \A t : Armed(d, t) <=> Armed(c, t)
<1> DEFINE list == c.timed_handlers
           d    == [c EXCEPT !.timed_handlers = new]
<1>1. c \in Conn /\ list \in Seq(TimedItem) BY DEF Kept, Conn
<1>2. /\ d \in Conn /\ d.timed_handlers = new /\ d.state = c.state
      /\ d.attempts = c.attempts /\ d.downs = c.downs /\ d.peer = c.peer
      /\ d.facts = c.facts /\ d.handlers = c.handlers /\ d.id_handlers = c.id_handlers
      /\ d.open_handler = c.open_handler /\ d.authenticated = c.authenticated
  BY <1>1 DEF Conn
<1> HIDE DEF d
<1>3. \A t : Armed(d, t) <=> Armed(c, t) BY <1>2 DEF Armed, Listed
<1>4. Paired(d)
  <2>1. \A t : Awaited(c, t) <=> Awaited(d, t) BY <1>2 DEF Awaited
  <2>2. Single(new) BY DEF Kept, Paired, Single
  <2> QED BY <1>2, <1>3, <2>1, <2>2 DEF Paired, Kept
<1>5. Earned(d) BY <1>2 DEF Kept, Earned, Registered, Earns
<1> QED BY <1>2, <1>3, <1>4, <1>5 DEF Kept, d

LEMMA ResetTimedSound ==
    ASSUME NEW c, Sound(c), NEW T
    PROVE  Sound(ResetTimed(c)) /\ Quiet(c, ResetTimed(c), T)
<1> DEFINE list == c.timed_handlers
           new  == [i \in DOMAIN list |-> [list[i] EXCEPT !.age = 0]]
           d    == [c EXCEPT !.timed_handlers = new]
<1>1. Kept(c) /\ list \in Seq(TimedItem) BY DEF Sound, Kept, Conn
<1>2. DOMAIN list = 1 .. Len(list) /\ Len(list) \in Nat BY <1>1
<1>3. ASSUME NEW i \in DOMAIN list
      PROVE  /\ [list[i] EXCEPT !.age = 0] \in TimedItem
             /\ [list[i] EXCEPT !.age = 0].fn = list[i].fn
             /\ [list[i] EXCEPT !.age = 0].enabled = list[i].enabled
  <2>1. list[i] \in TimedItem BY <1>1
  <2> QED BY <2>1 DEF TimedItem
<1>4. new \in [1 .. Len(list) -> TimedItem] BY <1>2, <1>3
<1>5. new \in Seq(TimedItem) BY <1>2, <1>4, SeqDef
<1>6. /\ DOMAIN new = DOMAIN list
      /\ \A i \in DOMAIN new : new[i].fn = list[i].fn /\ new[i].enabled = list[i].enabled
  BY <1>3
<1>7. ResetTimed(c) = d BY DEF ResetTimed
<1> HIDE DEF new
<1>8. /\ Kept(d) /\ d.state = c.state /\ d.attempts = c.attempts
      /\ d.downs = c.downs /\ d.peer = c.peer /\ d.facts = c.facts
      /\ d.authenticated = c.authenticated /\ d.timed_handlers = new
      /\ \A t : Armed(d, t) <=> Armed(c, t)
  BY <1>1, <1>5, <1>6, RetimedKept
<1>9. Ready(d) => Ready(c) BY <1>6, <1>8 DEF Ready
<1>10. Good(ResetTimed(c)) BY ResetTimedGood DEF Sound
<1> QED BY <1>7, <1>8, <1>9, <1>10 DEF Sound, Quiet, Follows

LEMMA AddIdSound ==
    ASSUME NEW c, Sound(c), NEW f \in IdFns, Earns(c, f), NEW T
    PROVE  LET d == AddId(c, f)
           IN Sound(d) /\ Quiet(c, d, T) /\ f \in d.id_handlers
<1> DEFINE d == [c EXCEPT !.id_handlers = @ \cup {f}]
<1>1. c \in Conn BY DEF Sound, Kept
<1>2. /\ d \in Conn /\ d.timed_handlers = c.timed_handlers /\ d.state = c.state
      /\ d.attempts = c.attempts /\ d.downs = c.downs /\ d.peer = c.peer
      /\ d.facts = c.facts /\ d.handlers = c.handlers
      /\ d.open_handler = c.open_handler /\ d.authenticated = c.authenticated
      /\ d.id_handlers = c.id_handlers \cup {f}
  BY <1>1 DEF Conn
<1>3. AddId(c, f) = d BY DEF AddId
<1> HIDE DEF d
<1>4. \A g : Registered(d, g) => Registered(c, g) \/ Earns(d, g)
  BY <1>2 DEF Registered, Earns
<1>5. Kept(d) /\ Follows(c, d, {}) BY <1>2, <1>4, KeptFrom DEF Sound
<1> QED BY <1>2, <1>3, <1>5, AddIdGood, FollowsWeaken DEF Sound, Quiet

LEMMA AddHandlerSound ==
    ASSUME NEW c, Sound(c), NEW f \in HandlerFns, Earns(c, f), NEW T
    PROVE  LET d == AddHandler(c, f)
           IN Sound(d) /\ Quiet(c, d, T) /\ Listed(d.handlers, f) /\ d.facts = c.facts
<1> DEFINE item == [fn |-> f, enabled |-> FALSE]
           new  == Append(c.handlers, item)
           d    == [c EXCEPT !.handlers = new]
<1>1. c \in Conn /\ c.handlers \in Seq(HandlerItem) BY DEF Sound, Kept, Conn
<1>2. CASE Listed(c.handlers, f)
  <2>1. AddHandler(c, f) = c BY <1>2 DEF AddHandler
  <2> QED BY <1>2, <2>1, FollowsWeaken
<1>3. CASE ~Listed(c.handlers, f)
  <2>1. item \in HandlerItem /\ item.fn = f BY DEF HandlerItem
  <2> HIDE DEF item
  <2>2. /\ new \in Seq(HandlerItem)
        /\ \A g : Listed(new, g) <=> Listed(c.handlers, g) \/ g = f
    BY <1>1, <1>3, <2>1, AppendIs
  <2> HIDE DEF new
  <2>3. /\ d \in Conn /\ d.timed_handlers = c.timed_handlers /\ d.state = c.state
        /\ d.attempts = c.attempts /\ d.downs = c.downs /\ d.peer = c.peer
        /\ d.facts = c.facts /\ d.handlers = new
        /\ d.open_handler = c.open_handler /\ d.authenticated = c.authenticated
        /\ d.id_handlers = c.id_handlers
    BY <1>1, <2>2 DEF Conn
  <2>4. AddHandler(c, f) = d BY <1>3 DEF AddHandler, new, item
  <2> HIDE DEF d
  <2>5. \A g : Registered(d, g) => Registered(c, g) \/ Earns(d, g)
    BY <2>2, <2>3 DEF Registered, Earns
  <2>6. Kept(d) /\ Follows(c, d, {}) BY <2>2, <2>3, <2>5, KeptFrom DEF Sound
  <2> QED BY <2>2, <2>3, <2>4, <2>6, AddHandlerGood, FollowsWeaken DEF Sound, Quiet
<1> QED BY <1>2, <1>3

\* What a handler that is unlinked or dropped must have seen to: its timer is gone.
Unwatched(c, f) ==
    \A t \in TimedFns : Armed(c, t) =>
        /\ f = "_handle_features"      => t # "_handle_missing_features"
        /\ f = "_handle_features_sasl" => t # "_handle_missing_features_sasl"
        /\ f = "_handle_bind"          => t # "_handle_missing_bind"
        /\ f = "_handle_session"       => t # "_handle_missing_session"
        /\ f = "_handle_legacy"        => t # "_handle_missing_legacy"

LEMMA DropHandlerSound ==
    ASSUME NEW c, Sound(c), NEW f \in HandlerFns, Unwatched(c, f)
    PROVE  LET d == DropHandler(c, f)
           IN Sound(d) /\ Quiet(c, d, {})
<1> DEFINE d == [c EXCEPT !.handlers = Without(@, f)]
<1>1. c \in Conn /\ c.handlers \in Seq(HandlerItem) BY DEF Sound, Kept, Conn
<1>2. /\ Without(c.handlers, f) \in Seq(HandlerItem)
      /\ \A g : Listed(Without(c.handlers, f), g) => Listed(c.handlers, g)
      /\ \A g : g # f /\ Listed(c.handlers, g) => Listed(Without(c.handlers, f), g)
  BY <1>1, WithoutOnly
<1>3. /\ d \in Conn /\ d.timed_handlers = c.timed_handlers /\ d.state = c.state
      /\ d.attempts = c.attempts /\ d.downs = c.downs /\ d.peer = c.peer
      /\ d.facts = c.facts /\ d.handlers = Without(c.handlers, f)
      /\ d.open_handler = c.open_handler /\ d.authenticated = c.authenticated
      /\ d.id_handlers = c.id_handlers
  BY <1>1, <1>2 DEF Conn
<1>4. DropHandler(c, f) = d BY DEF DropHandler
<1> HIDE DEF d
<1>5. Paired(d)
  <2>1. \A t \in TimedFns : Armed(c, t) /\ Awaited(c, t) => Awaited(d, t)
    BY <1>2, <1>3 DEF Awaited, Unwatched
  <2> QED BY <1>3, <2>1 DEF Paired, Sound, Kept, Armed
<1>6. Earned(d) BY <1>2, <1>3 DEF Sound, Kept, Earned, Registered, Earns
<1> QED BY <1>3, <1>4, <1>5, <1>6, DropHandlerGood DEF Sound, Kept, Quiet, Follows, Armed, Ready

LEMMA DropIdSound ==
    ASSUME NEW c, Sound(c), NEW f \in IdFns, Unwatched(c, f)
    PROVE  LET d == [c EXCEPT !.id_handlers = @ \ {f}]
           IN Sound(d) /\ Quiet(c, d, {})
<1> DEFINE d == [c EXCEPT !.id_handlers = @ \ {f}]
<1>1. c \in Conn BY DEF Sound, Kept
<1>2. /\ d \in Conn /\ d.timed_handlers = c.timed_handlers /\ d.state = c.state
      /\ d.attempts = c.attempts /\ d.downs = c.downs /\ d.peer = c.peer
      /\ d.facts = c.facts /\ d.handlers = c.handlers
      /\ d.open_handler = c.open_handler /\ d.authenticated = c.authenticated
      /\ d.id_handlers = c.id_handlers \ {f}
  BY <1>1 DEF Conn
<1> HIDE DEF d
<1>3. Paired(d)
  <2>1. \A t \in TimedFns : Armed(c, t) /\ Awaited(c, t) => Awaited(d, t)
    BY <1>2 DEF Awaited, Unwatched
  <2> QED BY <1>2, <2>1 DEF Paired, Sound, Kept, Armed
<1>4. Earned(d) BY <1>2 DEF Sound, Kept, Earned, Registered, Earns
<1>5. Good(d) BY <1>2, Frame DEF Sound
<1> QED BY <1>2, <1>3, <1>4, <1>5 DEF Sound, Kept, Quiet, Follows, Armed, Ready, d

LEMMA PrepareResetSound ==
    ASSUME NEW c, Sound(c), NEW open \in OpenFns, Earns(c, open), NEW T
    PROVE  Sound(PrepareReset(c, open)) /\ Quiet(c, PrepareReset(c, open), T)
<1> DEFINE d == [c EXCEPT !.reset_parser = TRUE, !.open_handler = open]
<1>1. c \in Conn BY DEF Sound, Kept
<1>2. /\ d \in Conn /\ d.timed_handlers = c.timed_handlers /\ d.state = c.state
      /\ d.attempts = c.attempts /\ d.downs = c.downs /\ d.peer = c.peer
      /\ d.facts = c.facts /\ d.handlers = c.handlers
      /\ d.open_handler = open /\ d.authenticated = c.authenticated
      /\ d.id_handlers = c.id_handlers
  BY <1>1 DEF Conn
<1>3. PrepareReset(c, open) = d BY DEF PrepareReset
<1> HIDE DEF d
<1>4. \A g : Registered(d, g) => Registered(c, g) \/ Earns(d, g)
  BY <1>2 DEF Registered, Earns
<1>5. Kept(d) /\ Follows(c, d, {}) BY <1>2, <1>4, KeptFrom DEF Sound
<1> QED BY <1>2, <1>3, <1>5, PrepareResetGood, FollowsWeaken DEF Sound, Quiet

\* A new attempt inherits the lists of the one before and none of its history.
LEMMA ConnectClientSound ==
    ASSUME NEW c, Kept(c)
    PROVE  LET d == ConnectClient(c)
           IN /\ Sound(d) /\ d.state = "CONNECTING" /\ d.attempts = c.attempts + 1
              /\ d.downs = 0 /\ d.peer = NewPeer /\ d.authenticated = c.authenticated
              /\ d.timed_handlers = c.timed_handlers
<1> DEFINE d == ConnectClient(c)
<1>1. c \in Conn /\ c.attempts \in Nat BY DEF Kept, Conn
<1>2. Good(d) /\ d \in Conn BY <1>1, ConnectClientGood DEF Good
<1>3. /\ d.timed_handlers = c.timed_handlers /\ d.state = "CONNECTING"
      /\ d.attempts = c.attempts + 1 /\ d.downs = 0 /\ d.peer = NewPeer
      /\ d.facts = {} /\ d.handlers = c.handlers
      /\ d.open_handler = c.open_handler /\ d.authenticated = c.authenticated
      /\ d.id_handlers = c.id_handlers
  BY <1>1 DEF Conn, ConnectClient
<1> HIDE DEF d
<1>4. Paired(d)
  <2>1. \A t : Awaited(c, t) <=> Awaited(d, t) BY <1>3 DEF Awaited
  <2> QED BY <1>3, <2>1 DEF Paired, Kept, Armed
<1>5. Earned(d)
  <2>1. d.attempts # 0 BY <1>1, <1>3
  <2>2. d.attempts <= 1 => c.attempts = 0 BY <1>1, <1>3
  <2>3. ASSUME NEW f, Registered(d, f) PROVE Earns(d, f)
    <3>1. Registered(c, f) BY <1>3, <2>3 DEF Registered
    <3>2. c.attempts = 0 => Earns(c, f) /\ "success" \notin c.facts
      BY <3>1 DEF Kept, Earned
    <3> QED BY <1>1, <2>2, <3>2 DEF Earns
  <2> QED BY <2>1, <2>3 DEF Earned
<1> QED BY <1>2, <1>3, <1>4, <1>5 DEF Sound, Kept, d

\* What conn_disconnect makes of c: the attempt has ended, or the next one has begun.
Ends(c, d) ==
    /\ d.authenticated = c.authenticated /\ d.timed_handlers = c.timed_handlers
    /\ \/ /\ d.state = "DISCONNECTED" /\ d.attempts = c.attempts
          /\ d.downs = c.downs + 1 /\ d.peer = c.peer /\ d.facts = c.facts
       \/ /\ d.state = "CONNECTING" /\ d.attempts = c.attempts + 1
          /\ d.downs = 0 /\ d.peer = NewPeer

LEMMA ConnDisconnectSound ==
    ASSUME NEW c, Kept(c), NEW env
    PROVE  Sound(ConnDisconnect(c, env)) /\ Ends(c, ConnDisconnect(c, env))
<1> DEFINE d == [c EXCEPT !.state = "DISCONNECTED", !.tls = FALSE, !.downs = @ + 1]
<1>1. c \in Conn /\ c.downs + 1 \in Nat BY DEF Kept, Conn
<1>2. /\ d \in Conn /\ d.timed_handlers = c.timed_handlers /\ d.state = "DISCONNECTED"
      /\ d.attempts = c.attempts /\ d.downs = c.downs + 1 /\ d.peer = c.peer
      /\ d.facts = c.facts /\ d.handlers = c.handlers
      /\ d.open_handler = c.open_handler /\ d.authenticated = c.authenticated
      /\ d.id_handlers = c.id_handlers
  BY <1>1 DEF Conn, States
<1>3. ConnDisconnect(c, env) \in {d, ConnectClient(d)} BY DEF ConnDisconnect
<1> HIDE DEF d
<1>4. Paired(d)
  <2>1. \A t : Awaited(c, t) <=> Awaited(d, t) BY <1>2 DEF Awaited
  <2> QED BY <1>2, <2>1 DEF Paired, Kept, Armed
<1>5. Earned(d) BY <1>2 DEF Kept, Earned, Registered, Earns
<1>6. Kept(d) /\ Good(d) BY <1>2, <1>4, <1>5 DEF Kept, Good
<1>7. Sound(d) /\ Ends(c, d) BY <1>2, <1>6 DEF Sound, Ends
<1>8. Sound(ConnectClient(d)) /\ Ends(c, ConnectClient(d))
  BY <1>2, <1>6, ConnectClientSound DEF Ends
<1> QED BY <1>3, <1>7, <1>8

LEMMA XmppDisconnectSound ==
    ASSUME NEW c, Sound(c)
    PROVE  /\ Sound(XmppDisconnect(c))
           /\ Quiet(c, XmppDisconnect(c), {"_disconnect_cleanup"})
           /\ Quiet(c, XmppDisconnect(c), AuthTimers)
<1> DEFINE s == Send(c, "close")
           d == [s EXCEPT !.facts = @ \cup {"closing"}]
           cleanup == "_disconnect_cleanup"
           x == XmppDisconnect(c)
<1>1. cleanup \in TimedFns /\ "close" \in Items BY DEF TimedFns, Items
<1>2. c \in Conn /\ c.state \in States /\ Good(c) BY DEF Sound, Kept, Conn
<1>3. \A e : Awaited(e, cleanup) BY DEF Awaited
<1>4. Kept(x) /\ Quiet(c, x, {cleanup})
  <2>1. CASE c.state = "DISCONNECTED"
    <3>1. x = c BY <2>1 DEF XmppDisconnect
    <3> QED BY <3>1, FollowsWeaken DEF Sound
  <2>2. CASE c.state = "CONNECTING"
    <3>1. x = AddTimed(c, cleanup) BY <2>2 DEF XmppDisconnect
    <3>2. Kept(AddTimed(c, cleanup)) /\ Quiet(c, AddTimed(c, cleanup), {cleanup})
      BY <1>1, <1>3, AddTimedKept DEF Sound
    <3> QED BY <3>1, <3>2
  <2>3. CASE c.state = "CONNECTED"
    <3>1. Sound(s) /\ Quiet(c, s, {cleanup}) /\ s \in Conn
      BY <1>1, SendSound DEF Sound, Kept
    <3> HIDE DEF s
    <3>2. s.facts \cup {"closing"} \in SUBSET Facts BY <3>1 DEF Conn, Facts
    <3>3. /\ d \in Conn /\ d.timed_handlers = s.timed_handlers /\ d.state = s.state
          /\ d.attempts = s.attempts /\ d.downs = s.downs /\ d.peer = s.peer
          /\ d.facts = s.facts \cup {"closing"} /\ d.handlers = s.handlers
          /\ d.open_handler = s.open_handler /\ d.authenticated = s.authenticated
          /\ d.id_handlers = s.id_handlers
      BY <3>1, <3>2 DEF Conn
    <3> HIDE DEF d
    <3>4. Kept(d) /\ Follows(s, d, {})
      <4>1. \A f : Registered(d, f) => Registered(s, f) BY <3>3 DEF Registered
      <4> QED BY <3>1, <3>3, <4>1, KeptFrom DEF Sound
    <3>5. Quiet(s, d, {cleanup}) BY <3>3, <3>4 DEF Quiet, Follows
    <3>6. LET a == AddTimed(d, cleanup) IN Kept(a) /\ Quiet(d, a, {cleanup})
      BY <1>1, <1>3, <3>4, AddTimedKept
    <3>7. x = AddTimed(d, cleanup) BY <2>3 DEF XmppDisconnect, d, s
    <3>8. Quiet(c, d, {cleanup}) BY <3>1, <3>5, FollowsTrans
    <3>9. Quiet(c, AddTimed(d, cleanup), {cleanup}) BY <3>6, <3>8, FollowsTrans
    <3> QED BY <3>6, <3>7, <3>9
  <2> QED BY <1>2, <2>1, <2>2, <2>3 DEF States
<1>5. Sound(x) BY <1>2, <1>4, XmppDisconnectGood DEF Sound
<1> HIDE DEF x
<1>6. Quiet(c, x, AuthTimers) BY <1>4, FollowsWeaken DEF AuthTimers
<1> QED BY <1>4, <1>5, <1>6 DEF x

\* The timer that forced the end may go before the end.
LEMMA ConnDisconnectCleanSound ==
    ASSUME NEW c, Kept(c), NEW env
    PROVE  LET d == ConnDisconnectClean(c, env)
           IN /\ Sound(d)
              /\ \E e : /\ Kept(e) /\ Quiet(c, e, {}) /\ Ends(e, d)
BY DeleteTimedKept, ConnDisconnectSound DEF ConnDisconnectClean

-----------------------------------------------------------------------------
(* The callbacks of Auth. *)

\* d is what a callback that does not end the connection leaves of c.
Leaves(c, d) == Sound(d) /\ Quiet(c, d, AuthTimers)

LEMMA LeavesTrans ==
    ASSUME NEW c, NEW d, NEW e, Quiet(c, d, AuthTimers), Leaves(d, e)
    PROVE  Leaves(c, e)
BY FollowsTrans DEF Leaves

\* What anybody may register.
LEMMA EarnsFree ==
    ASSUME NEW c, NEW f, f \notin {"_handle_open_sasl", "_handle_features_sasl",
                                   "_handle_bind", "_handle_session"}
    PROVE  Earns(c, f)
BY DEF Earns

LEMMA StartSaslSound ==
    ASSUME NEW c, Sound(c), NEW mech \in Mechanisms,
           NEW handler \in {"_handle_sasl_result", "_handle_digestmd5_challenge"}, NEW env
    PROVE  Leaves(c, StartSasl(c, mech, handler, env))
<1> DEFINE h == AddHandler(c, handler)
           s == Send(h, mech)
           d == [s EXCEPT !.sasl_support = @ \ {mech}]
<1>1. handler \in HandlerFns /\ mech \in Items BY DEF HandlerFns, Items
<1>2. Sound(h) /\ Quiet(c, h, AuthTimers) BY <1>1, EarnsFree, AddHandlerSound
<1> HIDE DEF h
<1>3. Sound(s) /\ Quiet(h, s, AuthTimers) /\ s \in Conn BY <1>1, <1>2, SendSound DEF Sound, Kept
<1> HIDE DEF s
<1>4. s.sasl_support \ {mech} \in SUBSET Mechanisms BY <1>3 DEF Conn
<1>5. Same(s, d) BY <1>3, <1>4 DEF Conn, Same
<1> HIDE DEF d
<1>6. Sound(d) /\ Quiet(s, d, AuthTimers) BY <1>3, <1>5, SameSound
<1>7. Leaves(c, d) BY <1>2, <1>3, <1>6, FollowsTrans DEF Leaves
<1>8. Leaves(c, XmppDisconnect(c)) BY XmppDisconnectSound DEF Leaves
<1>9. StartSasl(c, mech, handler, env) \in {d, XmppDisconnect(c)} BY DEF StartSasl, d, s, h
<1> QED BY <1>7, <1>8, <1>9

LEMMA StartTlsSound ==
    ASSUME NEW c, Sound(c), NEW env
    PROVE  Leaves(c, StartTls(c, env))
<1> DEFINE h == AddHandler(c, "_handle_proceedtls_default")
           s == Send(h, "starttls")
           d == [s EXCEPT !.tls_support = FALSE]
<1>1. "_handle_proceedtls_default" \in HandlerFns /\ "starttls" \in Items
  BY DEF HandlerFns, Items
<1>2. Sound(h) /\ Quiet(c, h, AuthTimers) BY <1>1, EarnsFree, AddHandlerSound
<1> HIDE DEF h
<1>3. Sound(s) /\ Quiet(h, s, AuthTimers) /\ s \in Conn BY <1>1, <1>2, SendSound DEF Sound, Kept
<1> HIDE DEF s
<1>4. Same(s, d) BY <1>3 DEF Conn, Same
<1> HIDE DEF d
<1>5. Sound(d) /\ Quiet(s, d, AuthTimers) BY <1>3, <1>4, SameSound
<1>6. Leaves(c, d) BY <1>2, <1>3, <1>5, FollowsTrans DEF Leaves
<1>7. Leaves(c, XmppDisconnect(c)) BY XmppDisconnectSound DEF Leaves
<1>8. StartTls(c, env) \in {d, XmppDisconnect(c)} BY DEF StartTls, d, s, h
<1> QED BY <1>6, <1>7, <1>8

LEMMA RequestSound ==
    ASSUME NEW c, Sound(c), NEW handler \in IdFns, Earns(c, handler), NEW timer \in TimedFns,
           \A d : handler \in d.id_handlers => Awaited(d, timer), NEW item \in Items, NEW env
    PROVE  LET d == Request(c, handler, timer, item, env)
           IN Sound(d) /\ Quiet(c, d, AuthTimers \cup {timer})
<1> DEFINE T == AuthTimers \cup {timer}
           h == AddId(c, handler)
           a == AddTimed(h, timer)
<1>1. Sound(h) /\ Quiet(c, h, T) /\ handler \in h.id_handlers BY AddIdSound
<1> HIDE DEF h
<1>2. Sound(a) /\ Quiet(h, a, {timer}) BY <1>1, AddTimedSound
<1>3. Quiet(c, a, T) BY <1>1, <1>2, FollowsTrans
<1> HIDE DEF a
<1>4. Sound(Send(a, item)) /\ Quiet(a, Send(a, item), T) BY <1>2, SendSound
<1>5. Sound(XmppDisconnect(a)) /\ Quiet(a, XmppDisconnect(a), AuthTimers)
  BY <1>2, XmppDisconnectSound
<1>6. Quiet(c, Send(a, item), T) /\ Quiet(c, XmppDisconnect(a), T)
  BY <1>3, <1>4, <1>5, FollowsTrans
<1>7. Request(c, handler, timer, item, env) \in {Send(a, item), XmppDisconnect(a)}
  BY DEF Request, a, h
<1> QED BY <1>4, <1>5, <1>6, <1>7

LEMMA StartLegacySound ==
    ASSUME NEW c, Sound(c), NEW env
    PROVE  Leaves(c, StartLegacy(c, env))
<1> DEFINE h == AddId(c, "_handle_legacy")
           a == AddTimed(h, "_handle_missing_legacy")
<1>1. /\ "_handle_legacy" \in IdFns /\ "_handle_missing_legacy" \in TimedFns
      /\ "legacy" \in Items /\ {"_handle_missing_legacy"} \subseteq AuthTimers
  BY DEF IdFns, TimedFns, Items, AuthTimers
<1>2. Sound(h) /\ Quiet(c, h, AuthTimers) /\ "_handle_legacy" \in h.id_handlers
  BY <1>1, EarnsFree, AddIdSound
<1> HIDE DEF h
<1>3. Awaited(h, "_handle_missing_legacy") BY <1>2 DEF Awaited
<1>4. Sound(a) /\ Quiet(h, a, {"_handle_missing_legacy"}) BY <1>1, <1>2, <1>3, AddTimedSound
<1>5. Quiet(c, a, AuthTimers) BY <1>1, <1>2, <1>4, FollowsTrans
<1> HIDE DEF a
<1>6. Leaves(c, Send(a, "legacy")) BY <1>1, <1>4, <1>5, SendSound, FollowsTrans DEF Leaves
<1>7. Leaves(c, XmppDisconnect(c)) BY XmppDisconnectSound DEF Leaves
<1>8. StartLegacy(c, env) \in {Send(a, "legacy"), XmppDisconnect(c)}
  BY DEF StartLegacy, a, h
<1> QED BY <1>6, <1>7, <1>8

LEMMA AuthSound ==
    ASSUME NEW c, Sound(c), NEW env
    PROVE  Leaves(c, Auth(c, env))
<1> DEFINE d == [c EXCEPT !.tls_support = FALSE]
<1>1. c \in Conn BY DEF Sound, Kept
<1>2. Same(c, d) BY <1>1 DEF Conn, Same
<1>3. Sound(d) /\ Quiet(c, d, AuthTimers) BY <1>2, SameSound
<1> HIDE DEF d
<1>4. {"PLAIN", "DIGEST-MD5", "ANONYMOUS"} \subseteq Mechanisms BY DEF Mechanisms
<1>5. /\ Leaves(d, StartSasl(d, "ANONYMOUS", "_handle_sasl_result", env))
      /\ Leaves(d, StartSasl(d, "DIGEST-MD5", "_handle_digestmd5_challenge", env))
      /\ Leaves(d, StartSasl(d, "PLAIN", "_handle_sasl_result", env))
  BY <1>3, <1>4, StartSaslSound
<1>6. Leaves(d, XmppDisconnect(d)) /\ Leaves(d, StartLegacy(d, env))
  BY <1>3, XmppDisconnectSound, StartLegacySound DEF Leaves
<1>7. Leaves(d, AuthInClear(d, env)) BY <1>5, <1>6 DEF AuthInClear
<1>8. Leaves(c, AuthInClear(d, env)) BY <1>3, <1>7, LeavesTrans
<1>9. Auth(c, env) \in {StartTls(c, env), AuthInClear(d, env)} BY DEF Auth, d
<1> QED BY <1>8, <1>9, StartTlsSound

\* The handlers an opened stream may add timers for.
OpenTimers == {"_handle_missing_features", "_handle_missing_features_sasl"}

LEMMA CallOpenHandlerSound ==
    ASSUME NEW c, Sound(c)
    PROVE  LET d == CallOpenHandler(c)
           IN Sound(d) /\ Quiet(c, d, OpenTimers)
<1>0. /\ {"_handle_error", "_handle_features", "_handle_features_sasl"} \subseteq HandlerFns
      /\ {"_handle_missing_features", "_handle_missing_features_sasl"} \subseteq TimedFns
      /\ {"_handle_missing_features"} \subseteq OpenTimers
      /\ {"_handle_missing_features_sasl"} \subseteq OpenTimers
  BY DEF HandlerFns, TimedFns, OpenTimers
<1>1. CASE c.open_handler = "auth_handle_open"
  <2> DEFINE r == ResetTimed(c)
             e == AddHandler(r, "_handle_error")
             f == AddHandler(e, "_handle_features")
             a == AddTimed(f, "_handle_missing_features")
  <2>1. Sound(r) /\ Quiet(c, r, OpenTimers) BY ResetTimedSound
  <2> HIDE DEF r
  <2>2. Sound(e) /\ Quiet(r, e, OpenTimers) BY <1>0, <2>1, EarnsFree, AddHandlerSound
  <2> HIDE DEF e
  <2>3. Sound(f) /\ Quiet(e, f, OpenTimers) /\ Listed(f.handlers, "_handle_features")
    BY <1>0, <2>2, EarnsFree, AddHandlerSound
  <2> HIDE DEF f
  <2>4. Awaited(f, "_handle_missing_features") BY <2>3 DEF Awaited
  <2>5. Sound(a) /\ Quiet(f, a, {"_handle_missing_features"})
    BY <1>0, <2>3, <2>4, AddTimedSound
  <2>6. Quiet(c, f, OpenTimers) BY <2>1, <2>2, <2>3, FollowsTrans
  <2>7. Quiet(c, a, OpenTimers) BY <1>0, <2>5, <2>6, FollowsTrans
  <2>8. CallOpenHandler(c) = a BY <1>1 DEF CallOpenHandler, auth_handle_open, a, f, e, r
  <2> QED BY <2>5, <2>7, <2>8
<1>2. CASE c.open_handler # "auth_handle_open"
  <2> DEFINE f == AddHandler(c, "_handle_features_sasl")
             a == AddTimed(f, "_handle_missing_features_sasl")
  <2>1. c.open_handler = "_handle_open_sasl" BY <1>2 DEF Sound, Kept, Conn, OpenFns
  <2>2. Earns(c, "_handle_open_sasl") BY <2>1 DEF Sound, Kept, Earned, Registered
  <2>3. Earns(c, "_handle_features_sasl") BY <2>2 DEF Earns
  <2>4. Sound(f) /\ Quiet(c, f, OpenTimers) /\ Listed(f.handlers, "_handle_features_sasl")
    BY <1>0, <2>3, AddHandlerSound
  <2> HIDE DEF f
  <2>5. Awaited(f, "_handle_missing_features_sasl") BY <2>4 DEF Awaited
  <2>6. Sound(a) /\ Quiet(f, a, {"_handle_missing_features_sasl"})
    BY <1>0, <2>4, <2>5, AddTimedSound
  <2>7. Quiet(c, a, OpenTimers) BY <1>0, <2>4, <2>6, FollowsTrans
  <2>8. CallOpenHandler(c) = a BY <1>2 DEF CallOpenHandler, _handle_open_sasl, a, f
  <2> QED BY <2>6, <2>7, <2>8
<1> QED BY <1>1, <1>2

\* The stream opens on the connection, or on what is left of it when its root is bad.
LEMMA StreamStartSound ==
    ASSUME NEW c, Sound(c), NEW root \in Roots, NEW env
    PROVE  LET d == _handle_stream_start(c, root, env)
           IN /\ Sound(d)
              /\ \E e, b : /\ Kept(e) /\ Quiet(c, e, {})
                           /\ \/ b = e
                              \/ root # "stream" /\ Ends(e, b)
                           /\ Quiet(b, d, OpenTimers)
<1> DEFINE opened == [c EXCEPT !.parser = "open"]
           id == CASE root = "stream"      -> "set"
                   [] root = "other"       -> opened.stream_id
                   [] root = "stream_noid" ->
                        IF opened.stream_id = "null" THEN opened.stream_id ELSE "freed"
           named == [opened EXCEPT !.stream_id = id]
           bad == root = "other" \/ named.stream_id = "null"
<1>1. c \in Conn BY DEF Sound, Kept
<1>2. opened \in Conn /\ Same(c, opened) BY <1>1 DEF Conn, Same
<1> HIDE DEF opened
<1>3. id \in {"null", "set", "freed"} /\ (root = "stream" => id = "set")
  BY <1>2 DEF Conn, Roots
<1> HIDE DEF id
<1>4. Same(opened, named) /\ named.stream_id = id BY <1>2, <1>3 DEF Conn, Same
<1> HIDE DEF named
<1>5. Same(c, named) BY <1>2, <1>4 DEF Same
<1>6. Sound(named) /\ Quiet(c, named, {}) BY <1>5, SameSound
<1>7. _handle_stream_start(c, root, env)
        = CallOpenHandler(IF bad THEN ConnDisconnect(named, env) ELSE named)
  BY DEF _handle_stream_start, named, id, opened
<1>8. CASE bad
  <2>1. root # "stream" BY <1>3, <1>4, <1>8
  <2>2. Sound(ConnDisconnect(named, env)) /\ Ends(named, ConnDisconnect(named, env))
    BY <1>6, ConnDisconnectSound DEF Sound
  <2> QED BY <1>6, <1>7, <1>8, <2>1, <2>2, CallOpenHandlerSound DEF Sound
<1>9. CASE ~bad
  BY <1>6, <1>7, <1>9, CallOpenHandlerSound DEF Sound
<1> QED BY <1>8, <1>9

LEMMA NotifyConnectSound ==
    ASSUME NEW c, Sound(c), NEW env
    PROVE  LET d == NotifyConnect(c, env)
           IN Sound(d) /\ Follows(c, d, {"_disconnect_cleanup"})
<1> DEFINE up == [c EXCEPT !.authenticated = TRUE, !.ups = @ + 1]
<1>1. c \in Conn /\ Good(c) /\ c.ups + 1 \in Nat BY DEF Sound, Kept, Conn
<1>2. /\ up \in Conn /\ up.timed_handlers = c.timed_handlers /\ up.state = c.state
      /\ up.attempts = c.attempts /\ up.downs = c.downs /\ up.peer = c.peer
      /\ up.facts = c.facts /\ up.handlers = c.handlers
      /\ up.open_handler = c.open_handler /\ up.id_handlers = c.id_handlers
  BY <1>1 DEF Conn
<1> HIDE DEF up
<1>3. \A f : Registered(up, f) => Registered(c, f) BY <1>2 DEF Registered
<1>4. Kept(up) /\ Follows(c, up, {}) BY <1>2, <1>3, KeptFrom DEF Sound
<1>5. Good(up) BY <1>1, <1>2, Frame
<1>6. Sound(up) /\ Follows(c, up, {"_disconnect_cleanup"}) BY <1>4, <1>5, FollowsWeaken DEF Sound
<1>7. Sound(XmppDisconnect(up)) /\ Follows(up, XmppDisconnect(up), {"_disconnect_cleanup"})
  BY <1>6, XmppDisconnectSound DEF Quiet
<1>8. Follows(c, XmppDisconnect(up), {"_disconnect_cleanup"}) BY <1>6, <1>7, FollowsTrans
<1>9. NotifyConnect(c, env) \in {up, XmppDisconnect(up)} BY DEF NotifyConnect, up
<1> QED BY <1>6, <1>7, <1>8, <1>9

LEMMA HandleFeaturesSound ==
    ASSUME NEW c, Sound(c), NEW s, NEW env
    PROVE  LET d == _handle_features(c, s, env)
           IN Leaves(c, d) /\ ~Armed(d, "_handle_missing_features")
<1> DEFINE e == DeleteTimed(c, "_handle_missing_features")
           t == IF c.secured THEN e.tls_support
                ELSE ~c.tls_disabled /\ (e.tls_support \/ "starttls" \in s.offers)
           m == e.sasl_support \cup (s.offers \cap Mechanisms)
           heard == [e EXCEPT !.tls_support = t, !.sasl_support = m]
<1>1. /\ Sound(e) /\ Quiet(c, e, AuthTimers) /\ ~Armed(e, "_handle_missing_features")
      /\ e \in Conn
  BY DeleteTimedSound DEF Sound, Kept
<1> HIDE DEF e
<1>2. t \in BOOLEAN
  <2>1. e.tls_support \in BOOLEAN BY <1>1 DEF Conn
  <2> QED BY <2>1
<1>3. m \in SUBSET Mechanisms
  <2>1. e.sasl_support \in SUBSET Mechanisms BY <1>1 DEF Conn
  <2> QED BY <2>1
<1> HIDE DEF t, m
<1>4. Same(e, heard) BY <1>1, <1>2, <1>3 DEF Conn, Same
<1>5. _handle_features(c, s, env) = Auth(heard, env)
  BY DEF _handle_features, heard, t, m, e
<1> HIDE DEF heard
<1>6. Sound(heard) /\ Quiet(e, heard, AuthTimers) BY <1>1, <1>4, SameSound
<1>7. Leaves(heard, Auth(heard, env)) BY <1>6, AuthSound
<1>8. Leaves(e, Auth(heard, env)) BY <1>6, <1>7, LeavesTrans
<1>9. Leaves(c, Auth(heard, env)) BY <1>1, <1>8, LeavesTrans
<1>10. ~Armed(Auth(heard, env), "_handle_missing_features")
  BY <1>1, <1>8 DEF Leaves, Quiet, Follows, AuthTimers
<1> QED BY <1>5, <1>9, <1>10

LEMMA ProceedTlsSound ==
    ASSUME NEW c, Sound(c), NEW s, NEW env
    PROVE  Leaves(c, _handle_proceedtls_default(c, s, env))
<1> DEFINE up   == [c EXCEPT !.tls = TRUE, !.secured = TRUE]
           down == [c EXCEPT !.tls = FALSE]
           r == PrepareReset(up, "auth_handle_open")
<1>1. c \in Conn BY DEF Sound, Kept
<1>2. Same(c, up) /\ Same(c, down) BY <1>1 DEF Conn, Same
<1> HIDE DEF up, down
<1>3. /\ Sound(up) /\ Quiet(c, up, AuthTimers)
      /\ Sound(down) /\ Quiet(c, down, AuthTimers)
  BY <1>2, SameSound
<1>4. Sound(r) /\ Quiet(up, r, AuthTimers)
  BY <1>3, EarnsFree, PrepareResetSound DEF OpenFns
<1> HIDE DEF r
<1>5. Leaves(r, OpenStream(r)) BY <1>4, OpenStreamSound DEF Leaves
<1>6. Leaves(c, OpenStream(r)) BY <1>3, <1>4, <1>5, LeavesTrans
<1>7. Leaves(c, XmppDisconnect(down)) BY <1>3, XmppDisconnectSound, LeavesTrans DEF Leaves
<1>8. Leaves(c, c) BY FollowsWeaken DEF Leaves
<1> QED BY <1>6, <1>7, <1>8 DEF _handle_proceedtls_default, up, down, r

LEMMA SaslResultSound ==
    ASSUME NEW c, Sound(c), NEW s, s.name = "success" => Earns(c, "_handle_open_sasl"), NEW env
    PROVE  Leaves(c, _handle_sasl_result(c, s, env))
<1> DEFINE r == PrepareReset(c, "_handle_open_sasl")
<1>1. s.name = "success" => Leaves(c, OpenStream(r))
  <2> SUFFICES ASSUME s.name = "success" PROVE Leaves(c, OpenStream(r)) OBVIOUS
  <2>1. Sound(r) /\ Quiet(c, r, AuthTimers) BY PrepareResetSound DEF OpenFns
  <2> HIDE DEF r
  <2>2. Leaves(r, OpenStream(r)) BY <2>1, OpenStreamSound DEF Leaves
  <2> QED BY <2>1, <2>2, LeavesTrans
<1>2. Leaves(c, XmppDisconnect(c)) BY XmppDisconnectSound DEF Leaves
<1> QED BY <1>1, <1>2, AuthSound DEF _handle_sasl_result

LEMMA DigestSound ==
    ASSUME NEW c, Sound(c), NEW s, s.name = "success" => Earns(c, "_handle_open_sasl"), NEW env
    PROVE  /\ Leaves(c, _handle_digestmd5_challenge(c, s, env))
           /\ Leaves(c, _handle_digestmd5_rspauth(c, s, env))
<1> DEFINE h == AddHandler(c, "_handle_digestmd5_rspauth")
<1>1. "response" \in Items /\ "_handle_digestmd5_rspauth" \in HandlerFns
  BY DEF Items, HandlerFns
<1>2. Sound(h) /\ Quiet(c, h, AuthTimers) BY <1>1, EarnsFree, AddHandlerSound
<1> HIDE DEF h
<1>3. Leaves(h, Send(h, "response")) BY <1>1, <1>2, SendSound DEF Leaves
<1>4. Leaves(c, Send(h, "response")) BY <1>2, <1>3, LeavesTrans
<1>5. Leaves(c, Send(c, "response")) BY <1>1, SendSound DEF Leaves
<1>6. Leaves(c, XmppDisconnect(c)) BY XmppDisconnectSound DEF Leaves
<1>7. Leaves(c, _handle_sasl_result(c, s, env)) BY SaslResultSound
<1> QED BY <1>4, <1>5, <1>6, <1>7 DEF _handle_digestmd5_challenge, _handle_digestmd5_rspauth, h

LEMMA HandleFeaturesSaslSound ==
    ASSUME NEW c, Sound(c), Earns(c, "_handle_features_sasl"), NEW s, NEW env
    PROVE  LET d == _handle_features_sasl(c, s, env)
           IN /\ Sound(d) /\ Quiet(c, d, TimedFns)
              /\ ~Armed(d, "_handle_missing_features_sasl")
<1> DEFINE e == DeleteTimed(c, "_handle_missing_features_sasl")
           b == e.bind_required \/ "bind" \in s.offers
           n == e.session_required \/ "session" \in s.offers
           heard == [e EXCEPT !.bind_required = b, !.session_required = n]
           T == AuthTimers \cup {"_handle_missing_bind"}
           r == Request(heard, "_handle_bind", "_handle_missing_bind", "bind", env)
<1>1. /\ Sound(e) /\ Quiet(c, e, T) /\ ~Armed(e, "_handle_missing_features_sasl")
      /\ e \in Conn /\ e.facts = c.facts
  BY DeleteTimedSound DEF Sound, Kept
<1> HIDE DEF e
<1>2. b \in BOOLEAN /\ n \in BOOLEAN OBVIOUS
<1> HIDE DEF b, n
<1>3. Same(e, heard) BY <1>1, <1>2 DEF Conn, Same
<1>4. _handle_features_sasl(c, s, env) = IF heard.bind_required THEN r ELSE XmppDisconnect(heard)
  BY DEF _handle_features_sasl, r, heard, b, n, e
<1> HIDE DEF heard
<1>5. Sound(heard) /\ Quiet(e, heard, T) BY <1>1, <1>3, SameSound
<1>6. /\ "_handle_bind" \in IdFns /\ "_handle_missing_bind" \in TimedFns /\ "bind" \in Items
      /\ AuthTimers \subseteq T /\ T \subseteq TimedFns /\ "_handle_missing_features_sasl" \notin T
  BY DEF IdFns, TimedFns, Items, AuthTimers
<1>7. Earns(heard, "_handle_bind")
  <2>1. heard.attempts = c.attempts /\ heard.facts = c.facts
    BY <1>1, <1>3 DEF Same, Quiet, Follows
  <2> QED BY <2>1 DEF Earns
<1>8. \A d : "_handle_bind" \in d.id_handlers => Awaited(d, "_handle_missing_bind")
  BY DEF Awaited
<1>9. Sound(r) /\ Quiet(heard, r, T) BY <1>5, <1>6, <1>7, <1>8, RequestSound
<1> HIDE DEF T, r
<1>10. Sound(XmppDisconnect(heard)) /\ Quiet(heard, XmppDisconnect(heard), T)
  BY <1>5, <1>6, XmppDisconnectSound, FollowsWeaken
<1>11. Quiet(c, heard, T) BY <1>1, <1>5, FollowsTrans
<1>12. ASSUME NEW d, Sound(d), Quiet(heard, d, T)
       PROVE  /\ Quiet(c, d, TimedFns)
              /\ ~Armed(d, "_handle_missing_features_sasl")
  <2>1. Quiet(c, d, TimedFns) BY <1>6, <1>11, <1>12, FollowsTrans
  <2>2. Quiet(e, d, T) BY <1>5, <1>12, FollowsTrans
  <2> QED BY <1>1, <1>6, <2>1, <2>2 DEF Quiet, Follows
<1> QED BY <1>4, <1>9, <1>10, <1>12

LEMMA CallUserSound ==
    ASSUME NEW c, Sound(c)
    PROVE  Leaves(c, CallUser(c))
<1> DEFINE e == c.early \/ c.ups = 0
           d == [c EXCEPT !.early = e]
<1>1. c \in Conn BY DEF Sound, Kept
<1>2. e \in BOOLEAN OBVIOUS
<1>3. CallUser(c) = d BY DEF CallUser
<1> HIDE DEF e
<1>4. Same(c, d) BY <1>1, <1>2 DEF Conn, Same
<1> QED BY <1>3, <1>4, SameSound DEF Leaves

\* A handler in the list may be called, and it has seen to its timer when it returns.
LEMMA CallHandlerSound ==
    ASSUME NEW c, Sound(c), NEW f \in HandlerFns, Listed(c.handlers, f), NEW s,
           s.name = "success" => Earns(c, "_handle_open_sasl"), NEW env
    PROVE  LET d == CallHandler(f, c, s, env)
           IN Sound(d) /\ Quiet(c, d, TimedFns) /\ Unwatched(d, f)
<1> DEFINE d == CallHandler(f, c, s, env)
<1>1. AuthTimers \subseteq TimedFns BY DEF AuthTimers, TimedFns
<1>2. \A e : Leaves(c, e) => Sound(e) /\ Quiet(c, e, TimedFns)
  BY <1>1, FollowsWeaken DEF Leaves
<1>3. CASE f = "_handle_error"
  <2> DEFINE e == [c EXCEPT !.stream_error = TRUE]
  <2>1. Same(c, e) BY DEF Conn, Same, Sound, Kept
  <2>2. d = e BY <1>3 DEF CallHandler
  <2> HIDE DEF e
  <2> QED BY <1>3, <2>1, <2>2, SameSound DEF Unwatched
<1>4. CASE f = "_handle_features"
  <2>1. d = _handle_features(c, s, env) BY <1>4 DEF CallHandler
  <2>2. Leaves(c, d) /\ ~Armed(d, "_handle_missing_features") BY <2>1, HandleFeaturesSound
  <2> QED BY <1>2, <1>4, <2>2 DEF Unwatched
<1>5. CASE f = "_handle_features_sasl"
  <2>1. d = _handle_features_sasl(c, s, env) BY <1>5 DEF CallHandler
  <2>2. Earns(c, f) BY DEF Sound, Kept, Earned, Registered
  <2>3. /\ Sound(d) /\ Quiet(c, d, TimedFns)
        /\ ~Armed(d, "_handle_missing_features_sasl")
    BY <1>5, <2>1, <2>2, HandleFeaturesSaslSound
  <2> QED BY <1>5, <2>3 DEF Unwatched
<1>6. CASE f \notin {"_handle_error", "_handle_features", "_handle_features_sasl"}
  <2>1. Leaves(c, d)
    BY <1>6, ProceedTlsSound, SaslResultSound, DigestSound, CallUserSound
       DEF CallHandler, HandlerFns
  <2>2. Unwatched(d, f) BY <1>6 DEF Unwatched, HandlerFns
  <2> QED BY <1>2, <2>1, <2>2
<1> QED BY <1>3, <1>4, <1>5, <1>6

\* What a reply to a request may lead to, and that its timer is gone.
LEMMA CallIdSound ==
    ASSUME NEW c, Sound(c), NEW f \in IdFns, f \in c.id_handlers, NEW s, NEW env,
           c.attempts <= 1 /\ f = "_handle_bind" /\ s.type = "result" =>
               "bind_result" \in c.facts
    PROVE  LET d == CallId(f, c, s, env)
           IN /\ Sound(d) /\ Follows(c, d, TimedFns) /\ Unwatched(d, f)
              /\ d.authenticated # c.authenticated =>
                    s.type = "result" /\ (f = "_handle_bind" => ~c.session_required)
<1> DEFINE d == CallId(f, c, s, env)
           timer == CASE f = "_handle_bind"    -> "_handle_missing_bind"
                      [] f = "_handle_session" -> "_handle_missing_session"
                      [] f = "_handle_legacy"  -> "_handle_missing_legacy"
           heard == DeleteTimed(c, timer)
           r == Request(heard, "_handle_session", "_handle_missing_session", "session", env)
           T == AuthTimers \cup {"_handle_missing_session"}
<1>1. /\ Sound(heard) /\ Quiet(c, heard, AuthTimers) /\ ~Armed(heard, timer)
      /\ heard.facts = c.facts /\ heard.session_required = c.session_required
  <2>1. timer # "_disconnect_cleanup" BY DEF IdFns
  <2> HIDE DEF timer
  <2> QED BY <2>1, DeleteTimedSound
<1>2. /\ f = "_handle_bind" =>
             d = IF s.type # "result" THEN XmppDisconnect(heard)
                 ELSE IF heard.session_required THEN r ELSE NotifyConnect(heard, env)
      /\ f # "_handle_bind" =>
             d = IF s.type = "result" THEN NotifyConnect(heard, env) ELSE XmppDisconnect(heard)
  BY DEF IdFns, CallId, _handle_bind, _handle_session, _handle_legacy
<1>3. /\ f = "_handle_bind" => timer = "_handle_missing_bind"
      /\ f = "_handle_session" => timer = "_handle_missing_session"
      /\ f = "_handle_legacy" => timer = "_handle_missing_legacy"
  OBVIOUS
<1> HIDE DEF d, timer, heard
<1>4. ASSUME s.type = "result", f = "_handle_bind", heard.session_required
      PROVE  Sound(r) /\ Quiet(heard, r, T)
  <2>1. /\ "_handle_session" \in IdFns /\ "_handle_missing_session" \in TimedFns
        /\ "session" \in Items
    BY DEF IdFns, TimedFns, Items
  <2>2. Earns(heard, "_handle_session")
    <3>1. Earns(c, "_handle_bind") BY <1>4 DEF Sound, Kept, Earned, Registered
    <3>2. heard.attempts = c.attempts BY <1>1 DEF Quiet, Follows
    <3> QED BY <1>1, <1>4, <3>1, <3>2 DEF Earns
  <2>3. \A e : "_handle_session" \in e.id_handlers => Awaited(e, "_handle_missing_session")
    BY DEF Awaited
  <2> QED BY <1>1, <2>1, <2>2, <2>3, RequestSound
<1> HIDE DEF r
<1> DEFINE U == {"_disconnect_cleanup"}
<1>5. Sound(NotifyConnect(heard, env)) /\ Follows(heard, NotifyConnect(heard, env), U)
  BY <1>1, NotifyConnectSound
<1>6. Sound(XmppDisconnect(heard)) /\ Quiet(heard, XmppDisconnect(heard), U)
  BY <1>1, XmppDisconnectSound
<1>7. U \subseteq T /\ T \subseteq TimedFns /\ U \subseteq TimedFns
  BY DEF AuthTimers, TimedFns
<1> DEFINE V == IF f = "_handle_bind" THEN T ELSE U
<1>8. /\ Sound(d) /\ Follows(heard, d, V)
      /\ d.authenticated # heard.authenticated =>
            s.type = "result" /\ (f = "_handle_bind" => ~heard.session_required)
  BY <1>2, <1>4, <1>5, <1>6, <1>7, FollowsWeaken DEF Quiet
<1>9. Follows(c, d, TimedFns)
  <2>1. AuthTimers \subseteq TimedFns /\ V \subseteq TimedFns BY <1>7 DEF AuthTimers, TimedFns
  <2> QED BY <1>1, <1>8, <2>1, FollowsTrans DEF Quiet
<1>10. Unwatched(d, f)
  <2>1. timer \notin V BY <1>3 DEF IdFns, AuthTimers
  <2>2. ~Armed(d, timer) BY <1>1, <1>8, <2>1 DEF Follows
  <2> QED BY <1>3, <2>2 DEF Unwatched, IdFns
<1> QED BY <1>1, <1>8, <1>9, <1>10 DEF d, Quiet

LEMMA CallTimedSound ==
    ASSUME NEW c, Sound(c), NEW f \in TimedFns, NEW env
    PROVE  LET d == CallTimed(f, c, env)
           IN /\ Sound(d)
              /\ f # "_disconnect_cleanup" => Quiet(c, d, AuthTimers)
              /\ f = "_disconnect_cleanup" => Ends(c, d)
<1> DEFINE e == [c EXCEPT !.facts = @ \cup {"features_missing"}]
           d == CallTimed(f, c, env)
<1>1. CASE f = "_handle_missing_features"
  <2>1. c \in Conn /\ Good(c) BY DEF Sound, Kept
  <2>2. c.facts \cup {"features_missing"} \in SUBSET Facts BY <2>1 DEF Conn, Facts
  <2>3. /\ e \in Conn /\ e.timed_handlers = c.timed_handlers /\ e.state = c.state
        /\ e.attempts = c.attempts /\ e.downs = c.downs /\ e.peer = c.peer
        /\ e.facts = c.facts \cup {"features_missing"} /\ e.handlers = c.handlers
        /\ e.open_handler = c.open_handler /\ e.authenticated = c.authenticated
        /\ e.id_handlers = c.id_handlers
    BY <2>1, <2>2 DEF Conn
  <2> HIDE DEF e
  <2>4. \A g : Registered(e, g) => Registered(c, g) BY <2>3 DEF Registered
  <2>5. Kept(e) /\ Follows(c, e, {}) BY <2>3, <2>4, KeptFrom DEF Sound
  <2>6. Good(e) BY <2>1, <2>3, Frame
  <2>7. Sound(e) /\ Quiet(c, e, AuthTimers) BY <2>3, <2>5, <2>6 DEF Sound, Quiet, Follows
  <2>8. Leaves(c, Auth(e, env)) BY <2>7, AuthSound, LeavesTrans
  <2>9. d = Auth(e, env) BY <1>1 DEF CallTimed, e
  <2> QED BY <1>1, <2>8, <2>9 DEF Leaves
<1>2. CASE f = "_disconnect_cleanup"
  BY <1>2, ConnDisconnectSound DEF CallTimed, Sound
<1>3. CASE f \notin {"_handle_missing_features", "_disconnect_cleanup"}
  <2>1. Leaves(c, d)
    BY <1>3, CallUserSound, XmppDisconnectSound DEF CallTimed, TimedFns, Leaves
  <2> QED BY <1>3, <2>1 DEF Leaves
<1> QED BY <1>1, <1>2, <1>3

-----------------------------------------------------------------------------
(* The parts of the steps of Session. *)

\* What a step that neither ends nor begins an attempt leaves of c, whatever the peer does.
Passes(c, d) ==
    /\ d.state = c.state /\ d.attempts = c.attempts /\ d.downs = c.downs
    /\ c.facts \subseteq d.facts /\ d.authenticated = c.authenticated
    /\ Ready(d) => Ready(c)

LEMMA QuietPasses ==
    ASSUME NEW c, NEW d
    PROVE  /\ \A T : Quiet(c, d, T) => Passes(c, d) /\ d.peer = c.peer
           /\ Passes(c, c)
           /\ \A e : Passes(c, d) /\ Passes(d, e) => Passes(c, e)
BY DEF Quiet, Follows, Passes

\* The same connection with another record of the peer.
LEMMA RepeeredSound ==
    ASSUME NEW c, Sound(c), NEW p \in Peer
    PROVE  LET d == [c EXCEPT !.peer = p]
           IN /\ Sound(d) /\ Passes(c, d) /\ d.peer = p /\ d.facts = c.facts
              /\ d.timed_handlers = c.timed_handlers
<1> DEFINE d == [c EXCEPT !.peer = p]
<1>1. c \in Conn /\ Good(c) BY DEF Sound, Kept
<1>2. /\ d \in Conn /\ d.timed_handlers = c.timed_handlers /\ d.state = c.state
      /\ d.attempts = c.attempts /\ d.downs = c.downs /\ d.peer = p
      /\ d.facts = c.facts /\ d.handlers = c.handlers
      /\ d.open_handler = c.open_handler /\ d.authenticated = c.authenticated
      /\ d.id_handlers = c.id_handlers
  BY <1>1 DEF Conn
<1>3. Good(d) BY <1>1, PeerGood
<1> HIDE DEF d
<1>4. Paired(d)
  <2>1. \A t : Awaited(c, t) <=> Awaited(d, t) BY <1>2 DEF Awaited
  <2> QED BY <1>2, <2>1 DEF Paired, Sound, Kept, Armed
<1>5. Earned(d) BY <1>2 DEF Sound, Kept, Earned, Registered, Earns
<1> QED BY <1>2, <1>3, <1>4, <1>5 DEF Sound, Kept, Passes, Ready, d

\* An attempt that has ended has been told once, one that has not has not.
Told(c) == c.downs = (IF c.state = "DISCONNECTED" /\ c.attempts > 0 THEN 1 ELSE 0)

LEMMA ToldStays ==
    ASSUME NEW c, Told(c), NEW d
    PROVE  /\ Passes(c, d) => Told(d)
           /\ Kept(c) /\ c.state # "DISCONNECTED" /\ Ends(c, d) => Told(d)
<1>1. Passes(c, d) => Told(d) BY DEF Passes, Told
<1>2. ASSUME Kept(c), c.state # "DISCONNECTED", Ends(c, d) PROVE Told(d)
  <2>1. c.attempts \in Nat /\ c.attempts # 0 BY <1>2 DEF Kept, Conn, Earned
  <2>2. c.downs = 0 BY <1>2 DEF Told
  <2> QED BY <1>2, <2>1, <2>2 DEF Ends, Told
<1> QED BY <1>1, <1>2

\* Enabling timers may make the one that forces the end ready, and that is all.
LEMMA BeginTimedSound ==
    ASSUME NEW c, Sound(c)
    PROVE  LET d == BeginTimed(c)
           IN /\ Sound(d) /\ d.state = c.state /\ d.attempts = c.attempts
              /\ d.downs = c.downs /\ d.peer = c.peer /\ d.facts = c.facts
              /\ d.authenticated = c.authenticated
              /\ Len(d.timed_handlers) = Len(c.timed_handlers)
<1> DEFINE list == c.timed_handlers
           new  == EnableAll(list)
           d    == [c EXCEPT !.timed_handlers = new]
<1>1. c \in Conn /\ list \in Seq(TimedItem) BY DEF Sound, Kept, Conn
<1>2. new \in Seq(TimedItem) BY <1>1, EnableAllType
<1>3. /\ DOMAIN new = DOMAIN list
      /\ \A i \in DOMAIN new : new[i].fn = list[i].fn
  <2>1. DOMAIN new = DOMAIN list BY DEF EnableAll
  <2>2. ASSUME NEW i \in DOMAIN list PROVE new[i].fn = list[i].fn
    <3>1. list[i] \in TimedItem BY <1>1
    <3>2. new[i] = [list[i] EXCEPT !.enabled = TRUE] BY DEF EnableAll
    <3> QED BY <3>1, <3>2 DEF TimedItem
  <2> QED BY <2>1, <2>2
<1>4. Len(new) = Len(list)
  <2> HIDE DEF new
  <2> QED BY <1>1, <1>2, <1>3
<1>5. BeginTimed(c) \in {c, d} BY DEF BeginTimed
<1>6. Good(BeginTimed(c)) BY BeginTimedGood DEF Sound
<1> HIDE DEF new
<1>7. /\ Kept(d) /\ d.state = c.state /\ d.attempts = c.attempts
      /\ d.downs = c.downs /\ d.peer = c.peer /\ d.facts = c.facts
      /\ d.authenticated = c.authenticated /\ d.timed_handlers = new
  BY <1>2, <1>3, RetimedKept DEF Sound
<1> HIDE DEF d
<1> QED BY <1>4, <1>5, <1>6, <1>7 DEF Sound

\* When handler_fire_timed begins on a connection that is not up, there is nothing to do.
Over(c, i) == c.state # "CONNECTED" => i > Len(c.timed_handlers)

LEMMA ToTimed2Sound ==
    ASSUME NEW c, Sound(c), ToTimed2(c)
    PROVE  /\ Kept(conn') /\ pc' = "timed2" /\ Over(conn', at')
           /\ conn'.state = c.state /\ conn'.attempts = c.attempts
           /\ conn'.downs = c.downs /\ conn'.facts = c.facts
           /\ conn'.authenticated = c.authenticated
<1>1. conn' = BeginTimed(c) /\ pc' = "timed2" /\ at' = FirstTimed(c) BY DEF ToTimed2
<1>2. c.timed_handlers \in Seq(TimedItem) BY DEF Sound, Kept, Conn
<1>3. Len(c.timed_handlers) \in Nat BY <1>2
<1>4. Over(conn', at') BY <1>1, <1>3, BeginTimedSound DEF Over, FirstTimed
<1> QED BY <1>1, <1>4, BeginTimedSound DEF Sound

LEMMA WriteQueueSound ==
    ASSUME NEW c, Sound(c), NEW n \in 0 .. Len(c.send_queue), NEW fails \in BOOLEAN
    PROVE  LET d == WriteQueue(c, n, fails)
           IN Sound(d) /\ Passes(c, d)
<1> DEFINE q == c.send_queue
           rest == SubSeq(q, n + 1, Len(q))
           p == Receive(c.peer, {q[i] : i \in 1 .. n})
           e == c.error \/ fails
           k == [c EXCEPT !.peer = p]
           d == [k EXCEPT !.send_queue = rest, !.error = e]
<1>1. c \in Conn /\ q \in Seq(Items) BY DEF Sound, Kept, Conn
<1>2. Len(q) \in Nat /\ DOMAIN q = 1 .. Len(q) BY <1>1
<1>3. rest \in Seq(Items)
  <2>1. n + 1 \in 1 .. Len(q) + 1 /\ Len(q) \in (n + 1) - 1 .. Len(q) BY <1>2
  <2> QED BY <1>1, <2>1, SubSeqProperties
<1>4. p \in Peer
  <2>1. {q[i] : i \in 1 .. n} \in SUBSET Items BY <1>1, <1>2
  <2>2. c.peer \in Peer BY <1>1 DEF Conn
  <2> QED BY <2>1, <2>2, ReceiveType
<1>5. e \in BOOLEAN BY <1>1 DEF Conn
<1>6. WriteQueue(c, n, fails) = d BY <1>1 DEF WriteQueue, Conn
<1> HIDE DEF rest, p, e
<1>7. Sound(k) /\ Passes(c, k) BY <1>4, RepeeredSound
<1> HIDE DEF k
<1>8. Same(k, d) BY <1>3, <1>5, <1>7 DEF Conn, Same, Sound, Kept
<1> HIDE DEF d
<1>9. Sound(d) /\ Quiet(k, d, {}) BY <1>7, <1>8, SameSound
<1> QED BY <1>6, <1>7, <1>9, QuietPasses

LEMMA ErrorSound ==
    ASSUME NEW c, Sound(c)
    PROVE  Sound([c EXCEPT !.error = TRUE]) /\ Passes(c, [c EXCEPT !.error = TRUE])
<1> DEFINE d == [c EXCEPT !.error = TRUE]
<1>1. Same(c, d) BY DEF Conn, Same, Sound, Kept
<1> HIDE DEF d
<1>2. Sound(d) /\ Quiet(c, d, {}) BY <1>1, SameSound
<1>3. Passes(c, d) BY <1>2, QuietPasses
<1> QED BY <1>2, <1>3 DEF d

-----------------------------------------------------------------------------
(* The invariants, and the steps of Session. *)

\* Data is only read in an attempt, and a stanza's handlers know what it says.
Fits ==
    /\ Kept(conn)
    /\ pc \in {"chunk", "stanza"} => conn.attempts # 0
    /\ pc = "stanza" /\ stanza.name = "success" => Earns(conn, "_handle_open_sasl")

\* The server and the network keep to the protocol, as far as DISCONNECT needs it: a
\* callback of the parser that finds the document bad ends the connection and goes on.
Polite == Conforming /\ ~Garbled /\ IncomingRoots \subseteq {"stream"} /\ "pending" \notin Faults

\* The connection is not ended twice: neither by a timer, when a walk goes on after it
\* has ended, nor by more data of the same read.
OnceInv ==
    /\ Told(conn)
    /\ pc \in {"timed1", "timed2"} => Over(conn, at) \/ ~Ready(conn)
    /\ pc \in {"chunk", "stanza"} =>
          conn.state = "CONNECTED" \/ conn.peer.phase = "ended" \/ conn.peer = NewPeer

\* What a step does to the invariants; only a step with a notification authenticates.
Serves ==
    /\ Fits' /\ conn'.authenticated = conn.authenticated
    /\ Polite /\ OnceInv => OnceInv'

LEMMA SoundNow ==
    ASSUME Inv, Fits
    PROVE  /\ Sound(conn) /\ conn \in Conn /\ Kept(conn) /\ Good(conn)
           /\ conn.attempts \in Nat /\ conn.state \in States
           /\ conn.state # "DISCONNECTED" => conn.attempts # 0
           /\ at \in Nat \ {0} /\ left \in Nat
<1>1. Good(conn) /\ at \in Nat \ {0} /\ left \in Nat BY DEF Inv, TypeOK
<1>2. Kept(conn) /\ conn \in Conn BY DEF Fits, Kept
<1> QED BY <1>1, <1>2 DEF Sound, Kept, Earned, Conn

LEMMA UserServes == ASSUME Inv, Fits, User PROVE Serves
<1>1. UNCHANGED <<pc, at, stanza, left>> /\ pc = "idle"
  BY DEF User, xmpp_connect_client, xmpp_disconnect, xmpp_send, xmpp_conn_disable_tls,
      xmpp_handler_add
<1>2. Sound(conn) /\ conn \in Conn /\ Kept(conn) BY SoundNow
<1>3. /\ Kept(conn') /\ conn'.authenticated = conn.authenticated
      /\ Told(conn) => Told(conn')
  <2>1. CASE xmpp_connect_client
    BY <1>2, <2>1, ConnectClientSound DEF xmpp_connect_client, Sound, Told
  <2>2. ASSUME NEW T, Quiet(conn, conn', T), Sound(conn')
        PROVE  /\ Kept(conn') /\ conn'.authenticated = conn.authenticated
               /\ Told(conn) => Told(conn')
    BY <2>2, QuietPasses, ToldStays DEF Sound, Passes
  <2>3. CASE xmpp_disconnect
    <3>1. Sound(conn') /\ Quiet(conn, conn', AuthTimers)
      BY <1>2, <2>3, XmppDisconnectSound DEF xmpp_disconnect
    <3> QED BY <2>2, <3>1
  <2>4. CASE xmpp_send
    <3>1. Sound(conn') /\ Quiet(conn, conn', AuthTimers)
      BY <1>2, <2>4, SendSound DEF xmpp_send, Items
    <3> QED BY <2>2, <3>1
  <2>5. CASE xmpp_conn_disable_tls
    <3>1. Same(conn, conn') BY <1>2, <2>5 DEF xmpp_conn_disable_tls, Conn, Same
    <3>2. Sound(conn') /\ Quiet(conn, conn', AuthTimers) BY <1>2, <3>1, SameSound
    <3> QED BY <2>2, <3>2
  <2>6. CASE xmpp_handler_add
    <3> DEFINE h == AddHandler(conn, "user_stanza")
    <3>1. Sound(h) /\ Quiet(conn, h, {"user_timed"})
      BY <1>2, EarnsFree, AddHandlerSound DEF HandlerFns
    <3>2. conn' = AddTimed(h, "user_timed") BY <2>6 DEF xmpp_handler_add
    <3> HIDE DEF h
    <3>3. Awaited(h, "user_timed") BY DEF Awaited
    <3>4. Sound(conn') /\ Quiet(h, conn', {"user_timed"})
      BY <3>1, <3>2, <3>3, AddTimedSound DEF TimedFns
    <3>5. Quiet(conn, conn', {"user_timed"}) BY <3>1, <3>4, FollowsTrans
    <3> QED BY <2>2, <3>4, <3>5
  <2> QED BY <2>1, <2>3, <2>4, <2>5, <2>6 DEF User
<1> QED BY <1>1, <1>3 DEF Serves, Fits, OnceInv

LEMMA TickServes == ASSUME Inv, Fits, Tick PROVE Serves
<1> DEFINE list == conn.timed_handlers
           new  == AllOlder(list)
           a    == IF conn.state = "CONNECTING" THEN Older(conn.age, CONNECT_TIMEOUT + 1)
                                                ELSE conn.age
           d    == [conn EXCEPT !.age = a]
<1>1. Sound(conn) /\ conn \in Conn BY SoundNow
<1>2. list \in Seq(TimedItem) /\ conn.age \in Nat BY <1>1 DEF Conn
<1>3. ASSUME NEW i \in DOMAIN list
      PROVE  /\ new[i] \in TimedItem /\ new[i].fn = list[i].fn
             /\ new[i].enabled = list[i].enabled
  <2>1. list[i] \in TimedItem BY <1>2
  <2>2. list[i].age \in Nat BY <2>1 DEF TimedItem
  <2> DEFINE k == Older(list[i].age, Period[list[i].fn])
  <2>3. k \in Nat BY <2>2, OlderType
  <2>4. new[i] = [list[i] EXCEPT !.age = k] BY DEF AllOlder
  <2> HIDE DEF k, new
  <2> QED BY <2>1, <2>3, <2>4 DEF TimedItem
<1>4. DOMAIN new = DOMAIN list BY DEF AllOlder
<1>5. new \in [DOMAIN list -> TimedItem] BY <1>3 DEF AllOlder
<1> HIDE DEF new
<1>6. new \in Seq(TimedItem) BY <1>2, <1>3, <1>5, SameFunctions
<1>7. Len(new) = Len(list) BY <1>2, <1>4, <1>6
<1>8. a \in Nat
  <2>1. Older(conn.age, CONNECT_TIMEOUT + 1) \in Nat BY <1>2, OlderType
  <2> QED BY <1>2, <2>1
<1>9. conn' = [d EXCEPT !.timed_handlers = new] /\ UNCHANGED <<pc, at, stanza, left>>
  BY <1>1 DEF Tick, Conn, new
<1> HIDE DEF a
<1>10. Same(conn, d) BY <1>1, <1>8 DEF Conn, Same
<1> HIDE DEF d
<1>11. Sound(d) /\ d.timed_handlers = list BY <1>1, <1>10, SameSound DEF Same
<1>12. /\ Kept(conn') /\ conn'.state = conn.state /\ conn'.attempts = conn.attempts
       /\ conn'.downs = conn.downs /\ conn'.peer = conn.peer /\ conn'.facts = conn.facts
       /\ conn'.authenticated = conn.authenticated /\ conn'.timed_handlers = new
  BY <1>3, <1>4, <1>6, <1>9, <1>10, <1>11, RetimedKept DEF Sound, Same
<1>13. Fits' BY <1>9, <1>12 DEF Fits, Earns
<1>14. Ready(conn') => Ready(conn) BY <1>3, <1>4, <1>12 DEF Ready
<1>15. OnceInv => OnceInv' BY <1>7, <1>9, <1>12, <1>14 DEF OnceInv, Told, Over
<1> QED BY <1>12, <1>13, <1>15 DEF Serves

LEMMA WriteServes == ASSUME Inv, Fits, run_once_write PROVE Serves
<1>1. Sound(conn) /\ Kept(conn) BY SoundNow
<1>2. pc' = "timed1" /\ at' = FirstTimed(conn') BY DEF run_once_write
<1>3. /\ Sound(conn') /\ conn'.authenticated = conn.authenticated
      /\ Polite /\ Told(conn) => Told(conn')
  <2>1. CASE conn.state = "CONNECTED"
    <3>1. PICK env \in Choices, n \in 0 .. Len(conn.send_queue),
               fails \in BOOLEAN, pending \in BOOLEAN :
            /\ pending => n = 0 /\ "pending" \in Faults
            /\ conn' = BeginTimed(ParserReset(write_queued(pending, n, fails, env)))
      BY <2>1 DEF run_once_write
    <3> DEFINE bad == [conn EXCEPT !.error = TRUE]
               cleared == ClearPending(conn, pending, env)
               written == WriteQueue(cleared, n, fails)
               torn == TearDownOnError(written, env)
               reset == ParserReset(torn)
    <3>2. Sound(bad) /\ Passes(conn, bad) BY <1>1, ErrorSound
    <3>3. /\ Sound(cleared) /\ cleared.authenticated = conn.authenticated
          /\ ~pending => cleared = conn
      <4>1. cleared = IF pending THEN ConnDisconnect(bad, env) ELSE conn BY DEF ClearPending
      <4> HIDE DEF bad
      <4> QED BY <1>1, <3>2, <4>1, ConnDisconnectSound DEF Sound, Ends, Passes
    <3>4. n \in 0 .. Len(cleared.send_queue)
      <4>1. cleared.send_queue \in Seq(Items) BY <3>3 DEF Sound, Kept, Conn
      <4>2. Len(cleared.send_queue) \in Nat BY <4>1
      <4> QED BY <3>1, <3>3, <4>2
    <3> HIDE DEF cleared
    <3>5. Sound(written) /\ Passes(cleared, written) BY <3>3, <3>4, WriteQueueSound
    <3> HIDE DEF written
    <3>6. /\ Sound(torn) /\ torn.authenticated = conn.authenticated
          /\ ~pending /\ Told(conn) => Told(torn)
      <4>1. torn = IF written.error THEN ConnDisconnect(written, env) ELSE written
        BY DEF TearDownOnError
      <4>2. Sound(ConnDisconnect(written, env)) /\ Ends(written, ConnDisconnect(written, env))
        BY <3>5, ConnDisconnectSound DEF Sound
      <4>3. written.authenticated = conn.authenticated BY <3>3, <3>5 DEF Passes
      <4>4. ASSUME ~pending, Told(conn)
            PROVE  Told(written) /\ Told(ConnDisconnect(written, env))
        <5>1. Passes(conn, written) BY <3>3, <3>5, <4>4
        <5>2. Told(written) /\ written.state = "CONNECTED"
          BY <2>1, <4>4, <5>1, ToldStays DEF Passes
        <5> QED BY <3>5, <4>2, <5>2, ToldStays DEF Sound
      <4> QED BY <3>5, <4>1, <4>2, <4>3, <4>4 DEF Ends
    <3>7. conn' = BeginTimed(reset)
      BY <3>1 DEF write_queued, written, cleared
    <3> HIDE DEF torn
    <3>8. Sound(reset) /\ Quiet(torn, reset, {}) BY <3>6, ParserResetSound
    <3> HIDE DEF reset
    <3>9. Passes(torn, reset) BY <3>8, QuietPasses
    <3>10. /\ Sound(conn') /\ conn'.authenticated = conn.authenticated
           /\ Told(torn) => Told(conn')
      BY <3>6, <3>7, <3>8, <3>9, BeginTimedSound DEF Passes, Told
    <3> QED BY <3>1, <3>6, <3>10 DEF Polite
  <2>2. CASE conn.state # "CONNECTED"
    <3>1. conn' = ParserReset(conn) BY <2>2 DEF run_once_write
    <3>2. Sound(conn') /\ Quiet(conn, conn', {}) BY <1>1, <3>1, ParserResetSound
    <3>3. Passes(conn, conn') BY <3>2, QuietPasses
    <3> QED BY <3>2, <3>3, ToldStays DEF Passes
  <2> QED BY <2>1, <2>2
<1>4. Over(conn', at')
  <2>1. conn'.timed_handlers \in Seq(TimedItem) BY <1>3 DEF Sound, Kept, Conn
  <2>2. Len(conn'.timed_handlers) \in Nat BY <2>1
  <2> QED BY <1>2, <2>2 DEF Over, FirstTimed
<1> QED BY <1>2, <1>3, <1>4 DEF Serves, Fits, OnceInv, Sound

LEMMA FireTimedServes == ASSUME Inv, Fits, FireTimed PROVE Serves
<1> DEFINE list  == conn.timed_handlers
           t     == list[at]
           young == [list EXCEPT ![at] = [t EXCEPT !.age = 0]]
           c     == [conn EXCEPT !.timed_handlers = young]
<1>1. Sound(conn) /\ conn \in Conn BY SoundNow
<1>2. /\ pc \in {"timed1", "timed2"} /\ at <= Len(list) /\ at \in Nat \ {0}
      /\ t.enabled /\ UNCHANGED <<pc, stanza, left>>
  BY SoundNow DEF FireTimed
<1>3. list \in Seq(TimedItem) BY <1>1 DEF Conn
<1>4. at \in DOMAIN list /\ t \in TimedItem
  <2>1. DOMAIN list = 1 .. Len(list) /\ Len(list) \in Nat BY <1>3
  <2>2. at \in DOMAIN list BY <1>2, <2>1
  <2> QED BY <1>3, <2>2
<1>5. t.fn \in TimedFns BY <1>4 DEF TimedItem
<1>6. /\ young \in Seq(TimedItem) /\ DOMAIN young = DOMAIN list
      /\ \A i \in DOMAIN young : young[i].fn = list[i].fn /\ young[i].enabled = list[i].enabled
  <2>1. /\ [t EXCEPT !.age = 0] \in TimedItem /\ [t EXCEPT !.age = 0].fn = t.fn
        /\ [t EXCEPT !.age = 0].enabled = t.enabled
    BY <1>4 DEF TimedItem
  <2>2. /\ young \in [DOMAIN list -> TimedItem] /\ DOMAIN young = DOMAIN list
        /\ \A i \in DOMAIN list : young[i].fn = list[i].fn /\ young[i].enabled = list[i].enabled
    BY <1>3, <1>4, <2>1
  <2> HIDE DEF young
  <2> QED BY <1>3, <2>2, SameFunctions
<1>7. PICK env \in Choices :
        LET fired == CallTimed(t.fn, c, env)
        IN IF KeepsTimed(t.fn, env) THEN conn' = fired ELSE conn' = DeleteTimed(fired, t.fn)
  <2>1. [conn EXCEPT !.timed_handlers[at].age = 0] = c BY <1>1, <1>3, <1>4 DEF Conn
  <2> HIDE DEF c
  <2> QED BY <2>1 DEF FireTimed
<1> HIDE DEF young
<1>8. Sound(c) /\ Passes(conn, c)
  <2>1. /\ Kept(c) /\ c.state = conn.state /\ c.attempts = conn.attempts
        /\ c.downs = conn.downs /\ c.peer = conn.peer /\ c.facts = conn.facts
        /\ c.authenticated = conn.authenticated /\ c.timed_handlers = young
        /\ \A f : Armed(c, f) <=> Armed(conn, f)
    BY <1>1, <1>6, RetimedKept DEF Sound
  <2>2. Good(c)
    <3>1. \A f : Listed(list, f) => Listed(young, f) BY <1>6 DEF Listed
    <3> QED BY <1>1, <1>6, <3>1, RetimedGood DEF Sound
  <2>3. Ready(c) => Ready(conn) BY <1>6, <2>1 DEF Ready
  <2> QED BY <2>1, <2>2, <2>3 DEF Sound, Passes
<1> HIDE DEF c
<1> DEFINE fired == CallTimed(t.fn, c, env)
<1>9. /\ Sound(fired)
      /\ t.fn # "_disconnect_cleanup" => Quiet(c, fired, AuthTimers)
      /\ t.fn = "_disconnect_cleanup" => Ends(c, fired)
  BY <1>5, <1>8, CallTimedSound
<1> HIDE DEF fired
<1>10. /\ Kept(DeleteTimed(fired, t.fn)) /\ Passes(fired, DeleteTimed(fired, t.fn))
       /\ ~Armed(DeleteTimed(fired, t.fn), t.fn)
  BY <1>9, DeleteTimedKept, QuietPasses DEF Sound
<1>11. Kept(conn') /\ Passes(fired, conn')
  BY <1>7, <1>9, <1>10, QuietPasses DEF Sound, fired
<1>12. conn'.authenticated = conn.authenticated
  <2>1. fired.authenticated = c.authenticated BY <1>9 DEF Ends, Quiet
  <2> QED BY <1>8, <1>11, <2>1 DEF Passes
<1>13. CASE t.fn # "_disconnect_cleanup"
  <2>1. Passes(c, fired) BY <1>9, <1>13, QuietPasses
  <2>2. Passes(conn, conn')
    <3>1. Passes(conn, fired) BY <1>8, <2>1, QuietPasses
    <3> QED BY <1>11, <3>1, QuietPasses
  <2>3. OnceInv => OnceInv'
    <3> SUFFICES ASSUME OnceInv PROVE OnceInv' OBVIOUS
    <3>1. Told(conn') BY <2>2, ToldStays DEF OnceInv
    <3>2. conn.state = "CONNECTED" \/ ~Ready(conn)
      <4>1. Len(list) \in Nat BY <1>3
      <4> QED BY <1>2, <4>1 DEF OnceInv, Over
    <3>3. conn'.state = "CONNECTED" \/ ~Ready(conn') BY <2>2, <3>2 DEF Passes
    <3> QED BY <1>2, <3>1, <3>3 DEF OnceInv, Over
  <2> QED BY <1>2, <1>11, <1>12, <2>3 DEF Serves, Fits
<1>14. CASE t.fn = "_disconnect_cleanup"
  <2>1. OnceInv => OnceInv'
    <3> SUFFICES ASSUME OnceInv PROVE OnceInv' OBVIOUS
    <3>1. Ready(conn) BY <1>2, <1>4, <1>14 DEF Ready
    <3>2. conn.state = "CONNECTED"
      <4>1. Len(list) \in Nat BY <1>3
      <4> QED BY <1>2, <3>1, <4>1 DEF OnceInv, Over
    <3>3. Told(c) /\ c.state = "CONNECTED"
      BY <1>8, <3>2, ToldStays DEF OnceInv, Passes
    <3>4. Told(fired) BY <1>8, <1>9, <1>14, <3>3, ToldStays DEF Sound
    <3>5. Told(conn') BY <1>11, <3>4, ToldStays
    <3>6. conn' = DeleteTimed(fired, t.fn) BY <1>7, <1>14 DEF KeepsTimed, fired
    <3>7. ~Ready(conn') BY <1>10, <1>14, <3>6 DEF Ready, Armed, Listed
    <3> QED BY <1>2, <3>5, <3>7 DEF OnceInv, Over
  <2> QED BY <1>2, <1>11, <1>12, <2>1 DEF Serves, Fits
<1> QED BY <1>13, <1>14

\* A step that ends the connection below the parser, or not at all.
LEMMA EndServes ==
    ASSUME Inv, Fits, NEW c, Sound(c), ToTimed2(c), c.authenticated = conn.authenticated,
           Polite /\ OnceInv => Told(c)
    PROVE  Serves
<1>1. /\ Kept(conn') /\ pc' = "timed2" /\ Over(conn', at')
      /\ conn'.state = c.state /\ conn'.attempts = c.attempts
      /\ conn'.downs = c.downs /\ conn'.authenticated = c.authenticated
  BY ToTimed2Sound
<1>2. Told(c) => Told(conn') BY <1>1 DEF Told
<1> QED BY <1>1, <1>2 DEF Serves, Fits, OnceInv

LEMMA EventServes ==
    ASSUME Inv, Fits,
           \/ connect_timeout \/ no_event \/ connect_complete \/ connect_failed
           \/ read_failed \/ read_again \/ read_data \/ chunk_done
    PROVE  Serves
<1>1. Sound(conn) /\ Kept(conn) /\ conn \in Conn BY SoundNow
<1> DEFINE bad == [conn EXCEPT !.error = TRUE]
<1>2. /\ Sound(bad) /\ bad.state = conn.state /\ bad.authenticated = conn.authenticated
      /\ Told(conn) => Told(bad)
  <2>1. Sound(bad) /\ Passes(conn, bad) BY <1>1, ErrorSound
  <2> HIDE DEF bad
  <2> QED BY <2>1, ToldStays DEF Passes
<1>3. ASSUME NEW c, Sound(c), c.authenticated = conn.authenticated, NEW env
      PROVE  /\ Sound(ConnDisconnect(c, env))
             /\ ConnDisconnect(c, env).authenticated = conn.authenticated
             /\ Told(c) /\ c.state # "DISCONNECTED" => Told(ConnDisconnect(c, env))
  <2>1. Sound(ConnDisconnect(c, env)) /\ Ends(c, ConnDisconnect(c, env))
    BY <1>3, ConnDisconnectSound DEF Sound
  <2> QED BY <1>3, <2>1, ToldStays DEF Ends, Sound
<1> HIDE DEF bad
<1>4. CASE connect_timeout
  <2>1. PICK env \in Choices : conn' = ConnDisconnect(bad, env)
    BY <1>4 DEF connect_timeout, bad
  <2>2. pc' = "idle" /\ conn.state = "CONNECTING" BY <1>4 DEF connect_timeout, ConnectTimedOut
  <2>3. /\ Sound(conn') /\ conn'.authenticated = conn.authenticated
        /\ Told(conn) => Told(conn')
    BY <1>2, <1>3, <2>1, <2>2
  <2> QED BY <2>2, <2>3 DEF Serves, Fits, OnceInv, Sound
<1>5. CASE no_event
  BY <1>1, <1>5 DEF no_event, Serves, Fits, OnceInv
<1>6. CASE connect_complete
  <2> DEFINE up == [conn EXCEPT !.state = "CONNECTED"]
             o  == OpenStream(up)
  <2>1. /\ ToTimed2(o) /\ conn.state = "CONNECTING" BY <1>6 DEF connect_complete
  <2>2. /\ up \in Conn /\ up.timed_handlers = conn.timed_handlers /\ up.state = "CONNECTED"
        /\ up.attempts = conn.attempts /\ up.downs = conn.downs
        /\ up.facts = conn.facts /\ up.handlers = conn.handlers
        /\ up.open_handler = conn.open_handler /\ up.authenticated = conn.authenticated
        /\ up.id_handlers = conn.id_handlers
    BY <1>1 DEF Conn, States
  <2> HIDE DEF up
  <2>3. Good(up)
    <3>1. "closing" \notin up.facts BY <1>1, <2>1, <2>2 DEF Sound, Good
    <3> QED BY <2>2, <3>1 DEF Good
  <2>4. Paired(up)
    <3>1. \A t : Awaited(conn, t) <=> Awaited(up, t) BY <2>2 DEF Awaited
    <3> QED BY <1>1, <2>2, <3>1 DEF Paired, Kept, Armed
  <2>5. Earned(up)
    <3>1. conn.attempts # 0 BY <1>1, <2>1 DEF Kept, Earned
    <3> QED BY <1>1, <2>2, <3>1 DEF Kept, Earned, Registered, Earns
  <2>6. Sound(up) BY <2>2, <2>3, <2>4, <2>5 DEF Sound, Kept
  <2>7. Sound(o) /\ Passes(up, o)
    <3>1. Sound(o) /\ Quiet(up, o, {}) BY <2>6, OpenStreamSound
    <3> QED BY <3>1, QuietPasses
  <2> HIDE DEF o
  <2>8. Told(conn) => Told(o) BY <2>1, <2>2, <2>7 DEF Told, Passes
  <2> QED BY <2>1, <2>2, <2>7, <2>8, EndServes DEF Passes, OnceInv
<1>7. CASE connect_failed
  <2>1. conn.state = "CONNECTING" BY <1>7 DEF connect_failed
  <2>2. PICK env \in Choices : ToTimed2(ConnDisconnect(conn, env)) BY <1>7 DEF connect_failed
  <2> QED BY <1>1, <1>3, <2>1, <2>2, EndServes DEF OnceInv
<1>8. CASE read_failed
  <2>1. conn.state = "CONNECTED" BY <1>8 DEF read_failed
  <2>2. PICK env \in Choices : ToTimed2(ConnDisconnect(bad, env)) BY <1>8 DEF read_failed, bad
  <2> QED BY <1>2, <1>3, <2>1, <2>2, EndServes DEF OnceInv
<1>9. CASE read_again \/ chunk_done
  <2>1. ToTimed2(conn) BY <1>9 DEF read_again, chunk_done
  <2> QED BY <1>1, <2>1, EndServes DEF OnceInv
<1>10. CASE read_data
  <2>1. conn.state = "CONNECTED" /\ pc' = "chunk" /\ UNCHANGED <<conn, at, stanza>>
    BY <1>10 DEF read_data
  <2>2. conn.attempts # 0 BY <1>1, <2>1 DEF Kept, Earned
  <2> QED BY <1>1, <2>1, <2>2 DEF Serves, Fits, OnceInv
<1> QED BY <1>4, <1>5, <1>6, <1>7, <1>8, <1>9, <1>10

LEMMA MoveServes ==
    ASSUME Inv, Fits, SkipTimed \/ EndTimed \/ SkipHandler \/ EndStanza
    PROVE  Serves
<1>1. conn' = conn BY DEF SkipTimed, EndTimed, SkipHandler, EndStanza
<1>2. CASE SkipTimed
  <2>1. pc' = pc /\ at <= Len(conn.timed_handlers) /\ pc \in {"timed1", "timed2"}
    BY <1>2 DEF SkipTimed
  <2>2. conn.timed_handlers \in Seq(TimedItem) BY DEF Fits, Kept, Conn
  <2>3. Len(conn.timed_handlers) \in Nat BY <2>2
  <2>4. Over(conn, at) => conn.state = "CONNECTED" BY <2>1, <2>3, SoundNow DEF Over
  <2> QED BY <1>1, <2>1, <2>4 DEF Serves, Fits, OnceInv, Over
<1>3. CASE EndTimed BY <1>1, <1>3 DEF EndTimed, Serves, Fits, OnceInv
<1>4. CASE SkipHandler BY <1>1, <1>4 DEF SkipHandler, Serves, Fits, OnceInv
<1>5. CASE EndStanza BY <1>1, <1>5 DEF EndStanza, Serves, Fits, OnceInv
<1> QED BY <1>2, <1>3, <1>4, <1>5

LEMMA ParseErrorServes ==
    ASSUME Inv, Fits, NEW c, Sound(c), Passes(conn, c), parse_error(c),
           Polite /\ OnceInv => conn.state = "CONNECTED"
    PROVE  Serves
<1> DEFINE broken == [c EXCEPT !.parser = "broken"]
<1>1. Same(c, broken) BY DEF Conn, Same, Sound, Kept
<1>2. PICK env \in Choices : ToTimed2(ConnDisconnect(broken, env)) BY DEF parse_error
<1> HIDE DEF broken
<1>3. Sound(broken) /\ Quiet(c, broken, {}) BY <1>1, SameSound
<1>4. Passes(conn, broken)
  <2>1. Passes(c, broken) BY <1>3, QuietPasses
  <2> QED BY <2>1, QuietPasses
<1>5. Sound(ConnDisconnect(broken, env)) /\ Ends(broken, ConnDisconnect(broken, env))
  BY <1>3, ConnDisconnectSound DEF Sound
<1>6. ConnDisconnect(broken, env).authenticated = conn.authenticated
  BY <1>4, <1>5 DEF Ends, Passes
<1>7. Polite /\ OnceInv => Told(ConnDisconnect(broken, env))
  <2> SUFFICES ASSUME Polite, OnceInv PROVE Told(ConnDisconnect(broken, env)) OBVIOUS
  <2>1. Told(broken) /\ broken.state = "CONNECTED"
    BY <1>4, ToldStays DEF OnceInv, Passes
  <2> QED BY <1>3, <1>5, <2>1, ToldStays DEF Sound
<1> QED BY <1>2, <1>5, <1>6, <1>7, EndServes

LEMMA StreamHeaderServes == ASSUME Inv, Fits, stream_header PROVE Serves
<1> DEFINE o == InPhase(conn.peer, "open")
           p == [o EXCEPT !.owed = @ \ {"header"}]
           c == [conn EXCEPT !.peer = p]
<1>1. Sound(conn) /\ Kept(conn) /\ conn \in Conn /\ conn.attempts \in Nat BY SoundNow
<1>2. p \in Peer
  <2>1. conn.peer \in Peer BY <1>1 DEF Conn
  <2>2. o \in Peer BY <2>1, PeerType
  <2> HIDE DEF o
  <2> QED BY <2>2, PeerType
<1>3. IF conn.parser = "start"
      THEN /\ \E root \in IncomingRoots, env \in Choices :
                 conn' = _handle_stream_start(c, root, env)
           /\ left' = left - 1
           /\ UNCHANGED <<pc, at, stanza>>
      ELSE parse_error(c)
  BY DEF stream_header
<1>4. pc = "chunk" /\ MayHeader BY DEF stream_header
<1> HIDE DEF p
<1>5. Sound(c) /\ Passes(conn, c) BY <1>1, <1>2, RepeeredSound
<1> HIDE DEF c
<1>6. Polite /\ OnceInv => conn.state = "CONNECTED"
  BY <1>4 DEF Polite, OnceInv, MayHeader, NewPeer
<1>7. CASE conn.parser = "start"
  <2>1. PICK root \in IncomingRoots, env \in Choices :
          conn' = _handle_stream_start(c, root, env)
    BY <1>3, <1>7
  <2>2. pc' = "chunk" BY <1>3, <1>4, <1>7
  <2>3. root \in Roots BY SessionAssumption
  <2>4. Sound(conn') BY <1>5, <2>1, <2>3, StreamStartSound
  <2>5. PICK e, b : /\ Kept(e) /\ Quiet(c, e, {})
                    /\ \/ b = e
                       \/ root # "stream" /\ Ends(e, b)
                    /\ Quiet(b, conn', OpenTimers)
    BY <1>5, <2>1, <2>3, StreamStartSound
  <2>6. Passes(conn, e) /\ Passes(b, conn')
    <3>1. Passes(c, e) /\ Passes(b, conn') BY <2>5, QuietPasses
    <3>2. Passes(conn, e) BY <1>5, <3>1, QuietPasses
    <3> QED BY <3>1, <3>2
  <2>7. conn'.authenticated = conn.authenticated BY <2>5, <2>6 DEF Passes, Ends
  <2>8. conn'.attempts # 0
    <3>1. b.attempts \in {conn.attempts, conn.attempts + 1} BY <2>5, <2>6 DEF Passes, Ends
    <3>2. conn.attempts # 0 BY <1>4 DEF Fits
    <3> QED BY <1>1, <2>6, <3>1, <3>2 DEF Passes
  <2>9. Polite /\ OnceInv => OnceInv'
    <3> SUFFICES ASSUME Polite, OnceInv PROVE OnceInv' OBVIOUS
    <3>1. b = e BY <2>5 DEF Polite
    <3>2. Passes(conn, conn') BY <2>6, <3>1, QuietPasses
    <3>3. Told(conn') /\ conn'.state = "CONNECTED" BY <1>6, <3>2, ToldStays DEF OnceInv, Passes
    <3> QED BY <2>2, <3>3 DEF OnceInv
  <2> QED BY <2>2, <2>4, <2>7, <2>8, <2>9 DEF Serves, Fits, Sound
<1>8. CASE conn.parser # "start" BY <1>3, <1>5, <1>6, <1>8, ParseErrorServes
<1> QED BY <1>7, <1>8

LEMMA GarbageServes == ASSUME Inv, Fits, garbage PROVE Serves
<1>1. parse_error(conn) /\ Garbled BY DEF garbage
<1> QED BY <1>1, SoundNow, ParseErrorServes, QuietPasses DEF Polite

LEMMA StreamEndServes == ASSUME Inv, Fits, stream_end PROVE Serves
<1> DEFINE p == InPhase(conn.peer, "ended")
           c == [conn EXCEPT !.peer = p]
<1>1. Sound(conn) /\ conn \in Conn /\ conn.attempts \in Nat BY SoundNow
<1>2. conn.peer \in Peer BY <1>1 DEF Conn
<1>3. p \in Peer /\ (Conforming => p.phase = "ended")
  BY <1>2, PeerType DEF InPhase, Peer
<1>4. PICK env \in Choices : conn' = _handle_stream_end(c, env) BY DEF stream_end
<1>5. pc' = "chunk" /\ pc = "chunk" /\ MayEnd BY DEF stream_end
<1> HIDE DEF p
<1>6. Sound(c) /\ Passes(conn, c) /\ c.peer = p BY <1>1, <1>3, RepeeredSound
<1> HIDE DEF c
<1> DEFINE k == [c EXCEPT !.parser = "ended"]
<1>7. Same(c, k) BY <1>6 DEF Conn, Same, Sound, Kept
<1>8. conn' = ConnDisconnectClean(k, env) BY <1>4 DEF _handle_stream_end
<1> HIDE DEF k
<1>9. Sound(k) /\ Quiet(c, k, {}) BY <1>6, <1>7, SameSound
<1>10. Sound(conn') /\ \E e : Kept(e) /\ Quiet(k, e, {}) /\ Ends(e, conn')
  BY <1>8, <1>9, ConnDisconnectCleanSound DEF Sound
<1>11. PICK e : Kept(e) /\ Quiet(k, e, {}) /\ Ends(e, conn') BY <1>10
<1>12. Quiet(c, e, {}) BY <1>9, <1>11, FollowsTrans
<1>13. Passes(conn, e) /\ e.peer = p
  <2>1. Passes(c, e) /\ e.peer = c.peer BY <1>12, QuietPasses
  <2> QED BY <1>6, <2>1, QuietPasses
<1>14. conn'.authenticated = conn.authenticated BY <1>11, <1>13 DEF Ends, Passes
<1>15. conn'.attempts # 0
  <2>1. conn'.attempts \in {conn.attempts, conn.attempts + 1} BY <1>11, <1>13 DEF Ends, Passes
  <2>2. conn.attempts # 0 BY <1>5 DEF Fits
  <2> QED BY <1>1, <2>1, <2>2
<1>16. Polite /\ OnceInv => OnceInv'
  <2> SUFFICES ASSUME Polite, OnceInv PROVE OnceInv' OBVIOUS
  <2>1. conn.state = "CONNECTED" BY <1>5 DEF OnceInv, MayEnd, Polite, NewPeer
  <2>2. Told(e) /\ e.state = "CONNECTED" BY <1>13, <2>1, ToldStays DEF OnceInv, Passes
  <2>3. Told(conn') BY <1>11, <2>2, ToldStays
  <2>4. conn'.peer.phase = "ended" \/ conn'.peer = NewPeer
    BY <1>3, <1>11, <1>13 DEF Ends, Polite
  <2> QED BY <1>5, <2>3, <2>4 DEF OnceInv
<1> QED BY <1>5, <1>10, <1>14, <1>15, <1>16 DEF Serves, Fits, Sound

LEMMA CallOneServes == ASSUME Inv, Fits, CallOne PROVE Serves
<1> DEFINE h == conn.handlers[at]
<1>1. Sound(conn) /\ conn \in Conn /\ at \in Nat \ {0} BY SoundNow
<1>2. pc = "stanza" /\ at <= Len(conn.handlers) /\ UNCHANGED <<pc, stanza, left>>
  BY DEF CallOne
<1>3. h.fn \in HandlerFns /\ Listed(conn.handlers, h.fn)
  <2>1. conn.handlers \in Seq(HandlerItem) BY <1>1 DEF Conn
  <2>2. DOMAIN conn.handlers = 1 .. Len(conn.handlers) /\ Len(conn.handlers) \in Nat BY <2>1
  <2>3. at \in DOMAIN conn.handlers BY <1>1, <1>2, <2>2
  <2>4. h \in HandlerItem BY <2>1, <2>3
  <2> QED BY <2>3, <2>4 DEF HandlerItem, Listed
<1>4. PICK env \in Choices :
        LET called == CallHandler(h.fn, conn, stanza, env)
        IN conn' \in {called, DropHandler(called, h.fn)}
  BY DEF CallOne
<1> HIDE DEF h
<1> DEFINE called == CallHandler(h.fn, conn, stanza, env)
<1>5. Sound(called) /\ Quiet(conn, called, TimedFns) /\ Unwatched(called, h.fn)
  BY <1>1, <1>2, <1>3, CallHandlerSound DEF Fits
<1> HIDE DEF called
<1>6. Sound(DropHandler(called, h.fn)) /\ Quiet(called, DropHandler(called, h.fn), {})
  BY <1>3, <1>5, DropHandlerSound
<1>7. Quiet(conn, DropHandler(called, h.fn), TimedFns) BY <1>5, <1>6, FollowsTrans
<1>8. Sound(conn') /\ Quiet(conn, conn', TimedFns)
  BY <1>4, <1>5, <1>6, <1>7 DEF called
<1>9. Passes(conn, conn') /\ conn'.peer = conn.peer BY <1>8, QuietPasses
<1>10. Fits' BY <1>2, <1>8, <1>9 DEF Fits, Passes, Earns, Sound
<1>11. OnceInv => OnceInv' BY <1>2, <1>9, ToldStays DEF OnceInv, Passes
<1> QED BY <1>9, <1>10, <1>11 DEF Serves, Passes

\* Handlers are enabled and stay where they are.
LEMMA EnableHandlers ==
    ASSUME NEW list \in Seq(HandlerItem)
    PROVE  /\ EnableAll(list) \in Seq(HandlerItem)
           /\ \A f : Listed(EnableAll(list), f) <=> Listed(list, f)
<1>1. ASSUME NEW i \in DOMAIN list PROVE EnableAll(list)[i].fn = list[i].fn
  <2>1. list[i] \in HandlerItem OBVIOUS
  <2>2. EnableAll(list)[i] = [list[i] EXCEPT !.enabled = TRUE] BY DEF EnableAll
  <2> QED BY <2>1, <2>2 DEF HandlerItem
<1>2. DOMAIN EnableAll(list) = DOMAIN list BY DEF EnableAll
<1> QED BY <1>1, <1>2, EnableAllType DEF Listed

\* A stanza arrives: what the server has agreed to is noted before a callback reads it,
\* and only the answers to legacy, bind and session authenticate.
LEMMA FireStanzaServes ==
    ASSUME Inv, Fits, handler_fire_stanza
    PROVE  /\ Fits'
           /\ Polite /\ OnceInv => OnceInv'
           /\ FirstAttempt /\ ~conn.authenticated /\ conn'.authenticated =>
                 \/ "legacy_result" \in conn'.facts
                 \/ /\ {"success", "bind_result"} \subseteq conn'.facts
                    /\ conn.session_required => "session_result" \in conn'.facts
<1>1. Sound(conn) /\ Kept(conn) /\ conn \in Conn /\ conn.attempts \in Nat /\ Good(conn)
  BY SoundNow
<1>2. PICK s \in Incoming, env \in Choices :
        /\ MayStanza(s)
        /\ LET c == [conn EXCEPT !.peer = AfterStanza(@, s),
                                 !.facts = @ \cup FactsOf(conn, s)]
               called == IF s.id \in c.id_handlers
                         THEN [CallId(s.id, c, s, env) EXCEPT !.id_handlers = @ \ {s.id}]
                         ELSE c
           IN conn' = [called EXCEPT !.handlers = EnableAll(@)]
        /\ stanza' = s
  BY DEF handler_fire_stanza
<1>3. pc = "chunk" /\ pc' = "stanza" /\ conn.attempts # 0 BY DEF handler_fire_stanza, Fits
<1> DEFINE p == AfterStanza(conn.peer, s)
           f == conn.facts \cup FactsOf(conn, s)
           c == [conn EXCEPT !.peer = p, !.facts = f]
           k == CallId(s.id, c, s, env)
           dropped == [k EXCEPT !.id_handlers = @ \ {s.id}]
           called == IF s.id \in c.id_handlers THEN dropped ELSE c
<1>4. s \in Stanza BY SessionAssumption
<1>5. p \in Peer
  <2>1. conn.peer \in Peer BY <1>1 DEF Conn
  <2> QED BY <2>1, PeerType
<1>6. f \in SUBSET Facts /\ conn.facts \subseteq f /\ ("closing" \in f => "closing" \in conn.facts)
  <2>1. FactsOf(conn, s) \subseteq Facts \ {"closing"} BY DEF FactsOf, Facts
  <2>2. conn.facts \in SUBSET Facts BY <1>1 DEF Conn
  <2> QED BY <2>1, <2>2
<1>7. /\ s.name = "success" => "success" \in f
      /\ s.type = "result" /\ s.id = "_handle_bind" => "bind_result" \in f
      /\ s.type = "result" /\ s.id = "_handle_session" => "session_result" \in f
      /\ s.type = "result" /\ s.id = "_handle_legacy" => "legacy_result" \in f
  BY DEF FactsOf
<1>8. conn' = [called EXCEPT !.handlers = EnableAll(@)] BY <1>2
<1> HIDE DEF p, f
<1>9. /\ c \in Conn /\ c.timed_handlers = conn.timed_handlers /\ c.state = conn.state
      /\ c.facts = f /\ c.attempts = conn.attempts /\ c.downs = conn.downs
      /\ c.handlers = conn.handlers /\ c.id_handlers = conn.id_handlers
      /\ c.open_handler = conn.open_handler /\ c.authenticated = conn.authenticated
      /\ c.session_required = conn.session_required
  BY <1>1, <1>5, <1>6 DEF Conn
<1> HIDE DEF c
<1>10. Sound(c)
  <2>1. Good(c) BY <1>1, <1>6, <1>9, Frame
  <2>2. Paired(c) BY <1>1, <1>9 DEF Kept, Paired, Armed, Awaited
  <2>3. Earned(c)
    <3>1. \A g : Registered(c, g) => Registered(conn, g) BY <1>9 DEF Registered
    <3>2. \A g : Earns(conn, g) => Earns(c, g) BY <1>6, <1>9 DEF Earns
    <3> QED BY <1>1, <1>3, <1>9, <3>1, <3>2 DEF Kept, Earned
  <2> QED BY <1>9, <2>1, <2>2, <2>3 DEF Sound, Kept
<1>11. ASSUME s.id \in c.id_handlers
       PROVE  /\ Sound(dropped) /\ Follows(c, dropped, TimedFns)
              /\ dropped.authenticated # c.authenticated =>
                    /\ s.type = "result"
                    /\ s.id = "_handle_bind" => ~c.session_required
  <2>1. s.id \in IdFns BY <1>9, <1>11 DEF Conn
  <2>2. /\ Sound(k) /\ Follows(c, k, TimedFns) /\ Unwatched(k, s.id)
        /\ k.authenticated # c.authenticated =>
              s.type = "result" /\ (s.id = "_handle_bind" => ~c.session_required)
    BY <1>7, <1>9, <1>10, <1>11, <2>1, CallIdSound
  <2> HIDE DEF k
  <2>3. Sound(dropped) /\ Quiet(k, dropped, {}) BY <2>1, <2>2, DropIdSound
  <2>4. Follows(k, dropped, {}) /\ dropped.authenticated = k.authenticated BY <2>3 DEF Quiet
  <2> HIDE DEF dropped
  <2>5. Follows(c, dropped, TimedFns) BY <2>2, <2>4, FollowsTrans
  <2> QED BY <2>2, <2>3, <2>4, <2>5
<1> HIDE DEF dropped
<1>12. /\ Sound(called) /\ Follows(c, called, TimedFns)
       /\ called.authenticated # conn.authenticated =>
             /\ s.id \in conn.id_handlers /\ s.type = "result"
             /\ s.id = "_handle_bind" => ~conn.session_required
  <2>1. CASE s.id \in c.id_handlers BY <1>9, <1>11, <2>1
  <2>2. CASE s.id \notin c.id_handlers BY <1>9, <1>10, <2>2, FollowsWeaken DEF Quiet
  <2> QED BY <2>1, <2>2
<1> HIDE DEF called
<1> DEFINE h == EnableAll(called.handlers)
           d == [called EXCEPT !.handlers = h]
<1>13. called \in Conn /\ h \in Seq(HandlerItem) /\ \A g : Listed(h, g) <=> Listed(called.handlers, g)
  BY <1>12, EnableHandlers DEF Sound, Kept, Conn
<1>14. conn' = d BY <1>8
<1> HIDE DEF h
<1>15. /\ d \in Conn /\ d.timed_handlers = called.timed_handlers /\ d.state = called.state
       /\ d.facts = called.facts /\ d.attempts = called.attempts /\ d.downs = called.downs
       /\ d.peer = called.peer /\ d.handlers = h /\ d.id_handlers = called.id_handlers
       /\ d.open_handler = called.open_handler /\ d.authenticated = called.authenticated
  BY <1>13 DEF Conn
<1> HIDE DEF d
<1>16. Kept(d)
  <2>1. \A g : Registered(d, g) => Registered(called, g) BY <1>13, <1>15 DEF Registered
  <2> QED BY <1>12, <1>13, <1>15, <2>1, KeptFrom DEF Sound
<1>17. /\ d.state = conn.state /\ d.attempts = conn.attempts /\ d.downs = conn.downs
       /\ f \subseteq d.facts
  BY <1>9, <1>12, <1>15 DEF Follows
<1>18. Fits'
  <2>1. s.name = "success" => Earns(d, "_handle_open_sasl") BY <1>7, <1>17 DEF Earns
  <2> QED BY <1>2, <1>3, <1>14, <1>16, <1>17, <2>1 DEF Fits
<1>19. Polite /\ OnceInv => OnceInv'
  <2> SUFFICES ASSUME Polite, OnceInv PROVE OnceInv' OBVIOUS
  <2>1. conn.state = "CONNECTED"
    BY <1>2, <1>3 DEF OnceInv, MayStanza, Polite, NewPeer
  <2>2. Told(d) BY <1>17 DEF OnceInv, Told
  <2> QED BY <1>3, <1>14, <1>17, <2>1, <2>2 DEF OnceInv
<1>20. ASSUME FirstAttempt, ~conn.authenticated, conn'.authenticated
       PROVE  \/ "legacy_result" \in conn'.facts
              \/ /\ {"success", "bind_result"} \subseteq conn'.facts
                 /\ conn.session_required => "session_result" \in conn'.facts
  <2>1. called.authenticated # conn.authenticated BY <1>14, <1>15, <1>20
  <2>2. s.id \in conn.id_handlers /\ s.type = "result"
    BY <1>12, <2>1
  <2>3. s.id = "_handle_bind" => ~conn.session_required BY <1>12, <2>1
  <2>4. s.id \in {"_handle_bind", "_handle_session", "_handle_legacy"}
    BY <1>1, <2>2 DEF Conn, IdFns
  <2>5. Earns(conn, s.id) BY <1>1, <2>2 DEF Kept, Earned, Registered
  <2> QED BY <1>6, <1>7, <1>14, <1>17, <1>20, <2>2, <2>3, <2>4, <2>5 DEF Earns, FirstAttempt
<1> QED BY <1>18, <1>19, <1>20

-----------------------------------------------------------------------------
(* The theorems. *)

Authenticates ==
    FirstAttempt /\ ~conn.authenticated /\ conn'.authenticated =>
        \/ "legacy_result" \in conn'.facts
        \/ /\ {"success", "bind_result"} \subseteq conn'.facts
           /\ conn.session_required => "session_result" \in conn'.facts

LEMMA InitFits == Init => Fits /\ OnceInv
<1> SUFFICES ASSUME Init PROVE Fits /\ OnceInv OBVIOUS
<1>1. PICK jid \in Jids : conn = NewConn(jid) BY DEF Init
<1>2. conn \in Conn BY InitInv DEF Inv, Good
<1>3. /\ conn.state = "DISCONNECTED" /\ conn.attempts = 0 /\ conn.downs = 0
      /\ conn.facts = {} /\ conn.timed_handlers = <<>> /\ conn.handlers = <<>>
      /\ conn.id_handlers = {}
  BY <1>1 DEF NewConn
<1>4. Paired(conn) BY <1>3 DEF Paired, Single, Armed, Listed
<1>5. Earned(conn)
  <2>1. conn.open_handler = "auth_handle_open" BY <1>1 DEF NewConn
  <2>2. \A f : Registered(conn, f) => f = "auth_handle_open"
    BY <1>3, <2>1 DEF Registered, Listed
  <2>3. Earns(conn, "auth_handle_open") BY EarnsFree
  <2> QED BY <1>3, <2>2, <2>3 DEF Earned
<1> QED BY <1>2, <1>3, <1>4, <1>5 DEF Fits, Kept, OnceInv, Told, Init

LEMMA NextFits ==
    Inv /\ Fits /\ [Next]_vars =>
        Fits' /\ [Authenticates]_vars /\ (Polite /\ OnceInv => OnceInv')
<1> SUFFICES ASSUME Inv, Fits, [Next]_vars
             PROVE  Fits' /\ [Authenticates]_vars /\ (Polite /\ OnceInv => OnceInv')
  OBVIOUS
<1>1. Serves => Fits' /\ Authenticates /\ (Polite /\ OnceInv => OnceInv')
  BY DEF Serves, Authenticates
<1>2. CASE User BY <1>1, <1>2, UserServes
<1>3. CASE Tick BY <1>1, <1>3, TickServes
<1>4. CASE Loop
  <2>1. CASE handler_fire_stanza BY <2>1, FireStanzaServes DEF Authenticates
  <2>2. CASE run_once_write BY <1>1, <2>2, WriteServes
  <2>3. CASE FireTimed BY <1>1, <2>3, FireTimedServes
  <2>4. CASE SkipTimed \/ EndTimed \/ SkipHandler \/ EndStanza BY <1>1, <2>4, MoveServes
  <2>5. CASE \/ connect_timeout \/ no_event \/ connect_complete \/ connect_failed
             \/ read_failed \/ read_again \/ read_data \/ chunk_done
    BY <1>1, <2>5, EventServes
  <2>6. CASE stream_header BY <1>1, <2>6, StreamHeaderServes
  <2>7. CASE stream_end BY <1>1, <2>7, StreamEndServes
  <2>8. CASE garbage BY <1>1, <2>8, GarbageServes
  <2>9. CASE CallOne BY <1>1, <2>9, CallOneServes
  <2> QED BY <1>4, <2>1, <2>2, <2>3, <2>4, <2>5, <2>6, <2>7, <2>8, <2>9 DEF Loop
<1>5. CASE UNCHANGED vars BY <1>5 DEF vars, Fits, OnceInv
<1> QED BY <1>2, <1>3, <1>4, <1>5 DEF Next

LEMMA FitsHolds == Spec => [](Inv /\ Fits)
<1>1. Init => Inv /\ Fits BY InitInv, InitFits
<1>2. Inv /\ Fits /\ [Next]_vars => (Inv /\ Fits)' BY NextInv, NextFits
<1> QED BY <1>1, <1>2, PTL DEF Spec

\* A timer that reports a missing answer is armed only while the handler of that
\* answer is registered, whatever the order of features, answers, late timers, failing
\* requests and reconnections from a callback (handler_add_timed and
\* xmpp_timed_handler_delete in auth.c; conn_reset_timed at every new connection).
THEOREM TimersArePaired == Spec => []TimersPaired
<1>1. Fits => TimersPaired
  <2>1. {"_handle_missing_features", "_handle_missing_features_sasl",
         "_handle_missing_bind", "_handle_missing_session",
         "_handle_missing_legacy"} \subseteq TimedFns
    BY DEF TimedFns
  <2>2. Fits => \A t \in TimedFns : Armed(conn, t) => Awaited(conn, t) BY DEF Fits, Kept, Paired
  <2> QED BY <2>1, <2>2 DEF TimersPaired, Armed, Awaited
<1> QED BY <1>1, FitsHolds, PTL

\* In a first attempt conn->authenticated becomes true only when the server has
\* accepted the client: with the answer to the legacy query, or after <success/>, the
\* answer to the binding and, if one was asked for, the answer to the session
\* (_handle_legacy, _handle_bind and _handle_session of auth.c).  The server need not
\* keep to any protocol, and allocations, writes and the user may do anything.
THEOREM AuthenticationEarned == Spec => AuthenticatedByServer
<1>1. Inv /\ Fits /\ [Next]_vars => [Authenticates]_vars BY NextFits
<1>2. Spec => [][Authenticates]_vars BY <1>1, FitsHolds, PTL DEF Spec
<1> QED BY <1>2 DEF AuthenticatedByServer, Authenticates

\* Against a server that keeps to the protocol, and unless TLS fails to write what it
\* holds back, the user is told DISCONNECT exactly once for each connection, although
\* the end may come from a timer, a read, a write, the parser or a handler, and the
\* callback may connect again (conn_disconnect of conn.c).
THEOREM DisconnectToldOnce == ASSUME Polite PROVE Spec => []DisconnectOnce
<1>1. Init => Inv /\ Fits /\ OnceInv BY InitInv, InitFits
<1>2. Inv /\ Fits /\ OnceInv /\ [Next]_vars => (Inv /\ Fits /\ OnceInv)'
  BY NextInv, NextFits
<1>3. OnceInv => DisconnectOnce BY DEF OnceInv, Told, DisconnectOnce
<1> QED BY <1>1, <1>2, <1>3, PTL DEF Spec
=============================================================================

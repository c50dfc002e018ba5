------------------------------ MODULE EventLoop ------------------------------
(***************************************************************************)
(* The event loop of event.c over all connections of a context: the five   *)
(* walks over ctx->connlist, the descriptors of sock.c, and an application *)
(* that makes, connects and releases connections, and stops the loop, from *)
(* callbacks as well as outside.  What happens inside one connection is    *)
(* Session.tla's; here it is a callback or an end.  TLS is not used.       *)
(***************************************************************************)
EXTENDS Integers, Sequences, FiniteSets

CONSTANTS
    Conns,      \* the connections made at most
    Sockets,    \* the descriptors the process may have
    MaxRef,     \* bound on the references to a connection when it is cloned
    NULL

ASSUME EventLoopAssumption ==
    /\ Sockets \subseteq Nat /\ IsFiniteSet(Sockets) /\ IsFiniteSet(Conns)
    /\ NULL \notin Conns \cup Sockets
    /\ MaxRef \in Nat \ {0}

VARIABLES
    loop_status,   \* ctx->loop_status
    connlist,      \* ctx->connlist
    conn,          \* the objects: ref (0 when freed), state, sock, and error # 0
    unmade,        \* the connections not made yet
    sockets,       \* what the system knows of each descriptor
    pc,            \* where xmpp_run_once is; app outside of it
    running,       \* xmpp_run is active
    at,            \* connitem of the walk, by its connection
    called,        \* in a callback of that connection
    rfds, wfds,    \* the descriptor sets
    watched,       \* history: the connections that put theirs into the sets
    late,          \* history: connections that connected since select
    leaked         \* history: descriptors nobody will close

objects == <<connlist, conn, unmade, sockets, late, leaked>>
place   == <<pc, at, called, running>>
sets    == <<rfds, wfds, watched>>
vars    == <<loop_status, objects, place, sets>>

None == [ref |-> 0, state |-> "DISCONNECTED", sock |-> NULL, error |-> FALSE]

Live      == {c \in Conns : conn[c].ref > 0}
Active(c) == conn[c].state # "DISCONNECTED"

Init ==
    /\ loop_status = "NOTSTARTED" /\ connlist = <<>>
    /\ conn = [c \in Conns |-> None] /\ unmade = Conns
    /\ sockets = [s \in Sockets |-> "closed"]
    /\ pc = "app" /\ running = FALSE /\ at = NULL /\ called = FALSE
    /\ rfds = {} /\ wfds = {} /\ watched = {} /\ late = {} /\ leaked = {}

-----------------------------------------------------------------------------
(* What the application may do, outside of the loop or in a callback. *)

Application == pc = "app" \/ called

First(s)     == IF s = <<>> THEN NULL ELSE s[1]
Place(s, c)  == CHOOSE i \in DOMAIN s : s[i] = c
After(s, c)  == SubSeq(s, Place(s, c) + 1, Len(s))
NextOf(s, c) == First(After(s, c))
\* Mutant of Without: the last of several is unlinked with its predecessor.
Without_two(s, c) ==
    IF Len(s) > 1 /\ s[Len(s)] = c THEN SubSeq(s, 1, Len(s) - 2)
    ELSE SubSeq(s, 1, Place(s, c) - 1) \o After(s, c)

Without(s, c) == SubSeq(s, 1, Place(s, c) - 1) \o After(s, c)

\* Which of those not made it is makes no difference.
xmpp_conn_new(c) ==
    /\ Application /\ c \in unmade /\ c = (CHOOSE d \in unmade : TRUE)
    /\ unmade' = unmade \ {c}
    /\ conn' = [conn EXCEPT ![c] = [None EXCEPT !.ref = 1]]
    /\ connlist' = Append(connlist, c)
    /\ UNCHANGED <<loop_status, sockets, late, leaked, place, sets>>

xmpp_conn_clone(c) ==
    /\ Application /\ conn[c].ref \in 1 .. MaxRef - 1
    /\ conn' = [conn EXCEPT ![c].ref = @ + 1]
    /\ UNCHANGED <<loop_status, connlist, unmade, sockets, late, leaked, place, sets>>

\* A callback does not give back the last reference to the connection it is called for.
\* The socket of a connection in use is not closed.
xmpp_conn_release(c) ==
    /\ Application /\ conn[c].ref > 0
    /\ ~(called /\ c = at /\ conn[c].ref = 1)
    /\ IF conn[c].ref > 1
       THEN /\ conn' = [conn EXCEPT ![c].ref = @ - 1]
            /\ UNCHANGED <<connlist, leaked, late>>
       ELSE /\ conn' = [conn EXCEPT ![c] = None]
            /\ connlist' = Without(connlist, c)
            /\ leaked' = leaked \cup (IF Active(c) THEN {conn[c].sock} ELSE {})
            /\ late' = late \ {c}
    /\ UNCHANGED <<loop_status, unmade, sockets, place, sets>>

\* The lowest descriptor that is free, as socket(2) gives it.
Lowest(S) == CHOOSE s \in S : \A t \in S : s <= t
Closed    == {s \in Sockets : sockets[s] = "closed"}

\* Addresses are tried until one connects or is in progress; the socket of one that did not
\* is not closed, and that of the last one is returned whatever became of it,
\* or none if socket(2) fails for it.
sock_connect(sock, tried) ==
    \/ /\ sock = Lowest(Closed) /\ tried = {}
       /\ \E outcome \in {"progress", "refused"} : sockets' = [sockets EXCEPT ![sock] = outcome]
    \/ /\ tried = {Lowest(Closed)} /\ Closed # tried
       /\ sock = Lowest(Closed \ tried)
       /\ \E outcome \in {"progress", "refused"} :
             sockets' = [s \in Sockets |-> IF s \in tried THEN "refused"
                                           ELSE IF s = sock THEN outcome ELSE sockets[s]]
    \/ /\ tried = {Lowest(Closed)} /\ sock = NULL
       /\ sockets' = [s \in Sockets |-> IF s \in tried THEN "refused" ELSE sockets[s]]

\* Without a socket it fails; if none was tried nothing changes.
xmpp_connect_client(c) ==
    /\ Application /\ c \in Live /\ ~Active(c) /\ Closed # {}
    /\ \E sock \in Closed \cup {NULL}, tried \in SUBSET Closed :
          /\ sock_connect(sock, tried)
          /\ conn' = IF sock = NULL THEN conn
                     ELSE [conn EXCEPT ![c].state = "CONNECTING", ![c].sock = sock]
          /\ late' = IF sock # NULL /\ pc = "process" THEN late \cup {c} ELSE late
          /\ leaked' = leaked \cup tried
    /\ UNCHANGED <<loop_status, connlist, unmade, place, sets>>

xmpp_stop ==
    /\ Application /\ loop_status = "RUNNING"
    /\ loop_status' = "QUIT"
    /\ UNCHANGED <<objects, place, sets>>

-----------------------------------------------------------------------------
(* xmpp_run and xmpp_run_once: the walks. *)

\* A walk begins, or goes on behind the connection it is at.
Walk(stage) == pc' = stage /\ at' = First(connlist) /\ called' = FALSE
Advance     == at' = NextOf(connlist, at) /\ called' = FALSE /\ UNCHANGED <<pc, running>>
Callback    == called' = TRUE /\ UNCHANGED <<pc, at, running>>

xmpp_run ==
    /\ pc = "app" /\ loop_status = "NOTSTARTED"
    /\ loop_status' = "RUNNING" /\ running' = TRUE /\ Walk("send")
    /\ UNCHANGED <<objects, sets>>

xmpp_run_once ==
    /\ pc = "app" /\ loop_status # "QUIT"
    /\ loop_status' = "RUNNING" /\ Walk("send")
    /\ UNCHANGED <<running, objects, sets>>

\* Mutant of conn_disconnect: the socket is not closed.
conn_disconnect_open(c, error) ==
    /\ conn' = [conn EXCEPT ![c].state = "DISCONNECTED", ![c].sock = NULL,
                            ![c].error = @ \/ error]
    /\ Callback
    /\ UNCHANGED <<loop_status, sockets, connlist, unmade, late, leaked, sets>>

\* conn_disconnect, up to the call of the connection handler; error is never reset, and
\* the number left in sock is not used again.
conn_disconnect(c, error) ==
    /\ conn' = [conn EXCEPT ![c].state = "DISCONNECTED", ![c].sock = NULL,
                            ![c].error = @ \/ error]
    /\ sockets' = [sockets EXCEPT ![conn[c].sock] = "closed"]
    /\ Callback
    /\ UNCHANGED <<loop_status, connlist, unmade, late, leaked, sets>>

Step(stage) == pc = stage /\ at # NULL /\ ~called

Pass == Advance /\ UNCHANGED <<loop_status, objects, sets>>

\* The queue is written, as far as it goes, unless that fails or failed before.
Send ==
    /\ Step("send")
    /\ \/ (conn[at].state = "CONNECTED" => ~conn[at].error) /\ Pass
       \/ conn[at].state = "CONNECTED" /\ conn_disconnect(at, TRUE)

\* Nothing is due, or a timed handler is called, or _disconnect_cleanup.
Timed ==
    /\ Step("timed1") \/ Step("timed2")
    /\ \/ Pass
       \/ /\ conn[at].state = "CONNECTED"
          /\ \/ Callback /\ UNCHANGED <<loop_status, objects, sets>>
             \/ conn_disconnect(at, FALSE)

\* Mutant of Watch: only connections that are made are watched.
Watch_made ==
    /\ Step("watch")
    /\ \/ conn[at].state = "CONNECTING" /\ conn_disconnect(at, TRUE)
       \/ /\ rfds' = IF conn[at].state = "CONNECTED" THEN rfds \cup {conn[at].sock} ELSE rfds
          /\ watched' = IF conn[at].state = "CONNECTED" THEN watched \cup {at} ELSE watched
          /\ Advance /\ UNCHANGED <<wfds, loop_status, objects>>

Watch ==
    /\ Step("watch")
    /\ \/ conn[at].state = "CONNECTING" /\ conn_disconnect(at, TRUE)     \* ETIMEDOUT
       \/ /\ wfds' = IF conn[at].state = "CONNECTING" THEN wfds \cup {conn[at].sock} ELSE wfds
          /\ rfds' = IF conn[at].state = "CONNECTED" THEN rfds \cup {conn[at].sock} ELSE rfds
          /\ watched' = IF Active(at) THEN watched \cup {at} ELSE watched
          /\ Advance /\ UNCHANGED <<loop_status, objects>>

Sets(r, w, by) == rfds' = r /\ wfds' = w /\ watched' = by

\* Mutant of EndIteration: the sets are not cleared.
EndIteration_kept ==
    /\ IF running /\ loop_status = "RUNNING" THEN Walk("send") /\ UNCHANGED running
       ELSE pc' = "app" /\ running' = FALSE /\ at' = NULL /\ called' = FALSE
    /\ Sets(rfds, wfds, {})

\* Mutant of EndIteration: xmpp_run does not look at loop_status.
EndIteration_always ==
    /\ IF running THEN Walk("send") /\ UNCHANGED running
       ELSE pc' = "app" /\ running' = FALSE /\ at' = NULL /\ called' = FALSE
    /\ Sets({}, {}, {})

\* The descriptor sets are those of one iteration.
EndIteration ==
    /\ IF running /\ loop_status = "RUNNING" THEN Walk("send") /\ UNCHANGED running
       ELSE pc' = "app" /\ running' = FALSE /\ at' = NULL /\ called' = FALSE
    /\ Sets({}, {}, {})

Settled == {s \in Sockets : sockets[s] \in {"up", "refused"}}
Up      == {s \in Sockets : sockets[s] = "up"}

\* All that are ready are reported; without any the iteration is over.
Report ==
    /\ pc = "select"
    /\ \E readable \in SUBSET (rfds \cap Up) :
          IF readable \cup (wfds \cap Settled) = {} THEN EndIteration
          ELSE /\ Walk("process") /\ UNCHANGED running
               /\ Sets(readable, wfds \cap Settled, watched)
    /\ UNCHANGED <<loop_status, objects>>

Interrupted ==
    /\ pc = "select" /\ EndIteration
    /\ UNCHANGED <<loop_status, objects>>

\* A connection is made or failed; something was read, or the end of the stream, of the
\* connection or of well-formedness.
Process ==
    LET reported == \/ conn[at].state = "CONNECTING" /\ conn[at].sock \in wfds
                    \/ conn[at].state = "CONNECTED"  /\ conn[at].sock \in rfds
    IN /\ Step("process")
       /\ \/ ~reported /\ Pass
          \/ /\ reported /\ conn[at].state = "CONNECTING"
             /\ IF sockets[conn[at].sock] = "up"
                THEN /\ conn' = [conn EXCEPT ![at].state = "CONNECTED"]
                     /\ Advance
                     /\ UNCHANGED <<loop_status, connlist, unmade, sockets, late, leaked, sets>>
                ELSE conn_disconnect(at, FALSE)
          \/ /\ reported /\ conn[at].state = "CONNECTED"
             /\ \/ Callback /\ UNCHANGED <<loop_status, objects, sets>>
                \/ \E error \in BOOLEAN : conn_disconnect(at, error)

Return == called /\ Pass

EndWalk ==
    /\ at = NULL
    /\ \/ pc = "send"    /\ Walk("timed1") /\ UNCHANGED <<running, sets, late>>
       \/ pc = "timed1"  /\ Walk("watch") /\ UNCHANGED <<running, sets, late>>
       \/ pc = "watch"   /\ pc' = "select" /\ UNCHANGED <<at, called, running, sets, late>>
       \/ pc = "process" /\ Walk("timed2") /\ late' = {} /\ UNCHANGED <<running, sets>>
       \/ pc = "timed2"  /\ EndIteration /\ UNCHANGED late
    /\ UNCHANGED <<loop_status, connlist, conn, unmade, sockets, leaked>>

\* The network settles what is in progress.
Network ==
    /\ \E s \in Sockets, outcome \in {"up", "refused"} :
          sockets[s] = "progress" /\ sockets' = [sockets EXCEPT ![s] = outcome]
    /\ UNCHANGED <<loop_status, connlist, conn, unmade, late, leaked, place, sets>>

-----------------------------------------------------------------------------
Loop == Send \/ Timed \/ Watch \/ Process \/ EndWalk

Next ==
    \/ \E c \in Conns : \/ xmpp_conn_new(c) \/ xmpp_conn_clone(c) \/ xmpp_conn_release(c)
                        \/ xmpp_connect_client(c)
    \/ xmpp_stop \/ xmpp_run \/ xmpp_run_once
    \/ Loop \/ Report \/ Interrupted \/ Return \/ Network

\* The loop goes on, callbacks return, and a signal does not interrupt every wait.
Fairness ==
    /\ WF_vars(Loop) /\ WF_vars(Return) /\ SF_vars(Report)

Spec     == Init /\ [][Next]_vars
FairSpec == Spec /\ Fairness

-----------------------------------------------------------------------------
TypeOK ==
    /\ loop_status \in {"NOTSTARTED", "RUNNING", "QUIT"}
    /\ connlist \in Seq(Conns) /\ unmade \subseteq Conns
    /\ conn \in [Conns -> [ref : 0 .. MaxRef, sock : Sockets \cup {NULL}, error : BOOLEAN,
                           state : {"DISCONNECTED", "CONNECTING", "CONNECTED"}]]
    /\ sockets \in [Sockets -> {"closed", "progress", "up", "refused"}]
    /\ pc \in {"app", "send", "timed1", "watch", "select", "process", "timed2"}
    /\ running \in BOOLEAN /\ called \in BOOLEAN /\ at \in Conns \cup {NULL}
    /\ rfds \subseteq Sockets /\ wfds \subseteq Sockets /\ watched \subseteq Conns
    /\ late \subseteq Conns /\ leaked \subseteq Sockets

\* The walks stand on connections of the list, whichever others a callback makes or
\* releases: connlist holds exactly the live ones, each once, and the next item is read
\* after the callback (event.c:96-160, 188-230, 241-346; conn.c:136-152, 195-216).
WalksLiveItems ==
    /\ \A i, j \in DOMAIN connlist : connlist[i] = connlist[j] => i = j
    /\ {connlist[i] : i \in DOMAIN connlist} = Live
    /\ at # NULL => at \in Live

\* A connection in use has an open socket of its own, and the sockets that are open and
\* nobody's are those that sock_connect gave up and those of connections released in use
\* (sock.c:97-113, conn.c:187-282, 424-427, 465-479).
SocketsOwned ==
    LET used == {c \in Conns : Active(c)} IN
    /\ \A c, d \in used : conn[c].sock = conn[d].sock => c = d
    /\ {s \in Sockets : sockets[s] # "closed"} = {conn[c].sock : c \in used} \cup leaked
    /\ {conn[c].sock : c \in used} \cap leaked = {}

\* What select has reported is taken by the connection it was reported for, unless the
\* connection was made by a callback since: that one may have been given the descriptor of
\* a connection closed in the same walk (event.c:241-346).
EventsBelong ==
    \A c \in Live : pc = "process" /\ Active(c) /\ c \notin late =>
        (conn[c].sock \in rfds \cup wfds => c \in watched)

\* xmpp_stop ends xmpp_run, whatever callbacks do (event.c:325-351).
StopEnds == loop_status = "QUIT" ~> ~running

\* Whatever the others do, a connection whose socket has been settled is served, as long as
\* the loop runs (event.c:241-268).
Served ==
    \A c \in Conns :
        (running /\ conn[c].state = "CONNECTING" /\ conn[c].sock \in Settled)
            ~> (~running \/ conn[c].state # "CONNECTING" \/ conn[c].sock \notin Settled)
=============================================================================

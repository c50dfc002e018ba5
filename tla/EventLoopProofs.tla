-------------------------- MODULE EventLoopProofs --------------------------
(***************************************************************************)
(* Proofs about EventLoop: the walks stay on live connections, sockets     *)
(* have one owner, and events go to whom they were reported for.           *)
(*                                                                         *)
(* First, what a list becomes when an item is appended or unlinked; then   *)
(* three invariants, each on top of the one before, with one step for each *)
(* action that can disturb them.                                           *)
(***************************************************************************)
EXTENDS EventLoop, WellFoundedInduction, TLAPS

-----------------------------------------------------------------------------
(* Lists. *)

Members(s)  == {s[i] : i \in DOMAIN s}
Distinct(s) == \A i, j \in DOMAIN s : s[i] = s[j] => i = j

\* The place of an item is where it is.
LEMMA PlaceIs ==
    ASSUME NEW s \in Seq(Conns), Distinct(s), NEW i \in DOMAIN s
    PROVE  Place(s, s[i]) = i
<1>1. \A j \in DOMAIN s : s[j] = s[i] <=> j = i
    BY DEF Distinct
<1> QED
    BY <1>1 DEF Place

\* The first item is one of the list, if it has any.
LEMMA FirstIs ==
    ASSUME NEW s \in Seq(Conns)
    PROVE  First(s) = NULL \/ (1 \in DOMAIN s /\ First(s) = s[1])
<1>1. s = <<>> \/ 1 \in DOMAIN s
    OBVIOUS
<1> QED
    BY <1>1 DEF First

\* What follows an item is none, or the item after it.
LEMMA NextOfIs ==
    ASSUME NEW s \in Seq(Conns), Distinct(s), NEW i \in DOMAIN s
    PROVE  NextOf(s, s[i]) = NULL \/ (i + 1 \in DOMAIN s /\ NextOf(s, s[i]) = s[i + 1])
<1> DEFINE t == SubSeq(s, i + 1, Len(s))
<1>1. After(s, s[i]) = t
    BY PlaceIs DEF After
<1>2. i \in 1 .. Len(s) /\ Len(s) \in Nat
    OBVIOUS
<1>3. t \in Seq(Conns) /\ Len(t) = Len(s) - i /\ \A j \in DOMAIN t : t[j] = s[i + j]
    BY <1>2
<1>4. First(t) = NULL \/ (1 \in DOMAIN t /\ First(t) = t[1])
    BY <1>3, FirstIs
<1>5. 1 \in DOMAIN t => i + 1 \in DOMAIN s /\ t[1] = s[i + 1]
    BY <1>2, <1>3
<1> QED
    BY <1>1, <1>4, <1>5 DEF NextOf

\* Unlinking an item takes that one out and leaves the others in their order.
LEMMA WithoutIs ==
    ASSUME NEW s \in Seq(Conns), Distinct(s), NEW c \in Members(s)
    PROVE  LET w == Without(s, c) IN
           /\ w \in Seq(Conns) /\ Distinct(w)
           /\ Members(w) = Members(s) \ {c}
           /\ \A i, j \in DOMAIN w : i <= j =>
                 \E k, l \in DOMAIN s : k <= l /\ s[k] = w[i] /\ s[l] = w[j]
<1> DEFINE w == Without(s, c)
<1>1. PICK p \in DOMAIN s : s[p] = c
    BY DEF Members
<1>2. Place(s, c) = p
    BY <1>1, PlaceIs
<1>3. p \in 1 .. Len(s) /\ Len(s) \in Nat
    OBVIOUS
<1>4. w = SubSeq(s, 1, p - 1) \o SubSeq(s, p + 1, Len(s))
    BY <1>2 DEF Without, After
<1>5. w \in Seq(Conns) /\ DOMAIN w = 1 .. Len(s) - 1
    BY <1>3, <1>4
<1> DEFINE At(j) == IF j < p THEN j ELSE j + 1
<1> DEFINE front == SubSeq(s, 1, p - 1)
           back  == SubSeq(s, p + 1, Len(s))
<1>6. front \in Seq(Conns) /\ Len(front) = p - 1 /\ \A j \in 1 .. p - 1 : front[j] = s[j]
    BY <1>3
<1>7. back \in Seq(Conns) /\ Len(back) = Len(s) - p /\ \A j \in 1 .. Len(s) - p : back[j] = s[p + j]
    BY <1>3
<1>8. \A j \in DOMAIN w : w[j] = s[At(j)]
    <2> SUFFICES ASSUME NEW j \in 1 .. Len(s) - 1 PROVE w[j] = s[At(j)]
        BY <1>5
    <2> HIDE DEF front, back
    <2>1. CASE j < p
        BY <2>1, <1>3, <1>4, <1>6, <1>7 DEF front, back
    <2>2. CASE ~(j < p)
        <3>1. j - (p - 1) \in 1 .. Len(s) - p
            BY <2>2, <1>3
        <3>2. w = front \o back
            BY <1>4 DEF front, back
        <3>3. j \in Len(front) + 1 .. Len(front) + Len(back) /\ Len(front) \in Nat
            BY <2>2, <1>3, <1>6, <1>7
        <3>4. (front \o back)[j] = back[j - Len(front)]
            BY <3>3, <1>6, <1>7
        <3>5. Len(front) = p - 1 /\ p + (j - (p - 1)) = j + 1
            BY <2>2, <1>3, <1>6
        <3>6. back[j - (p - 1)] = s[p + (j - (p - 1))]
            BY <3>1, <1>7
        <3> QED
            BY <3>2, <3>4, <3>5, <3>6, <2>2
    <2> QED
        BY <2>1, <2>2
<1>9. \A j \in DOMAIN w : At(j) \in DOMAIN s /\ At(j) # p
    BY <1>3, <1>5
<1>10. Distinct(w)
    <2> SUFFICES ASSUME NEW i \in DOMAIN w, NEW j \in DOMAIN w, w[i] = w[j]
                 PROVE  i = j
        BY DEF Distinct
    <2>1. At(i) = At(j)
        BY <1>8, <1>9 DEF Distinct
    <2> QED
        BY <2>1, <1>3, <1>5
<1>11. Members(w) = Members(s) \ {c}
    <2>1. ASSUME NEW j \in DOMAIN w PROVE w[j] \in Members(s) \ {c}
        <3>1. w[j] = s[At(j)] /\ At(j) \in DOMAIN s /\ At(j) # p
            BY <1>8, <1>9
        <3>2. s[At(j)] # s[p]
            BY <3>1 DEF Distinct
        <3> QED
            BY <3>1, <3>2, <1>1 DEF Members
    <2>2. ASSUME NEW k \in DOMAIN s, k # p PROVE s[k] \in Members(w)
        <3>1. CASE k < p
            <4>1. k \in DOMAIN w /\ At(k) = k
                BY <3>1, <1>3, <1>5
            <4> QED
                BY <4>1, <1>8 DEF Members
        <3>2. CASE k > p
            <4>1. k - 1 \in DOMAIN w /\ At(k - 1) = k
                BY <3>2, <1>3, <1>5
            <4>2. w[k - 1] = s[k]
                BY <4>1, <1>8
            <4> QED
                BY <4>1, <4>2 DEF Members
        <3> QED
            BY <3>1, <3>2, <2>2, <1>3
    <2> QED
        BY <2>1, <2>2, <1>1 DEF Members
<1>12. ASSUME NEW i \in DOMAIN w, NEW j \in DOMAIN w, i <= j
       PROVE  \E k, l \in DOMAIN s : k <= l /\ s[k] = w[i] /\ s[l] = w[j]
    <2>1. At(i) \in DOMAIN s /\ At(j) \in DOMAIN s /\ At(i) <= At(j)
        BY <1>12, <1>3, <1>5
    <2> QED
        BY <2>1, <1>8
<1> QED
    BY <1>5, <1>10, <1>11, <1>12

\* Appending an item puts it behind the others.
LEMMA AppendIs ==
    ASSUME NEW s \in Seq(Conns), Distinct(s), NEW c \in Conns, c \notin Members(s)
    PROVE  LET a == Append(s, c) IN
           /\ a \in Seq(Conns) /\ Distinct(a)
           /\ Members(a) = Members(s) \cup {c}
           /\ Len(a) = Len(s) + 1 /\ a[Len(s) + 1] = c
           /\ \A i \in DOMAIN a : i = Len(s) + 1 \/ (i \in DOMAIN s /\ a[i] = s[i])
<1> DEFINE a == Append(s, c)
<1>1. a \in Seq(Conns) /\ Len(a) = Len(s) + 1 /\ Len(s) \in Nat
    OBVIOUS
<1>2. a[Len(s) + 1] = c /\ \A i \in DOMAIN s : i \in DOMAIN a /\ a[i] = s[i]
    BY <1>1
<1>3. \A i \in DOMAIN a : i = Len(s) + 1 \/ i \in DOMAIN s
    BY <1>1
<1>4. Members(a) = Members(s) \cup {c}
    BY <1>1, <1>2, <1>3 DEF Members
<1>5. Distinct(a)
    BY <1>2, <1>3 DEF Distinct, Members
<1> QED
    BY <1>1, <1>2, <1>3, <1>4, <1>5

\* The free descriptors that are left have a lowest one among them.
LEMMA LowestIs ==
    ASSUME NEW S \in SUBSET Sockets, S # {}
    PROVE  Lowest(S) \in S
<1>1. S \subseteq Nat
    BY EventLoopAssumption
<1>2. PICK m \in S : \A t \in S : <<t, m>> \notin OpToRel(<, Nat)
    BY <1>1, WFMin, NatLessThanWellFounded, Zenon
<1>3. \A t \in S : ~(t < m)
    BY <1>1, <1>2, Zenon DEF OpToRel
<1>4. \A t \in S : m <= t
    BY <1>1, <1>3
<1> QED
    BY <1>4 DEF Lowest

-----------------------------------------------------------------------------
(* The walks. *)

Object == [ref : 0 .. MaxRef, sock : Sockets \cup {NULL}, error : BOOLEAN,
           state : {"DISCONNECTED", "CONNECTING", "CONNECTED"}]

\* A connection in use has a descriptor.
HasSocket == \A c \in Conns : Active(c) => conn[c].sock \in Sockets

\* What keeps the walks on the list: a callback is called at an item, a connection is made
\* only once, and no walk goes on outside of the loop.
WalkInv ==
    /\ TypeOK /\ WalksLiveItems /\ HasSocket
    /\ unmade \cap Live = {}
    /\ called => at # NULL
    /\ pc = "app" => at = NULL

LEMMA ListIs ==
    ASSUME WalkInv
    PROVE  /\ connlist \in Seq(Conns) /\ Distinct(connlist) /\ Members(connlist) = Live
           /\ at # NULL => at \in Live
           /\ conn \in [Conns -> Object]
BY DEF WalkInv, TypeOK, WalksLiveItems, Distinct, Members, Object

\* A walk begins at none or at a live connection, and goes on to none or to one.
LEMMA AtFirst ==
    ASSUME WalkInv
    PROVE  First(connlist) = NULL \/ First(connlist) \in Live
<1>1. 1 \in DOMAIN connlist => connlist[1] \in Live
    BY ListIs DEF Members
<1> QED
    BY <1>1, ListIs, FirstIs

LEMMA AtNext ==
    ASSUME WalkInv, at # NULL
    PROVE  NextOf(connlist, at) = NULL \/ NextOf(connlist, at) \in Live
<1>1. PICK i \in DOMAIN connlist : connlist[i] = at
    BY ListIs DEF Members
<1>2. i + 1 \in DOMAIN connlist => connlist[i + 1] \in Live
    BY ListIs DEF Members
<1> QED
    BY <1>1, <1>2, ListIs, NextOfIs

\* The ways the place of the loop changes.
Places ==
    \/ UNCHANGED place
    \/ at # NULL /\ Advance
    \/ at # NULL /\ Callback
    \/ \E stage \in {"send", "timed1", "watch", "process", "timed2"} :
          Walk(stage) /\ running' \in BOOLEAN
    \/ pc' = "app" /\ at' = NULL /\ called' = FALSE /\ running' \in BOOLEAN
    \/ at = NULL /\ pc' = "select" /\ UNCHANGED <<at, called, running>>

PlaceOK ==
    /\ pc \in {"app", "send", "timed1", "watch", "select", "process", "timed2"}
    /\ running \in BOOLEAN /\ called \in BOOLEAN
    /\ at = NULL \/ at \in Live
    /\ called => at # NULL
    /\ pc = "app" => at = NULL

\* Wherever the loop goes, as long as the list is as it was, it is at a live connection.
LEMMA PlacesKeep ==
    ASSUME WalkInv, Places, Live' = Live
    PROVE  PlaceOK'
<1>1. PlaceOK
    BY DEF PlaceOK, WalkInv, TypeOK, WalksLiveItems
<1>2. CASE UNCHANGED place
    BY <1>1, <1>2 DEF PlaceOK, place
<1>3. CASE at # NULL /\ Advance
    BY <1>1, <1>3, AtNext DEF PlaceOK, Advance
<1>4. CASE at # NULL /\ Callback
    BY <1>1, <1>4 DEF PlaceOK, Callback
<1>5. CASE \E stage \in {"send", "timed1", "watch", "process", "timed2"} :
              Walk(stage) /\ running' \in BOOLEAN
    BY <1>1, <1>5, AtFirst DEF PlaceOK, Walk
<1>6. CASE pc' = "app" /\ at' = NULL /\ called' = FALSE /\ running' \in BOOLEAN
    BY <1>1, <1>6 DEF PlaceOK
<1>7. CASE at = NULL /\ pc' = "select" /\ UNCHANGED <<at, called, running>>
    BY <1>1, <1>7 DEF PlaceOK
<1> QED
    BY <1>2, <1>3, <1>4, <1>5, <1>6, <1>7 DEF Places

\* The types of everything but the list and the place.
DataOK ==
    /\ loop_status \in {"NOTSTARTED", "RUNNING", "QUIT"}
    /\ conn \in [Conns -> Object] /\ HasSocket
    /\ sockets \in [Sockets -> {"closed", "progress", "up", "refused"}]
    /\ rfds \subseteq Sockets /\ wfds \subseteq Sockets /\ watched \subseteq Conns
    /\ late \subseteq Conns /\ leaked \subseteq Sockets

LEMMA DataIs == ASSUME WalkInv PROVE DataOK
BY DEF WalkInv, TypeOK, DataOK, Object

\* A step that leaves the list alone keeps the invariant.
LEMMA ListStays ==
    ASSUME WalkInv, Places, DataOK', UNCHANGED <<connlist, unmade>>, Live' = Live
    PROVE  WalkInv'
<1>1. PlaceOK'
    BY PlacesKeep
<1>2. at' # NULL => at' \in Live' /\ at' \in Conns
    BY <1>1 DEF PlaceOK, Live
<1>3. WalksLiveItems'
    BY <1>2 DEF WalkInv, WalksLiveItems
<1>4. TypeOK'
    BY <1>1, <1>2 DEF WalkInv, TypeOK, DataOK, PlaceOK, Object
<1> QED
    BY <1>1, <1>3, <1>4 DEF WalkInv, DataOK, PlaceOK

\* conn_disconnect calls back, and changes neither the list nor the references.
LEMMA DisconnectKeeps ==
    ASSUME WalkInv, at # NULL, NEW e \in BOOLEAN, conn_disconnect(at, e)
    PROVE  /\ DataOK' /\ Live' = Live
           /\ Callback /\ UNCHANGED <<connlist, unmade>>
<1>1. at \in Conns
    BY ListIs DEF Live
<1>2. conn' \in [Conns -> Object] /\ \A c \in Conns : conn'[c].ref = conn[c].ref
    BY <1>1, ListIs DEF conn_disconnect, Object
<1>3. sockets' \in [Sockets -> {"closed", "progress", "up", "refused"}]
    BY DataIs DEF DataOK, conn_disconnect
<1>4. HasSocket'
    BY <1>1, DataIs DEF DataOK, HasSocket, Active, conn_disconnect, Object
<1>5. DataOK'
    BY <1>2, <1>3, <1>4, DataIs DEF DataOK, conn_disconnect, sets
<1> QED
    BY <1>2, <1>5 DEF Live, conn_disconnect

LEMMA DisconnectWalk ==
    ASSUME WalkInv, at # NULL, NEW e \in BOOLEAN, conn_disconnect(at, e)
    PROVE  WalkInv'
BY DisconnectKeeps, ListStays DEF Places

\* A step on which no object and no socket changes.
LEMMA ObjectsStay ==
    ASSUME WalkInv, Places, UNCHANGED objects,
           loop_status' \in {"NOTSTARTED", "RUNNING", "QUIT"},
           rfds' \subseteq Sockets, wfds' \subseteq Sockets, watched' \subseteq Conns
    PROVE  WalkInv'
<1>1. DataOK'
    BY DataIs DEF DataOK, HasSocket, Active, objects
<1> QED
    BY <1>1, ListStays DEF objects, Live

-----------------------------------------------------------------------------
(* WalkInv, one action at a time. *)

LEMMA WalkInit == Init => WalkInv
<1> SUFFICES ASSUME Init PROVE WalkInv
    OBVIOUS
<1>1. conn \in [Conns -> Object]
    BY EventLoopAssumption DEF Init, None, Object
<1>2. Live = {}
    BY DEF Init, None, Live
<1>3. <<>> \in Seq(Conns) /\ DOMAIN <<>> = {}
    OBVIOUS
<1>4. TypeOK
    BY <1>1, <1>3 DEF Init, TypeOK, Object
<1>5. HasSocket
    BY DEF Init, HasSocket, Active, None
<1> QED
    BY <1>2, <1>3, <1>4, <1>5 DEF Init, WalkInv, WalksLiveItems

LEMMA WalkNew ==
    ASSUME WalkInv, NEW c \in Conns, xmpp_conn_new(c)
    PROVE  WalkInv'
<1>1. c \in unmade /\ c \notin Live /\ c \notin Members(connlist)
    BY ListIs DEF WalkInv, xmpp_conn_new
<1>2. /\ connlist' \in Seq(Conns) /\ Distinct(connlist')
      /\ Members(connlist') = Members(connlist) \cup {c}
    BY <1>1, ListIs, AppendIs DEF xmpp_conn_new
<1>3. conn' = [conn EXCEPT ![c] = [None EXCEPT !.ref = 1]]
    BY DEF xmpp_conn_new
<1> DEFINE new == [None EXCEPT !.ref = 1]
<1>4. new \in Object /\ new.ref = 1 /\ new.state = "DISCONNECTED"
    <2>1. None \in Object /\ None.state = "DISCONNECTED"
        BY EventLoopAssumption DEF None, Object
    <2> QED
        BY <2>1, EventLoopAssumption DEF Object
<1>5. conn' = [conn EXCEPT ![c] = new]
    BY <1>3
<1> HIDE DEF new
<1>6. conn' \in [Conns -> Object] /\ Live' = Live \cup {c}
    BY <1>4, <1>5, ListIs DEF Live
<1>7. HasSocket'
    BY <1>4, <1>5, ListIs, DataIs DEF DataOK, HasSocket, Active
<1>8. WalksLiveItems'
    BY <1>2, <1>6, ListIs DEF WalksLiveItems, Distinct, Members, xmpp_conn_new, place
<1>9. TypeOK'
    BY <1>2, <1>6 DEF WalkInv, TypeOK, Object, xmpp_conn_new, place, sets
<1> QED
    BY <1>1, <1>6, <1>7, <1>8, <1>9 DEF WalkInv, xmpp_conn_new, place

LEMMA WalkClone ==
    ASSUME WalkInv, NEW c \in Conns, xmpp_conn_clone(c)
    PROVE  WalkInv'
<1>1. conn' \in [Conns -> Object] /\ Live' = Live /\ HasSocket'
    BY EventLoopAssumption, ListIs, DataIs
       DEF xmpp_conn_clone, Object, Live, DataOK, HasSocket, Active
<1>2. DataOK'
    BY <1>1, DataIs DEF DataOK, xmpp_conn_clone, sets
<1> QED
    BY <1>1, <1>2, ListStays DEF xmpp_conn_clone, Places

LEMMA WalkRelease ==
    ASSUME WalkInv, NEW c \in Conns, xmpp_conn_release(c)
    PROVE  WalkInv'
<1>1. CASE conn[c].ref > 1
    <2>1. conn' = [conn EXCEPT ![c].ref = @ - 1]
        BY <1>1 DEF xmpp_conn_release
    <2>2. conn[c].ref - 1 \in 0 .. MaxRef /\ conn[c].ref - 1 > 0
        BY <1>1, EventLoopAssumption, ListIs DEF Object
    <2>3. conn' \in [Conns -> Object]
        BY <2>1, <2>2, ListIs DEF Object
    <2>4. /\ conn'[c].ref = conn[c].ref - 1 /\ conn[c].ref > 0
          /\ \A d \in Conns \ {c} : conn'[d] = conn[d]
        BY <1>1, <2>1, ListIs, EventLoopAssumption DEF Object
    <2>5. Live' = Live
        BY <2>2, <2>4 DEF Live
    <2>6. conn' \in [Conns -> Object] /\ Live' = Live
        BY <2>3, <2>5
    <2>7. HasSocket'
        BY <2>1, ListIs, DataIs DEF Object, DataOK, HasSocket, Active
    <2>8. conn' \in [Conns -> Object] /\ Live' = Live /\ HasSocket'
        BY <2>6, <2>7
    <2>9. DataOK'
        BY <1>1, <2>8, DataIs DEF DataOK, xmpp_conn_release, sets
    <2> QED
        BY <1>1, <2>8, <2>9, ListStays DEF xmpp_conn_release, Places
<1>2. CASE ~(conn[c].ref > 1)
    <2>1. c \in Live /\ conn[c].ref = 1
        BY <1>2, ListIs, EventLoopAssumption DEF xmpp_conn_release, Live, Object
    <2>2. /\ connlist' \in Seq(Conns) /\ Distinct(connlist')
          /\ Members(connlist') = Members(connlist) \ {c}
        BY <1>2, <2>1, ListIs, WithoutIs DEF xmpp_conn_release
    <2>3. None \in Object /\ None.ref = 0 /\ None.state = "DISCONNECTED"
        BY EventLoopAssumption DEF None, Object
    <2>4. conn' \in [Conns -> Object] /\ Live' = Live \ {c} /\ HasSocket'
        BY <1>2, <2>3, ListIs, DataIs
           DEF xmpp_conn_release, Live, DataOK, HasSocket, Active
    <2>5. at # c
        BY <2>1, EventLoopAssumption DEF xmpp_conn_release, Application, WalkInv, Live
    <2>6. WalksLiveItems'
        BY <2>2, <2>4, <2>5, ListIs
           DEF WalksLiveItems, Distinct, Members, xmpp_conn_release, place
    <2>7. leaked' \subseteq Sockets /\ late' \subseteq Conns
        BY <1>2, DataIs DEF DataOK, HasSocket, xmpp_conn_release
    <2>8. TypeOK'
        BY <2>2, <2>4, <2>7 DEF WalkInv, TypeOK, Object, xmpp_conn_release, place, sets
    <2> QED
        BY <2>4, <2>6, <2>8 DEF WalkInv, xmpp_conn_release, place
<1> QED
    BY <1>1, <1>2

\* What sock_connect returns was closed, and it gives up none but closed ones.
LEMMA SockConnectIs ==
    ASSUME NEW sock \in Closed \cup {NULL}, NEW tried \in SUBSET Closed,
           sock_connect(sock, tried)
    PROVE  sock \notin tried
<1>1. tried \subseteq Sockets /\ NULL \notin tried
    BY EventLoopAssumption DEF Closed
<1>2. CASE tried = {}
    BY <1>2
<1>3. CASE Closed # tried /\ sock = Lowest(Closed \ tried)
    <2>1. Closed \ tried # {} /\ Closed \ tried \in SUBSET Sockets
        BY <1>3 DEF Closed
    <2> QED
        BY <1>3, <2>1, LowestIs
<1>4. CASE sock = NULL
    BY <1>1, <1>4
<1> QED
    BY <1>2, <1>3, <1>4 DEF sock_connect

LEMMA WalkConnect ==
    ASSUME WalkInv, NEW c \in Conns, xmpp_connect_client(c)
    PROVE  WalkInv'
<1>1. PICK sock \in Closed \cup {NULL}, tried \in SUBSET Closed :
         /\ sock_connect(sock, tried)
         /\ conn' = IF sock = NULL THEN conn
                    ELSE [conn EXCEPT ![c].state = "CONNECTING", ![c].sock = sock]
         /\ late' = IF sock # NULL /\ pc = "process" THEN late \cup {c} ELSE late
         /\ leaked' = leaked \cup tried
    BY DEF xmpp_connect_client
<1>2. Closed \subseteq Sockets
    BY DEF Closed
<1>3. conn' \in [Conns -> Object] /\ Live' = Live
    BY <1>1, <1>2, ListIs DEF Object, Live
<1>4. HasSocket'
    BY <1>1, <1>2, ListIs, DataIs DEF DataOK, HasSocket, Active, Object
<1>5. sockets' \in [Sockets -> {"closed", "progress", "up", "refused"}]
    BY <1>1, DataIs DEF DataOK, sock_connect
<1>6. DataOK'
    BY <1>1, <1>2, <1>3, <1>4, <1>5, DataIs DEF DataOK, xmpp_connect_client, sets
<1> QED
    BY <1>3, <1>6, ListStays DEF Places, xmpp_connect_client

LEMMA WalkSend == ASSUME WalkInv, Send PROVE WalkInv'
<1>1. at # NULL
    BY DEF Send, Step
<1>2. CASE Pass
    BY <1>1, <1>2, ObjectsStay, DataIs DEF Pass, sets, DataOK, Places
<1>3. CASE conn_disconnect(at, TRUE)
    BY <1>1, <1>3, DisconnectWalk
<1> QED
    BY <1>2, <1>3 DEF Send

LEMMA WalkTimed == ASSUME WalkInv, Timed PROVE WalkInv'
<1>1. at # NULL
    BY DEF Timed, Step
<1>2. CASE Pass
    BY <1>1, <1>2, ObjectsStay, DataIs DEF Pass, sets, DataOK, Places
<1>3. CASE Callback /\ UNCHANGED <<loop_status, objects, sets>>
    BY <1>1, <1>3, ObjectsStay, DataIs DEF sets, DataOK, Places
<1>4. CASE conn_disconnect(at, FALSE)
    BY <1>1, <1>4, DisconnectWalk
<1> QED
    BY <1>2, <1>3, <1>4 DEF Timed

LEMMA WalkWatch == ASSUME WalkInv, Watch PROVE WalkInv'
<1>1. at # NULL /\ at \in Conns
    BY ListIs DEF Watch, Step, Live
<1>2. CASE conn_disconnect(at, TRUE)
    BY <1>1, <1>2, DisconnectWalk
<1>3. CASE ~conn_disconnect(at, TRUE)
    <2>1. conn[at].state # "DISCONNECTED" => conn[at].sock \in Sockets
        BY <1>1, DataIs DEF DataOK, HasSocket, Active
    <2>2. rfds' \subseteq Sockets /\ wfds' \subseteq Sockets /\ watched' \subseteq Conns
        BY <1>1, <1>3, <2>1, DataIs DEF Watch, DataOK
    <2> QED
        BY <1>1, <1>3, <2>2, ObjectsStay, DataIs DEF Watch, DataOK, Places
<1> QED
    BY <1>2, <1>3

LEMMA WalkProcess == ASSUME WalkInv, Process PROVE WalkInv'
<1>1. at # NULL /\ at \in Conns
    BY ListIs DEF Process, Step, Live
<1>2. CASE Pass
    BY <1>1, <1>2, ObjectsStay, DataIs DEF Pass, sets, DataOK, Places
<1>3. CASE Callback /\ UNCHANGED <<loop_status, objects, sets>>
    BY <1>1, <1>3, ObjectsStay, DataIs DEF sets, DataOK, Places
<1>4. ASSUME NEW e \in BOOLEAN, conn_disconnect(at, e) PROVE WalkInv'
    BY <1>1, <1>4, DisconnectWalk
<1>5. CASE /\ conn[at].state = "CONNECTING"
           /\ conn' = [conn EXCEPT ![at].state = "CONNECTED"]
           /\ Advance
           /\ UNCHANGED <<loop_status, connlist, unmade, sockets, late, leaked, sets>>
    <2>1. conn' \in [Conns -> Object] /\ Live' = Live /\ HasSocket'
        BY <1>1, <1>5, ListIs, DataIs DEF Object, Live, DataOK, HasSocket, Active
    <2>2. DataOK'
        BY <1>5, <2>1, DataIs DEF DataOK, sets
    <2> QED
        BY <1>1, <1>5, <2>1, <2>2, ListStays DEF Places
<1> QED
    BY <1>2, <1>3, <1>4, <1>5 DEF Process

LEMMA EndIterationPlaces ==
    ASSUME WalkInv, EndIteration
    PROVE  Places /\ rfds' \subseteq Sockets /\ wfds' \subseteq Sockets /\ watched' \subseteq Conns
BY DEF EndIteration, Places, Sets, WalkInv, TypeOK

LEMMA WalkEndWalk == ASSUME WalkInv, EndWalk PROVE WalkInv'
<1>1. Places
    BY EndIterationPlaces DEF EndWalk, Places, WalkInv, TypeOK
<1>2. rfds' \subseteq Sockets /\ wfds' \subseteq Sockets /\ watched' \subseteq Conns
    BY EndIterationPlaces, DataIs DEF EndWalk, sets, DataOK
<1>3. late' \subseteq Conns
    BY DataIs DEF EndWalk, DataOK
<1>4. HasSocket' /\ Live' = Live
    BY DataIs DEF EndWalk, DataOK, HasSocket, Active, Live
<1>5. DataOK'
    BY <1>2, <1>3, <1>4, DataIs DEF EndWalk, DataOK
<1> QED
    BY <1>1, <1>4, <1>5, ListStays DEF EndWalk

LEMMA WalkReport == ASSUME WalkInv, Report PROVE WalkInv'
<1>1. PICK readable \in SUBSET (rfds \cap Up) :
         IF readable \cup (wfds \cap Settled) = {} THEN EndIteration
         ELSE /\ Walk("process") /\ UNCHANGED running
              /\ Sets(readable, wfds \cap Settled, watched)
    BY DEF Report
<1>2. /\ Places
      /\ rfds' \subseteq Sockets /\ wfds' \subseteq Sockets /\ watched' \subseteq Conns
    BY <1>1, EndIterationPlaces, DataIs DEF Places, Sets, DataOK, WalkInv, TypeOK
<1> QED
    BY <1>2, ObjectsStay, DataIs DEF Report, DataOK

LEMMA WalkRest ==
    ASSUME WalkInv, xmpp_stop \/ xmpp_run \/ xmpp_run_once \/ Interrupted \/ Return
    PROVE  WalkInv'
<1>1. UNCHANGED objects /\ loop_status' \in {"NOTSTARTED", "RUNNING", "QUIT"}
    BY DataIs DEF xmpp_stop, xmpp_run, xmpp_run_once, Interrupted, Return, Pass, DataOK
<1>2. rfds' \subseteq Sockets /\ wfds' \subseteq Sockets /\ watched' \subseteq Conns
    BY EndIterationPlaces, DataIs
       DEF xmpp_stop, xmpp_run, xmpp_run_once, Interrupted, Return, Pass, DataOK, sets
<1>3. Places
    BY EndIterationPlaces
       DEF xmpp_stop, xmpp_run, xmpp_run_once, Interrupted, Return, Pass, Places, WalkInv, TypeOK
<1> QED
    BY <1>1, <1>2, <1>3, ObjectsStay

LEMMA WalkNetwork == ASSUME WalkInv, Network PROVE WalkInv'
<1>1. sockets' \in [Sockets -> {"closed", "progress", "up", "refused"}]
    BY DataIs DEF Network, DataOK
<1>2. HasSocket' /\ Live' = Live
    BY DataIs DEF Network, DataOK, HasSocket, Active, Live
<1>3. DataOK'
    BY <1>1, <1>2, DataIs DEF Network, DataOK, sets
<1> QED
    BY <1>2, <1>3, ListStays DEF Network, Places

LEMMA WalkNext == ASSUME WalkInv, [Next]_vars PROVE WalkInv'
<1>1. CASE UNCHANGED vars
    BY <1>1 DEF vars, objects, place, sets, WalkInv, TypeOK, WalksLiveItems, HasSocket,
                Active, Live
<1>2. CASE Next
    BY <1>2, WalkNew, WalkClone, WalkRelease, WalkConnect, WalkSend, WalkTimed, WalkWatch,
       WalkProcess, WalkEndWalk, WalkReport, WalkRest, WalkNetwork DEF Next, Loop
<1> QED
    BY <1>1, <1>2

\* The walks stand on live connections of the list, for any number of connections,
\* descriptors and references (event.c:96-160, 188-230, 241-346; conn.c:136-152, 195-216).
THEOREM WalksAreSafe == Spec => []WalksLiveItems
<1>1. Init => WalkInv
    BY WalkInit
<1>2. WalkInv /\ [Next]_vars => WalkInv'
    BY WalkNext
<1>3. WalkInv => WalksLiveItems
    BY DEF WalkInv
<1> QED
    BY <1>1, <1>2, <1>3, PTL DEF Spec

-----------------------------------------------------------------------------
(* Who owns a descriptor. *)

\* SocketsOwned, descriptor by descriptor; only live connections are in use.
Owned ==
    /\ \A c \in Conns : Active(c) =>
          /\ c \in Live /\ sockets[conn[c].sock] # "closed" /\ conn[c].sock \notin leaked
    /\ \A c, d \in Conns : Active(c) /\ Active(d) /\ conn[c].sock = conn[d].sock => c = d
    /\ \A s \in leaked : sockets[s] # "closed"
    /\ \A s \in Sockets : sockets[s] # "closed" =>
          s \in leaked \/ \E c \in Conns : Active(c) /\ conn[c].sock = s

LEMMA OwnedIs ==
    ASSUME WalkInv, Owned
    PROVE  SocketsOwned
<1> DEFINE used == {c \in Conns : Active(c)}
<1>1. \A c \in used : conn[c].sock \in Sockets
    BY DataIs DEF DataOK, HasSocket
<1>2. leaked \subseteq Sockets
    BY DataIs DEF DataOK
<1>3. {s \in Sockets : sockets[s] # "closed"} = {conn[c].sock : c \in used} \cup leaked
    BY <1>1, <1>2 DEF Owned
<1> QED
    BY <1>3 DEF Owned, SocketsOwned

\* A step on which the same connections use the same descriptors, and the same are closed.
LEMMA SameUse ==
    ASSUME Owned, leaked' = leaked,
           \A c \in Conns : /\ Active(c)' <=> Active(c)
                            /\ Active(c) => conn'[c].sock = conn[c].sock /\ c \in Live',
           \A s \in Sockets \cup leaked : sockets'[s] = "closed" <=> sockets[s] = "closed",
           HasSocket
    PROVE  Owned'
<1>1. \A c \in Conns : Active(c)' =>
         /\ c \in Live' /\ sockets'[conn'[c].sock] # "closed" /\ conn'[c].sock \notin leaked'
    BY DEF Owned, HasSocket
<1>2. \A c, d \in Conns : (Active(c) /\ Active(d))' /\ conn'[c].sock = conn'[d].sock => c = d
    BY DEF Owned
<1>3. \A s \in leaked' : sockets'[s] # "closed"
    BY DEF Owned
<1>4. \A s \in Sockets : sockets'[s] # "closed" =>
         s \in leaked' \/ \E c \in Conns : Active(c)' /\ conn'[c].sock = s
    BY DEF Owned
<1> QED
    BY <1>1, <1>2, <1>3, <1>4 DEF Owned

LEMMA OwnedStays ==
    ASSUME Owned, UNCHANGED <<conn, sockets, leaked>>
    PROVE  Owned'
BY DEF Owned, Active, Live

LEMMA OwnedInit == Init => Owned
BY DEF Init, Owned, Active, None

LEMMA OwnedNew ==
    ASSUME WalkInv, Owned, NEW c \in Conns, xmpp_conn_new(c)
    PROVE  Owned'
<1> DEFINE new == [None EXCEPT !.ref = 1]
<1>1. new.state = "DISCONNECTED" /\ new.ref = 1
    BY DEF None
<1>2. conn' = [conn EXCEPT ![c] = new]
    BY DEF xmpp_conn_new
<1>3. c \notin Live /\ ~Active(c)
    BY DEF xmpp_conn_new, WalkInv, Owned
<1> HIDE DEF new
<1>4. \A d \in Conns : d # c => conn'[d] = conn[d]
    BY <1>2, ListIs
<1>5. ~Active(c)'
    BY <1>1, <1>2, ListIs DEF Active
<1> QED
    BY <1>3, <1>4, <1>5, SameUse, DataIs DEF Owned, Active, Live, DataOK, xmpp_conn_new

LEMMA OwnedClone ==
    ASSUME WalkInv, Owned, NEW c \in Conns, xmpp_conn_clone(c)
    PROVE  Owned'
<1>1. \A d \in Conns : conn'[d].state = conn[d].state /\ conn'[d].sock = conn[d].sock
    BY ListIs DEF xmpp_conn_clone, Object
<1>2. Live' = Live
    BY ListIs, EventLoopAssumption DEF xmpp_conn_clone, Object, Live
<1> QED
    BY <1>1, <1>2, SameUse, DataIs DEF Owned, Active, DataOK, xmpp_conn_clone

\* The descriptor of a connection released in use becomes nobody's.
LEMMA OwnedRelease ==
    ASSUME WalkInv, Owned, NEW c \in Conns, xmpp_conn_release(c)
    PROVE  Owned'
<1>1. CASE conn[c].ref > 1
    <2>1. conn' = [conn EXCEPT ![c].ref = @ - 1]
        BY <1>1 DEF xmpp_conn_release
    <2>2. \A d \in Conns : conn'[d].state = conn[d].state /\ conn'[d].sock = conn[d].sock
        BY <2>1, ListIs DEF Object
    <2>3. conn'[c].ref > 0 /\ \A d \in Conns \ {c} : conn'[d] = conn[d]
        BY <1>1, <2>1, ListIs, EventLoopAssumption DEF Object
    <2>4. \A d \in Conns : d \in Live => d \in Live'
        BY <2>3 DEF Live
    <2> QED
        BY <1>1, <2>2, <2>4, SameUse, DataIs DEF Owned, Active, DataOK, xmpp_conn_release
<1>2. CASE ~(conn[c].ref > 1)
    <2>1. /\ \A d \in Conns : d # c => conn'[d] = conn[d]
          /\ conn'[c].state = "DISCONNECTED"
        BY <1>2, ListIs DEF xmpp_conn_release, None
    <2>2. /\ leaked' = leaked \cup (IF Active(c) THEN {conn[c].sock} ELSE {})
          /\ sockets' = sockets
        BY <1>2 DEF xmpp_conn_release
    <2>3. \A d \in Conns : Active(d)' <=> Active(d) /\ d # c
        BY <2>1 DEF Active
    <2>4. \A d \in Conns : Active(d)' => d \in Live'
        BY <2>1, <2>3 DEF Owned, Live
    <2>5. \A s \in leaked' : sockets'[s] # "closed"
        BY <2>2 DEF Owned
    <2>6. \A s \in Sockets : sockets'[s] # "closed" =>
             s \in leaked' \/ \E d \in Conns : Active(d)' /\ conn'[d].sock = s
        BY <2>1, <2>2, <2>3 DEF Owned
    <2>7. \A d \in Conns : Active(d)' =>
             sockets'[conn'[d].sock] # "closed" /\ conn'[d].sock \notin leaked'
        BY <2>1, <2>2, <2>3 DEF Owned
    <2>8. \A d, e \in Conns :
             (Active(d) /\ Active(e))' /\ conn'[d].sock = conn'[e].sock => d = e
        BY <2>1, <2>3 DEF Owned
    <2> QED
        BY <2>4, <2>5, <2>6, <2>7, <2>8 DEF Owned
<1> QED
    BY <1>1, <1>2

\* A connection is given a descriptor that was closed; those given up become nobody's.
LEMMA OwnedConnect ==
    ASSUME WalkInv, Owned, NEW c \in Conns, xmpp_connect_client(c)
    PROVE  Owned'
<1>1. PICK sock \in Closed \cup {NULL}, tried \in SUBSET Closed :
         /\ sock_connect(sock, tried)
         /\ conn' = IF sock = NULL THEN conn
                    ELSE [conn EXCEPT ![c].state = "CONNECTING", ![c].sock = sock]
         /\ leaked' = leaked \cup tried
    BY DEF xmpp_connect_client
<1>2. ~Active(c) /\ c \in Live
    BY DEF xmpp_connect_client
<1>3. sock \notin tried /\ NULL \notin Sockets
    BY <1>1, SockConnectIs, EventLoopAssumption
<1>4. \A s \in Sockets : sockets'[s] # "closed" <=>
         (sockets[s] # "closed" \/ s \in tried \/ s = sock)
    BY <1>1, <1>3, DataIs DEF sock_connect, DataOK, Closed
<1>5. \A s \in Closed : s \notin leaked /\ \A d \in Conns : Active(d) => conn[d].sock # s
    BY DEF Closed, Owned
<1>6. tried \subseteq Closed /\ tried \subseteq Sockets /\ leaked \subseteq Sockets
    BY DataIs DEF DataOK, Closed
<1>7. \A s \in leaked' : sockets'[s] # "closed"
    BY <1>1, <1>4, <1>6 DEF Owned
<1>8. CASE sock = NULL
    <2>1. conn' = conn
        BY <1>1, <1>8
    <2>2. \A d \in Conns : Active(d) =>
             sockets'[conn[d].sock] # "closed" /\ conn[d].sock \notin leaked'
        BY <1>1, <1>4, <1>5, <1>6, DataIs DEF Owned, DataOK, HasSocket
    <2>3. \A s \in Sockets : sockets'[s] # "closed" =>
             s \in leaked' \/ \E d \in Conns : Active(d) /\ conn[d].sock = s
        BY <1>1, <1>3, <1>4, <1>8 DEF Owned
    <2> QED
        BY <2>1, <2>2, <2>3, <1>7 DEF Owned, Active, Live
<1>9. CASE sock # NULL
    <2>1. /\ \A d \in Conns : d # c => conn'[d] = conn[d]
          /\ conn'[c].state = "CONNECTING" /\ conn'[c].sock = sock
          /\ conn'[c].ref = conn[c].ref
        BY <1>1, <1>9, ListIs DEF Object
    <2>2. \A d \in Conns : Active(d)' <=> Active(d) \/ d = c
        BY <2>1 DEF Active
    <2>3. \A d \in Conns : Active(d)' => d \in Live'
        BY <2>1, <2>2, <1>2 DEF Owned, Live
    <2>4. sock \in Sockets /\ sock \in Closed
        BY <1>9 DEF Closed
    <2>5. \A d \in Conns : Active(d)' =>
             sockets'[conn'[d].sock] # "closed" /\ conn'[d].sock \notin leaked'
        <3> SUFFICES ASSUME NEW d \in Conns, Active(d)'
                     PROVE  sockets'[conn'[d].sock] # "closed" /\ conn'[d].sock \notin leaked'
            OBVIOUS
        <3>1. CASE d = c
            BY <3>1, <2>1, <2>4, <1>1, <1>3, <1>4, <1>5
        <3>2. CASE d # c
            BY <3>2, <2>1, <2>2, <1>1, <1>4, <1>5, <1>6, DataIs DEF Owned, DataOK, HasSocket
        <3> QED
            BY <3>1, <3>2
    <2>6. \A d, e \in Conns :
             (Active(d) /\ Active(e))' /\ conn'[d].sock = conn'[e].sock => d = e
        BY <2>1, <2>2, <2>4, <1>5 DEF Owned
    <2>7. \A s \in Sockets : sockets'[s] # "closed" =>
             s \in leaked' \/ \E d \in Conns : Active(d)' /\ conn'[d].sock = s
        <3> SUFFICES ASSUME NEW s \in Sockets, sockets'[s] # "closed"
                     PROVE  s \in leaked' \/ \E d \in Conns : Active(d)' /\ conn'[d].sock = s
            OBVIOUS
        <3>1. CASE s = sock
            BY <3>1, <2>1, <2>2
        <3>2. CASE s \in tried
            BY <3>2, <1>1
        <3>3. CASE sockets[s] # "closed"
            <4>1. CASE s \in leaked
                BY <4>1, <1>1
            <4>2. ASSUME NEW d \in Conns, Active(d), conn[d].sock = s
                  PROVE  Active(d)' /\ conn'[d].sock = s
                BY <4>2, <2>1, <2>2, <1>2
            <4> QED
                BY <3>3, <4>1, <4>2 DEF Owned
        <3> QED
            BY <3>1, <3>2, <3>3, <1>4
    <2> QED
        BY <2>3, <2>5, <2>6, <2>7, <1>7 DEF Owned
<1> QED
    BY <1>8, <1>9

\* The descriptor a connection ends with was its own.
LEMMA OwnedDisconnect ==
    ASSUME WalkInv, Owned, NEW e \in BOOLEAN, at # NULL, Active(at), conn_disconnect(at, e)
    PROVE  Owned'
<1>1. at \in Conns
    BY ListIs DEF Live
<1>2. /\ \A d \in Conns : d # at => conn'[d] = conn[d]
      /\ conn'[at].state = "DISCONNECTED"
    BY <1>1, ListIs DEF conn_disconnect, Object
<1>3. \A d \in Conns : Active(d)' <=> Active(d) /\ d # at
    BY <1>1, <1>2 DEF Active
<1> DEFINE sock == conn[at].sock
<1>4. sock \in Sockets
    BY <1>1, DataIs DEF DataOK, HasSocket
<1>5. sockets' = [sockets EXCEPT ![sock] = "closed"] /\ leaked' = leaked
    BY DEF conn_disconnect
<1>6. \A s \in Sockets : sockets'[s] # "closed" <=> sockets[s] # "closed" /\ s # sock
    BY <1>4, <1>5, DataIs DEF DataOK
<1>7. sock \notin leaked /\ leaked \subseteq Sockets
    BY <1>1, DataIs DEF Owned, DataOK
<1> HIDE DEF sock
<1>8. \A d \in Conns : Active(d)' =>
         d \in Live' /\ sockets'[conn'[d].sock] # "closed" /\ conn'[d].sock \notin leaked'
    <2> SUFFICES ASSUME NEW d \in Conns, Active(d)'
                 PROVE  /\ d \in Live'
                        /\ sockets'[conn'[d].sock] # "closed" /\ conn'[d].sock \notin leaked'
        OBVIOUS
    <2>1. d # at /\ Active(d) /\ conn'[d] = conn[d] /\ conn[d].sock \in Sockets
        BY <1>2, <1>3, DataIs DEF DataOK, HasSocket
    <2>2. conn[d].sock # sock
        BY <1>1, <2>1 DEF Owned, sock
    <2> QED
        BY <2>1, <2>2, <1>5, <1>6 DEF Owned, Live
<1>9. \A d, f \in Conns :
         (Active(d) /\ Active(f))' /\ conn'[d].sock = conn'[f].sock => d = f
    BY <1>2, <1>3 DEF Owned
<1>10. \A s \in leaked' : sockets'[s] # "closed"
    BY <1>5, <1>6, <1>7 DEF Owned
<1>11. \A s \in Sockets : sockets'[s] # "closed" =>
         s \in leaked' \/ \E d \in Conns : Active(d)' /\ conn'[d].sock = s
    BY <1>2, <1>3, <1>5, <1>6 DEF Owned, sock
<1> QED
    BY <1>8, <1>9, <1>10, <1>11 DEF Owned

LEMMA OwnedProcess ==
    ASSUME WalkInv, Owned, Process
    PROVE  Owned'
<1>1. at # NULL /\ at \in Conns
    BY ListIs DEF Process, Step, Live
<1>2. CASE UNCHANGED <<conn, sockets, leaked>>
    BY <1>2, OwnedStays
<1>3. CASE /\ conn[at].state = "CONNECTING"
           /\ conn' = [conn EXCEPT ![at].state = "CONNECTED"]
           /\ UNCHANGED <<sockets, leaked>>
    <2>1. \A d \in Conns : /\ conn'[d].sock = conn[d].sock /\ conn'[d].ref = conn[d].ref
                           /\ Active(d)' <=> Active(d)
        BY <1>1, <1>3, ListIs DEF Object, Active
    <2> QED
        BY <1>3, <2>1, SameUse, DataIs DEF Owned, Live, DataOK
<1>4. ASSUME NEW e \in BOOLEAN, Active(at), conn_disconnect(at, e)
      PROVE  Owned'
    BY <1>1, <1>4, OwnedDisconnect
<1> QED
    BY <1>2, <1>3, <1>4 DEF Process, Pass, objects, Active

LEMMA OwnedEnds ==
    ASSUME WalkInv, Owned, Send \/ Timed \/ Watch
    PROVE  Owned'
<1>1. at # NULL
    BY DEF Send, Timed, Watch, Step
<1>2. CASE UNCHANGED <<conn, sockets, leaked>>
    BY <1>2, OwnedStays
<1>3. ASSUME NEW e \in BOOLEAN, Active(at), conn_disconnect(at, e)
      PROVE  Owned'
    BY <1>1, <1>3, OwnedDisconnect
<1> QED
    BY <1>2, <1>3 DEF Send, Timed, Watch, Pass, objects, Active

LEMMA OwnedNetwork ==
    ASSUME WalkInv, Owned, Network
    PROVE  Owned'
<1>1. \A s \in Sockets \cup leaked : sockets'[s] = "closed" <=> sockets[s] = "closed"
    BY DataIs DEF Network, DataOK
<1> QED
    BY <1>1, SameUse, DataIs DEF Network, Owned, Active, Live, DataOK

LEMMA OwnedNext == ASSUME WalkInv, Owned, [Next]_vars PROVE Owned'
<1>1. CASE UNCHANGED vars
    BY <1>1, OwnedStays DEF vars, objects
<1>2. CASE xmpp_stop \/ xmpp_run \/ xmpp_run_once \/ EndWalk \/ Report \/ Interrupted \/ Return
    BY <1>2, OwnedStays DEF xmpp_stop, xmpp_run, xmpp_run_once, EndWalk, Report, Interrupted,
       Return, Pass, objects
<1>3. CASE Next
    BY <1>2, <1>3, OwnedNew, OwnedClone, OwnedRelease, OwnedConnect, OwnedEnds, OwnedProcess,
       OwnedNetwork DEF Next, Loop
<1> QED
    BY <1>1, <1>3

\* Every open socket has one owner or is one the code is known to lose, for any number of
\* connections and descriptors (sock.c:97-113, conn.c:187-282, 424-427, 465-479).
THEOREM SocketsAreOwned == Spec => []SocketsOwned
<1>1. Init => WalkInv /\ Owned
    BY WalkInit, OwnedInit
<1>2. WalkInv /\ Owned /\ [Next]_vars => (WalkInv /\ Owned)'
    BY WalkNext, OwnedNext
<1>3. WalkInv /\ Owned => SocketsOwned
    BY OwnedIs
<1> QED
    BY <1>1, <1>2, <1>3, PTL DEF Spec

-----------------------------------------------------------------------------
(* For whom events are reported. *)

\* The connections from the one the walk is at on are not watched yet.
Ahead == \A i, j \in DOMAIN connlist : i <= j /\ connlist[i] = at => connlist[j] \notin watched

\* A descriptor in the sets is that of a connection that put it there, or nobody's.
Backed == \A s \in rfds \cup wfds :
             s \in leaked \/ \E c \in watched : Active(c) /\ conn[c].sock = s

\* The sets are empty before they are filled, and stay those of the watched connections
\* until the walk that reads them.
Reported ==
    /\ unmade \cap watched = {}
    /\ pc \in {"app", "send", "timed1"} => rfds = {} /\ wfds = {} /\ watched = {}
    /\ pc = "watch" => Ahead
    /\ pc \in {"watch", "select"} => Backed
    /\ EventsBelong

\* Going on to the next connection leaves those ahead of it unwatched.
LEMMA AheadNext ==
    ASSUME WalkInv, Ahead, at # NULL, at' = NextOf(connlist, at), connlist' = connlist,
           watched' \subseteq watched \cup {at}
    PROVE  Ahead'
<1>1. PICK p \in DOMAIN connlist : connlist[p] = at
    BY ListIs DEF Members
<1>2. at' = NULL \/ (p + 1 \in DOMAIN connlist /\ at' = connlist[p + 1])
    BY <1>1, ListIs, NextOfIs
<1>3. \A i \in DOMAIN connlist : connlist[i] # NULL /\ i \in Nat
    BY ListIs, EventLoopAssumption
<1> SUFFICES ASSUME NEW i \in DOMAIN connlist, NEW j \in DOMAIN connlist,
                    i <= j, connlist[i] = at'
             PROVE  connlist[j] \notin watched'
    BY DEF Ahead
<1>4. p + 1 \in DOMAIN connlist /\ at' = connlist[p + 1]
    BY <1>2, <1>3
<1>5. i = p + 1
    BY <1>4, ListIs DEF Distinct
<1>6. p <= j /\ p # j
    BY <1>3, <1>5
<1>7. connlist[j] \notin watched
    BY <1>1, <1>6 DEF Ahead
<1>8. connlist[j] # at
    BY <1>1, <1>6, ListIs DEF Distinct
<1> QED
    BY <1>7, <1>8

\* A step within one walk that leaves the sets alone: in the walk that fills them, a watched
\* connection keeps its descriptor or loses it to nobody; in the walk that reads them, a
\* connection that is given one is late.
LEMMA ReportedStays ==
    ASSUME WalkInv, Owned, Reported, pc' = pc, UNCHANGED sets, unmade' \subseteq unmade,
           pc = "watch" => Ahead',
           leaked \subseteq leaked',
           pc \in {"watch", "select"} => \A c \in watched : Active(c) =>
              \/ Active(c)' /\ conn'[c].sock = conn[c].sock
              \/ conn[c].sock \in leaked',
           pc = "process" => \A c \in Conns : Active(c)' /\ c \notin late' =>
              Active(c) /\ c \notin late /\ conn'[c].sock = conn[c].sock
    PROVE  Reported'
<1>1. rfds' = rfds /\ wfds' = wfds /\ watched' = watched
    BY DEF sets
<1>2. pc \in {"watch", "select"} => Backed'
    BY <1>1 DEF Reported, Backed
<1>3. EventsBelong'
    <2> SUFFICES ASSUME NEW c \in Live', pc = "process", Active(c)', c \notin late',
                        conn'[c].sock \in rfds \cup wfds
                 PROVE  c \in watched
        BY <1>1 DEF EventsBelong
    <2>1. c \in Conns /\ Active(c) /\ c \notin late /\ conn'[c].sock = conn[c].sock
        BY DEF Live
    <2>2. c \in Live
        BY <2>1 DEF Owned
    <2> QED
        BY <2>1, <2>2 DEF Reported, EventsBelong
<1> QED
    BY <1>1, <1>2, <1>3 DEF Reported

LEMMA ReportedInit == Init => Reported
BY DEF Init, Reported, EventsBelong, Ahead, Backed

LEMMA ReportedNew ==
    ASSUME WalkInv, Owned, Reported, NEW c \in Conns, xmpp_conn_new(c)
    PROVE  Reported'
<1> DEFINE new == [None EXCEPT !.ref = 1]
<1>1. new.state = "DISCONNECTED"
    BY DEF None
<1>2. conn' = [conn EXCEPT ![c] = new]
    BY DEF xmpp_conn_new
<1> HIDE DEF new
<1>3. c \in unmade /\ c \notin watched /\ c \notin Live
    BY DEF xmpp_conn_new, Reported, WalkInv
<1>4. ~Active(c)' /\ \A d \in Conns : d # c => conn'[d] = conn[d]
    BY <1>1, <1>2, ListIs DEF Active
<1>5. \A d \in Conns : Active(d)' => Active(d) /\ conn'[d].sock = conn[d].sock
    BY <1>4 DEF Active
<1>6. \A d \in watched : Active(d) => Active(d)' /\ conn'[d].sock = conn[d].sock
    BY <1>3, <1>4, DataIs DEF Active, DataOK
<1>7. ASSUME pc = "watch" PROVE Ahead'
    <2>1. c \notin Members(connlist) /\ connlist' = Append(connlist, c)
        BY <1>3, ListIs DEF xmpp_conn_new
    <2>2. /\ connlist'[Len(connlist) + 1] = c
          /\ \A i \in DOMAIN connlist' :
                i = Len(connlist) + 1 \/ (i \in DOMAIN connlist /\ connlist'[i] = connlist[i])
        BY <2>1, ListIs, AppendIs
    <2>3. at # c
        BY <1>3, ListIs, EventLoopAssumption
    <2> SUFFICES ASSUME NEW i \in DOMAIN connlist', NEW j \in DOMAIN connlist',
                        i <= j, connlist'[i] = at
                 PROVE  connlist'[j] \notin watched
        BY DEF Ahead, xmpp_conn_new, sets, place
    <2>4. i \in DOMAIN connlist /\ connlist[i] = at
        BY <2>2, <2>3
    <2>5. CASE j = Len(connlist) + 1
        BY <2>2, <2>5, <1>3
    <2>6. CASE j # Len(connlist) + 1
        BY <2>2, <2>4, <2>6, <1>7 DEF Reported, Ahead
    <2> QED
        BY <2>5, <2>6
<1> QED
    BY <1>5, <1>6, <1>7, ReportedStays DEF xmpp_conn_new, place

LEMMA ReportedClone ==
    ASSUME WalkInv, Owned, Reported, NEW c \in Conns, xmpp_conn_clone(c)
    PROVE  Reported'
<1>1. \A d \in Conns : (Active(d)' <=> Active(d)) /\ conn'[d].sock = conn[d].sock
    BY ListIs DEF xmpp_conn_clone, Object, Active
<1>2. watched \subseteq Conns
    BY DataIs DEF DataOK
<1>3. pc = "watch" => Ahead'
    BY DEF Reported, Ahead, xmpp_conn_clone, place, sets
<1> QED
    BY <1>1, <1>2, <1>3, ReportedStays DEF xmpp_conn_clone, place

LEMMA ReportedRelease ==
    ASSUME WalkInv, Owned, Reported, NEW c \in Conns, xmpp_conn_release(c)
    PROVE  Reported'
<1>1. watched \subseteq Conns
    BY DataIs DEF DataOK
<1>2. CASE conn[c].ref > 1
    <2>1. conn' = [conn EXCEPT ![c].ref = @ - 1] /\ connlist' = connlist
        BY <1>2 DEF xmpp_conn_release
    <2>2. \A d \in Conns : (Active(d)' <=> Active(d)) /\ conn'[d].sock = conn[d].sock
        BY <2>1, ListIs DEF Object, Active
    <2>3. pc = "watch" => Ahead'
        BY <2>1 DEF Reported, Ahead, xmpp_conn_release, place, sets
    <2> QED
        BY <1>1, <1>2, <2>2, <2>3, ReportedStays DEF xmpp_conn_release, place
<1>3. CASE ~(conn[c].ref > 1)
    <2>1. /\ \A d \in Conns : d # c => conn'[d] = conn[d]
          /\ ~Active(c)' /\ connlist' = Without(connlist, c)
          /\ leaked' = leaked \cup (IF Active(c) THEN {conn[c].sock} ELSE {})
          /\ late' = late \ {c}
        BY <1>3, ListIs DEF xmpp_conn_release, None, Active
    <2>2. c \in Live
        BY DEF xmpp_conn_release, Live
    <2>3. ASSUME pc = "watch" PROVE Ahead'
        <3>1. \A i, j \in DOMAIN connlist' : i <= j =>
                 \E k, l \in DOMAIN connlist :
                    k <= l /\ connlist[k] = connlist'[i] /\ connlist[l] = connlist'[j]
            BY <2>1, <2>2, ListIs, WithoutIs
        <3> QED
            BY <2>3, <3>1 DEF Reported, Ahead, xmpp_conn_release, place, sets
    <2>4. \A d \in Conns : Active(d)' => d # c /\ Active(d) /\ conn'[d].sock = conn[d].sock
        BY <2>1 DEF Active
    <2>5. \A d \in watched : Active(d) =>
             (Active(d)' /\ conn'[d].sock = conn[d].sock) \/ conn[d].sock \in leaked'
        BY <1>1, <2>1 DEF Active
    <2> QED
        BY <2>1, <2>3, <2>4, <2>5, ReportedStays DEF xmpp_conn_release, place
<1> QED
    BY <1>2, <1>3

LEMMA ReportedConnect ==
    ASSUME WalkInv, Owned, Reported, NEW c \in Conns, xmpp_connect_client(c)
    PROVE  Reported'
<1>1. PICK sock \in Closed \cup {NULL}, tried \in SUBSET Closed :
         /\ conn' = IF sock = NULL THEN conn
                    ELSE [conn EXCEPT ![c].state = "CONNECTING", ![c].sock = sock]
         /\ late' = IF sock # NULL /\ pc = "process" THEN late \cup {c} ELSE late
         /\ leaked' = leaked \cup tried
    BY DEF xmpp_connect_client
<1>2. ~Active(c)
    BY DEF xmpp_connect_client
<1>3. \A d \in Conns : d # c => conn'[d] = conn[d]
    BY <1>1, ListIs
<1>4. \A d \in watched : Active(d) => Active(d)' /\ conn'[d].sock = conn[d].sock
    BY <1>2, <1>3, DataIs DEF Active, DataOK
<1>5. pc = "process" => \A d \in Conns : Active(d)' /\ d \notin late' =>
         Active(d) /\ d \notin late /\ conn'[d].sock = conn[d].sock
    BY <1>1, <1>3 DEF Active
<1>6. pc = "watch" => Ahead'
    BY DEF Reported, Ahead, xmpp_connect_client, place, sets
<1> QED
    BY <1>1, <1>4, <1>5, <1>6, ReportedStays DEF xmpp_connect_client, place

\* While the sets are filled, the connection that ends has not put its descriptor there.
LEMMA ReportedDisconnect ==
    ASSUME WalkInv, Owned, Reported, NEW e \in BOOLEAN, at # NULL, pc # "select",
           conn_disconnect(at, e)
    PROVE  Reported'
<1>1. at \in Conns /\ at \in Members(connlist)
    BY ListIs DEF Live
<1>2. /\ \A d \in Conns : d # at => conn'[d] = conn[d]
      /\ conn'[at].state = "DISCONNECTED"
    BY <1>1, ListIs DEF conn_disconnect, Object
<1>3. pc = "watch" => at \notin watched
    BY <1>1, ListIs DEF Reported, Ahead, Members
<1>4. pc = "watch" => \A d \in watched : Active(d) => Active(d)' /\ conn'[d].sock = conn[d].sock
    BY <1>2, <1>3, DataIs DEF Active, DataOK
<1>5. \A d \in Conns : Active(d)' => Active(d) /\ conn'[d].sock = conn[d].sock
    <2> SUFFICES ASSUME NEW d \in Conns, Active(d)'
                 PROVE  Active(d) /\ conn'[d].sock = conn[d].sock
        OBVIOUS
    <2>1. d # at
        BY <1>2 DEF Active
    <2>2. conn'[d] = conn[d]
        BY <1>2, <2>1
    <2> QED
        BY <2>2 DEF Active
<1>6. pc = "watch" => Ahead'
    BY DEF Reported, Ahead, conn_disconnect, Callback, sets
<1> QED
    BY <1>4, <1>5, <1>6, ReportedStays DEF conn_disconnect, Callback

\* Going on, or calling back, changes no set.
LEMMA ReportedPass ==
    ASSUME WalkInv, Owned, Reported, at # NULL, Advance \/ Callback,
           UNCHANGED <<objects, sets>>
    PROVE  Reported'
<1>1. pc = "watch" => Ahead'
    <2>1. CASE Advance
        BY <2>1, AheadNext DEF Reported, Advance, objects, sets
    <2>2. CASE Callback
        BY <2>2 DEF Reported, Ahead, Callback, objects, sets
    <2> QED
        BY <2>1, <2>2
<1>2. pc' = pc
    BY DEF Advance, Callback
<1> QED
    BY <1>1, <1>2, ReportedStays DEF objects, Active

LEMMA ReportedWatch ==
    ASSUME WalkInv, Owned, Reported, Watch
    PROVE  Reported'
<1>1. at # NULL /\ at \in Conns /\ at \in Live /\ pc = "watch"
    BY ListIs DEF Watch, Step, Live
<1>2. CASE conn_disconnect(at, TRUE)
    BY <1>1, <1>2, ReportedDisconnect
<1>3. CASE ~conn_disconnect(at, TRUE)
    <2>1. /\ wfds' = IF conn[at].state = "CONNECTING" THEN wfds \cup {conn[at].sock} ELSE wfds
          /\ rfds' = IF conn[at].state = "CONNECTED" THEN rfds \cup {conn[at].sock} ELSE rfds
          /\ watched' = IF Active(at) THEN watched \cup {at} ELSE watched
          /\ Advance /\ UNCHANGED <<loop_status, objects>>
        BY <1>3 DEF Watch
    <2>2. unmade' \cap watched' = {}
        BY <1>1, <2>1 DEF Reported, WalkInv, objects
    <2>3. Ahead'
        BY <1>1, <2>1, AheadNext DEF Reported, Advance, objects
    <2>4. Backed'
        BY <1>1, <2>1 DEF Reported, Backed, Active, objects
    <2> QED
        BY <1>1, <2>1, <2>2, <2>3, <2>4 DEF Reported, EventsBelong, Advance
<1> QED
    BY <1>2, <1>3

LEMMA ReportedProcess ==
    ASSUME WalkInv, Owned, Reported, Process
    PROVE  Reported'
<1>1. at # NULL /\ at \in Conns /\ pc = "process"
    BY ListIs DEF Process, Step, Live
<1>2. CASE (Advance \/ Callback) /\ UNCHANGED <<objects, sets>>
    BY <1>1, <1>2, ReportedPass
<1>3. CASE /\ conn[at].state = "CONNECTING"
           /\ conn' = [conn EXCEPT ![at].state = "CONNECTED"]
           /\ Advance
           /\ UNCHANGED <<loop_status, connlist, unmade, sockets, late, leaked, sets>>
    <2>1. \A d \in Conns : (Active(d)' <=> Active(d)) /\ conn'[d].sock = conn[d].sock
        BY <1>1, <1>3, ListIs DEF Object, Active
    <2> QED
        BY <1>1, <1>3, <2>1, ReportedStays DEF Advance
<1>4. ASSUME NEW e \in BOOLEAN, conn_disconnect(at, e)
      PROVE  Reported'
    BY <1>1, <1>4, ReportedDisconnect
<1> QED
    BY <1>2, <1>3, <1>4 DEF Process, Pass

LEMMA ReportedEnds ==
    ASSUME WalkInv, Owned, Reported, Send \/ Timed \/ Return
    PROVE  Reported'
<1>1. at # NULL /\ (Send \/ Timed => pc # "select")
    BY DEF Send, Timed, Return, Step, WalkInv
<1>2. CASE (Advance \/ Callback) /\ UNCHANGED <<objects, sets>>
    BY <1>1, <1>2, ReportedPass
<1>3. ASSUME NEW e \in BOOLEAN, Send \/ Timed, conn_disconnect(at, e)
      PROVE  Reported'
    BY <1>1, <1>3, ReportedDisconnect
<1> QED
    BY <1>2, <1>3 DEF Send, Timed, Return, Pass

\* With empty sets a new iteration, or none, begins.
LEMMA ReportedEmpty ==
    ASSUME Reported, rfds' = {}, wfds' = {}, watched' = {},
           pc' \in {"app", "send", "timed1", "watch"}
    PROVE  Reported'
BY DEF Reported, Ahead, Backed, EventsBelong

LEMMA EndIterationEmpty ==
    ASSUME Reported, EndIteration
    PROVE  Reported'
BY ReportedEmpty DEF EndIteration, Sets, Walk

LEMMA ReportedEndWalk ==
    ASSUME WalkInv, Owned, Reported, EndWalk
    PROVE  Reported'
<1>1. CASE pc \in {"send", "timed1"}
    BY <1>1, ReportedEmpty DEF EndWalk, Walk, Reported, sets
<1>2. CASE pc = "watch"
    BY <1>2 DEF EndWalk, Reported, Backed, EventsBelong, Active, sets
<1>3. CASE pc = "process"
    BY <1>3 DEF EndWalk, Walk, Reported, EventsBelong, sets
<1>4. CASE pc = "timed2"
    BY <1>4, EndIterationEmpty DEF EndWalk
<1> QED
    BY <1>1, <1>2, <1>3, <1>4 DEF EndWalk

LEMMA ReportedReport ==
    ASSUME WalkInv, Owned, Reported, Report
    PROVE  Reported'
<1>1. PICK readable \in SUBSET (rfds \cap Up) :
         IF readable \cup (wfds \cap Settled) = {} THEN EndIteration
         ELSE /\ Walk("process") /\ UNCHANGED running
              /\ Sets(readable, wfds \cap Settled, watched)
    BY DEF Report
<1>2. CASE EndIteration
    BY <1>2, EndIterationEmpty
<1>3. CASE Walk("process") /\ Sets(readable, wfds \cap Settled, watched)
    <2>1. /\ rfds' \subseteq rfds /\ wfds' \subseteq wfds /\ watched' = watched
          /\ pc' = "process" /\ UNCHANGED objects
        BY <1>3 DEF Report, Walk, Sets
    <2>2. ASSUME NEW c \in Live, Active(c), conn[c].sock \in rfds' \cup wfds'
          PROVE  c \in watched
        <3>1. c \in Conns /\ conn[c].sock \in rfds \cup wfds /\ conn[c].sock \notin leaked
            BY <2>1, <2>2 DEF Owned, Live
        <3>2. PICK d \in watched : Active(d) /\ conn[d].sock = conn[c].sock
            BY <3>1 DEF Report, Reported, Backed
        <3>3. d \in Conns
            BY DataIs DEF DataOK
        <3> QED
            BY <2>2, <3>1, <3>2, <3>3 DEF Owned
    <2>3. EventsBelong'
        BY <2>1, <2>2 DEF EventsBelong, objects, Live, Active
    <2> QED
        BY <2>1, <2>3 DEF Reported, objects
<1> QED
    BY <1>1, <1>2, <1>3

LEMMA ReportedBegin ==
    ASSUME WalkInv, Owned, Reported, xmpp_run \/ xmpp_run_once \/ xmpp_stop \/ Interrupted
    PROVE  Reported'
<1>1. CASE xmpp_run \/ xmpp_run_once
    BY <1>1, ReportedEmpty DEF xmpp_run, xmpp_run_once, Walk, Reported, sets
<1>2. CASE xmpp_stop
    BY <1>2 DEF xmpp_stop, Reported, Ahead, Backed, EventsBelong, Active, Live, objects,
                place, sets
<1>3. CASE Interrupted
    BY <1>3, EndIterationEmpty DEF Interrupted
<1> QED
    BY <1>1, <1>2, <1>3

LEMMA ReportedNetwork ==
    ASSUME WalkInv, Owned, Reported, Network
    PROVE  Reported'
<1>1. pc = "watch" => Ahead'
    BY DEF Reported, Ahead, Network, place, sets
<1> QED
    BY <1>1, ReportedStays DEF Network, place, Active

LEMMA ReportedNext == ASSUME WalkInv, Owned, Reported, [Next]_vars PROVE Reported'
<1>1. CASE UNCHANGED vars
    BY <1>1 DEF vars, Reported, Ahead, Backed, EventsBelong, Active, Live, objects, place, sets
<1>2. CASE Next
    BY <1>2, ReportedNew, ReportedClone, ReportedRelease, ReportedConnect, ReportedEnds,
       ReportedWatch, ReportedProcess, ReportedEndWalk, ReportedReport, ReportedBegin,
       ReportedNetwork DEF Next, Loop
<1> QED
    BY <1>1, <1>2

\* Events are taken by the connections they were reported for, but for those connected in
\* the same walk, for any number of connections and descriptors (event.c:188-311).
THEOREM EventsAreTheirs == Spec => []EventsBelong
<1>1. Init => WalkInv /\ Owned /\ Reported
    BY WalkInit, OwnedInit, ReportedInit
<1>2. WalkInv /\ Owned /\ Reported /\ [Next]_vars => (WalkInv /\ Owned /\ Reported)'
    BY WalkNext, OwnedNext, ReportedNext
<1>3. Reported => EventsBelong
    BY DEF Reported
<1> QED
    BY <1>1, <1>2, <1>3, PTL DEF Spec
=============================================================================

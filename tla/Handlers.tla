------------------------------ MODULE Handlers -------------------------------
(***************************************************************************)
(* handler.c for one connection: the three kinds of lists, the two         *)
(* functions that fire them, and callbacks that add and delete handlers    *)
(* while a list is being walked.  A list is a sequence of functions, since *)
(* a function is on a list at most once; list.next is the successor in the *)
(* sequence.  A C function that is on a timed list and on another has two  *)
(* names here.  The pointers a walk holds across a callback are variables, *)
(* and freed holds the names of those whose item has been freed since.     *)
(* Memory is taken to suffice when hash_add relinks what is left of an id. *)
(***************************************************************************)
EXTENDS Integers, Sequences, FiniteSets

CONSTANTS
    StanzaHandlers, IdHandlers, TimedHandlers,   \* the functions of each list
    Ids,           \* the ids handlers wait for
    Stanzas,       \* [id, ns, name, type, inner], inner the namespaces of children
    Filter,        \* of a stanza handler: [ns, name, type]
    NULL,          \* no item, no id, or no filter
    User,          \* functions registered through the public interface
    Period,        \* of a timed handler
    Timeout,       \* the argument of xmpp_run_once
    MaxHandlers,   \* bound on the handlers there are when one is added
    MaxAge         \* bound on the ages of timed handlers

ASSUME HandlersAssumption ==
    /\ NULL \notin StanzaHandlers \cup IdHandlers \cup TimedHandlers \cup Ids
    /\ {"stanza", "timed"} \cap (Ids \cup {NULL}) = {}
    /\ TimedHandlers \cap (StanzaHandlers \cup IdHandlers) = {}
    /\ \A s \in Stanzas : s.id \in Ids \cup {NULL}
    /\ Period \in [TimedHandlers -> Nat]
    /\ Timeout \in Nat /\ MaxAge \in Nat /\ MaxHandlers \in Nat
    /\ \A f \in TimedHandlers : MaxAge > Period[f] /\ MaxAge > Timeout

VARIABLES
    lists,           \* conn->handlers, conn->timed_handlers, conn->id_handlers
    enabled,         \* the items with item->enabled, of the first two
    age,             \* time_stamp() - item->last_stamp
    connected,       \* conn->state = XMPP_STATE_CONNECTED
    authenticated,   \* conn->authenticated
    pc,              \* what runs: user, timed1, select, events, id, stanza, timed2, undefined
    stanza,          \* the argument of handler_fire_stanza
    item, prev, next, called,   \* a walk, and whether it is in item's callback
    min,             \* the delay handler_fire_timed computes
    freed,           \* the held pointers that dangle
    broken,          \* history: a callback of this walk deleted what it should not
    due,             \* history: items of this walk not visited yet
    registered,      \* history: functions added and neither deleted nor done
    doubtful         \* history: id handlers the walk may have cut off

walk  == <<item, prev, next, called, freed, broken, due>>
store == <<lists, enabled, age, registered, doubtful>>
vars  == <<store, walk, connected, authenticated, pc, stanza, min>>

Lists     == Ids \cup {"stanza", "timed"}
Functions == StanzaHandlers \cup IdHandlers \cup TimedHandlers
Of(l)     == CASE l = "stanza" -> StanzaHandlers [] l = "timed" -> TimedHandlers
               [] OTHER -> IdHandlers

Infinite == MaxAge + Timeout + 1      \* (uint64_t)(-1)

Members(s)   == {s[i] : i \in DOMAIN s}
Place(s, f)  == CHOOSE i \in DOMAIN s : s[i] = f
First(s)     == IF s = <<>> THEN NULL ELSE s[1]
After(s, f)  == IF f = NULL THEN <<>> ELSE SubSeq(s, Place(s, f) + 1, Len(s))
UpTo(s, f)   == IF f = NULL THEN <<>> ELSE SubSeq(s, 1, Place(s, f))
From(s, f)   == IF f = NULL THEN <<>> ELSE SubSeq(s, Place(s, f), Len(s))
NextOf(s, f) == First(After(s, f))
Without(s, f) ==
    IF f \in Members(s) THEN SubSeq(s, 1, Place(s, f) - 1) \o After(s, f) ELSE s

NoWalk ==
    /\ item' = NULL /\ prev' = NULL /\ next' = NULL /\ called' = FALSE
    /\ freed' = {} /\ due' = {} /\ broken' = FALSE

Init ==
    /\ lists = [l \in Lists |-> <<>>] /\ enabled = {} /\ age = [f \in TimedHandlers |-> 0]
    /\ registered = [l \in Lists |-> {}] /\ doubtful = {}
    /\ connected = FALSE /\ authenticated = FALSE
    /\ pc = "user" /\ stanza = NULL /\ min = 0
    /\ item = NULL /\ prev = NULL /\ next = NULL /\ called = FALSE
    /\ freed = {} /\ due = {} /\ broken = FALSE

-----------------------------------------------------------------------------
(* Adding and deleting, by the application between two calls of xmpp_run_once or in *)
(* a callback.  An addition that runs out of memory changes nothing.                *)

\* The list a walk is on.
Walked == CASE pc = "stanza" -> "stanza" [] pc \in {"timed1", "timed2"} -> "timed"
            [] pc = "id" -> stanza.id [] OTHER -> NULL

Running == pc = "user" \/ called

Append1(l, f) ==
    /\ f \notin Members(lists[l])
    /\ lists' = [lists EXCEPT ![l] = Append(@, f)]
    /\ registered' = [registered EXCEPT ![l] = @ \cup {f}]
    /\ enabled' = enabled \ {f}

_timed_handler_add(f) ==
    /\ Append1("timed", f)
    /\ age' = [age EXCEPT ![f] = 0]
    /\ UNCHANGED doubtful

\* What is appended behind the last item of the walk is not seen by the walk.
_id_handler_add(f, id) ==
    /\ Append1(id, f)
    /\ doubtful' = IF Walked = id THEN doubtful \cup {<<id, f>>}
                                  ELSE doubtful \ {<<id, f>>}
    /\ UNCHANGED age

_handler_add(f) == Append1("stanza", f) /\ UNCHANGED <<age, doubtful>>

\* The pointers of the walk on list l that a deletion of f leaves dangling.
Dangling(l, f) ==
    IF Walked # l THEN {}
    ELSE {p \in {"item", "prev", "next"} :
            f = CASE p = "item" -> item [] p = "prev" -> prev [] p = "next" -> next}

\* What a callback had better not delete from the list it is called from: itself and
\* what is in front of it, and from an id's chain the next one.
Forbidden(l) ==
    IF Walked # l \/ item \notin Members(lists[l]) THEN {}
    ELSE Members(UpTo(lists[l], item)) \cup (IF l \in Ids THEN {NextOf(lists[l], item)} ELSE {})

Remove(l, f) ==
    /\ f \in Members(lists[l])
    /\ lists' = [lists EXCEPT ![l] = Without(@, f)]
    /\ freed' = freed \cup Dangling(l, f)
    /\ due'   = IF Walked = l THEN due \ {f} ELSE due
    /\ broken' = (broken \/ f \in Forbidden(l))
    /\ enabled' = enabled \ {f}

\* The list without f, as the public functions leave it.  A handler that was cut off is
\* not found and stays unknown.
xmpp_timed_handler_delete(f) ==
    /\ Remove("timed", f)
    /\ age' = [age EXCEPT ![f] = 0]
    /\ registered' = [registered EXCEPT !["timed"] = @ \ {f}]
    /\ UNCHANGED doubtful

xmpp_id_handler_delete(f, id) ==
    /\ \/ Remove(id, f)
       \/ f \notin Members(lists[id]) /\ UNCHANGED <<lists, enabled, freed, due, broken>>
    /\ registered' = [registered EXCEPT ![id] = @ \ {f}]
    /\ doubtful' = doubtful \ {<<id, f>>}
    /\ UNCHANGED age

xmpp_handler_delete(f) ==
    /\ Remove("stanza", f)
    /\ registered' = [registered EXCEPT !["stanza"] = @ \ {f}]
    /\ UNCHANGED <<age, doubtful>>

Registered == Cardinality({p \in Lists \X Functions : p[2] \in Members(lists[p[1]])})

\* The public functions and their counterparts for the library's own handlers.
Register ==
    /\ Running /\ Registered < MaxHandlers
    /\ \/ \E f \in TimedHandlers : _timed_handler_add(f)
       \/ \E f \in IdHandlers, id \in Ids : _id_handler_add(f, id)
       \/ \E f \in StanzaHandlers : _handler_add(f)
    /\ UNCHANGED <<walk, connected, authenticated, pc, stanza, min>>

Delete ==
    /\ Running
    /\ \/ \E f \in TimedHandlers : xmpp_timed_handler_delete(f)
       \/ \E f \in IdHandlers, id \in Ids : xmpp_id_handler_delete(f, id)
       \/ \E f \in StanzaHandlers : xmpp_handler_delete(f)
    /\ UNCHANGED <<item, prev, next, called, connected, authenticated, pc, stanza, min>>

\* Negotiation ends in one of the library's own stanza callbacks, and nothing in the
\* library takes authenticated back.
Authenticate ==
    /\ called /\ pc \in {"id", "stanza"} /\ item \notin User
    /\ authenticated' = TRUE
    /\ UNCHANGED <<store, walk, connected, pc, stanza, min>>

\* auth_handle_open calls it with user_only 0, outside of any callback modelled here.
handler_reset_timed(user_only) ==
    age' = [f \in TimedHandlers |-> IF user_only /\ f \notin User THEN age[f] ELSE 0]

StreamOpen ==
    /\ pc = "events" /\ connected
    /\ handler_reset_timed(FALSE)
    /\ UNCHANGED <<lists, enabled, registered, doubtful, walk, connected, authenticated,
                   pc, stanza, min>>

-----------------------------------------------------------------------------
(* handler_fire_stanza. *)

Barred(f) == f \in User /\ ~authenticated

Matches(f, s) ==
    LET want == Filter[f]
    IN /\ want.ns = NULL \/ want.ns = s.ns \/ want.ns \in s.inner
       /\ want.name = NULL \/ want.name = s.name
       /\ want.type = NULL \/ want.type = s.type

\* A walk moves on to the item f, leaving prev alone or moving it over item.
MoveTo(f) ==
    /\ item' = f /\ next' = NULL /\ called' = FALSE
    /\ due' = due \ {item} /\ UNCHANGED broken

Forward(f) ==
    /\ MoveTo(f) /\ prev' = item
    /\ freed' = IF "item" \in freed THEN {"prev"} ELSE {}

Stay(f) == MoveTo(f) /\ prev' = prev /\ freed' = freed \cap {"prev"}

StartWalk(list, wanted) ==
    /\ item' = First(list) /\ prev' = NULL /\ next' = NULL /\ called' = FALSE
    /\ freed' = {} /\ broken' = FALSE /\ due' = Members(list) \cap wanted

\* An item is called; the walk of an id reads its successor before, the others after.
Call(successor) == called' = TRUE /\ next' = successor /\ due' = due \ {item}

\* The walk uses a pointer to a freed item.
Stop == pc' = "undefined" /\ UNCHANGED walk /\ UNCHANGED <<store, stanza, min>>

conn == <<connected, authenticated>>

handler_fire_stanza(s) ==
    /\ pc = "events" /\ connected
    /\ pc' = "id" /\ stanza' = s
    /\ StartWalk(IF s.id = NULL THEN <<>> ELSE lists[s.id], IdHandlers)
    /\ UNCHANGED <<store, conn, min>>

\* prev is not moved over a skipped item.
IdSkip ==
    /\ pc = "id" /\ item # NULL /\ ~called /\ Barred(item)
    /\ Stay(NextOf(lists[stanza.id], item))
    /\ doubtful' = doubtful \cup {<<stanza.id, item>>}
    /\ UNCHANGED <<lists, enabled, age, registered, conn, pc, stanza, min>>

IdCall ==
    /\ pc = "id" /\ item # NULL /\ ~called /\ ~Barred(item)
    /\ Call(NextOf(lists[stanza.id], item))
    /\ UNCHANGED <<store, item, prev, freed, broken, conn, pc, stanza, min>>

IdKeep ==
    /\ pc = "id" /\ called
    /\ \/ "next" \in freed /\ Stop
       \/ "next" \notin freed /\ Forward(next) /\ UNCHANGED <<store, pc, stanza, min>>
    /\ UNCHANGED conn

\* The chain of the id when item has been unlinked.
IdUnlinked(list) == UpTo(list, prev) \o From(list, next)

IdDone ==
    /\ pc = "id" /\ called
    /\ \/ freed # {} /\ Stop
       \/ /\ freed = {}
          /\ lists' = [lists EXCEPT ![stanza.id] = IdUnlinked(@)]
          /\ registered' = [registered EXCEPT ![stanza.id] = @ \ {item}]
          /\ doubtful' = doubtful \ {<<stanza.id, item>>}
          /\ Stay(next)
          /\ UNCHANGED <<enabled, age, pc, stanza, min>>
    /\ UNCHANGED conn

\* The second half: every handler on the list is enabled, and those added by a callback
\* from here on are not.
StanzaStart ==
    /\ pc = "id" /\ item = NULL
    /\ pc' = "stanza"
    /\ enabled' = enabled \cup Members(lists["stanza"])
    /\ StartWalk(lists["stanza"], {f \in StanzaHandlers : Matches(f, stanza)})
    /\ doubtful' = {d \in doubtful : d[2] \notin Members(lists[d[1]])}
    /\ UNCHANGED <<lists, age, registered, conn, stanza, min>>

\* Mutant of Wanted: what was added since the walk began is called as well.
Wanted_unchecked(f) == ~Barred(f) /\ Matches(f, stanza)

Wanted(f) == f \in enabled /\ ~Barred(f) /\ Matches(f, stanza)

StanzaSkip ==
    /\ pc = "stanza" /\ item # NULL /\ ~called /\ ~Wanted(item)
    /\ Forward(NextOf(lists["stanza"], item))
    /\ UNCHANGED <<store, conn, pc, stanza, min>>

\* Mutant of StanzaCall: the successor is read before the callback.
StanzaCall_early ==
    /\ pc = "stanza" /\ item # NULL /\ ~called /\ Wanted(item)
    /\ Call(NextOf(lists["stanza"], item))
    /\ UNCHANGED <<store, item, prev, freed, broken, conn, pc, stanza, min>>

StanzaCall ==
    /\ pc = "stanza" /\ item # NULL /\ ~called /\ Wanted(item)
    /\ Call(NULL)
    /\ UNCHANGED <<store, item, prev, freed, broken, conn, pc, stanza, min>>

StanzaKeep ==
    /\ pc = "stanza" /\ called
    /\ \/ "item" \in freed /\ Stop
       \/ /\ "item" \notin freed
          /\ Forward(NextOf(lists["stanza"], item))
          /\ UNCHANGED <<store, pc, stanza, min>>
    /\ UNCHANGED conn

\* Mutant of StanzaUnlinked: the item behind goes with it.
StanzaUnlinked_two(list) == UpTo(list, prev) \o After(list, NextOf(list, item))

StanzaUnlinked(list) == UpTo(list, prev) \o After(list, item)

\* Mutant of Resume: without a predecessor the walk ends.
Resume_end(left) == IF prev = NULL THEN NULL ELSE NextOf(left, prev)

\* Where the walk goes on once item is unlinked.
Resume(left) == IF prev = NULL THEN First(left) ELSE NextOf(left, prev)

StanzaDone ==
    /\ pc = "stanza" /\ called
    /\ \/ freed # {} /\ Stop
       \/ LET left == StanzaUnlinked(lists["stanza"]) IN
          /\ freed = {}
          /\ lists' = [lists EXCEPT !["stanza"] = left]
          /\ registered' = [registered EXCEPT !["stanza"] = @ \ {item}]
          /\ enabled' = enabled \ {item}
          /\ Stay(Resume(left))
          /\ UNCHANGED <<age, doubtful, pc, stanza, min>>
    /\ UNCHANGED conn

StanzaEnd ==
    /\ pc = "stanza" /\ item = NULL
    /\ pc' = "events" /\ stanza' = NULL /\ NoWalk
    /\ UNCHANGED <<store, conn, min>>

-----------------------------------------------------------------------------
(* handler_fire_timed and the iteration of xmpp_run_once around it. *)

InTimed == pc \in {"timed1", "timed2"}

\* At the beginning of an iteration, and at the end of one in which something happened.
TimedStart ==
    /\ \/ pc = "user"   /\ pc' = "timed1"
       \/ pc = "events" /\ pc' = "timed2"
    /\ min' = Infinite
    /\ LET list == IF connected THEN lists["timed"] ELSE <<>>
       IN /\ enabled' = enabled \cup Members(list)
          /\ StartWalk(list, {f \in TimedHandlers : age[f] >= Period[f]})
    /\ UNCHANGED <<lists, age, registered, doubtful, conn, stanza>>

TimedSkip ==
    /\ InTimed /\ item # NULL /\ ~called
    /\ item \notin enabled \/ Barred(item)
    /\ Stay(NextOf(lists["timed"], item))
    /\ UNCHANGED <<store, conn, pc, stanza, min>>

TimedWait ==
    /\ InTimed /\ item # NULL /\ ~called
    /\ item \in enabled /\ ~Barred(item) /\ age[item] < Period[item]
    /\ min' = IF min > Period[item] - age[item] THEN Period[item] - age[item] ELSE min
    /\ Stay(NextOf(lists["timed"], item))
    /\ UNCHANGED <<store, conn, pc, stanza>>

TimedCall ==
    /\ InTimed /\ item # NULL /\ ~called
    /\ item \in enabled /\ ~Barred(item) /\ age[item] >= Period[item]
    /\ age' = [age EXCEPT ![item] = 0]
    /\ Call(NULL)
    /\ UNCHANGED <<lists, enabled, registered, doubtful, item, prev, freed, broken,
                   conn, pc, stanza, min>>

\* The successor is read after the callback, and then the item deleted by its function.
TimedReturn ==
    /\ InTimed /\ called
    /\ \/ "item" \in freed /\ Stop
       \/ /\ "item" \notin freed
          /\ Stay(NextOf(lists["timed"], item))
          /\ \/ UNCHANGED store
             \/ /\ lists' = [lists EXCEPT !["timed"] = Without(@, item)]
                /\ registered' = [registered EXCEPT !["timed"] = @ \ {item}]
                /\ enabled' = enabled \ {item}
                /\ UNCHANGED <<age, doubtful>>
          /\ UNCHANGED <<pc, stanza, min>>
    /\ UNCHANGED conn

TimedEnd ==
    /\ InTimed /\ item = NULL
    /\ pc' = IF pc = "timed1" THEN "select" ELSE "user"
    /\ min' = IF pc = "timed1" THEN min ELSE 0
    /\ NoWalk
    /\ UNCHANGED <<store, conn, stanza>>

Older(d) == [f \in TimedHandlers |->
    IF f \notin Members(lists["timed"]) THEN 0
    ELSE IF age[f] + d > MaxAge THEN MaxAge ELSE age[f] + d]

\* Mutant of Delay: the first delay is not taken into account.
Delay_full == Timeout

\* What select is asked to wait at most.
Delay == IF min < Timeout THEN min ELSE Timeout

\* Something happens in time or nothing does.
Select ==
    /\ pc = "select"
    /\ \/ \E d \in 0 .. Delay : age' = Older(d) /\ pc' = "events"
       \/ age' = Older(Delay) /\ pc' = "user"
    /\ min' = 0
    /\ UNCHANGED <<lists, enabled, registered, doubtful, walk, conn, stanza>>

\* The connection is made or lost; what the application does takes time.
Connection ==
    /\ pc = "events"
    /\ connected' = ~connected
    /\ UNCHANGED <<store, walk, authenticated, pc, stanza, min>>

Time ==
    /\ pc = "user" /\ age' = Older(1) /\ age' # age
    /\ UNCHANGED <<lists, enabled, registered, doubtful, walk, conn, pc, stanza, min>>

Next ==
    \/ Register \/ Delete \/ Authenticate \/ StreamOpen \/ Connection \/ Time
    \/ \E s \in Stanzas : handler_fire_stanza(s)
    \/ IdSkip \/ IdCall \/ IdKeep \/ IdDone
    \/ StanzaStart \/ StanzaSkip \/ StanzaCall \/ StanzaKeep \/ StanzaDone \/ StanzaEnd
    \/ TimedStart \/ TimedSkip \/ TimedWait \/ TimedCall \/ TimedReturn \/ TimedEnd
    \/ Select

Spec == Init /\ [][Next]_vars

-----------------------------------------------------------------------------
TypeOK ==
    /\ lists \in [Lists -> Seq(Functions)] /\ \A l \in Lists : Members(lists[l]) \subseteq Of(l)
    /\ enabled \subseteq Functions /\ age \in [TimedHandlers -> 0 .. MaxAge]
    /\ connected \in BOOLEAN /\ authenticated \in BOOLEAN
    /\ pc \in {"user", "timed1", "select", "events", "id", "stanza", "timed2", "undefined"}
    /\ {item, prev, next} \subseteq Functions \cup {NULL}
    /\ called \in BOOLEAN /\ broken \in BOOLEAN
    /\ freed \subseteq {"item", "prev", "next"} /\ due \subseteq Functions
    /\ min \in 0 .. Infinite

\* A function is on a list once, and the lists hold what was added and neither deleted nor
\* done: whatever callbacks add and delete, and whichever way the walks unlink what is
\* done, nothing is resurrected, and nothing is lost but handlers of an id that were added
\* while its chain was being walked or passed over before authentication
\* (handler.c:42-130, 139-196, 217-470).
NothingLost ==
    pc # "undefined" =>
    \A l \in Lists :
        /\ \A i, j \in DOMAIN lists[l] : lists[l][i] = lists[l][j] => i = j
        /\ Members(lists[l]) \subseteq registered[l]
        /\ \A f \in registered[l] \ Members(lists[l]) : <<l, f>> \in doubtful

\* When a walk comes to its end, every handler that was on the list at the beginning, that
\* the stanza or the time called for and that no callback deleted has been visited
\* (handler.c:52-76, 90-129, 160-190).
WalkComplete == (pc # "undefined" /\ item = NULL) => due = {}

\* A walk calls what was on its list at the beginning, once; for one id it also calls what
\* was appended in the meantime (handler.c:85-95, 156-164).
CalledOnce ==
    [][(~called /\ called') =>
          \/ item \in due
          \/ pc = "id" /\ <<stanza.id, item>> \in doubtful]_vars

\* No freed item is used as long as callbacks leave alone, on the list they are called
\* from, themselves and what is in front of them, and for an id the next one
\* (handler.c:54, 61-72, 107-127, 180-187).
SafeDeletions == pc = "undefined" => broken

\* select never sleeps past the time of a handler that may fire by more than what the
\* timeout of xmpp_run_once allows, although the delay leaves out those that just fired and
\* those just added (handler.c:172-181, event.c:158-168).
OnTime ==
    pc = "select" /\ connected =>
        \A f \in Members(lists["timed"]) :
            ~Barred(f) => \/ age[f] + Delay <= Period[f]
                          \/ age[f] + Delay <= Timeout
=============================================================================

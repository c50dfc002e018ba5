------------------------------ MODULE HashTable ------------------------------
(***************************************************************************)
(* hash.c: a table of buckets of chained entries, shared by reference      *)
(* counting with its users and its iterators.  A table owns its values:    *)
(* it was made with a free function, as those of stanza attributes and     *)
(* SASL challenges are.  A position in a bucket stands for the address of  *)
(* an entry.                                                               *)
(***************************************************************************)
EXTENDS Integers, Sequences, FiniteSets

CONSTANTS
    Keys, Values,
    NULL,
    Length,        \* the number of buckets
    HashKey,       \* the bucket of a key: _hash_key on keys in ASCII
    Iterators,
    MaxUsers       \* bound on the references of users

ASSUME TableAssumption ==
    /\ NULL \notin Values
    /\ Length \in Nat \ {0}
    /\ HashKey \in [Keys -> 0 .. Length - 1]
    /\ IsFiniteSet(Iterators)
    /\ MaxUsers \in Nat

VARIABLES
    entries,    \* the buckets
    num_keys,
    ref,        \* table->ref, 0 when there is no table
    users,      \* the references held by users
    iters,      \* the iterators
    owned       \* the values handed to the table and not freed

table == <<entries, num_keys, owned>>
vars  == <<table, ref, users, iters>>

Buckets == 0 .. Length - 1
Entry   == [key : Keys, value : Values]

\* index and entry are the fields of the code, entry 0 being NULL; seen and done
\* remember what hash_iter_next has returned.
Iterator == [live : BOOLEAN, index : -1 .. Length - 1, entry : Nat,
             seen : Seq(Keys), done : BOOLEAN]

\* One just made, and none.
NewIterator == [live |-> TRUE, index |-> -1, entry |-> 0, seen |-> <<>>, done |-> FALSE]
NoIterator  == [live |-> FALSE, index |-> -1, entry |-> 0, seen |-> <<>>, done |-> FALSE]

NoEntries == [b \in Buckets |-> <<>>]

Init ==
    /\ entries = NoEntries /\ num_keys = 0 /\ ref = 0 /\ users = 0 /\ owned = {}
    /\ iters = [it \in Iterators |-> NoIterator]

hash_new ==
    /\ ref = 0
    /\ ref' = 1 /\ users' = 1 /\ entries' = NoEntries /\ num_keys' = 0
    /\ UNCHANGED <<iters, owned>>

-----------------------------------------------------------------------------
(* Chains. *)

Chain(k) == entries[HashKey[k]]

Holds(chain, k) == \E i \in DOMAIN chain : chain[i].key = k

\* The entry a walk from the head of the chain finds.
Find(chain, k) ==
    CHOOSE i \in DOMAIN chain : chain[i].key = k /\ \A j \in 1 .. i - 1 : chain[j].key # k

Lookup(chain, k) == IF Holds(chain, k) THEN chain[Find(chain, k)].value ELSE NULL

Has(k)      == Holds(Chain(k), k)
hash_get(k) == Lookup(Chain(k), k)

\* Mutant of Unlink: everything behind the entry goes too.
Unlink_truncates(chain, i) == SubSeq(chain, 1, i - 1)

Unlink(chain, i) ==
    [j \in 1 .. Len(chain) - 1 |-> IF j < i THEN chain[j] ELSE chain[j + 1]]

\* A chain, the values and the count once k has been dropped.
Dropped(chain, k) == IF Holds(chain, k) THEN Unlink(chain, Find(chain, k)) ELSE chain
Spared(k)         == owned \ {hash_get(k)}
Fewer(k)          == IF Has(k) THEN num_keys - 1 ELSE num_keys

-----------------------------------------------------------------------------
(* The operations.  Nobody changes a table while iterating over it (conn.c:238-248, *)
(* stanza.c:112-122, 321-331, 508-524).                                             *)

Changeable == users > 0 /\ \A it \in Iterators : ~iters[it].live

hash_drop(k) ==
    /\ Changeable
    /\ entries' = [entries EXCEPT ![HashKey[k]] = Dropped(@, k)]
    /\ num_keys' = Fewer(k) /\ owned' = Spared(k)
    /\ UNCHANGED <<ref, users, iters>>

\* Mutant of hash_add: an identical key is not dropped first.
hash_add_keeps(k, v) ==
    /\ Changeable /\ v \notin owned
    /\ entries' = [entries EXCEPT ![HashKey[k]] =
                     <<[key |-> k, value |-> v]>> \o @]
    /\ num_keys' = num_keys + 1 /\ owned' = owned \cup {v}
    /\ UNCHANGED <<ref, users, iters>>

\* Without memory for the new entry the old one is gone all the same, and the new
\* value stays with the caller.
hash_add(k, v) ==
    /\ Changeable /\ v \notin owned
    /\ \/ /\ entries' = [entries EXCEPT ![HashKey[k]] =
                           <<[key |-> k, value |-> v]>> \o Dropped(@, k)]
          /\ num_keys' = Fewer(k) + 1 /\ owned' = Spared(k) \cup {v}
       \/ /\ entries' = [entries EXCEPT ![HashKey[k]] = Dropped(@, k)]
          /\ num_keys' = Fewer(k) /\ owned' = Spared(k)
    /\ UNCHANGED <<ref, users, iters>>

hash_clone ==
    /\ users > 0 /\ users < MaxUsers
    /\ users' = users + 1 /\ ref' = ref + 1
    /\ UNCHANGED <<table, iters>>

\* Gives a reference back; the last one frees every entry with its value.
Release ==
    /\ ref' = ref - 1
    /\ IF ref > 1 THEN UNCHANGED table
       ELSE /\ entries' = NoEntries /\ num_keys' = 0
            /\ owned' = owned \ UNION {{entries[b][i].value : i \in DOMAIN entries[b]} :
                                         b \in Buckets}

hash_release == users > 0 /\ users' = users - 1 /\ Release /\ UNCHANGED iters

hash_iter_new(it) ==
    /\ users > 0 /\ ~iters[it].live
    /\ iters' = [iters EXCEPT ![it] = NewIterator]
    /\ ref' = ref + 1
    /\ UNCHANGED <<table, users>>

hash_iter_release(it) ==
    /\ iters[it].live
    /\ iters' = [iters EXCEPT ![it] = NoIterator]
    /\ Release
    /\ UNCHANGED users

Returned(cur, b, i) ==
    [cur EXCEPT !.index = b, !.entry = i, !.seen = Append(cur.seen, entries[b][i].key)]

Return(it, b, i) == iters' = [iters EXCEPT ![it] = Returned(iters[it], b, i)]

NoMore(it) == iters' = [iters EXCEPT ![it] = [iters[it] EXCEPT !.done = TRUE]]

\* Mutant of Follows: the search begins with the bucket just finished.
Follows_again(cur, b) ==
    /\ b >= cur.index /\ entries[b] # <<>>
    /\ \A c \in cur.index .. b - 1 : c \in Buckets => entries[c] = <<>>

\* The search for a new chain ends at b.
Follows(cur, b) ==
    b > cur.index /\ entries[b] # <<>> /\ \A c \in cur.index + 1 .. b - 1 : entries[c] = <<>>

\* The next entry of the chain, or the first of the next chain.  In the last bucket
\* index + 1 is taken for the end of the search although none was needed.
hash_iter_next(it) ==
    LET cur     == iters[it]
        chained == cur.entry > 0 /\ cur.entry < Len(entries[cur.index])
    IN /\ cur.live
       /\ \/ chained /\ cur.index + 1 < Length /\ Return(it, cur.index, cur.entry + 1)
          \/ chained /\ cur.index + 1 >= Length /\ NoMore(it)
          \/ ~chained /\ \E b \in Buckets : Follows(cur, b) /\ Return(it, b, 1)
          \/ ~chained /\ (\A b \in Buckets : ~Follows(cur, b)) /\ NoMore(it)
       /\ UNCHANGED <<table, ref, users>>

-----------------------------------------------------------------------------
Next ==
    \/ hash_new \/ hash_clone \/ hash_release
    \/ \E k \in Keys : hash_drop(k) \/ \E v \in Values : hash_add(k, v)
    \/ \E it \in Iterators :
          hash_iter_new(it) \/ hash_iter_next(it) \/ hash_iter_release(it)

Spec == Init /\ [][Next]_vars

-----------------------------------------------------------------------------
TypeOK ==
    /\ entries \in [Buckets -> Seq(Entry)]
    /\ num_keys \in Nat /\ ref \in Nat /\ users \in Nat
    /\ iters \in [Iterators -> Iterator]
    /\ owned \subseteq Values

Distinct(chain) == \A i, j \in DOMAIN chain : chain[i].key = chain[j].key => i = j

\* Every entry is in the bucket of its key, and no key is there twice.
Chained ==
    \A b \in Buckets :
        /\ \A i \in DOMAIN entries[b] : HashKey[entries[b][i].key] = b
        /\ Distinct(entries[b])

Present == {k \in Keys : Has(k)}

\* The table owns the values that are in it, each for one key.
Owned ==
    /\ owned = {hash_get(k) : k \in Present}
    /\ \A k, l \in Present : hash_get(k) = hash_get(l) => k = l

\* hash_add's drop, the rest of a chain and the final release keep the table in order:
\* each key once and in its bucket, num_keys the number of keys, no value leaked or
\* freed while in use (hash.c:118-206), and the table alive as long as a user or an
\* iterator holds it (hash.c:84-104, 216-246).
TableInv ==
    /\ TypeOK /\ Chained /\ Owned
    /\ num_keys = Cardinality(Present)
    /\ ref = users + Cardinality({it \in Iterators : iters[it].live})
    /\ \A it \in Iterators : iters[it].entry > 0 => iters[it].index \in Buckets

\* The table is a map: adding, replacing, dropping and running out of memory touch one
\* key only, whatever keys share its chain (hash.h:36-46).
Map == INSTANCE Dictionary WITH map <- [k \in Keys |-> hash_get(k)], NoValue <- NULL
MapSpec == Map!Spec

\* The keys behind the first of the last bucket.
Hidden == {k \in Present : HashKey[k] = Length - 1 /\ Find(Chain(k), k) > 1}

\* An iterator returns keys of the table, none twice, and when it has no more it has
\* returned all but those behind the first of the last bucket (hash.c:249-278).
IteratorExact ==
    \A it \in Iterators :
        LET seen == iters[it].seen
            keys == {seen[i] : i \in DOMAIN seen}
        IN /\ keys \subseteq Present
           /\ \A i, j \in DOMAIN seen : seen[i] = seen[j] => i = j
           /\ iters[it].done => keys = Present \ Hidden
=============================================================================

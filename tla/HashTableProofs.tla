-------------------------- MODULE HashTableProofs --------------------------
(***************************************************************************)
(* Proofs about HashTable: the table stays in order, it is a map, and its  *)
(* iterators walk over it as promised.                                     *)
(*                                                                         *)
(* First, what a chain becomes when an entry is unlinked or put in front;  *)
(* then what the table becomes when one of its chains is replaced; then    *)
(* one step per operation.                                                 *)
(***************************************************************************)
EXTENDS HashTable, FiniteSetTheorems, TLAPS

-----------------------------------------------------------------------------
(* Chains. *)

\* In a chain without duplicates the entry of a key is the one Find returns.
LEMMA FindIs ==
    ASSUME NEW chain \in Seq(Entry), Distinct(chain),
           NEW i \in DOMAIN chain
    PROVE  Find(chain, chain[i].key) = i
<1>1. \A j \in 1 .. i - 1 : chain[j].key # chain[i].key
    BY DEF Distinct
<1>2. \A m \in DOMAIN chain :
        (chain[m].key = chain[i].key /\ \A j \in 1 .. m - 1 : chain[j].key # chain[i].key)
          <=> m = i
    BY <1>1 DEF Distinct
<1> QED
    BY <1>2 DEF Find

\* Looking up the key of an entry returns its value.
LEMMA LookupIs ==
    ASSUME NEW chain \in Seq(Entry), Distinct(chain),
           NEW i \in DOMAIN chain
    PROVE  Lookup(chain, chain[i].key) = chain[i].value
BY FindIs DEF Lookup, Holds

\* Dropping a key from a chain takes that key out and leaves the others alone.
LEMMA DroppedIs ==
    ASSUME NEW chain \in Seq(Entry), Distinct(chain), NEW k \in Keys
    PROVE  /\ Dropped(chain, k) \in Seq(Entry)
           /\ Distinct(Dropped(chain, k))
           /\ \A l \in Keys : Holds(Dropped(chain, k), l) <=> l # k /\ Holds(chain, l)
           /\ \A l \in Keys : l # k => Lookup(Dropped(chain, k), l) = Lookup(chain, l)
<1> DEFINE D == Dropped(chain, k)
<1>1. CASE ~Holds(chain, k)
    BY <1>1 DEF Dropped
<1>2. CASE Holds(chain, k)
    <2>1. PICK i \in DOMAIN chain : chain[i].key = k
        BY <1>2 DEF Holds
    <2>2. D = Unlink(chain, i)
        BY <1>2, <2>1, FindIs DEF Dropped
    <2>3. Len(chain) \in Nat /\ Len(chain) >= 1 /\ i \in 1 .. Len(chain)
        OBVIOUS
    <2>4. D \in Seq(Entry) /\ DOMAIN D = 1 .. Len(chain) - 1
        BY <2>2, <2>3 DEF Unlink
    <2>5. \A j \in DOMAIN D : D[j] = IF j < i THEN chain[j] ELSE chain[j + 1]
        BY <2>2, <2>4 DEF Unlink
    <2>6. Distinct(D)
        <3> SUFFICES ASSUME NEW a \in DOMAIN D, NEW b \in DOMAIN D, D[a].key = D[b].key
                     PROVE  a = b
            BY DEF Distinct
        <3> DEFINE At(j) == IF j < i THEN j ELSE j + 1
        <3>1. At(a) \in DOMAIN chain /\ At(b) \in DOMAIN chain
            BY <2>3, <2>4
        <3>2. D[a] = chain[At(a)] /\ D[b] = chain[At(b)]
            BY <2>5
        <3>3. At(a) = At(b)
            BY <3>1, <3>2 DEF Distinct
        <3> QED
            BY <3>3, <2>3, <2>4
    <2>7. \A j \in DOMAIN D : D[j].key # k
        BY <2>1, <2>3, <2>4, <2>5 DEF Distinct
    <2>8. \A j \in DOMAIN D : \E m \in DOMAIN chain : D[j] = chain[m]
        BY <2>3, <2>4, <2>5
    <2>9. ASSUME NEW m \in DOMAIN chain, m # i
          PROVE  \E j \in DOMAIN D : D[j] = chain[m]
        <3>1. CASE m < i
            BY <3>1, <2>3, <2>4, <2>5
        <3>2. CASE m > i
            <4>1. m - 1 \in DOMAIN D /\ ~(m - 1 < i)
                BY <3>2, <2>3, <2>4
            <4>2. D[m - 1] = chain[m]
                BY <4>1, <2>5, <2>3
            <4> QED
                BY <4>1, <4>2
        <3> QED
            BY <3>1, <3>2, <2>3, <2>9
    <2>10. ASSUME NEW l \in Keys
           PROVE  Holds(D, l) <=> l # k /\ Holds(chain, l)
        BY <2>1, <2>7, <2>8, <2>9 DEF Holds
    <2>11. ASSUME NEW l \in Keys, l # k
           PROVE  Lookup(D, l) = Lookup(chain, l)
        <3>1. CASE Holds(chain, l)
            <4>1. PICK m \in DOMAIN chain : chain[m].key = l
                BY <3>1 DEF Holds
            <4>2. PICK j \in DOMAIN D : D[j] = chain[m]
                BY <2>1, <2>9, <2>11, <4>1
            <4> QED
                BY <4>1, <4>2, <2>4, <2>6, LookupIs
        <3>2. CASE ~Holds(chain, l)
            BY <3>2, <2>10 DEF Lookup
        <3> QED
            BY <3>1, <3>2
    <2> QED
        BY <2>4, <2>6, <2>10, <2>11
<1> QED
    BY <1>1, <1>2

\* An entry with a new key in front of a chain adds that key and its value.
LEMMA InFrontIs ==
    ASSUME NEW chain \in Seq(Entry), Distinct(chain),
           NEW k \in Keys, NEW v \in Values, ~Holds(chain, k)
    PROVE  LET c == <<[key |-> k, value |-> v]>> \o chain
           IN /\ c \in Seq(Entry)
              /\ Distinct(c)
              /\ \A l \in Keys : Holds(c, l) <=> l = k \/ Holds(chain, l)
              /\ \A l \in Keys : Lookup(c, l) = IF l = k THEN v ELSE Lookup(chain, l)
<1> DEFINE e == [key |-> k, value |-> v]
           c == <<e>> \o chain
<1>1. e \in Entry /\ e.key = k /\ e.value = v
    BY DEF Entry
<1> HIDE DEF e
<1>2. c \in Seq(Entry) /\ Len(c) = Len(chain) + 1 /\ DOMAIN c = 1 .. Len(chain) + 1
    BY <1>1
<1>3. c[1] = e /\ \A j \in DOMAIN c : j > 1 => j - 1 \in DOMAIN chain /\ c[j] = chain[j - 1]
    BY <1>1, <1>2
<1>4. \A m \in DOMAIN chain : m + 1 \in DOMAIN c /\ c[m + 1] = chain[m]
    BY <1>1, <1>2
<1>5. 1 \in DOMAIN c
    BY <1>2
<1> HIDE DEF c
<1>6. ASSUME NEW i \in DOMAIN c, NEW j \in DOMAIN c, c[i].key = c[j].key
      PROVE  i = j
    <2>1. \A m \in DOMAIN c : m > 1 => c[m].key # k
        BY <1>3 DEF Holds
    <2>2. CASE i = 1 \/ j = 1
        BY <2>1, <2>2, <1>1, <1>2, <1>3, <1>6
    <2>3. CASE i > 1 /\ j > 1
        <3>1. chain[i - 1].key = chain[j - 1].key
            BY <2>3, <1>3, <1>6
        <3>2. i - 1 = j - 1
            BY <3>1, <2>3, <1>3 DEF Distinct
        <3> QED
            BY <3>2, <1>2
    <2> QED
        BY <2>2, <2>3, <1>2
<1>7. Distinct(c)
    BY <1>6 DEF Distinct
<1>8. ASSUME NEW l \in Keys
      PROVE  Holds(c, l) <=> l = k \/ Holds(chain, l)
    <2>1. ASSUME Holds(c, l) PROVE l = k \/ Holds(chain, l)
        <3>1. PICK j \in DOMAIN c : c[j].key = l
            BY <2>1 DEF Holds
        <3>2. CASE j = 1
            BY <3>1, <3>2, <1>1, <1>3
        <3>3. CASE j > 1
            BY <3>1, <3>3, <1>3 DEF Holds
        <3> QED
            BY <3>2, <3>3, <1>2
    <2>2. ASSUME l = k PROVE Holds(c, l)
        BY <2>2, <1>1, <1>3, <1>5 DEF Holds
    <2>3. ASSUME Holds(chain, l) PROVE Holds(c, l)
        BY <2>3, <1>4 DEF Holds
    <2> QED
        BY <2>1, <2>2, <2>3
<1>9. ASSUME NEW l \in Keys
      PROVE  Lookup(c, l) = IF l = k THEN v ELSE Lookup(chain, l)
    <2>1. CASE l = k
        BY <2>1, <1>1, <1>2, <1>3, <1>5, <1>7, LookupIs
    <2>2. CASE l # k /\ Holds(chain, l)
        <3>1. PICK m \in DOMAIN chain : chain[m].key = l
            BY <2>2 DEF Holds
        <3>2. Lookup(chain, l) = chain[m].value
            BY <3>1, LookupIs
        <3>3. Lookup(c, l) = chain[m].value
            BY <3>1, <1>2, <1>4, <1>7, LookupIs
        <3> QED
            BY <2>2, <3>2, <3>3
    <2>3. CASE l # k /\ ~Holds(chain, l)
        BY <2>3, <1>8 DEF Lookup
    <2> QED
        BY <2>1, <2>2, <2>3
<1> QED
    BY <1>2, <1>7, <1>8, <1>9 DEF c, e

-----------------------------------------------------------------------------
(* The table, when one of its chains is replaced. *)

\* A chain holds only keys of its bucket.
LEMMA HeldHere ==
    ASSUME entries \in [Buckets -> Seq(Entry)], Chained,
           NEW b \in Buckets, NEW l \in Keys, Holds(entries[b], l)
    PROVE  HashKey[l] = b
BY DEF Chained, Holds

\* A new chain for the bucket of k decides the keys of that bucket and no others.
LEMMA ReplaceChain ==
    ASSUME entries \in [Buckets -> Seq(Entry)], Chained,
           NEW k \in Keys, NEW c \in Seq(Entry), Distinct(c),
           \A l \in Keys : Holds(c, l) => HashKey[l] = HashKey[k],
           entries' = [entries EXCEPT ![HashKey[k]] = c]
    PROVE  /\ entries' \in [Buckets -> Seq(Entry)]
           /\ Chained'
           /\ \A l \in Keys :
                 IF HashKey[l] = HashKey[k]
                 THEN (Has(l)' <=> Holds(c, l)) /\ hash_get(l)' = Lookup(c, l)
                 ELSE (Has(l)' <=> Has(l)) /\ hash_get(l)' = hash_get(l)
<1> DEFINE h == HashKey[k]
<1>1. \A l \in Keys : HashKey[l] \in Buckets
    BY TableAssumption DEF Buckets
<1>2. entries' \in [Buckets -> Seq(Entry)]
    BY <1>1
<1>3. \A b \in Buckets : entries'[b] = IF b = h THEN c ELSE entries[b]
    BY <1>1
<1>4. \A i \in DOMAIN c : HashKey[c[i].key] = h
    <2> TAKE i \in DOMAIN c
    <2>1. c[i] \in Entry
        OBVIOUS
    <2>2. c[i].key \in Keys
        BY <2>1 DEF Entry
    <2> QED
        BY <2>2 DEF Holds
<1>5. Chained'
    <2> SUFFICES ASSUME NEW b \in Buckets
                 PROVE  /\ \A i \in DOMAIN entries'[b] : HashKey[entries'[b][i].key] = b
                        /\ Distinct(entries'[b])
        BY DEF Chained, Distinct, Buckets
    <2>1. CASE b = h
        BY <2>1, <1>3, <1>4
    <2>2. CASE b # h
        BY <2>2, <1>3 DEF Chained
    <2> QED
        BY <2>1, <2>2
<1>6. ASSUME NEW l \in Keys
      PROVE  IF HashKey[l] = h
             THEN (Has(l)' <=> Holds(c, l)) /\ hash_get(l)' = Lookup(c, l)
             ELSE (Has(l)' <=> Has(l)) /\ hash_get(l)' = hash_get(l)
    BY <1>1, <1>3 DEF Has, hash_get, Chain, Holds, Lookup, Find
<1> QED
    BY <1>2, <1>5, <1>6

\* Dropping a key from its chain drops it from the table, and nothing else.
LEMMA DropEffect ==
    ASSUME entries \in [Buckets -> Seq(Entry)], Chained, NEW k \in Keys,
           entries' = [entries EXCEPT ![HashKey[k]] = Dropped(@, k)]
    PROVE  /\ entries' \in [Buckets -> Seq(Entry)]
           /\ Chained'
           /\ \A l \in Keys : Has(l)' <=> l # k /\ Has(l)
           /\ \A l \in Keys : hash_get(l)' = IF l = k THEN NULL ELSE hash_get(l)
<1> DEFINE b == HashKey[k]
           c == Dropped(entries[b], k)
<1>1. b \in Buckets
    BY TableAssumption DEF Buckets
<1>2. entries[b] \in Seq(Entry) /\ Distinct(entries[b])
    BY <1>1 DEF Chained
<1>3. /\ c \in Seq(Entry) /\ Distinct(c)
      /\ \A l \in Keys : Holds(c, l) <=> l # k /\ Holds(entries[b], l)
      /\ \A l \in Keys : l # k => Lookup(c, l) = Lookup(entries[b], l)
    BY <1>2, DroppedIs
<1>4. entries' = [entries EXCEPT ![b] = c]
    BY <1>1
<1> HIDE DEF c
<1>5. \A l \in Keys : Holds(c, l) => HashKey[l] = b
    BY <1>1, <1>3, HeldHere
<1>6. /\ entries' \in [Buckets -> Seq(Entry)]
      /\ Chained'
      /\ \A l \in Keys :
            IF HashKey[l] = b
            THEN (Has(l)' <=> Holds(c, l)) /\ hash_get(l)' = Lookup(c, l)
            ELSE (Has(l)' <=> Has(l)) /\ hash_get(l)' = hash_get(l)
    BY <1>3, <1>4, <1>5, ReplaceChain
<1>7. \A l \in Keys : HashKey[l] = b =>
         (Has(l) <=> Holds(entries[b], l)) /\ hash_get(l) = Lookup(entries[b], l)
    BY DEF Has, hash_get, Chain
<1>8. Lookup(c, k) = NULL
    BY <1>3 DEF Lookup
<1> QED
    BY <1>3, <1>6, <1>7, <1>8

\* Adding a key gives it its value and leaves the other keys alone.
LEMMA AddEffect ==
    ASSUME entries \in [Buckets -> Seq(Entry)], Chained, NEW k \in Keys, NEW v \in Values,
           entries' = [entries EXCEPT ![HashKey[k]] =
                         <<[key |-> k, value |-> v]>> \o Dropped(@, k)]
    PROVE  /\ entries' \in [Buckets -> Seq(Entry)]
           /\ Chained'
           /\ \A l \in Keys : Has(l)' <=> l = k \/ Has(l)
           /\ \A l \in Keys : hash_get(l)' = IF l = k THEN v ELSE hash_get(l)
<1> DEFINE b == HashKey[k]
           d == Dropped(entries[b], k)
           c == <<[key |-> k, value |-> v]>> \o d
<1>1. b \in Buckets
    BY TableAssumption DEF Buckets
<1>2. entries[b] \in Seq(Entry) /\ Distinct(entries[b])
    BY <1>1 DEF Chained
<1>3. /\ d \in Seq(Entry) /\ Distinct(d)
      /\ \A l \in Keys : Holds(d, l) <=> l # k /\ Holds(entries[b], l)
      /\ \A l \in Keys : l # k => Lookup(d, l) = Lookup(entries[b], l)
    BY <1>2, DroppedIs
<1>4. entries' = [entries EXCEPT ![b] = c]
    BY <1>1
<1> HIDE DEF d
<1>5. /\ c \in Seq(Entry) /\ Distinct(c)
      /\ \A l \in Keys : Holds(c, l) <=> l = k \/ Holds(d, l)
      /\ \A l \in Keys : Lookup(c, l) = IF l = k THEN v ELSE Lookup(d, l)
    BY <1>3, InFrontIs
<1> HIDE DEF c
<1>6. \A l \in Keys : Holds(c, l) => HashKey[l] = b
    BY <1>1, <1>3, <1>5, HeldHere
<1>7. /\ entries' \in [Buckets -> Seq(Entry)]
      /\ Chained'
      /\ \A l \in Keys :
            IF HashKey[l] = b
            THEN (Has(l)' <=> Holds(c, l)) /\ hash_get(l)' = Lookup(c, l)
            ELSE (Has(l)' <=> Has(l)) /\ hash_get(l)' = hash_get(l)
    BY <1>4, <1>5, <1>6, ReplaceChain
<1>8. \A l \in Keys : HashKey[l] = b =>
         (Has(l) <=> Holds(entries[b], l)) /\ hash_get(l) = Lookup(entries[b], l)
    BY DEF Has, hash_get, Chain
<1> QED
    BY <1>3, <1>5, <1>7, <1>8

-----------------------------------------------------------------------------
(* The invariant. *)

Live == {it \in Iterators : iters[it].live}

\* What the table, its count and its values have to do with each other.
TableSound ==
    /\ entries \in [Buckets -> Seq(Entry)] /\ Chained
    /\ owned \subseteq Values /\ Owned
    /\ IsFiniteSet(Present) /\ num_keys = Cardinality(Present)

\* What the references have to do with those who hold them.
Counted ==
    /\ ref \in Nat /\ users \in Nat
    /\ iters \in [Iterators -> Iterator]
    /\ ref = users + Cardinality(Live)
    /\ \A it \in Iterators : iters[it].entry > 0 => iters[it].index \in Buckets

\* TableInv, and that a table which is no more has no entries: hash_new needs it.
IInv ==
    /\ TableSound /\ Counted
    /\ ref = 0 => entries = NoEntries

LEMMA IInvIsStronger == IInv => TableInv
<1> SUFFICES ASSUME IInv PROVE TableInv
    OBVIOUS
<1>1. num_keys \in Nat
    BY FS_CardinalityType DEF IInv, TableSound
<1> QED
    BY <1>1 DEF IInv, TableSound, Counted, TableInv, TypeOK, Live

\* The iterators are finitely many, and so are those in use.
LEMMA LiveFinite == IsFiniteSet(Live) /\ Cardinality(Live) \in Nat
BY TableAssumption, FS_Subset, FS_CardinalityType DEF Live

\* What the table is to its keys when it has no entries.
LEMMA EmptyTable ==
    ASSUME entries = NoEntries
    PROVE  /\ entries \in [Buckets -> Seq(Entry)] /\ Chained
           /\ \A l \in Keys : ~Has(l) /\ hash_get(l) = NULL
<1>1. \A b \in Buckets : entries[b] = <<>>
    BY DEF NoEntries
<1>2. entries \in [Buckets -> Seq(Entry)]
    BY DEF NoEntries
<1>3. Chained
    BY <1>1 DEF Chained, Distinct
<1>4. \A l \in Keys : Chain(l) = <<>>
    BY <1>1, TableAssumption DEF Chain, Buckets
<1> QED
    BY <1>2, <1>3, <1>4 DEF Has, hash_get, Lookup, Holds

\* The same of the table after a step.
LEMMA EmptiedTable ==
    ASSUME entries' = NoEntries
    PROVE  /\ entries' \in [Buckets -> Seq(Entry)] /\ Chained'
           /\ \A l \in Keys : ~Has(l)' /\ hash_get(l)' = NULL
<1>1. \A b \in Buckets : entries'[b] = <<>>
    BY DEF NoEntries
<1>2. entries' \in [Buckets -> Seq(Entry)]
    BY DEF NoEntries
<1>3. Chained'
    BY <1>1 DEF Chained, Distinct, Buckets
<1>4. \A l \in Keys : Chain(l)' = <<>>
    BY <1>1, TableAssumption DEF Chain, Buckets
<1> QED
    BY <1>2, <1>3, <1>4 DEF Has, hash_get, Lookup, Holds

\* A key that is there has a value of the table, and one that is not has none.
LEMMA ValueOf ==
    ASSUME entries \in [Buckets -> Seq(Entry)], Chained, NEW k \in Keys
    PROVE  /\ Has(k) => hash_get(k) \in Values
           /\ Has(k) => \E b \in Buckets : \E i \in DOMAIN entries[b] :
                           entries[b][i].value = hash_get(k)
           /\ ~Has(k) => hash_get(k) = NULL
<1>1. HashKey[k] \in Buckets
    BY TableAssumption DEF Buckets
<1>2. Chain(k) \in Seq(Entry) /\ Distinct(Chain(k))
    BY <1>1 DEF Chain, Chained
<1>3. ~Has(k) => hash_get(k) = NULL
    BY DEF Has, hash_get, Lookup
<1>4. ASSUME Has(k)
      PROVE  /\ hash_get(k) \in Values
             /\ \E b \in Buckets : \E i \in DOMAIN entries[b] :
                   entries[b][i].value = hash_get(k)
    <2>1. PICK i \in DOMAIN Chain(k) : Chain(k)[i].key = k
        BY <1>4 DEF Has, Holds
    <2>2. hash_get(k) = Chain(k)[i].value
        BY <2>1, <1>2, LookupIs DEF hash_get
    <2>3. Chain(k)[i] \in Entry
        BY <1>2
    <2>4. hash_get(k) \in Values
        BY <2>2, <2>3 DEF Entry
    <2> QED
        BY <2>2, <2>4, <1>1 DEF Chain
<1> QED
    BY <1>3, <1>4

\* The bookkeeping of a drop.
LEMMA DropSound ==
    ASSUME TableSound, NEW k \in Keys,
           entries' = [entries EXCEPT ![HashKey[k]] = Dropped(@, k)],
           num_keys' = Fewer(k), owned' = Spared(k)
    PROVE  TableSound'
<1>1. /\ entries' \in [Buckets -> Seq(Entry)]
      /\ Chained'
      /\ \A l \in Keys : Has(l)' <=> l # k /\ Has(l)
      /\ \A l \in Keys : hash_get(l)' = IF l = k THEN NULL ELSE hash_get(l)
    BY DropEffect DEF TableSound
<1>2. Present' = Present \ {k}
    BY <1>1 DEF Present
<1>3. IsFiniteSet(Present') /\ num_keys' = Cardinality(Present')
    BY <1>2, FS_RemoveElement DEF TableSound, Fewer, Present
<1>4. owned' \subseteq Values
    BY DEF TableSound, Spared
<1>5. \A l \in Present' : l \in Present /\ l # k /\ hash_get(l)' = hash_get(l)
    BY <1>1, <1>2 DEF Present
<1>6. ~Has(k) => hash_get(k) = NULL
    BY ValueOf DEF TableSound
<1>7. owned' = {hash_get(l)' : l \in Present'}
    <2>1. ASSUME NEW v \in owned' PROVE \E l \in Present' : v = hash_get(l)'
        <3>1. PICK l \in Present : v = hash_get(l)
            BY <2>1 DEF TableSound, Owned, Spared
        <3>2. l # k
            BY <2>1, <3>1 DEF Spared
        <3> QED
            BY <3>1, <3>2, <1>2, <1>5
    <2>2. ASSUME NEW l \in Present' PROVE hash_get(l)' \in owned'
        <3>1. hash_get(l) \in owned /\ hash_get(l) # NULL
            BY <2>2, <1>5, TableAssumption DEF TableSound, Owned
        <3>2. hash_get(l) # hash_get(k)
            BY <3>1, <2>2, <1>5, <1>6 DEF TableSound, Owned, Present
        <3> QED
            BY <3>1, <3>2, <2>2, <1>5 DEF Spared
    <2> QED
        BY <2>1, <2>2
<1>8. \A l, m \in Present' : hash_get(l)' = hash_get(m)' => l = m
    BY <1>5 DEF TableSound, Owned
<1> QED
    BY <1>1, <1>3, <1>4, <1>7, <1>8 DEF TableSound, Owned

\* The bookkeeping of an addition.
LEMMA AddSound ==
    ASSUME TableSound, NEW k \in Keys, NEW v \in Values \ owned,
           entries' = [entries EXCEPT ![HashKey[k]] =
                         <<[key |-> k, value |-> v]>> \o Dropped(@, k)],
           num_keys' = Fewer(k) + 1, owned' = Spared(k) \cup {v}
    PROVE  TableSound'
<1>1. /\ entries' \in [Buckets -> Seq(Entry)]
      /\ Chained'
      /\ \A l \in Keys : Has(l)' <=> l = k \/ Has(l)
      /\ \A l \in Keys : hash_get(l)' = IF l = k THEN v ELSE hash_get(l)
    BY AddEffect DEF TableSound
<1>2. Present' = Present \cup {k}
    BY <1>1 DEF Present
<1>3. IsFiniteSet(Present') /\ num_keys' = Cardinality(Present')
    <2>1. Cardinality(Present) \in Nat
        BY FS_CardinalityType DEF TableSound
    <2>2. IsFiniteSet(Present') /\ Cardinality(Present')
             = IF k \in Present THEN Cardinality(Present) ELSE Cardinality(Present) + 1
        BY <1>2, FS_AddElement DEF TableSound
    <2>3. num_keys' = (IF k \in Present THEN num_keys - 1 ELSE num_keys) + 1
        BY DEF Fewer, Present
    <2>4. num_keys = Cardinality(Present)
        BY DEF TableSound
    <2> QED
        BY <2>1, <2>2, <2>3, <2>4
<1>4. owned' \subseteq Values
    BY DEF TableSound, Spared
<1>5. \A l \in Present' : hash_get(l)' = IF l = k THEN v ELSE hash_get(l)
    BY <1>1 DEF Present
<1>6. \A l \in Present' : l # k => l \in Present /\ hash_get(l) \in owned
    BY <1>2 DEF TableSound, Owned
<1>7. ~Has(k) => hash_get(k) = NULL
    BY ValueOf DEF TableSound
<1>8. owned' = {hash_get(l)' : l \in Present'}
    <2>1. ASSUME NEW w \in owned' PROVE \E l \in Present' : w = hash_get(l)'
        <3>1. CASE w = v
            BY <3>1, <1>2, <1>5
        <3>2. CASE w \in Spared(k)
            <4>1. PICK l \in Present : w = hash_get(l)
                BY <3>2 DEF TableSound, Owned, Spared
            <4>2. l # k
                BY <3>2, <4>1 DEF Spared
            <4> QED
                BY <4>1, <4>2, <1>2, <1>5
        <3> QED
            BY <2>1, <3>1, <3>2
    <2>2. ASSUME NEW l \in Present' PROVE hash_get(l)' \in owned'
        <3>1. CASE l = k
            BY <3>1, <2>2, <1>5
        <3>2. CASE l # k
            <4>1. hash_get(l) \in owned /\ hash_get(l) # NULL
                BY <3>2, <2>2, <1>6, TableAssumption DEF TableSound
            <4>2. hash_get(l) # hash_get(k)
                BY <4>1, <3>2, <2>2, <1>6, <1>7 DEF TableSound, Owned, Present
            <4> QED
                BY <4>1, <4>2, <3>2, <2>2, <1>5 DEF Spared
        <3> QED
            BY <3>1, <3>2
    <2> QED
        BY <2>1, <2>2
<1>9. \A l, m \in Present' : hash_get(l)' = hash_get(m)' => l = m
    BY <1>5, <1>6 DEF TableSound, Owned
<1> QED
    BY <1>1, <1>3, <1>4, <1>8, <1>9 DEF TableSound, Owned

\* An empty table is sound when it owns nothing.
LEMMA EmptySound ==
    ASSUME entries' = NoEntries, num_keys' = 0, owned' = {}
    PROVE  TableSound'
<1>1. Present' = {}
    BY EmptiedTable DEF Present
<1>2. Owned'
    BY <1>1 DEF Owned
<1> QED
    BY <1>1, <1>2, EmptiedTable, FS_EmptySet DEF TableSound

\* A reference given back leaves a sound table, or an empty one.
LEMMA ReleaseSound ==
    ASSUME TableSound, ref \in Nat, ref > 0, Release
    PROVE  /\ TableSound'
           /\ ref' = ref - 1
           /\ ref' = 0 => entries' = NoEntries
<1>1. CASE ref > 1
    <2>1. UNCHANGED table /\ ref' = ref - 1
        BY <1>1 DEF Release
    <2> QED
        BY <1>1, <2>1 DEF table, TableSound, Chained, Owned, Present, Has, hash_get, Chain
<1>2. CASE ref = 1
    <2>1. /\ ref' = 0 /\ entries' = NoEntries /\ num_keys' = 0
          /\ owned' = owned \ UNION {{entries[b][i].value : i \in DOMAIN entries[b]} :
                                       b \in Buckets}
        BY <1>2 DEF Release
    <2>2. ASSUME NEW v \in owned
          PROVE  v \in UNION {{entries[b][i].value : i \in DOMAIN entries[b]} : b \in Buckets}
        <3>1. PICK l \in Present : v = hash_get(l)
            BY <2>2 DEF TableSound, Owned
        <3>2. PICK b \in Buckets : \E i \in DOMAIN entries[b] : entries[b][i].value = v
            BY <3>1, ValueOf DEF TableSound, Present
        <3> QED
            BY <3>2
    <2>3. owned' = {}
        BY <2>1, <2>2
    <2> QED
        BY <2>1, <2>3, <1>2, EmptySound
<1> QED
    BY <1>1, <1>2

\* Starting an iterator, and ending it, changes the number of live ones by one.
LEMMA LiveChange ==
    ASSUME iters \in [Iterators -> Iterator], NEW it \in Iterators, NEW r \in Iterator,
           iters' = [iters EXCEPT ![it] = r]
    PROVE  Live' = IF r.live THEN Live \cup {it} ELSE Live \ {it}
BY DEF Live

LEMMA NewIteratorType ==
    /\ NewIterator \in Iterator /\ NewIterator.live = TRUE /\ NewIterator.entry = 0
    /\ NoIterator \in Iterator /\ NoIterator.live = FALSE /\ NoIterator.entry = 0
<1>1. -1 \in -1 .. Length - 1 /\ <<>> \in Seq(Keys)
    BY TableAssumption
<1> QED
    BY <1>1 DEF NewIterator, NoIterator, Iterator

LEMMA InitIInv == Init => IInv
<1> SUFFICES ASSUME Init PROVE IInv
    OBVIOUS
<1>1. Present = {}
    BY EmptyTable DEF Init, Present
<1>2. TableSound
    BY <1>1, EmptyTable, FS_EmptySet DEF Init, TableSound, Owned
<1>3. \A it \in Iterators : iters[it] = NoIterator
    BY DEF Init
<1>4. Live = {}
    BY <1>3, NewIteratorType DEF Live
<1>5. Counted
    BY <1>3, <1>4, NewIteratorType, FS_EmptySet DEF Init, Counted
<1> QED
    BY <1>2, <1>5 DEF Init, IInv

\* What an operation on the keys leaves of the references.
LEMMA StillCounted ==
    ASSUME Counted, UNCHANGED <<ref, users, iters>>
    PROVE  Counted'
BY DEF Counted, Live, Buckets

LEMMA NextIInv == IInv /\ [Next]_vars => IInv'
<1> SUFFICES ASSUME IInv, [Next]_vars PROVE IInv'
    OBVIOUS
<1> USE DEF IInv
<1>u. TableSound /\ UNCHANGED table => TableSound'
    BY DEF table, TableSound, Chained, Owned, Present, Has, hash_get, Chain
<1>l. Cardinality(Live) \in Nat /\ IsFiniteSet(Live)
    BY LiveFinite
<1>1. CASE hash_new
    <2>1. owned = {}
        <3>1. entries = NoEntries
            BY <1>1 DEF hash_new
        <3>2. Present = {}
            BY <3>1, EmptyTable DEF Present
        <3> QED
            BY <3>2 DEF TableSound, Owned
    <2>2. TableSound'
        BY <1>1, <2>1, EmptySound DEF hash_new
    <2>3. Counted'
        BY <1>1, <1>l DEF hash_new, Counted, Live, Buckets
    <2> QED
        BY <1>1, <2>2, <2>3 DEF hash_new
<1>2. CASE hash_clone
    <2>1. TableSound' /\ entries' = entries /\ ref' > 0
        BY <1>2, <1>u DEF hash_clone, table, Counted
    <2>2. Counted'
        BY <1>2, <1>l DEF hash_clone, Counted, Live, Buckets
    <2> QED
        BY <2>1, <2>2
<1>3. CASE hash_release
    <2>1. ref > 0 /\ ref \in Nat
        BY <1>3, <1>l DEF hash_release, Counted
    <2>2. TableSound' /\ ref' = ref - 1 /\ (ref' = 0 => entries' = NoEntries)
        BY <1>3, <2>1, ReleaseSound DEF hash_release
    <2>3. Counted'
        BY <1>3, <1>l, <2>1, <2>2 DEF hash_release, Counted, Live, Buckets
    <2> QED
        BY <2>2, <2>3
<1>4. ASSUME NEW k \in Keys, hash_drop(k) PROVE IInv'
    <2>1. TableSound'
        BY <1>4, DropSound DEF hash_drop
    <2>2. ref' # 0
        BY <1>4, <1>l DEF hash_drop, Changeable, Counted
    <2> QED
        BY <1>4, <2>1, <2>2, StillCounted DEF hash_drop
<1>5. ASSUME NEW k \in Keys, NEW v \in Values, hash_add(k, v) PROVE IInv'
    <2>1. v \in Values \ owned
        BY <1>5 DEF hash_add
    <2>2. ASSUME entries' = [entries EXCEPT ![HashKey[k]] =
                               <<[key |-> k, value |-> v]>> \o Dropped(@, k)],
                 num_keys' = Fewer(k) + 1, owned' = Spared(k) \cup {v}
          PROVE  TableSound'
        BY <2>1, <2>2, AddSound
    <2>3. ASSUME entries' = [entries EXCEPT ![HashKey[k]] = Dropped(@, k)],
                 num_keys' = Fewer(k), owned' = Spared(k)
          PROVE  TableSound'
        BY <2>3, DropSound
    <2>4. TableSound'
        BY <1>5, <2>2, <2>3 DEF hash_add
    <2>5. ref' # 0
        BY <1>5, <1>l DEF hash_add, Changeable, Counted
    <2> QED
        BY <1>5, <2>4, <2>5, StillCounted DEF hash_add
<1>6. ASSUME NEW it \in Iterators, hash_iter_new(it) PROVE IInv'
    <2>1. Live' = Live \cup {it} /\ it \notin Live
        BY <1>6, LiveChange, NewIteratorType DEF hash_iter_new, Counted, Live
    <2>2. Cardinality(Live') = Cardinality(Live) + 1
        BY <2>1, <1>l, FS_AddElement
    <2>3. TableSound' /\ entries' = entries
        BY <1>6, <1>u DEF hash_iter_new, table
    <2>4. ref' = ref + 1 /\ users' = users
        BY <1>6 DEF hash_iter_new
    <2>5. /\ iters' \in [Iterators -> Iterator]
          /\ \A j \in Iterators : iters'[j].entry > 0 => iters'[j].index \in Buckets
        BY <1>6, NewIteratorType DEF hash_iter_new, Counted
    <2>6. Counted'
        BY <1>l, <2>2, <2>4, <2>5 DEF Counted, Buckets
    <2> QED
        BY <2>3, <2>4, <2>6 DEF Counted
<1>7. ASSUME NEW it \in Iterators, hash_iter_next(it) PROVE IInv'
    <2>1. PICK b \in Buckets, i \in Nat :
             \/ i \in DOMAIN entries[b] /\ i > 0 /\ Return(it, b, i)
             \/ NoMore(it)
        <3> DEFINE cur == iters[it]
        <3>1. CASE NoMore(it)
            BY <3>1, TableAssumption DEF Buckets
        <3>2. CASE cur.entry > 0 /\ cur.entry < Len(entries[cur.index])
                     /\ Return(it, cur.index, cur.entry + 1)
            <4>1. cur.index \in Buckets /\ cur.entry \in Nat
                BY <3>2 DEF Counted, Iterator
            <4>2. entries[cur.index] \in Seq(Entry)
                BY <4>1 DEF TableSound
            <4>3. cur.entry + 1 \in DOMAIN entries[cur.index]
                BY <3>2, <4>1, <4>2
            <4> QED
                BY <3>2, <4>1, <4>3
        <3>3. ASSUME NEW c \in Buckets, Follows(cur, c), Return(it, c, 1)
              PROVE  1 \in DOMAIN entries[c]
            <4>1. entries[c] \in Seq(Entry) /\ entries[c] # <<>>
                BY <3>3 DEF TableSound, Follows
            <4> QED
                BY <4>1
        <3> QED
            BY <1>7, <3>1, <3>2, <3>3 DEF hash_iter_next
    <2>2. UNCHANGED <<table, ref, users>>
        BY <1>7 DEF hash_iter_next
    <2>3. iters[it] \in Iterator /\ (iters[it].entry > 0 => iters[it].index \in Buckets)
        BY DEF Counted
    <2>4. PICK r \in Iterator : /\ iters' = [iters EXCEPT ![it] = r]
                                /\ r.live = iters[it].live
                                /\ r.entry > 0 => r.index \in Buckets
        <3>1. CASE i \in DOMAIN entries[b] /\ i > 0 /\ Return(it, b, i)
            <4>1. entries[b] \in Seq(Entry)
                BY DEF TableSound
            <4>2. entries[b][i] \in Entry
                BY <3>1, <4>1
            <4>3. entries[b][i].key \in Keys
                BY <4>2 DEF Entry
            <4>4. Append(iters[it].seen, entries[b][i].key) \in Seq(Keys)
                BY <4>3, <2>3 DEF Iterator
            <4> DEFINE r == Returned(iters[it], b, i)
            <4> DEFINE old  == iters[it]
                       more == Append(old.seen, entries[b][i].key)
            <4>a. old \in Iterator /\ r = [old EXCEPT !.index = b, !.entry = i, !.seen = more]
                BY <2>3 DEF Returned
            <4> HIDE DEF r, more, old
            <4>5. r = [live |-> old.live, index |-> b, entry |-> i, seen |-> more,
                       done |-> old.done]
                BY <4>a DEF Iterator
            <4>6. b \in -1 .. Length - 1
                BY TableAssumption DEF Buckets
            <4> HIDE DEF r, more
            <4>7. r \in Iterator /\ r.live = old.live /\ r.index = b
                BY <4>a, <4>4, <4>5, <4>6 DEF Iterator, more, old
            <4>8. iters' = [iters EXCEPT ![it] = r]
                BY <3>1 DEF Return, r
            <4> QED
                BY <3>1, <4>7, <4>8 DEF old
        <3>2. CASE NoMore(it)
            <4> DEFINE r == [iters[it] EXCEPT !.done = TRUE]
            <4>1. r \in Iterator /\ r.live = iters[it].live
                    /\ r.index = iters[it].index /\ r.entry = iters[it].entry
                BY <2>3 DEF Iterator
            <4>2. iters' = [iters EXCEPT ![it] = r]
                BY <3>2 DEF NoMore
            <4> QED
                BY <2>3, <4>1, <4>2
        <3> QED
            BY <2>1, <3>1, <3>2
    <2>5. Live' = Live
        BY <2>4 DEF Counted, Live
    <2>6. Counted'
        BY <2>2, <2>4, <2>5 DEF Counted, Buckets
    <2> QED
        BY <2>2, <2>6, <1>u DEF table
<1>8. ASSUME NEW it \in Iterators, hash_iter_release(it) PROVE IInv'
    <2>1. Live' = Live \ {it} /\ it \in Live
        BY <1>8, LiveChange, NewIteratorType DEF hash_iter_release, Counted, Live
    <2>2. Cardinality(Live') = Cardinality(Live) - 1 /\ Cardinality(Live') \in Nat
        BY <2>1, <1>l, FS_RemoveElement, FS_CardinalityType
    <2>3. ref > 0 /\ ref \in Nat
        BY <2>2, <1>l DEF Counted
    <2>4. TableSound' /\ ref' = ref - 1 /\ (ref' = 0 => entries' = NoEntries)
        BY <1>8, <2>3, ReleaseSound DEF hash_iter_release
    <2>5. users' = users
        BY <1>8 DEF hash_iter_release
    <2>6. /\ iters' \in [Iterators -> Iterator]
          /\ \A j \in Iterators : iters'[j].entry > 0 => iters'[j].index \in Buckets
        BY <1>8, NewIteratorType DEF hash_iter_release, Counted
    <2>7. Counted'
        BY <1>l, <2>2, <2>3, <2>4, <2>5, <2>6 DEF Counted, Buckets
    <2> QED
        BY <2>4, <2>7
<1>9. CASE UNCHANGED vars
    BY <1>9, <1>u, StillCounted DEF vars, table
<1> QED
    BY <1>1, <1>2, <1>3, <1>4, <1>5, <1>6, <1>7, <1>8, <1>9 DEF Next

\* In every reachable state each key is in the table once and in its bucket, the count
\* is the number of keys, the values are neither leaked nor freed early, and the table
\* lives as long as someone holds it (hash.c:51-245).
THEOREM TableIsSound == Spec => []TableInv
<1>1. Spec => []IInv
    BY InitIInv, NextIInv, PTL DEF Spec
<1> QED
    BY <1>1, IInvIsStronger, PTL

-----------------------------------------------------------------------------
(* The refinement. *)

LEMMA MapInit == Init => Map!Init
BY EmptyTable DEF Init, Map!Init, Map!Empty

\* Every step of the table is one of the map or none.
LEMMA MapStep ==
    IInv /\ [Next]_vars => [Map!Next]_([k \in Keys |-> hash_get(k)])
<1> SUFFICES ASSUME IInv, [Next]_vars
             PROVE  [Map!Next]_([k \in Keys |-> hash_get(k)])
    OBVIOUS
<1> DEFINE map == [k \in Keys |-> hash_get(k)]
<1> USE DEF IInv
<1>u. UNCHANGED table => UNCHANGED map
    BY DEF table, hash_get, Chain
<1>e. entries' = NoEntries => Map!Next
    BY EmptiedTable DEF Map!Next, Map!Clear, Map!Empty
<1>1. ASSUME NEW k \in Keys, entries' = [entries EXCEPT ![HashKey[k]] = Dropped(@, k)]
      PROVE  Map!Next
    <2>1. \A l \in Keys : hash_get(l)' = IF l = k THEN NULL ELSE hash_get(l)
        BY <1>1, DropEffect DEF TableSound
    <2>2. map' = [map EXCEPT ![k] = NULL]
        BY <2>1
    <2> QED
        BY <2>2 DEF Map!Next, Map!Lose
<1>2. ASSUME NEW k \in Keys, NEW v \in Values,
             entries' = [entries EXCEPT ![HashKey[k]] =
                           <<[key |-> k, value |-> v]>> \o Dropped(@, k)]
      PROVE  Map!Next
    <2>1. \A l \in Keys : hash_get(l)' = IF l = k THEN v ELSE hash_get(l)
        BY <1>2, AddEffect DEF TableSound
    <2>2. map' = [map EXCEPT ![k] = v]
        BY <2>1
    <2> QED
        BY <2>2 DEF Map!Next, Map!Put
<1>3. CASE hash_new
    BY <1>3, <1>e DEF hash_new
<1>4. CASE hash_clone
    BY <1>4, <1>u DEF hash_clone
<1>5. Release => Map!Next \/ UNCHANGED map
    BY <1>u, <1>e DEF Release
<1>6. CASE hash_release
    BY <1>6, <1>5 DEF hash_release
<1>7. ASSUME NEW k \in Keys, hash_drop(k) PROVE Map!Next
    BY <1>7, <1>1 DEF hash_drop
<1>8. ASSUME NEW k \in Keys, NEW v \in Values, hash_add(k, v) PROVE Map!Next
    BY <1>8, <1>1, <1>2 DEF hash_add
<1>9. ASSUME NEW it \in Iterators,
             hash_iter_new(it) \/ hash_iter_next(it) \/ hash_iter_release(it)
      PROVE  Map!Next \/ UNCHANGED map
    BY <1>9, <1>5, <1>u DEF hash_iter_new, hash_iter_next, hash_iter_release
<1>10. CASE UNCHANGED vars
    BY <1>10, <1>u DEF vars
<1> QED
    BY <1>3, <1>4, <1>6, <1>7, <1>8, <1>9, <1>10 DEF Next

\* The table is a map to its users, whatever the buckets are and whichever keys
\* share one (hash.c:126-209).
THEOREM TableIsMap == Spec => MapSpec
<1>1. Spec => []IInv
    BY InitIInv, NextIInv, PTL DEF Spec
<1> QED
    BY <1>1, MapInit, MapStep, PTL DEF Spec, MapSpec, Map!Spec

-----------------------------------------------------------------------------
(* The iterators.  A walk is a position, and everything before it has been *)
(* returned; it never gets past the first entry of the last bucket.        *)

\* The i-th entry of bucket b is not behind the position of cur.
Passed(cur, b, i) == b < cur.index \/ (b = cur.index /\ i <= cur.entry)

Seen(cur, k) == \E n \in DOMAIN cur.seen : cur.seen[n] = k

Walk(tab, cur) ==
    /\ ~cur.live => cur = NoIterator
    /\ IF cur.index = -1 THEN cur.entry = 0 ELSE cur.entry \in DOMAIN tab[cur.index]
    /\ cur.index = Length - 1 => cur.entry = 1
    /\ \A k \in Keys :
          Seen(cur, k) <=> \E b \in Buckets : \E i \in DOMAIN tab[b] :
                              tab[b][i].key = k /\ Passed(cur, b, i)
    /\ \A m, n \in DOMAIN cur.seen : cur.seen[m] = cur.seen[n] => m = n
    /\ cur.done => \A b \in Buckets : \A i \in DOMAIN tab[b] :
                      Passed(cur, b, i) \/ (b = Length - 1 /\ i > 1)

Walks == \A it \in Iterators : Walk(entries, iters[it])

\* An iterator that has not begun fits every table.
LEMMA WalkNew == ASSUME NEW tab PROVE Walk(tab, NoIterator) /\ Walk(tab, NewIterator)
<1>1. -1 # Length - 1 /\ \A b \in Buckets : ~(b < -1) /\ b # -1
    BY TableAssumption DEF Buckets
<1>2. DOMAIN <<>> = {}
    OBVIOUS
<1> QED
    BY <1>1, <1>2 DEF Walk, NoIterator, NewIterator, Passed, Seen

\* Returning the entry that comes next in the order of the table.
LEMMA WalkReturned ==
    ASSUME TableSound, NEW cur \in Iterator, Walk(entries, cur), cur.live,
           NEW b \in Buckets, NEW i \in DOMAIN entries[b], b = Length - 1 => i = 1,
           \A c \in Buckets : \A j \in DOMAIN entries[c] :
               Passed(cur, c, j) <=> c < b \/ (c = b /\ j < i)
    PROVE  Walk(entries, Returned(cur, b, i))
<1> DEFINE k    == entries[b][i].key
           more == Append(cur.seen, k)
           r    == Returned(cur, b, i)
<1>1. /\ Buckets \subseteq Int /\ -1 \notin Buckets
      /\ \A c \in Buckets : entries[c] \in Seq(Entry) /\ DOMAIN entries[c] \subseteq Nat
    BY TableAssumption DEF TableSound, Buckets
<1>2. k \in Keys
    <2>1. entries[b][i] \in Entry
        BY <1>1
    <2> QED
        BY <2>1 DEF Entry
<1>3. /\ cur.seen \in Seq(Keys) /\ DOMAIN cur.seen = 1 .. Len(cur.seen)
      /\ Len(cur.seen) \in Nat
    BY DEF Iterator
<1>4. /\ DOMAIN more = 1 .. Len(cur.seen) + 1 /\ more[Len(cur.seen) + 1] = k
      /\ \A n \in DOMAIN cur.seen : more[n] = cur.seen[n]
    BY <1>2, <1>3
<1> HIDE DEF more
<1>5. /\ r.live = cur.live /\ r.done = cur.done /\ r.index = b /\ r.entry = i
      /\ r.seen = more
    BY DEF Returned, Iterator, more
<1> HIDE DEF r
<1>6. ~Passed(cur, b, i)
    BY <1>1
<1>7. \A c \in Buckets : \A j \in DOMAIN entries[c] :
          Passed(r, c, j) <=> Passed(cur, c, j) \/ (c = b /\ j = i)
    BY <1>1, <1>5 DEF Passed
<1>8. ~Seen(cur, k)
    <2> SUFFICES ASSUME NEW c \in Buckets, NEW j \in DOMAIN entries[c],
                        entries[c][j].key = k, Passed(cur, c, j)
                 PROVE  FALSE
        BY <1>2 DEF Walk
    <2>1. c = b
        BY DEF TableSound, Chained
    <2>2. j = i
        BY <2>1 DEF TableSound, Chained, Distinct
    <2> QED
        BY <1>6, <2>1, <2>2
<1>9. \A l : Seen(r, l) <=> Seen(cur, l) \/ l = k
    BY <1>3, <1>4, <1>5 DEF Seen
<1>10. \A m, n \in DOMAIN r.seen : r.seen[m] = r.seen[n] => m = n
    BY <1>3, <1>4, <1>5, <1>8 DEF Seen, Walk
<1>11. ~cur.done
    BY <1>1, <1>6 DEF Walk
<1>12. ASSUME NEW l \in Keys
       PROVE  Seen(r, l) <=> \E c \in Buckets : \E j \in DOMAIN entries[c] :
                                entries[c][j].key = l /\ Passed(r, c, j)
    BY <1>7, <1>9 DEF Walk
<1>13. r.live /\ r.index # -1 /\ r.entry \in DOMAIN entries[r.index]
    BY <1>1, <1>5
<1>14. r.index = Length - 1 => r.entry = 1
    BY <1>5
<1>15. r = Returned(cur, b, i)
    BY DEF r
<1>16. Walk(entries, r)
    BY <1>5, <1>10, <1>11, <1>12, <1>13, <1>14 DEF Walk
<1> QED
    BY <1>15, <1>16

\* Where an iterator finds no more, only entries it never reaches are left.
LEMMA WalkNoMore ==
    ASSUME NEW cur \in Iterator, Walk(entries, cur), cur.live,
           \A b \in Buckets : \A i \in DOMAIN entries[b] :
               Passed(cur, b, i) \/ (b = Length - 1 /\ i > 1)
    PROVE  Walk(entries, [cur EXCEPT !.done = TRUE])
<1> DEFINE r == [cur EXCEPT !.done = TRUE]
<1>1. /\ r.live = cur.live /\ r.index = cur.index /\ r.entry = cur.entry
      /\ r.seen = cur.seen
    BY DEF Iterator
<1> HIDE DEF r
<1>2. /\ \A b, i : Passed(r, b, i) <=> Passed(cur, b, i)
      /\ \A k : Seen(r, k) <=> Seen(cur, k)
    BY <1>1 DEF Passed, Seen
<1>3. Walk(entries, r)
    BY <1>1, <1>2 DEF Walk
<1> QED
    BY <1>3 DEF r

\* The search of hash_iter_next goes through the buckets in order.
LEMMA SearchFinds ==
    ASSUME NEW cur \in Iterator, \A b \in Buckets : ~Follows(cur, b)
    PROVE  \A b \in Buckets : b > cur.index => entries[b] = <<>>
<1> DEFINE S == {b \in Buckets : b > cur.index /\ entries[b] # <<>>}
<1> SUFFICES ASSUME S # {} PROVE FALSE
    OBVIOUS
<1>1. cur.index \in Int /\ cur.index >= -1 /\ S \subseteq Nat
    BY TableAssumption DEF Iterator, Buckets
<1>2. PICK n \in S : \A m \in S : n <= m
    <2> DEFINE R == {ss \in Nat \X Nat : ss[1] < ss[2]}
    <2>1. IsWellFoundedOn(R, Nat)
        BY NatLessThanWellFounded DEF OpToRel
    <2>2. \A m, n \in Nat : m < n => <<m, n>> \in R
        OBVIOUS
    <2> HIDE DEF R
    <2> HIDE DEF S
    <2>3. PICK n \in S : \A m \in S : <<m, n>> \notin R
        BY <1>1, <2>1, WFMin
    <2>4. \A m \in S : n \in Nat /\ m \in Nat /\ ~(m < n)
        BY <1>1, <2>2, <2>3
    <2>5. \A m \in S : n <= m
        BY <2>4
    <2> QED
        BY <2>3, <2>5
<1>3. \A c \in cur.index + 1 .. n - 1 : c \in Buckets /\ c > cur.index /\ ~(n <= c)
    BY <1>1, <1>2, TableAssumption DEF Buckets
<1>4. Follows(cur, n)
    BY <1>2, <1>3 DEF Follows
<1> QED
    BY <1>2, <1>4

\* A step of an iterator that returns a key or finds no more.
LEMMA NextWalk ==
    ASSUME IInv, NEW it \in Iterators, Walk(entries, iters[it]), hash_iter_next(it)
    PROVE  \E r : iters' = [iters EXCEPT ![it] = r] /\ Walk(entries, r)
<1> DEFINE cur     == iters[it]
           chained == cur.entry > 0 /\ cur.entry < Len(entries[cur.index])
<1>1. cur \in Iterator /\ cur.live /\ TableSound
    BY DEF IInv, Counted, hash_iter_next
<1>2. /\ \/ chained /\ cur.index + 1 < Length /\ Return(it, cur.index, cur.entry + 1)
         \/ chained /\ cur.index + 1 >= Length /\ NoMore(it)
         \/ ~chained /\ \E b \in Buckets : Follows(cur, b) /\ Return(it, b, 1)
         \/ ~chained /\ (\A b \in Buckets : ~Follows(cur, b)) /\ NoMore(it)
    BY DEF hash_iter_next
<1>3. /\ cur.index \in -1 .. Length - 1 /\ Length \in Nat \ {0} /\ cur.entry \in Nat
      /\ IF cur.index = -1 THEN cur.entry = 0 ELSE cur.entry \in DOMAIN entries[cur.index]
      /\ cur.index = Length - 1 => cur.entry = 1
    BY <1>1, TableAssumption DEF Walk, Iterator
<1>4. /\ Buckets = 0 .. Length - 1
      /\ \A b \in Buckets : /\ entries[b] \in Seq(Entry) /\ Len(entries[b]) \in Nat
                            /\ DOMAIN entries[b] = 1 .. Len(entries[b])
    BY <1>1 DEF TableSound, Buckets
<1>5. iters[it] = cur /\ Walk(entries, cur)
    OBVIOUS
<1> HIDE DEF cur
<1>6. CASE chained
    <2>1. /\ cur.index \in Buckets /\ cur.index # -1
          /\ cur.entry + 1 \in DOMAIN entries[cur.index]
        BY <1>3, <1>4, <1>6
    <2>2. CASE cur.index + 1 < Length /\ Return(it, cur.index, cur.entry + 1)
        <3>1. cur.index # Length - 1
            BY <1>3, <2>2
        <3>2. \A c \in Buckets : \A j \in DOMAIN entries[c] :
                  Passed(cur, c, j) <=> c < cur.index \/ (c = cur.index /\ j < cur.entry + 1)
            BY <1>3, <1>4, <2>1 DEF Passed
        <3>3. Walk(entries, Returned(cur, cur.index, cur.entry + 1))
            BY <1>1, <1>5, <2>1, <3>1, <3>2, WalkReturned
        <3> QED
            BY <1>5, <2>2, <3>3 DEF Return
    <2>3. CASE cur.index + 1 >= Length /\ NoMore(it)
        <3>1. cur.index = Length - 1 /\ cur.entry = 1
            BY <1>3, <2>1, <2>3
        <3>2. \A c \in Buckets : \A j \in DOMAIN entries[c] :
                  Passed(cur, c, j) \/ (c = Length - 1 /\ j > 1)
            BY <1>3, <1>4, <3>1 DEF Passed
        <3>3. Walk(entries, [cur EXCEPT !.done = TRUE])
            BY <1>1, <1>5, <3>2, WalkNoMore
        <3> QED
            BY <1>5, <2>3, <3>3 DEF NoMore
    <2> QED
        BY <1>2, <1>6, <2>2, <2>3
<1>7. CASE ~chained
    <2>1. \A j \in Nat : cur.index \in Buckets /\ j \in DOMAIN entries[cur.index] => j <= cur.entry
        BY <1>3, <1>4, <1>7
    <2>2. CASE \E b \in Buckets : Follows(cur, b) /\ Return(it, b, 1)
        <3>1. PICK b \in Buckets : Follows(cur, b) /\ Return(it, b, 1)
            BY <2>2
        <3>2. /\ 1 \in DOMAIN entries[b] /\ cur.index < b
              /\ \A c \in cur.index + 1 .. b - 1 : entries[c] = <<>>
            BY <1>4, <3>1 DEF Follows
        <3>3. ASSUME NEW c \in Buckets, NEW j \in DOMAIN entries[c]
              PROVE  Passed(cur, c, j) <=> c < b \/ (c = b /\ j < 1)
            <4>1. j \in Nat /\ j >= 1 /\ c \in Int /\ b \in Int /\ cur.index \in Int
                BY <1>3, <1>4
            <4>2. c < b => c <= cur.index
                BY <1>4, <3>2, <4>1
            <4>3. c = cur.index => j <= cur.entry
                BY <2>1, <4>1
            <4> QED
                BY <3>2, <4>1, <4>2, <4>3 DEF Passed
        <3>4. Walk(entries, Returned(cur, b, 1))
            BY <1>1, <1>5, <3>2, <3>3, WalkReturned
        <3> QED
            BY <1>5, <3>1, <3>4 DEF Return
    <2>3. CASE (\A b \in Buckets : ~Follows(cur, b)) /\ NoMore(it)
        <3>1. \A b \in Buckets : b > cur.index => entries[b] = <<>>
            BY <1>1, <2>3, SearchFinds
        <3>2. ASSUME NEW c \in Buckets, NEW j \in DOMAIN entries[c]
              PROVE  Passed(cur, c, j)
            <4>1. j \in Nat /\ j >= 1 /\ c \in Int /\ cur.index \in Int
                BY <1>3, <1>4
            <4>2. c <= cur.index
                BY <1>4, <3>1, <4>1
            <4>3. c = cur.index => j <= cur.entry
                BY <2>1, <4>1
            <4> QED
                BY <4>1, <4>2, <4>3 DEF Passed
        <3>3. Walk(entries, [cur EXCEPT !.done = TRUE])
            BY <1>1, <1>5, <3>2, WalkNoMore
        <3> QED
            BY <1>5, <2>3, <3>3 DEF NoMore
    <2> QED
        BY <1>2, <1>7, <2>2, <2>3
<1> QED
    BY <1>6, <1>7

\* While entries change there is no iterator, and when they are freed none is left.
LEMMA NextWalks == IInv /\ Walks /\ [Next]_vars => Walks'
<1> SUFFICES ASSUME IInv, Walks, [Next]_vars PROVE Walks'
    OBVIOUS
<1>0. /\ Cardinality(Live) \in Nat /\ IsFiniteSet(Live)
      /\ ref \in Nat /\ users \in Nat /\ ref = users + Cardinality(Live)
      /\ iters \in [Iterators -> Iterator]
    BY LiveFinite DEF IInv, Counted
<1>1. ASSUME NEW it \in Iterators, NEW r, iters' = [iters EXCEPT ![it] = r],
             Walk(entries, r), entries' = entries
      PROVE  Walks'
    BY <1>0, <1>1 DEF Walks
<1>2. iters' = iters /\ entries' = entries => Walks'
    BY DEF Walks
<1>3. (\A it \in Iterators : iters'[it] = NoIterator) => Walks'
    BY WalkNew DEF Walks
<1>4. \A it \in Iterators : ~iters[it].live => iters[it] = NoIterator
    BY DEF Walks, Walk
<1>5. CASE hash_new \/ hash_clone
    BY <1>2, <1>5 DEF hash_new, hash_clone, table, IInv
<1>6. CASE hash_release
    <2>1. CASE ref > 1
        BY <1>2, <1>6, <2>1 DEF hash_release, Release, table
    <2>2. CASE ~(ref > 1)
        <3>1. Cardinality(Live) = 0
            BY <1>0, <1>6, <2>2 DEF hash_release
        <3>2. Live = {}
            BY <1>0, <3>1, FS_EmptySet
        <3> QED
            BY <1>3, <1>4, <1>6, <3>2 DEF hash_release, Live
    <2> QED
        BY <2>1, <2>2
<1>7. CASE \E k \in Keys : hash_drop(k) \/ \E v \in Values : hash_add(k, v)
    BY <1>3, <1>4, <1>7 DEF hash_drop, hash_add, Changeable
<1>8. ASSUME NEW it \in Iterators, hash_iter_new(it) PROVE Walks'
    BY <1>1, <1>8, WalkNew DEF hash_iter_new, table
<1>9. ASSUME NEW it \in Iterators, hash_iter_next(it) PROVE Walks'
    <2>1. entries' = entries /\ Walk(entries, iters[it])
        BY <1>9 DEF hash_iter_next, table, Walks
    <2>2. PICK r : iters' = [iters EXCEPT ![it] = r] /\ Walk(entries, r)
        BY <1>9, <2>1, NextWalk
    <2> QED
        BY <1>1, <2>1, <2>2
<1>10. ASSUME NEW it \in Iterators, hash_iter_release(it) PROVE Walks'
    <2>1. iters' = [iters EXCEPT ![it] = NoIterator] /\ Release /\ it \in Live
        BY <1>10 DEF hash_iter_release, Live
    <2>2. CASE ref > 1
        BY <1>1, <2>1, <2>2, WalkNew DEF Release, table
    <2>3. CASE ~(ref > 1)
        <3>1. Cardinality(Live \ {it}) = Cardinality(Live) - 1 /\ IsFiniteSet(Live \ {it})
            BY <1>0, <2>1, FS_RemoveElement
        <3>2. Cardinality(Live \ {it}) \in Nat
            BY <3>1, FS_CardinalityType
        <3>3. Cardinality(Live \ {it}) = 0
            BY <1>0, <2>3, <3>1, <3>2
        <3>4. Live \ {it} = {}
            BY <3>1, <3>3, FS_EmptySet
        <3>5. \A j \in Iterators : iters'[j] = NoIterator
            BY <1>0, <1>4, <2>1, <3>4 DEF Live
        <3> QED
            BY <1>3, <3>5
    <2> QED
        BY <2>2, <2>3
<1>11. CASE UNCHANGED vars
    BY <1>2, <1>11 DEF vars, table
<1> QED
    BY <1>5, <1>6, <1>7, <1>8, <1>9, <1>10, <1>11 DEF Next

LEMMA WalksExact == IInv /\ Walks => IteratorExact
<1> SUFFICES ASSUME IInv, Walks, NEW it \in Iterators
             PROVE  LET seen == iters[it].seen
                        keys == {seen[i] : i \in DOMAIN seen}
                    IN /\ keys \subseteq Present
                       /\ \A i, j \in DOMAIN seen : seen[i] = seen[j] => i = j
                       /\ iters[it].done => keys = Present \ Hidden
    BY DEF IteratorExact
<1> DEFINE cur  == iters[it]
           keys == {cur.seen[i] : i \in DOMAIN cur.seen}
<1>1. cur \in Iterator /\ Walk(entries, cur) /\ TableSound
    BY DEF IInv, Counted, Walks
<1> HIDE DEF cur
<1>2. /\ Buckets = 0 .. Length - 1 /\ Length \in Nat \ {0}
      /\ \A k \in Keys : HashKey[k] \in Buckets
      /\ \A b \in Buckets : /\ entries[b] \in Seq(Entry) /\ Distinct(entries[b])
                            /\ \A i \in DOMAIN entries[b] : HashKey[entries[b][i].key] = b
    BY <1>1, TableAssumption DEF TableSound, Chained, Buckets
<1>3. keys \subseteq Keys /\ \A k : k \in keys <=> Seen(cur, k)
    <2>1. cur.seen \in Seq(Keys)
        BY <1>1 DEF Iterator
    <2> QED
        BY <2>1 DEF Seen
<1> HIDE DEF keys
<1>4. ASSUME NEW k \in Keys, NEW b \in Buckets, NEW i \in DOMAIN entries[b],
             entries[b][i].key = k
      PROVE  k \in Present /\ HashKey[k] = b /\ Find(Chain(k), k) = i
    <2>1. HashKey[k] = b /\ Chain(k) = entries[b]
        BY <1>2, <1>4 DEF Chain
    <2>2. Find(entries[b], k) = i
        BY <1>2, <1>4, FindIs
    <2> QED
        BY <1>4, <2>1, <2>2 DEF Present, Has, Holds
<1>5. \A k \in Present : \E i \in DOMAIN entries[HashKey[k]] : entries[HashKey[k]][i].key = k
    BY DEF Present, Has, Holds, Chain
<1>6. keys \subseteq Present
    <2> SUFFICES ASSUME NEW k \in keys PROVE k \in Present
        OBVIOUS
    <2>1. PICK b \in Buckets : \E i \in DOMAIN entries[b] : entries[b][i].key = k
        BY <1>1, <1>3 DEF Walk
    <2> QED
        BY <1>3, <1>4, <2>1
<1>7. ASSUME cur.done PROVE keys = Present \ Hidden
    <2>1. ASSUME NEW k \in keys PROVE k \notin Hidden
        <3>0. PICK b \in Buckets : \E i \in DOMAIN entries[b] :
                entries[b][i].key = k /\ Passed(cur, b, i)
            BY <1>1, <1>3 DEF Walk
        <3>1. PICK i \in DOMAIN entries[b] : entries[b][i].key = k /\ Passed(cur, b, i)
            BY <3>0
        <3>2. HashKey[k] = b /\ Find(Chain(k), k) = i
            BY <1>3, <1>4, <3>1
        <3>3. ASSUME b = Length - 1 PROVE ~(i > 1)
            <4>1. cur.index \in -1 .. Length - 1 /\ i \in Nat
                BY <1>1, <1>2 DEF Iterator
            <4>2. cur.index = Length - 1 /\ i <= cur.entry
                BY <1>2, <3>1, <3>3, <4>1 DEF Passed
            <4> QED
                BY <1>1, <4>1, <4>2 DEF Walk
        <3> QED
            BY <3>2, <3>3 DEF Hidden
    <2>2. ASSUME NEW k \in Present \ Hidden PROVE k \in keys
        <3>1. k \in Keys /\ HashKey[k] \in Buckets
            BY <1>2 DEF Present
        <3>2. PICK i \in DOMAIN entries[HashKey[k]] : entries[HashKey[k]][i].key = k
            BY <1>5
        <3>3. Find(Chain(k), k) = i
            BY <1>4, <3>1, <3>2
        <3>4. Passed(cur, HashKey[k], i)
            BY <1>1, <1>7, <3>1, <3>3 DEF Walk, Hidden
        <3> QED
            BY <1>1, <1>3, <3>1, <3>2, <3>4 DEF Walk
    <2> QED
        BY <1>6, <2>1, <2>2
<1>8. \A i, j \in DOMAIN cur.seen : cur.seen[i] = cur.seen[j] => i = j
    BY <1>1 DEF Walk
<1> QED
    BY <1>6, <1>7, <1>8 DEF cur, keys

\* However many iterators walk over a table, and whatever is added and dropped between
\* two walks, each returns keys of the table, none twice, and in the end all but those
\* behind the first of the last bucket, where hash_iter_next stops too early
\* (hash.c:249-277).
THEOREM IteratorsExact == Spec => []IteratorExact
<1>1. Init => IInv /\ Walks
    BY InitIInv, WalkNew DEF Init, Walks
<1>2. IInv /\ Walks /\ [Next]_vars => (IInv /\ Walks)'
    BY NextIInv, NextWalks
<1> QED
    BY <1>1, <1>2, WalksExact, PTL DEF Spec
=============================================================================

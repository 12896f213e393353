----------------------------- MODULE HashTable ------------------------------
(***************************************************************************)
(* One table of runtime/php-hash.scm as it is built: bucket chains for     *)
(* lookup, a doubly linked list of the entries for order, an array pointer *)
(* into that list, a size and a growth threshold.  Sharing between tables  *)
(* is LazyHash's subject; this module shows that the structure implements  *)
(* the array value of ArrayValue.                                          *)
(*                                                                         *)
(* A walk is php-hash-for-each and its kin: the loop holds an entry, calls *)
(* out, and then follows that entry's next pointer.  The callback may      *)
(* change the table, so every operation may happen during a walk.          *)
(***************************************************************************)
EXTENDS ArrayValue, FiniteSets, SequencesExt

CONSTANTS
    Entries,        \* identities of entries: a set of naturals
    Nil,            \* the sentinel, and the end of a chain
    NoWalk,         \* no walk is in progress
    HashNumber,     \* the hash number of each key
    DefaultSize,    \* buckets of a new table, a power of two
    FirstThreshold, \* its expand threshold
    MaxSize         \* bound: tables do not grow beyond this many buckets

Links == Entries \cup {Nil}

ASSUME TableAssumption ==
    /\ IsFiniteSet(Entries) /\ Entries \subseteq Nat
    /\ Nil \notin Entries /\ NoWalk \notin Links
    /\ HashNumber \in [Keys -> Nat]
    /\ DefaultSize \in Nat \ {0} /\ {FirstThreshold, MaxSize} \subseteq Nat

VARIABLES
    t,              \* the table
    walk,           \* the entry the loop holds
    seen,           \* entries the walk has called out for
    stay            \* entries in the table ever since the walk began

table == <<t, walk, seen, stay>>

-----------------------------------------------------------------------------
(* The entries met from e along a pointer: one more at each step, until Nil. *)
MeetNext(pointer, e, met, n) ==
    LET f == IF n = 1 THEN e ELSE IF Len(met) = n - 1 THEN pointer[met[n - 1]] ELSE Nil
    IN  IF f = Nil THEN met ELSE Append(met, f)

Along(pointer, e) ==
    LET met[n \in 0 .. Cardinality(Entries)] ==
            IF n = 0 THEN <<>> ELSE MeetNext(pointer, e, met[n - 1], n)
    IN  met[Cardinality(Entries)]

EntryList(h) == Along(h.next, h.head)
Listed(h) == ToSet(EntryList(h))

BucketCount(h) == Cardinality(DOMAIN h.buckets)
BucketOf(h, k) == HashNumber[k] % BucketCount(h)
ChainIn(h, b) == Along(h.chain, h.buckets[b])

(* %php-hash-lookup: the first entry of the key's bucket with that key.    *)
Lookup(h, k) ==
    LET c == ChainIn(h, BucketOf(h, k))
        found == {i \in DOMAIN c : h.key[c[i]] = k}
    IN  IF found = {} THEN Nil
        ELSE c[CHOOSE i \in found : \A j \in found : i <= j]

(* expand-threshold: half the buckets and a quarter, by shifts. *)
ExpandThreshold(n) == (n \div 2) + (n \div 4)

EmptyBuckets(n) == [b \in 0 .. n - 1 |-> Nil]

-----------------------------------------------------------------------------
(* php-hash-expand!: twice the buckets, and every cell pushed on the front *)
(* of its new chain, in the order of the old chains.                       *)
Onto(h, e) ==
    LET b == BucketOf(h, h.key[e])
    IN  [h EXCEPT !.chain[e] = h.buckets[b], !.buckets[b] = e]

Rechain(h, cells) ==
    LET after[n \in 0 .. Len(cells)] ==
            IF n = 0 THEN h ELSE Onto(after[n - 1], cells[n])
    IN  after[Len(cells)]

Cells(h) ==
    LET upto[n \in 0 .. BucketCount(h)] ==
            IF n = 0 THEN <<>> ELSE upto[n - 1] \o ChainIn(h, n - 1)
    IN  upto[BucketCount(h)]

Expand(h) ==
    LET n == 2 * BucketCount(h)
    IN  Rechain([h EXCEPT !.buckets = EmptyBuckets(n),
                          !.threshold = ExpandThreshold(n)], Cells(h))

(* A new entry e for key k, at the front of its chain and the tail of the  *)
(* list, current if nothing was.                                           *)
Link(h, e, k, x) ==
    LET b == BucketOf(h, k)
        end == h.tail
        g == [h EXCEPT !.key[e] = k, !.val[e] = x,
                       !.chain[e] = h.buckets[b], !.buckets[b] = e,
                       !.prev[e] = end, !.next[e] = Nil, !.tail = e,
                       !.head = IF @ = Nil THEN e ELSE @,
                       !.cur = IF @ = Nil THEN e ELSE @,
                       !.size = @ + 1]
    IN  IF end = Nil THEN g ELSE [g EXCEPT !.next[end] = e]

(* %php-hash-insert!: grow first if the table is past its threshold.       *)
Put(h, e, k, x) ==
    LET g == IF h.size > h.threshold THEN Expand(h) ELSE h
        f == Lookup(g, k)
    IN  IF f = Nil THEN Link(g, e, k, x) ELSE [g EXCEPT !.val[f] = x]

(* Mutant: the removed entry forgets where it was.                          *)
LeaveListAndForget(h, e) ==
    LET p == h.prev[e]
        n == h.next[e]
        g == IF p = Nil THEN [h EXCEPT !.head = n] ELSE [h EXCEPT !.next[p] = n]
        f == IF n = Nil THEN [g EXCEPT !.tail = p] ELSE [g EXCEPT !.prev[n] = p]
    IN  [f EXCEPT !.next[e] = Nil, !.cur = IF @ = e THEN n ELSE @]

(* %internal-remove: out of the list; the entry keeps its own pointers.    *)
LeaveList(h, e) ==
    LET p == h.prev[e]
        n == h.next[e]
        g == IF p = Nil THEN [h EXCEPT !.head = n] ELSE [h EXCEPT !.next[p] = n]
        f == IF n = Nil THEN [g EXCEPT !.tail = p] ELSE [g EXCEPT !.prev[n] = p]
    IN  IF f.cur = e THEN [f EXCEPT !.cur = n] ELSE f

(* Mutant: the entry stays in its chain. *)
TakeFromList(h, k) ==
    IF Lookup(h, k) = Nil THEN h
    ELSE [LeaveList(h, Lookup(h, k)) EXCEPT !.size = @ - 1]

(* php-hash-remove!: out of the chain, out of the list, one fewer.         *)
Take(h, k) ==
    LET b == BucketOf(h, k)
        c == ChainIn(h, b)
        e == Lookup(h, k)
        i == CHOOSE j \in DOMAIN c : c[j] = e
        unchained == IF i = 1 THEN [h EXCEPT !.buckets[b] = h.chain[e]]
                     ELSE [h EXCEPT !.chain[c[i - 1]] = h.chain[e]]
    IN  IF e = Nil THEN h ELSE [LeaveList(unchained, e) EXCEPT !.size = @ - 1]

(* Mutant: the maximum key survives. *)
ClearedButMax(h) ==
    [h EXCEPT !.size = 0, !.buckets = EmptyBuckets(DefaultSize), !.cur = Nil,
              !.head = Nil, !.tail = Nil]

(* clear-php-hash.  The threshold keeps its value. *)
Cleared(h) ==
    [h EXCEPT !.size = 0, !.buckets = EmptyBuckets(DefaultSize), !.cur = Nil,
              !.max = -1, !.head = Nil, !.tail = Nil]

(* ->insert-key *)
Raise(h, k) == IF k \in IntKeys /\ k > h.max THEN [h EXCEPT !.max = k] ELSE h

(* Entries nobody can reach: not in the table, not ahead of the walk.      *)
Ahead(h) ==
    IF walk \in {NoWalk, Nil} THEN {} ELSE ToSet(Along(h.next, walk))
Garbage == Entries \ (Listed(t) \cup Ahead(t) \cup seen)
LeastOf(S) == CHOOSE e \in S : \A f \in S : e <= f
NewEntry == LeastOf(Garbage)

(* Insert <<key, value>> items one after the other, in new entries. *)
InsertNew(g, item) ==
    LET e == LeastOf(g.pool)
    IN  [table |-> Put(Raise(g.table, item[1]), e, item[1], item[2]), pool |-> g.pool \ {e}]

Reinsert(h, items, pool) ==
    LET after[n \in 0 .. Len(items)] ==
            IF n = 0 THEN [table |-> h, pool |-> pool]
            ELSE InsertNew(after[n - 1], items[n])
    IN  after[Len(items)].table

Items(h, es) == [i \in DOMAIN es |-> <<h.key[es[i]], h.val[es[i]]>>]

(* %separate-internal-hash-structure: entries of its own for every entry of *)
(* the shared structure, in as many buckets; the pointer goes to the new    *)
(* entry of the old current one, or to the sentinel.                        *)
Separated(h) ==
    LET g == Reinsert([h EXCEPT !.size = 0, !.head = Nil, !.tail = Nil, !.cur = Nil,
                                !.buckets = EmptyBuckets(BucketCount(h))],
                      Items(h, EntryList(h)), Garbage)
    IN  [g EXCEPT !.max = h.max,
                  !.cur = IF h.cur = Nil THEN Nil ELSE Lookup(g, h.key[h.cur])]

(* The sorts: clear, then insert the elements again in their new order p,   *)
(* under their own keys or under 0, 1, 2...                                 *)
Resorted(h, p, keep) ==
    LET es == EntryList(h)
        sorted == Items(h, [i \in DOMAIN es |-> es[p[i]]])
    IN  Reinsert(Cleared(h),
                 [i \in DOMAIN es |-> IF keep THEN sorted[i] ELSE <<i - 1, sorted[i][2]>>],
                 Garbage)

-----------------------------------------------------------------------------
NoEntries == [e \in Entries |-> Nil]
AnyKey == CHOOSE k \in Keys : TRUE

TableInit ==
    /\ t = [size |-> 0, buckets |-> EmptyBuckets(DefaultSize), cur |-> Nil,
            head |-> Nil, tail |-> Nil, max |-> -1, threshold |-> FirstThreshold,
            chain |-> NoEntries, next |-> NoEntries, prev |-> NoEntries,
            key |-> [e \in Entries |-> AnyKey], val |-> [e \in Entries |-> Null]]
    /\ walk = NoWalk
    /\ seen = {}
    /\ stay = {}

Becomes(h) ==
    /\ t' = h
    /\ stay' = stay \cap Listed(h)
    /\ UNCHANGED <<walk, seen>>

MayGrow == t.size > t.threshold => 2 * BucketCount(t) <= MaxSize

Insert(k, x) ==
    /\ Garbage # {} /\ MayGrow
    /\ Becomes(Put(Raise(t, k), NewEntry, k, x))

Push(x) ==
    /\ Garbage # {} /\ MayGrow
    /\ t.max < MaxInt
    /\ Becomes(Put(Raise(t, t.max + 1), NewEntry, t.max + 1, x))

(* php-hash-lookup-location with create: NULL under a missing key, and the *)
(* maximum key stays.                                                      *)
CreateLocation(k) ==
    /\ Garbage # {} /\ MayGrow
    /\ Lookup(t, k) = Nil
    /\ Becomes(Put(t, NewEntry, k, Null))

HashRemove(k) == Becomes(Take(t, k))

(* Mutant: the maximum drops whatever key went. *)
PopLowering ==
    /\ t.tail # Nil
    /\ Becomes([Take(t, t.key[t.tail]) EXCEPT !.max = @ - 1])

Pop ==
    LET k == t.key[t.tail]
        h == Take(t, k)
    IN  /\ t.tail # Nil
        /\ Becomes(IF k = h.max THEN [h EXCEPT !.max = @ - 1] ELSE h)

Clear == Becomes(Cleared(t))

Room == Cardinality(Garbage) >= t.size

Separate == Room /\ Becomes(Separated(t))

Sort ==
    /\ Room
    /\ \E p \in Permutations1(t.size), keep \in BOOLEAN :
          /\ keep \/ t.size - 1 <= MaxInt
          /\ Becomes(Resorted(t, p, keep))

Reset == Becomes([t EXCEPT !.cur = t.head])
End == Becomes([t EXCEPT !.cur = t.tail])
Advance == t.cur # Nil /\ Becomes([t EXCEPT !.cur = t.next[@]])
Prev == t.cur # Nil /\ Becomes([t EXCEPT !.cur = t.prev[@]])

(* The loop takes its first entry, and later the next of the one it holds. *)
StartWalk ==
    /\ walk = NoWalk
    /\ walk' = t.head
    /\ seen' = {t.head} \ {Nil}
    /\ stay' = Listed(t)
    /\ UNCHANGED t

(* Mutant: the walk starts over when its entry is gone. *)
WalkOnOrOver ==
    /\ walk \in Entries
    /\ walk' = IF walk \in Listed(t) THEN t.next[walk] ELSE t.head
    /\ seen' = seen \cup ({walk'} \ {Nil})
    /\ UNCHANGED <<t, stay>>

WalkOn ==
    /\ walk \in Entries
    /\ walk' = t.next[walk]
    /\ seen' = seen \cup ({t.next[walk]} \ {Nil})
    /\ UNCHANGED <<t, stay>>

EndWalk ==
    /\ walk = Nil
    /\ walk' = NoWalk
    /\ seen' = {} /\ stay' = {}
    /\ UNCHANGED t

TableNext ==
    \/ \E k \in Keys : \/ HashRemove(k) \/ CreateLocation(k)
                       \/ \E x \in Vals : Insert(k, x)
    \/ \E x \in Vals : Push(x)
    \/ Pop \/ Clear \/ Separate \/ Sort
    \/ Reset \/ End \/ Advance \/ Prev
    \/ StartWalk \/ WalkOn \/ EndWalk

TableSpec == TableInit /\ [][TableNext]_table

-----------------------------------------------------------------------------
TableTypeOK ==
    /\ t \in [size: 0 .. Cardinality(Entries), buckets: [0 .. BucketCount(t) - 1 -> Links],
              cur: Links, head: Links, tail: Links, max: -1 .. MaxInt, threshold: Nat,
              chain: [Entries -> Links], next: [Entries -> Links], prev: [Entries -> Links],
              key: [Entries -> Keys], val: [Entries -> Vals]]
    /\ walk \in Links \cup {NoWalk}
    /\ seen \subseteq Entries /\ stay \subseteq Entries

(* Every way into the table agrees: the entries in the chains are those of  *)
(* the list, each in the bucket its key hashes to, no key twice, and the    *)
(* size is their number; and read backwards from the tail the list is the   *)
(* list, so that array_reverse, prev() and end() see the order that foreach *)
(* sees.  (php-hash.scm asserts only that its ends are the sentinel.)       *)
TableAgrees ==
    LET all == Cells(t)
    IN  /\ ToSet(all) = Listed(t)
        /\ Len(all) = Cardinality(Listed(t))
        /\ t.size = Len(all)
        /\ \A b \in DOMAIN t.buckets : \A e \in ToSet(ChainIn(t, b)) :
              BucketOf(t, t.key[e]) = b
        /\ \A e, f \in Listed(t) : t.key[e] = t.key[f] => e = f
        /\ Along(t.prev, t.tail) = Reverse(EntryList(t))

(* A walk never misses an entry that was in the table the whole time,       *)
(* whatever its callbacks insert and remove, the held entry included.       *)
WalkMissesNone ==
    walk # NoWalk =>
        stay \ seen \subseteq
            (IF walk = Nil THEN {} ELSE ToSet(Along(t.next, t.next[walk])))

(* ... and never calls out twice for one entry.                             *)
WalkOnce == [][walk' # walk /\ walk' \in Entries => walk' \notin seen]_table

(* The array value this table stands for. *)
ValueOf(h) ==
    LET order == EntryList(h)
    IN  [order |-> [i \in DOMAIN order |-> h.key[order[i]]],
         elem |-> [k \in Keys |-> IF \E e \in Listed(h) : h.key[e] = k
                                  THEN h.val[CHOOSE e \in Listed(h) : h.key[e] = k]
                                  ELSE Absent],
         cur |-> IF h.cur = Nil THEN AtEnd ELSE h.key[h.cur],
         max |-> h.max]

(* Each operation does to that value what ArrayValue says it does. *)
ImplementsArray ==
    /\ ValueOf(t) = EmptyArray
    /\ [][\/ t' = t
          \/ LET a == ValueOf(t)
                 b == ValueOf(t')
             IN  \/ b \in {a, PopTail(a), EmptyArray, Reset1(a), ToEnd(a),
                           Advance1(a), Prev1(a)}
                 \/ \E k \in Keys :
                       \/ b = RemoveKey(a, k)
                       \/ ~Has(a, k) /\ b = SetElem(a, k, Null)
                       \/ \E x \in Vals : b = SetElem(RaiseMax(a, k), k, x)
                 \/ \E p \in Permutations1(Len(a.order)) :
                       b = SortSavingKeys(a, p) \/ b = SortTrashingKeys(a, p)
         ]_table

=============================================================================

---------------------------- MODULE MCHashTable -----------------------------
(***************************************************************************)
(* Instances of HashTable for TLC.  Keys 0 and 2 hash to the same bucket   *)
(* of two and to different buckets of four.  The view names entries by     *)
(* their keys and forgets the garbage.                                     *)
(***************************************************************************)
EXTENDS HashTable

HashIsKey == [k \in 0 .. MaxInt |-> k]

Named(e) == IF e \in Entries THEN <<t.key[e], t.val[e], e \in Listed(t), e \in stay, e \in seen>>
            ELSE <<>>
(* (The comparison of the buckets is there for TLC, which has to store them.) *)
TableView ==
    << t.size, t.max, t.threshold, Named(t.cur), Named(t.head), Named(t.tail),
       [i \in DOMAIN EntryList(t) |-> Named(EntryList(t)[i])],
       Along(t.prev, t.tail) = Reverse(EntryList(t)),
       [b \in DOMAIN t.buckets |->
           [i \in DOMAIN ChainIn(t, b) |-> Named(ChainIn(t, b)[i])]],
       t.buckets = EmptyBuckets(BucketCount(t)),
       walk = NoWalk,
       IF walk \in Entries
       THEN [i \in DOMAIN Along(t.next, walk) |-> Named(Along(t.next, walk)[i])]
       ELSE <<>>,
       Cardinality(seen) >>
=============================================================================

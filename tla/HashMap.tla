------------------------------ MODULE HashMap ------------------------------
(***************************************************************************)
(* The map of libks/map.c: elements in a doubly linked list, in the order  *)
(* of their insertion, and in the chains of a table of buckets, which is   *)
(* made with the first element, freed with the last one and doubled when a *)
(* chain gets long, unless that does not help.  Memory may run out on any  *)
(* allocation.                                                             *)
(***************************************************************************)
EXTENDS Integers, Sequences, SequencesExt, FiniteSets

CONSTANTS
    Keys,
    Hash,          \* HASH_JEN(): a number for each key
    Initial,       \* HASH_INITIAL_NUM_BUCKETS, a power of two in the code
    Threshold,     \* HASH_BKT_CAPACITY_THRESH
    MaxMade        \* bound: elements ever inserted

ASSUME HashAssumption ==
    /\ Hash \in [Keys -> Nat] /\ Initial \in Nat \ {0}
    /\ Threshold \in Nat \ {0} /\ MaxMade \in Nat

Null == 0

VARIABLES
    els,       \* the elements allocated: key, prev, next
    head,      \* m->head
    tbl,       \* m->table, NoTable if there is none
    it,        \* the iterator: el and nx, and the element just returned
    made       \* number of elements made so far

vars == <<els, head, tbl, it, made>>

NoTable == [buckets |-> [i \in {} |-> <<>>], tail |-> Null, items |-> 0, nonideal |-> 0,
            ineff |-> 0, noexpand |-> FALSE]
NoIterator == [el |-> Null, nx |-> Null, met |-> Null]

Init ==
    /\ els = <<>> /\ head = Null /\ tbl = NoTable /\ it = NoIterator /\ made = 0

Bucket == [chain |-> <<>>, mult |-> 0]
EmptyBuckets(n) == [i \in 0..n-1 |-> Bucket]
NumBuckets(t) == Cardinality(DOMAIN t.buckets)

\* HASH_TO_BKT(): the number of buckets is a power of two.
ToBucket(k, n) == Hash[k] % n

\* HASH_FIND(): the first element of its chain with the key, or Null.
Find(k) ==
    IF head = Null THEN Null
    ELSE LET chain == tbl.buckets[ToBucket(k, NumBuckets(tbl))].chain
             i     == SelectInSeq(chain, LAMBDA e : els[e].key = k)
         IN  IF i = 0 THEN Null ELSE chain[i]

\* HASH_MAKE_TABLE()
MakeTable(e) == [NoTable EXCEPT !.buckets = EmptyBuckets(Initial), !.tail = e]

\* An element of an old bucket moved to the front of its new one, which is to be
\* expanded later if it is longer than it should be.
Rehash(acc, e) ==
    LET n == Cardinality(DOMAIN acc.buckets)
        b == acc.buckets[ToBucket(els'[e].key, n)]
        long == Len(b.chain) + 1 > acc.ideal
        c == [chain |-> <<e>> \o b.chain,
              mult  |-> IF long /\ Len(b.chain) + 1 > b.mult * acc.ideal
                        THEN b.mult + 1 ELSE b.mult]
    IN  [acc EXCEPT !.buckets[ToBucket(els'[e].key, n)] = c,
                    !.nonideal = IF long THEN @ + 1 ELSE @]

\* HASH_EXPAND_BUCKETS(): twice as many buckets, and whether that was of use.
\* The elements are moved one by one, a bucket after the other.
Expanded(t) ==
    LET n     == 2 * NumBuckets(t)
        all   == FlattenSeq([i \in 1..NumBuckets(t) |-> t.buckets[i - 1].chain])
        start == [buckets |-> EmptyBuckets(n), nonideal |-> 0,
                  ideal |-> t.items \div n + IF t.items % n # 0 THEN 1 ELSE 0]
        moved[i \in 0..Len(all)] == IF i = 0 THEN start ELSE Rehash(moved[i - 1], all[i])
        acc   == moved[Len(all)]
        ineff == IF acc.nonideal > t.items \div 2 THEN t.ineff + 1 ELSE 0
    IN  [t EXCEPT !.buckets = acc.buckets, !.nonideal = acc.nonideal, !.ineff = ineff,
                  !.noexpand = @ \/ ineff > 1]

\* HASH_ADD_TO_TABLE(), before the table is expanded, and whether it is.
Added(t, e) ==
    [t EXCEPT !.items = @ + 1,
              !.buckets[ToBucket(els'[e].key, NumBuckets(t))].chain = <<e>> \o @]
Expands(t, e) ==
    LET b == t.buckets[ToBucket(els'[e].key, NumBuckets(t))]
    IN  Len(b.chain) >= (b.mult + 1) * Threshold /\ ~t.noexpand

\* The element behind the last one: HASH_APPEND_LIST().
Linked(k, e) ==
    [f \in DOMAIN els \cup {e} |->
        IF f = e THEN [key |-> k, prev |-> tbl.tail, next |-> Null]
        ELSE [els[f] EXCEPT !.next = IF f = tbl.tail THEN e ELSE @]]

\* Callers look a key up before they insert it.  An element that was linked
\* stays so if the table cannot be expanded, although the caller gets NULL.
Insert(k) ==
    LET e == made + 1
        t == IF head = Null THEN MakeTable(e) ELSE [tbl EXCEPT !.tail = e]
    IN  /\ it = NoIterator /\ made < MaxMade /\ Find(k) = Null
        /\ made' = e /\ els' = Linked(k, e)
        /\ head' = IF head = Null THEN e ELSE head
        /\ tbl' \in IF Expands(Added(t, e), e) THEN {Added(t, e), Expanded(Added(t, e))}
                    ELSE {Added(t, e)}
        /\ UNCHANGED it

\* No memory for the element, or for the first table.
InsertNothing(k) ==
    /\ it = NoIterator /\ made < MaxMade /\ Find(k) = Null
    /\ made' = made + 1 /\ UNCHANGED <<els, head, tbl, it>>

\* HASH_DEL_IN_BKT()
Unchained(t, e) ==
    LET b == ToBucket(els[e].key, NumBuckets(t))
    IN  [t EXCEPT !.buckets[b].chain = RemoveFirst(@, e)]

\* HASH_DELETE(): the table goes with the last element.
Without(e) == [f \in DOMAIN els \ {e} |->
    [els[f] EXCEPT !.next = IF els[e].prev = f THEN els[e].next ELSE @,
                   !.prev = IF els[e].next = f THEN els[e].prev ELSE @]]

Delete(e) ==
    /\ els' = Without(e)
    /\ IF els[e].prev = Null /\ els[e].next = Null
       THEN head' = Null /\ tbl' = NoTable
       ELSE /\ head' = IF els[e].prev = Null THEN els[e].next ELSE head
            /\ tbl' = [Unchained(tbl, e) EXCEPT !.items = @ - 1,
                          !.tail = IF @ = e THEN els[e].prev ELSE @]

MapRemove(k) ==
    /\ it = NoIterator /\ Find(k) # Null
    /\ Delete(Find(k)) /\ UNCHANGED <<it, made>>

-----------------------------------------------------------------------------
\* map_iterate(): the next element is remembered before the caller gets to see
\* the current one.
Fresh == it.el = Null /\ it.nx = Null

IterateFirst ==
    /\ Fresh /\ head # Null
    /\ it' = [el |-> head, nx |-> els[head].next, met |-> head]
    /\ UNCHANGED <<els, head, tbl, made>>

\* Mutant: the successor is looked up when it is needed.
IterateNextLate ==
    /\ it # NoIterator
    /\ LET next == IF it.met \in DOMAIN els THEN els[it.met].next ELSE Null
       IN  it' = IF next = Null THEN NoIterator
                 ELSE [it EXCEPT !.nx = els[next].next, !.met = next]
    /\ UNCHANGED <<els, head, tbl, made>>

IterateNext ==
    /\ it # NoIterator
    /\ it' = IF it.nx = Null THEN NoIterator
             ELSE [it EXCEPT !.nx = els[it.nx].next, !.met = it.nx]
    /\ UNCHANGED <<els, head, tbl, made>>

\* MAP_REMOVE() of the element just met, as the includes do.
RemoveMet ==
    /\ it # NoIterator /\ it.met \in DOMAIN els /\ Find(els[it.met].key) # Null
    /\ Delete(Find(els[it.met].key)) /\ UNCHANGED <<it, made>>

\* map_free(): each element in turn, then the map.
Free ==
    /\ it = NoIterator /\ head # Null
    /\ els' = <<>> /\ head' = Null /\ tbl' = NoTable /\ UNCHANGED <<it, made>>

Next ==
    \/ IterateFirst \/ IterateNext \/ RemoveMet \/ Free
    \/ \E k \in Keys : Insert(k) \/ InsertNothing(k) \/ MapRemove(k)

Spec == Init /\ [][Next]_vars /\ WF_vars(IterateNext)

-----------------------------------------------------------------------------
\* The elements from e on, at most as many as there are.
From(e) ==
    LET n == Cardinality(DOMAIN els)
        first[j \in 0..n] == [f \in 0..made |->
            IF j = 0 \/ f \notin DOMAIN els THEN <<>> ELSE <<f>> \o first[j - 1][els[f].next]]
    IN  first[n][e]

KeysFrom(e) == [i \in DOMAIN From(e) |-> els[From(e)[i]].key]

\* Types of the links: elements that are still there, and a table if any is.
TypeOK ==
    /\ {head, tbl.tail, it.nx} \subseteq DOMAIN els \cup {Null}
    /\ \A e \in DOMAIN els : els[e].prev \in DOMAIN els \cup {Null}
                          /\ els[e].next \in DOMAIN els \cup {Null}
    /\ (head = Null) = (tbl = NoTable)

\* The list is doubly linked from m->head to tbl->tail, without a loop, and
\* holds every element.
ListExact ==
    /\ Len(From(head)) = Cardinality(DOMAIN els)
    /\ head # Null => Last(From(head)) = tbl.tail /\ els[head].prev = Null
    /\ \A i \in 1..Len(From(head))-1 : els[From(head)[i+1]].prev = From(head)[i]

\* List and table agree: each element is found by its key, through every
\* expansion, deletion and failed allocation, and nothing else is.
FindExact ==
    /\ \A e \in DOMAIN els : Find(els[e].key) = e
    /\ head # Null => tbl.items = Cardinality(DOMAIN els)
    /\ \A b \in DOMAIN tbl.buckets :
          Range(tbl.buckets[b].chain) \subseteq DOMAIN els

Dict == INSTANCE Dictionary WITH
            order <- KeysFrom(head), walking <- it # NoIterator, ahead <- KeysFrom(it.nx)

\* The map is a dictionary.
ImplementsDictionary == Dict!Spec

\* A walk ends.
WalkEnds == [](it # NoIterator => <>(it = NoIterator))
=============================================================================

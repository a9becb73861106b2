------------------------------ MODULE HashMap ------------------------------
(***************************************************************************)
(* The chained hash map of mid_hashmap.c, which dirty_map is: a table of   *)
(* listSize slots, the first entry of a chain in the slot itself, that is  *)
(* doubled when it is full and halved when it is less than half full.  The *)
(* strings the stored key pointers lead to are taken not to change while   *)
(* they are in the map (LogBuffer says when they do).                      *)
(***************************************************************************)
EXTENDS Integers, Sequences, FiniteSets, SequencesExt

CONSTANTS
  Keys, Values,
  NULL,              \* what get returns for a key that is not there
  Hash,              \* hash code of a key before it is reduced to a slot
  DEFAULT_MAP_SIZE,  \* the table is never resized to fewer slots
  ListSize           \* _listSize argument of createHashMap

ASSUME MapAssumption ==
  /\ Hash \in [Keys -> Nat]
  /\ NULL \notin Values
  /\ DEFAULT_MAP_SIZE \in Nat \ {0}
  /\ ListSize \in Nat \ {0}

VARIABLES
  hash_list,  \* per slot, its chain of entries: key, value
  listSize,   \* slots
  size        \* entries

vars == <<hash_list, listSize, size>>

Empty(n) == [i \in 0 .. n - 1 |-> << >>]

(* createHashMap *)
Init ==
  /\ hash_list = Empty(ListSize)
  /\ listSize = ListSize
  /\ size = 0

(* defaultHashCode: the slot of k in a table. *)
defaultHashCode(list, k) == Hash[k] % Cardinality(DOMAIN list)

Chain(list, k) == list[defaultHashCode(list, k)]

(* Position of k in its chain, by defaultEqual; 0 if it is not there. *)
Find(list, k) == SelectInSeq(Chain(list, k), LAMBDA e : e.key = k)

(* defaultExists, defaultGet *)
defaultExists(k) == Find(hash_list, k) # 0
defaultGet(k) == IF defaultExists(k) THEN Chain(hash_list, k)[Find(hash_list, k)].value ELSE NULL

(* Variant: a new entry takes the place of the first one of its chain. *)
AddedFirst(list, e) ==
  [list EXCEPT ![defaultHashCode(list, e.key)] =
     IF @ = << >> THEN <<e>> ELSE <<e>> \o Tail(@)]

(* defaultPut of a new key: into the slot, or behind its first entry. *)
Added(list, e) ==
  [list EXCEPT ![defaultHashCode(list, e.key)] =
     IF @ = << >> THEN <<e>> ELSE InsertAt(@, 2, e)]

(* The entries, slot by slot and each chain in order. *)
Entries(list) ==
  FlattenSeq([i \in 1 .. Cardinality(DOMAIN list) |-> list[i - 1]])

(* The entries e put one after the other into an empty table of n slots. *)
Reput(e, n) ==
  LET put[i \in 0 .. Len(e)] == IF i = 0 THEN Empty(n) ELSE Added(put[i - 1], e[i])
  IN put[Len(e)]

(* resetHashMap.  n exceeds the number of entries (LoadBounded), so that    *)
(* none of these puts resizes the table in turn.                            *)
resetHashMap(list, n) ==
  IF n < DEFAULT_MAP_SIZE THEN list ELSE Reput(Entries(list), n)

----------------------------------------------------------------------------
(* defaultPut of a key that is there only replaces the value. *)
PutPresent(k, v) ==
  /\ defaultExists(k)
  /\ hash_list' = [hash_list EXCEPT ![defaultHashCode(hash_list, k)] =
                     ReplaceAt(@, Find(hash_list, k), [key |-> k, value |-> v])]
  /\ UNCHANGED <<listSize, size>>

(* Variant: the number of slots is doubled, the table is not. *)
PutNewNoRealloc(k, v) ==
  /\ ~defaultExists(k)
  /\ hash_list' = Added(hash_list, [key |-> k, value |-> v])
  /\ size' = size + 1
  /\ listSize' = IF size + 1 >= listSize THEN 2 * listSize ELSE listSize

(* Variant: the table is doubled one entry too late. *)
PutNewLate(k, v) ==
  /\ ~defaultExists(k)
  /\ LET list == Added(hash_list, [key |-> k, value |-> v])
     IN hash_list' = IF size >= listSize THEN resetHashMap(list, 2 * listSize) ELSE list
  /\ size' = size + 1
  /\ listSize' = Cardinality(DOMAIN hash_list')

(* defaultPut of a new key, and the doubling it may cause. *)
PutNew(k, v) ==
  /\ ~defaultExists(k)
  /\ LET list == Added(hash_list, [key |-> k, value |-> v])
     IN hash_list' = IF size + 1 >= listSize THEN resetHashMap(list, 2 * listSize) ELSE list
  /\ size' = size + 1
  /\ listSize' = Cardinality(DOMAIN hash_list')

(* Variant: removing the first entry of a chain empties the slot's chain. *)
RemoveWholeChain(k) ==
  /\ defaultExists(k)
  /\ LET list == [hash_list EXCEPT ![defaultHashCode(hash_list, k)] =
                    IF Find(hash_list, k) = 1 THEN << >>
                    ELSE RemoveAt(@, Find(hash_list, k))]
     IN hash_list' = IF size - 1 < listSize \div 2
                     THEN resetHashMap(list, listSize \div 2) ELSE list
  /\ size' = size - 1
  /\ listSize' = Cardinality(DOMAIN hash_list')

(* defaultRemove, and the halving it may cause. *)
defaultRemove(k) ==
  /\ defaultExists(k)
  /\ LET list == [hash_list EXCEPT ![defaultHashCode(hash_list, k)] =
                    RemoveAt(@, Find(hash_list, k))]
     IN hash_list' = IF size - 1 < listSize \div 2
                     THEN resetHashMap(list, listSize \div 2) ELSE list
  /\ size' = size - 1
  /\ listSize' = Cardinality(DOMAIN hash_list')

Next ==
  \E k \in Keys : defaultRemove(k) \/ \E v \in Values : PutPresent(k, v) \/ PutNew(k, v)

Spec == Init /\ [][Next]_vars

----------------------------------------------------------------------------
(* The table has listSize slots, one at least (mid_hashmap.c:267-301). *)
TypeOK ==
  /\ listSize \in Nat \ {0}
  /\ size \in Nat
  /\ DOMAIN hash_list = 0 .. listSize - 1
  /\ \A i \in DOMAIN hash_list : Range(hash_list[i]) \subseteq [key : Keys, value : Values]

(***************************************************************************)
(* size is the number of entries, whatever was put, replaced, removed and  *)
(* resized: tempList in resetHashMap has room for every entry, and every   *)
(* entry is put back (mid_hashmap.c:273-318).                              *)
(***************************************************************************)
SizeExact == size = Len(Entries(hash_list))

(***************************************************************************)
(* "it is extended by itself when it overflows" (mid_hashmap.c:253): after *)
(* every put there are more slots than entries (mid_hashmap.c:128-138).    *)
(***************************************************************************)
LoadBounded == size < listSize

Contents == INSTANCE Map WITH map <- [k \in Keys |-> defaultGet(k)]

(***************************************************************************)
(* put, get, exists and remove are those of a map: no entry is lost or     *)
(* doubled by a collision, by the removal of its chain's first entry or by *)
(* a resize that hashes it into another slot (mid_hashmap.c:93-323).       *)
(***************************************************************************)
ImplementsMap == Contents!Spec

=============================================================================

------------------------------- MODULE Cache -------------------------------
(***************************************************************************)
(* Answers this browser keeps (lib/cache.ts): what the last result poll    *)
(* said of a batch and the rows of finished tables, within a budget of     *)
(* characters and a quota shared with everything else the origin stores.   *)
(* localStorage may refuse a write; removing never fails.                  *)
(***************************************************************************)
EXTENDS Naturals, Sequences, FiniteSets, Orders

CONSTANTS
    Entries,          \* the keys of the cache
    BatchOf,          \* [Entries -> the batch an entry is about]
    Sizes,            \* the lengths an answer may have
    MAX_CHARS, MAX_TOTAL_CHARS,
    QUOTA,            \* what the origin may store in all
    ENTRY             \* what one line of quarry.cache.order takes of it

ASSUME CacheAssumption ==
    /\ IsFiniteSet(Entries) /\ Sizes \subseteq Nat \ {0}
    /\ MAX_CHARS \in Nat /\ MAX_TOTAL_CHARS \in Nat /\ QUOTA \in Nat /\ ENTRY \in Nat

VARIABLES
    held,         \* [Entries -> the length stored, 0 for none]
    order,        \* quarry.cache.order: [key, chars], oldest first
    others,       \* what the other writers of this origin hold
    listRefused   \* a write of the order was refused (history)

cacheVars == <<held, order, others, listRefused>>

Total(lengths) ==
    LET sum[n \in 0..Len(lengths)] == IF n = 0 THEN 0 ELSE sum[n - 1] + lengths[n]
    IN sum[Len(lengths)]
CharsOf(entries) == [i \in DOMAIN entries |-> entries[i].chars]
HeldTotal(store) ==
    LET sum[S \in SUBSET Entries] ==
            IF S = {} THEN 0 ELSE LET k == CHOOSE k \in S : TRUE IN store[k] + sum[S \ {k}]
    IN sum[Entries]
Fits(store, list) == HeldTotal(store) + others + Len(list) * ENTRY <= QUOTA

CacheInit ==
    /\ held = [k \in Entries |-> 0]
    /\ order = <<>>
    /\ others = 0
    /\ listRefused = FALSE

WithoutKey(list, k) == AtPlaces(list, {i \in DOMAIN list : list[i].key # k})

\* Mutation: the entry is added beside the one its key has.
KeptBeside(k, n) == Append(order, [key |-> k, chars |-> n])

(* The entry just written is the newest, and listed once.                  *)
Kept(k, n) == Append(WithoutKey(order, k), [key |-> k, chars |-> n])

(* The oldest go until what is held fits, but never the one just written.  *)
Evicted(kept) == CHOOSE d \in 0..(Len(kept) - 1) :
    LET Enough(e) == e = Len(kept) - 1
                     \/ Total(CharsOf(SubSeq(kept, e + 1, Len(kept)))) <= MAX_TOTAL_CHARS
    IN Enough(d) /\ \A e \in 0..(d - 1) : ~Enough(e)

(* setItem of the entry; then removals; then setItem of the list, which may*)
(* be refused although the entry was not.                                  *)
Write(k, n) ==
    /\ n <= MAX_CHARS
    /\ Fits([held EXCEPT ![k] = n], order)
    /\ LET kept == Kept(k, n)
           d == Evicted(kept)
           gone == {kept[i].key : i \in 1..d}
           list == SubSeq(kept, d + 1, Len(kept))
           store == [e \in Entries |-> IF e \in gone THEN 0 ELSE IF e = k THEN n ELSE held[e]]
       IN /\ held' = store
          /\ IF Fits(store, list) THEN order' = list /\ UNCHANGED listRefused
             ELSE UNCHANGED order /\ listRefused' = TRUE
    /\ UNCHANGED others

(* An entry of a build that shaped it differently is dropped when read.    *)
Forget(k) ==
    /\ held[k] > 0
    /\ held' = [held EXCEPT ![k] = 0]
    /\ order' = WithoutKey(order, k)
    /\ UNCHANGED <<others, listRefused>>

(* A discarded batch, or one whose tables were combined: what is listed.   *)
ForgetCached(b) ==
    LET listed == {order[i].key : i \in DOMAIN order} \cap {k \in Entries : BatchOf[k] = b} IN
    /\ listed # {}
    /\ held' = [k \in Entries |-> IF k \in listed THEN 0 ELSE held[k]]
    /\ order' = AtPlaces(order, {i \in DOMAIN order : BatchOf[order[i].key] # b})
    /\ UNCHANGED <<others, listRefused>>

(* The workspace list, the allowance meter, the maps of files.             *)
OthersWrite == \E n \in 0..QUOTA :
    /\ n # others
    /\ HeldTotal(held) + n + Len(order) * ENTRY <= QUOTA
    /\ others' = n
    /\ UNCHANGED <<held, order, listRefused>>

CacheNext ==
    \/ \E k \in Entries : Forget(k) \/ \E n \in Sizes : Write(k, n)
    \/ \E b \in {BatchOf[k] : k \in Entries} : ForgetCached(b)
    \/ OthersWrite

CacheSpec == CacheInit /\ [][CacheNext]_cacheVars

(***************************************************************************)
(* Properties                                                              *)
(***************************************************************************)
(* What is held is what is listed, each entry once and with its length, and*)
(* it keeps to the budget or is one entry alone: nothing is stored that the*)
(* eviction cannot find again.  Only a refused write of the list (the quota*)
(* used up to the last characters) may part the two.                       *)
HeldIsListed ==
    ~listRefused =>
        /\ \A i, j \in DOMAIN order : order[i].key = order[j].key => i = j
        /\ \A k \in Entries : held[k] > 0 => \E i \in DOMAIN order : order[i] = [key |-> k, chars |-> held[k]]
        /\ \A i \in DOMAIN order : held[order[i].key] = order[i].chars
        /\ HeldTotal(held) <= MAX_TOTAL_CHARS \/ Len(order) = 1
=============================================================================

----------------------------- MODULE CuckooTable -----------------------------
(***************************************************************************)
(* The hash table that stores the session of each connection.  A key has    *)
(* one slot in each of NUM_TABLES tables; an insertion that finds all of    *)
(* them occupied evicts an entry and tries to place that one, at most       *)
(* MAX_TRIALS times.                                                        *)
(***************************************************************************)
EXTENDS Integers, FiniteSets

CONSTANTS
    Key,            \* connection tuples
    HashValue,      \* HashValue[k][i]: the address of key k in table i
    NUM_TABLES, TABLE_SIZE, MAX_TRIALS

Table == 0..NUM_TABLES-1

Address == 0..TABLE_SIZE-1

ASSUME CuckooInstance ==
    /\ {NUM_TABLES, TABLE_SIZE, MAX_TRIALS} \subseteq Nat \ {0} /\ NUM_TABLES > 1
    /\ HashValue \in [Key -> [Table -> Address]]

(* A slot holds the set of its valid entry: {} or one entry.               *)
htEntry(V) == [key : Key, value : V]

EmptyTables == [i \in Table |-> [a \in Address |-> {}]]

calculate_hashes(k) == HashValue[k]

(* The last table whose slot satisfies the condition, or -1.              *)
LastSlot(P) == IF P = {} THEN -1 ELSE CHOOSE i \in P : \A j \in P : j <= i

(* The answer to a lookup: the set of the value found.                     *)
lookup(tables, k) ==
    LET h == calculate_hashes(k)
        slot == LastSlot({i \in Table : \E e \in tables[i][h[i]] : e.key = k})
    IN IF slot = -1 THEN {} ELSE {e.value : e \in tables[slot][h[slot]]}

MutantEvictedDropped(s) == [s EXCEPT !.success = TRUE]

(* The entry in hand is to be placed in the next trial.                    *)
Evicted(s) == s

(* One trial: the entry takes the last free slot of its key, or the slot   *)
(* of a victim that is to be placed next.                                  *)
Trial(s) ==
    LET h == calculate_hashes(s.entry.key)
        slot == LastSlot({i \in Table : s.tables[i][h[i]] = {}})
        victimPos == (h[s.victimIdx] % (NUM_TABLES - 1)) + s.victimBit
    IN IF slot # -1
       THEN [s EXCEPT !.tables[slot][h[slot]] = {s.entry}, !.victimBit = 1 - @, !.success = TRUE]
       ELSE Evicted([s EXCEPT !.tables[victimPos][h[victimPos]] = {s.entry},
                              !.entry = CHOOSE e \in s.tables[victimPos][h[victimPos]] : TRUE,
                              !.victimIdx = (@ + 1) % NUM_TABLES,
                              !.victimBit = 1 - @])

(* All trials of an insertion; when none succeeds, the entry left in hand  *)
(* is in no table.                                                        *)
insert(tables, victimBit, k, v) ==
    LET start == [tables |-> tables, entry |-> [key |-> k, value |-> v],
                  victimIdx |-> 0, victimBit |-> victimBit, success |-> FALSE]
        after[j \in 0..MAX_TRIALS] ==
            IF j = 0 THEN start
            ELSE IF after[j-1].success THEN after[j-1] ELSE Trial(after[j-1])
    IN after[MAX_TRIALS]

(* Every matching entry of the key is invalidated.                        *)
remove(tables, k) ==
    [i \in Table |-> [a \in Address |->
        IF a = calculate_hashes(k)[i] THEN {e \in tables[i][a] : e.key # k} ELSE tables[i][a]]]

(* The values stored under a key in any of its slots.                     *)
Stored(tables, k) ==
    {e.value : e \in {e \in UNION {tables[i][a] : i \in Table, a \in Address} : e.key = k}}
=============================================================================

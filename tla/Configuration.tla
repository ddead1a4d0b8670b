----------------------------- MODULE Configuration -----------------------------
(***************************************************************************)
(* The configuration (CommonLibs/Configuration, ConfigurationTable): the   *)
(* table CONFIG on disk, which other processes write, too, the schema with *)
(* its default values, and the cache of the values looked up, which a      *)
(* lookup throws away when it is three seconds old.  One of its users, the *)
(* node manager (NodeManager::config), updates a key in several calls and  *)
(* keeps the keys that take effect at the next start only ("dirty").       *)
(***************************************************************************)
EXTENDS Naturals, FiniteSets

CONSTANTS
    Keys,         \* the keys that are looked up
    Schema,       \* the keys that the schema defines
    Static,       \* those whose changes take effect at the next start
    Values,       \* the values
    Valid,        \* those isValidValue accepts
    Default,      \* Default[k]: the default of a key of the schema
    NoRecord,     \* nothing stored for a key
    Undefined,    \* the record of a key that was not found
    Period        \* seconds the cache is kept, 3

ASSUME ConfigurationAssumption ==
    /\ Static \subseteq Schema
    /\ Schema \subseteq Keys
    /\ Valid \subseteq Values
    /\ Default \in [Schema -> Values]
    /\ NoRecord \notin Values \cup {Undefined}
    /\ Undefined \notin Values
    /\ Period \in Nat \ {0}

VARIABLES
    table,    \* the rows of CONFIG
    cache,    \* mCache
    age,      \* seconds since timeOfLastPurge, up to Period
    late,     \* history: seconds since a record of the cache ceased to be right, up to Period
    update,   \* the update that the node manager handles
    dirty,    \* mDirtyConfigurationKeys: the values these keys had
    atStart,  \* history: the values at the start, those in effect
    overtaken,  \* history: keys that another process wrote since their record was made, or
                \* whose record was made when their row could not be read
    others,     \* history: keys that anybody but the node manager wrote
    misled      \* history: keys that became dirty with a value that was not in effect

confVars == <<table, cache, age, late, update, dirty, atStart, overtaken, others, misled>>
manager == <<update, dirty, atStart, misled>>

NoUpdate == [at |-> "idle"]

\* What a lookup finds that cannot read the row, and one that can.
Fallback(k) == IF k \in Schema THEN Default[k] ELSE Undefined
Effective(k) == IF table[k] # NoRecord THEN table[k] ELSE Fallback(k)

ConfInit ==
    /\ table \in [Keys -> Values \cup {NoRecord}]
    /\ cache = [k \in Keys |-> NoRecord]
    /\ age = Period
    /\ late = [k \in Keys |-> 0]
    /\ update = NoUpdate
    /\ dirty = [k \in {} |-> NoRecord]
    /\ atStart = [k \in Keys |-> Effective(k)]
    /\ overtaken = {} /\ others = {} /\ misled = {}

--------------------------------------------------------------------------------
(* The table *)

\* A faulty checkCacheAge, that starts a new period without a purge.
KeepsCache == cache

\* checkCacheAge: the cache that a lookup consults.
Purged == IF age >= Period THEN [k \in Keys |-> NoRecord] ELSE cache

\* lookup: the record, and the one the cache has then.
Lookup(k, found) ==
    LET record == IF Purged[k] = NoRecord THEN found ELSE Purged[k]
        kept == IF age >= Period THEN {} ELSE overtaken
    IN  /\ cache' = [Purged EXCEPT ![k] = record]
        /\ age' = IF age >= Period THEN 0 ELSE age
        /\ late' = [l \in Keys |-> IF cache'[l] = NoRecord \/ Purged[l] = NoRecord
                                   THEN 0 ELSE late[l]]
        /\ overtaken' = CASE Purged[k] # NoRecord -> kept
                           [] Purged[k] = NoRecord /\ found = Effective(k) -> kept \ {k}
                           [] OTHER -> kept \cup {k}
        /\ UNCHANGED <<table, others>>

\* getStr, getNum, getBool, getFloat, getVector: they throw if the record is Undefined.
\* The statement may fail.
Get(k) ==
    /\ \/ Lookup(k, Effective(k))
       \/ Lookup(k, Fallback(k))
    /\ UNCHANGED manager

\* A faulty set, that leaves the cache alone.
StoreInTableOnly(k, v) ==
    /\ table' = [table EXCEPT ![k] = v]
    /\ late' = [late EXCEPT ![k] = 0]
    /\ overtaken' = overtaken \ {k}
    /\ UNCHANGED <<cache, age>>

\* set, when the statement succeeds.
Store(k, v) ==
    /\ table' = [table EXCEPT ![k] = v]
    /\ cache' = [cache EXCEPT ![k] = v]
    /\ late' = [late EXCEPT ![k] = 0]
    /\ overtaken' = overtaken \ {k}
    /\ UNCHANGED age

\* A caller in this process; a set that fails changes nothing.
Set(k, v) ==
    /\ Store(k, v)
    /\ others' = others \cup {k}
    /\ UNCHANGED manager

\* remove: the record goes in any case.
Remove(k) ==
    /\ cache' = [cache EXCEPT ![k] = NoRecord]
    /\ late' = [late EXCEPT ![k] = 0]
    /\ \/ table' = [table EXCEPT ![k] = NoRecord]
       \/ UNCHANGED table
    /\ overtaken' = overtaken \ {k}
    /\ others' = others \cup {k}
    /\ UNCHANGED <<age, manager>>

\* purge
Purge ==
    /\ cache' = [k \in Keys |-> NoRecord]
    /\ late' = [k \in Keys |-> 0]
    /\ overtaken' = {}
    /\ UNCHANGED <<table, age, others, manager>>

--------------------------------------------------------------------------------
(* Other processes, and time *)

Foreign(k, v) ==
    /\ table' = [table EXCEPT ![k] = v]
    /\ overtaken' = overtaken \cup {k}
    /\ others' = others \cup {k}
    /\ UNCHANGED <<cache, age, late, manager>>

\* One second passes.
Up(n) == IF n < Period THEN n + 1 ELSE n
Tick ==
    /\ age' = Up(age)
    /\ late' = [k \in Keys |-> IF cache[k] \notin {NoRecord, Effective(k)} THEN Up(late[k]) ELSE 0]
    /\ <<age, late>>' # <<age, late>>
    /\ UNCHANGED <<table, cache, overtaken, others, manager>>

--------------------------------------------------------------------------------
(* NodeManager::config, "update": 404, 406, the old value, 304, 500, or 204 *)

Update(k, v) ==
    /\ update = NoUpdate
    /\ k \in Schema
    /\ v \in Valid
    /\ update' = [at |-> "read", key |-> k, new |-> v]
    /\ UNCHANGED <<table, cache, age, late, dirty, atStart, overtaken, others, misled>>

\* The old value; 304 if it is the new one.
ReadOld ==
    /\ update.at = "read"
    /\ LET k == update.key
       IN  /\ \/ Lookup(k, Effective(k))
              \/ Lookup(k, Fallback(k))
           /\ update' = IF cache'[k] = update.new THEN NoUpdate
                        ELSE [at |-> "set", key |-> k, new |-> update.new, old |-> cache'[k]]
           /\ misled' = IF k \in DOMAIN dirty \/ cache'[k] \in {update.new, Effective(k)}
                        THEN misled ELSE misled \cup {k}
    /\ UNCHANGED <<dirty, atStart>>

\* 500 if it fails.
SetNew ==
    /\ update.at = "set"
    /\ \/ /\ Store(update.key, update.new)
          /\ update' = IF update.key \in Static THEN [update EXCEPT !.at = "changed"] ELSE NoUpdate
       \/ /\ update' = NoUpdate
          /\ UNCHANGED <<table, cache, age, late, overtaken>>
    /\ UNCHANGED <<dirty, atStart, others, misled>>

\* A faulty addDirtyConfigurationKey, that keeps the value before this change.
KeepLast(k, old, new) == [l \in DOMAIN dirty \cup {k} |-> IF l = k THEN old ELSE dirty[l]]

\* addDirtyConfigurationKey
WithKey(k, old, new) ==
    IF k \notin DOMAIN dirty
    THEN [l \in DOMAIN dirty \cup {k} |-> IF l = k THEN old ELSE dirty[l]]
    ELSE [l \in DOMAIN dirty \ {l \in {k} : dirty[l] = new} |-> dirty[l]]

AddDirty ==
    /\ update.at = "changed"
    /\ dirty' = WithKey(update.key, update.old, update.new)
    /\ update' = NoUpdate
    /\ UNCHANGED <<table, cache, age, late, atStart, overtaken, others, misled>>

--------------------------------------------------------------------------------

ConfNext ==
    \/ Tick \/ Purge \/ ReadOld \/ SetNew \/ AddDirty
    \/ \E k \in Keys : Get(k) \/ Remove(k) \/ Foreign(k, NoRecord)
    \/ \E k \in Keys, v \in Values : Set(k, v) \/ Foreign(k, v) \/ Update(k, v)

ConfSpec == ConfInit /\ [][ConfNext]_confVars

--------------------------------------------------------------------------------
(* Properties *)

\* No record has been wrong for longer than the cache is old, and so no lookup returns a
\* value that was wrong for the whole period ("purge every 3 seconds").
StaleIsYoung == \A k \in Keys : late[k] <= age

\* What the cache tells of a key is what the table says, after every get, set, remove and
\* update of this process, those that fail included (lookup, set, remove); but while the record
\* is one that another process has overtaken since it was made, or that was made when the
\* row could not be read, which lookup takes for a row that is not there. The next record of
\* the key is judged again.
CacheAgrees == \A k \in Keys \ overtaken : cache[k] \in {NoRecord, Effective(k)}

\* A key is reported dirty if, and only if, it does not have the value that is in effect,
\* and with this value; between two updates (NodeManager::config, addDirtyConfigurationKey),
\* of which any statement may fail. But for keys that anybody else wrote, and for those whose
\* row could not be read, in the update that made them dirty or in the lookup before that its
\* record is from: lookup gives the default for the old value then.
DirtyTells ==
    update = NoUpdate =>
        \A k \in Static \ (others \cup misled) :
            /\ k \in DOMAIN dirty <=> Effective(k) # atStart[k]
            /\ k \in DOMAIN dirty => dirty[k] = atStart[k]

================================================================================

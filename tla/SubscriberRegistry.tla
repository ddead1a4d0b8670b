-------------------------- MODULE SubscriberRegistry --------------------------
(***************************************************************************)
(* The subscriber registry (SR/SubscriberRegistry): the table sip_buddies  *)
(* on disk, which other processes change, too, and the table               *)
(* mem_sip_buddies in memory, in which imsiSet writes and which            *)
(* syncMemoryDB brings together with the disk, one SQL statement after the *)
(* other.  A statement is atomic, and may be refused (SQLITE_BUSY, and one *)
(* attempt); the statements of a sync share mLock, but no transaction.     *)
(***************************************************************************)
EXTENDS Naturals, Sequences, FiniteSets

CONSTANTS
    Users,     \* the user names (IMSIs) of the subscribers
    Addresses, \* values of the column ipaddr
    Local,     \* the address of a subscriber who is not registered, 127.0.0.1
    Absent,    \* no row
    MaxRows    \* bound: rows of sip_buddies

ASSUME RegistryAssumption ==
    /\ Local \in Addresses
    /\ MaxRows \in Nat

VARIABLES
    disk,     \* sip_buddies, in the order of its ids
    mem,      \* mem_sip_buddies, by its primary key
    status,   \* "down", "unpopulated" (init failed), "up"
    sync,     \* the statement at which syncMemoryDB is
    unsaved   \* history: subscribers whose address was set and is not on disk

regVars == <<disk, mem, status, sync, unsaved>>

Rows == [username : Users, ipaddr : Addresses]
Locked == {"toDisk", "clean", "add", "prune"}

RegInit ==
    /\ disk = << >>
    /\ mem = [u \in Users |-> Absent]
    /\ status = "down"
    /\ sync = "out"
    /\ unsaved = {}

OnDisk == {disk[i].username : i \in DOMAIN disk}
InMemory == {u \in Users : mem[u] # Absent}
\* The first of the rows of a subscriber, which a lookup takes.
FirstOf(rows, u) ==
    CHOOSE i \in DOMAIN rows : rows[i].username = u /\ \A j \in 1..(i - 1) : rows[j].username # u
\* imsiGet and the other lookups: on disk.
ImsiGet(u) == IF u \in OnDisk THEN disk[FirstOf(disk, u)].ipaddr ELSE Absent

\* The rows of `missing` can be inserted into a table whose primary key is the user name.
NoneTwice(missing) ==
    \A i, j \in DOMAIN disk :
        disk[i].username \in missing /\ disk[i].username = disk[j].username => i = j

\* They are inserted, as clean rows.
Loaded(missing) ==
    [u \in Users |-> IF u \in missing THEN [ipaddr |-> ImsiGet(u), dirty |-> FALSE] ELSE mem[u]]

--------------------------------------------------------------------------------
(* The process *)

\* init(): without the copy in memory there is no column "dirty" either.
Open ==
    /\ status = "down"
    /\ IF NoneTwice(OnDisk)
       THEN mem' = Loaded(OnDisk) /\ status' = "up"
       ELSE status' = "unpopulated" /\ UNCHANGED mem
    /\ UNCHANGED <<disk, sync, unsaved>>

Exit ==
    /\ status # "down"
    /\ status' = "down"
    /\ mem' = [u \in Users |-> Absent]
    /\ sync' = "out"
    /\ unsaved' = {}
    /\ UNCHANGED disk

\* imsiSet: an UPDATE that finds no row succeeds, too.
ImsiSet(u, a) ==
    /\ status = "up"
    /\ sync \notin Locked
    /\ mem' = IF u \in InMemory THEN [mem EXCEPT ![u] = [ipaddr |-> a, dirty |-> TRUE]] ELSE mem
    /\ unsaved' = unsaved \cup ({u} \cap OnDisk)
    /\ UNCHANGED <<disk, status, sync>>

\* A REGISTER from address a, processBuffer: 404 if imsiGet does not find the subscriber; 401
\* if he has to authenticate, and has not; otherwise 200, and he is registered.  The first
\* two change nothing.
ProcessRegister(u, a) ==
    /\ ImsiGet(u) # Absent
    /\ ImsiSet(u, a)

--------------------------------------------------------------------------------
(* The requests for subscribers: addUser, and create and delete of JSONDB.  Their *)
(* other statement, about the number in dialdata_table, no sync looks at.         *)

AddUser(u) ==
    /\ status # "down"
    /\ Len(disk) < MaxRows
    /\ disk' = Append(disk, [username |-> u, ipaddr |-> Local])
    /\ UNCHANGED <<mem, status, sync, unsaved>>

\* All rows of the user; the others stay in their order.
DeleteUser(u) ==
    /\ status # "down"
    /\ LET others == {i \in DOMAIN disk : disk[i].username # u}
       IN  \E row \in [1..Cardinality(others) -> others] :
              /\ \A k, l \in DOMAIN row : k < l => row[k] < row[l]
              /\ disk' = [k \in DOMAIN row |-> disk[row[k]]]
    /\ unsaved' = unsaved \ {u}
    /\ UNCHANGED <<mem, status, sync>>

--------------------------------------------------------------------------------
(* syncMemoryDB *)

\* generateSyncToDiskQuery, before the lock: empty if there is no row, or if the query
\* for one was refused.
Generate ==
    /\ status # "down"
    /\ sync = "out"
    /\ sync' = IF disk # << >> THEN "toDisk" ELSE "prune"
    /\ UNCHANGED <<disk, mem, status, unsaved>>

GenerateFails ==
    /\ status # "down"
    /\ sync = "out"
    /\ sync' = "prune"
    /\ UNCHANGED <<disk, mem, status, unsaved>>

Dirty == {u \in InMemory : mem[u].dirty}
\* The row, with the other columns it has on disk, and its id.
ToDisk ==
    /\ sync = "toDisk"
    /\ status = "up"
    /\ disk' = [i \in DOMAIN disk |->
                  LET row == disk[i]
                  IN  IF row.username \in Dirty THEN [row EXCEPT !.ipaddr = mem[row.username].ipaddr]
                                                ELSE row]
    /\ unsaved' = unsaved \ (Dirty \cap OnDisk)
    /\ sync' = "clean"
    /\ UNCHANGED <<mem, status>>

\* A faulty sync, that takes the rows for clean though they could not be saved.
CleansAnyway ==
    /\ sync = "toDisk"
    /\ sync' = "clean"
    /\ UNCHANGED <<disk, mem, status, unsaved>>

ToDiskFails ==
    /\ sync = "toDisk"
    /\ sync' = "add"
    /\ UNCHANGED <<disk, mem, status, unsaved>>

Clean ==
    /\ sync = "clean"
    /\ \/ mem' = [u \in Users |-> IF mem[u] = Absent THEN Absent ELSE [mem[u] EXCEPT !.dirty = FALSE]]
       \/ UNCHANGED mem
    /\ sync' = "add"
    /\ UNCHANGED <<disk, status, unsaved>>

Missing == OnDisk \ InMemory

\* A faulty insert, of the rows that were not saved.
AddNothing ==
    /\ sync = "add"
    /\ sync' = "prune"
    /\ UNCHANGED <<disk, mem, status, unsaved>>

Add ==
    /\ sync = "add"
    /\ status = "up"
    /\ NoneTwice(Missing)
    /\ mem' = Loaded(Missing)
    /\ sync' = "prune"
    /\ UNCHANGED <<disk, status, unsaved>>

AddFails ==
    /\ sync = "add"
    /\ sync' = "prune"
    /\ UNCHANGED <<disk, mem, status, unsaved>>

\* A faulty delete, that spares the rows that were not saved.
PruneClean ==
    /\ sync = "prune"
    /\ mem' = [u \in Users |-> IF u \in OnDisk \cup Dirty THEN mem[u] ELSE Absent]
    /\ unsaved' = unsaved \cap OnDisk
    /\ sync' = "out"
    /\ UNCHANGED <<disk, status>>

Prune ==
    /\ sync = "prune"
    /\ mem' = [u \in Users |-> IF u \in OnDisk THEN mem[u] ELSE Absent]
    /\ unsaved' = unsaved \cap OnDisk
    /\ sync' = "out"
    /\ UNCHANGED <<disk, status>>

PruneFails ==
    /\ sync = "prune"
    /\ sync' = "out"
    /\ UNCHANGED <<disk, mem, status, unsaved>>

SyncSteps ==
    \/ Generate \/ GenerateFails \/ ToDisk \/ ToDiskFails \/ Clean \/ Add \/ AddFails
    \/ Prune \/ PruneFails

RegNext ==
    \/ Open \/ Exit \/ SyncSteps
    \/ \E u \in Users : AddUser(u) \/ DeleteUser(u) \/ \E a \in Addresses : ProcessRegister(u, a)

\* The sync goes on, and no statement of it is refused for ever.
RegFairness ==
    /\ WF_regVars(SyncSteps)
    /\ SF_regVars(Generate)
    /\ SF_regVars(ToDisk)
    /\ SF_regVars(Add)
    /\ SF_regVars(Prune)

RegSpec == RegInit /\ [][RegNext]_regVars /\ RegFairness

--------------------------------------------------------------------------------
(* Properties *)

\* Where the others will find a subscriber when the sync is through: at the address that is
\* yet to be saved, or else at that of his first row.
Found(u) ==
    IF u \notin OnDisk THEN Absent
    ELSE IF u \in Dirty THEN mem[u].ipaddr ELSE ImsiGet(u)

\* Whatever statements of a sync are refused, none of them changes or forgets the address of a
\* subscriber ("Periodically triggers syncMemoryDB()"); but of one who was deleted and added
\* anew after his address was saved and before he is marked clean: he is then found at Local.
SyncKeepsAddresses ==
    [][SyncSteps => \A u \in Users :
           Found(u)' = Found(u) \/ (sync = "clean" /\ Found(u)' = Local)]_regVars

\* Who is told 200 is registered ("And register it.", "success, registering for IP address"):
\* his address reaches the disk, where the others look for it.
RegisteredReachesDisk == \A u \in Users : u \in unsaved ~> u \notin unsaved

\* A sync brings memory and disk together in the end, whatever statement is refused now and
\* then ("Periodically triggers syncMemoryDB()"): what was set in memory reaches the disk; a
\* new subscriber gets into memory, where he can be registered, if no subscriber who is to be
\* loaded with him is there twice; and a subscriber who was deleted leaves the memory, were
\* he the last one.
Loadable(u) == status = "up" /\ u \in Missing /\ NoneTwice(Missing)
SyncCatchesUp ==
    \A u \in Users :
        /\ u \in unsaved \cap Dirty ~> u \notin unsaved
        /\ Loadable(u) ~> ~Loadable(u)
        /\ u \in InMemory \ OnDisk ~> u \notin InMemory \ OnDisk

================================================================================

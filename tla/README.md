# A verification of smqueue and the programs beside it

smqueue takes short messages (SIP `MESSAGE` requests) from the base stations of
a GSM network, looks up who sent them and where they go, delivers them, and
retries, redirects or bounces them according to the answers. The repository also
holds the registry of the subscribers (`src/SR`), the codec of short messages
(`src/SMS`, `src/GSM`), and libraries shared with OpenBTS (`src/CommonLibs`,
`src/NodeManager`). This directory holds TLA+ modules of them, TLC
configurations that model-check small instances, and theorems that TLAPS checks
for every value of the constants.

Paths below are relative to `src/smqueue/` unless they begin with `src/`.

## 1. Inventory

| component | state | operations | hard behaviour | correct when |
|---|---|---|---|---|
| message queue `SmqManager` (smqmanager.*) | `time_sorted_list`, `sortedListMutex`, `spacingTimer`, `m_stop_main_loop` | `insert_new_message`, `process_timeout`, `handle_response`, `handle_short_code`, `originate_sm`, `bounce_message`, `register_handset`, `lookup_*`, `set_state` | timeouts race answers; answers are lost, late, duplicated, reordered; handlers splice the list while they walk it | no message lost or linked twice; bounded sends; a 2xx removes the message it answers and no other; a bounce is not bounced; copies are spaced; every message leaves |
| queued message `ShortMsgPending` (shortmsgpending.*) | state, `next_action_time`, `retries`, `qtag`, `linktag`, Call-ID | `set_state`, `set_qtag`, `validate_short_msg` | a tag must survive what the handlers change | an answer finds its message; what was valid stays valid |
| parsed message `ShortMsg` (shortmsg.*) | SIP text, its tree, `parsed_is_valid`, `parsed_is_better`, the TPDU | `parse`, `unparse`, `make_text_valid`, `convert_message`, copy | two forms of one datum | the newer form is used |
| delivery packing (smsc.*) | `need_repack` | `pack_sms_for_delivery`, `get_text` | packing fails half-way; the message is routed again to a peer of another kind | the peer gets the text in the form it takes |
| pipeline: `SmqReader`, `SmqAcker`, `SmqWriter`, `SmqThread`, `SmqThreadSafeQueue` | a socket and a queue of raw messages, a queue of validated ones, `m_stop_thread` | `push`, `front`, `pop`, `count`; `run`, `stop` | threads, polling without the lock, shutdown | nothing lost or taken twice; `stop` ends the threads |
| network `SMnet` (smnet.*, poll.c) | `sockets`, `numsockets` | `listen_on_port`, `get_next_dgram`, `deliver_msg_datagram` | several sockets and addresses; each send may fail | a message goes out once or is reported; every socket is read |
| queue file (`save_queue_to_file`, `read_queue_from_file`) | the save file | save, restore | crash between two writes, restart | what is saved is restored |
| short codes (smcommands.cpp, shortcodeparams.*) | `short_code_map` | functions that answer with a `short_code_action` | the queue acts on the answer later | see the queue |
| registry `src/SR` | `sip_buddies` on disk, `mem_sip_buddies`, the dirty column | `addUser`, `imsiSet`, `imsiGet`, `syncMemoryDB`, `processBuffer` | two copies, brought together by statements that fail one by one | what was set gets to disk; memory follows the disk |
| codec `src/SMS`, `src/GSM` | a frame of bits | parse and write of SUBMIT, DELIVER, RP-DATA, addresses, user data | septets against octets, lengths, headers | what the sender wrote is read |
| configuration (`src/CommonLibs/Configuration.*`, `src/NodeManager`) | the table, `mCache`, `mDirtyConfigurationKeys` | `lookup`, `set`, `remove`, `purge`, `isValidValue`; read and update of the node manager | another process writes the table; statements fail | the cache is young; dirty keys are told |
| containers and locks (`src/CommonLibs/Interthread.h`, Threads.*) | list or map, mutex, signals | `read`, `write`, `wait`, `get`, `ScopedLockMultiple` | lost and spurious wakeups, timeouts, lock order | no lost signal, no circular wait |
| vectors (`src/CommonLibs/Vector.h`, BitVector.*) | block, start, end | copies, aliases, segments; fields, packing, parity | who frees the block | one owner; what is written is read |
| program (smqueue.cpp), SmqMessageHandler.*, QueuedMsgHdrs.* | options, POSIX queues | not called, or start-up only | | |

Interaction. The reader thread receives datagrams into its queue, the acker
thread validates them into its own, and the driver of the queue moves each
into `time_sorted_list` with `insert_new_message`, or calls `process_timeout`
when nothing comes in for a while. All handlers run under `sortedListMutex`,
which is recursive (smqmanager.cpp:27-32), so nested calls
(`handle_response` -> `bounce_message` -> `originate_sm` ->
`insert_new_message`) are one critical section. The queue asks the registry
(through `hlr`) for numbers and addresses; sipauthserve registers the handsets
in the same tables; the node manager writes the configuration that all of
them read.

State of the code. At this commit the queue and its handlers are compiled, but
their driver is not: `main_loop` is a stub (smqmanager.cpp:1649-1652) whose
former body is kept in a comment (1654-1757), `run` (20-177) does not call
it, and `short_code_map` stays empty (58). Commented out, too, are the calls of
`save_queue_to_file`, `read_queue_from_file` and `listen_on_port`, and that of
`syncMemoryDB` in the registry's syncer, so `SMnet` has no sockets, a stop saves
nothing and the registry's memory is loaded once. The modules model the
functions as they are compiled, called where those comments call them, with any
action a short-code function can ask for.

## 2. Modules

### The queue

`SmqTimeouts` - the states of a message and the delay of each transition
(`Timeout(old, new)`, the tables of shortmsgpending.cpp:52-86). The delays are
in milliseconds; the constant `Ticks` maps each to ticks of the model's
clock. Its assumption is that `Ticks` keeps the order of the delays and
that no delay is no ticks.

`TimeSortedList` - the list operations: the insertion loop of `set_state`
(`InsertByTime`) and `find_queued_msg_by_tag` (`FirstTagged`).

`SmqManager` - the queue. Its variables:

| variable | code |
|---|---|
| `time_sorted_list` | the list, as a sequence of message numbers, front first |
| `msg[id]` | the `ShortMsgPending` (kind of request or response, `qtag`, `linktag`, state, `retries`, `need_repack`); `due` is `next_action_time - msgettime()` |
| `created` | how many messages were ever entered; numbers are not reused |
| `sent` | tag and From of every datagram sent: what a peer may still answer |
| `elapsed` | `spacingTimer.elapsed()` |
| `mode` | `"stopped"` once a short code sets `m_stop_main_loop`, `"crashed"` after a null dereference |
| `sends`, `waited`, `depth`, `acked` | history, read by properties only |

Each step is one handler: `ReceiveRequest`, `ReceiveResponse` are
`insert_new_message`; every disjunct of `ProcessTimeout` is a case of
`process_timeout` with all the calls it makes, splices included; `Tick` lets
time pass. What the HLR, the SIP library or the validation answers is a choice
of the step. A response may arrive at any time after a send, any number of times,
in any order, or never.

| action | code |
|---|---|
| `RejectMethod`, `OrdinaryMessage`, `ShortCode...` | INITIAL_STATE, a request; `handle_short_code` |
| `IgnoreResponse`, `ResponseDefers`, `ResponseRedirects`, `ResponseDelivered`, `ResponseBounces` | INITIAL_STATE, a response; `handle_response` by class of status code |
| `DeleteMessage` | NO_STATE, DELETE_ME_STATE |
| `LookupFromAddress` | REQUEST_FROM_ADDRESS_LOOKUP and the states `switch` has no case for |
| `LookupUriImsi`, `CrashInLookup` | REQUEST_DESTINATION_IMSI; the second is a response, which has no request URI |
| `LookupUriHostport` | REQUEST_DESTINATION_SIPURL |
| `PackFails`, `DropAfterRetries`, `RateLimit`, `Deliver` | AWAITING_TRY_MSG_DELIVERY, REQUEST_MSG_DELIVERY, by the exit taken |
| `NoAnswer` | ASKED_FOR_MSG_DELIVERY |
| `AwaitRegister`, `Register`, `NoRegisterAnswer` | the three registration states |

`StoreAndForward` - what a queue of this kind promises, without timers, lookups,
states or a list: a message is taken in, forwarded at most `Limit` times, ends or
is resumed, is returned at most once, and leaves when its end is decided or when it
was delivered; what was delivered never comes back. `SmqForward` maps
`SmqManager` to it (the requests in the list are what is held) and names
`Forwards == SF!Spec`, which holds if tags are unique (`FreshTags`) and no answer
comes in while another to its message waits (`SerialResponses`).

`SmqRestart` - the queue with its save file: serving, saving record by record
(`SaveBegins`, `SaveHeader`, `SaveText`, `SaveEnds`, with the flush after each), a
`Crash` before any of them, which may leave a record torn, and at a `Start` the
loop of `read_queue_from_file`, which inserts each record and sets its state and
time. `TimesFit` says whether a saved time in milliseconds fits into the
`unsigned` that it is read back into: it does not with the clock the code uses.
Senders have IPv4 addresses (the address in a record is cut at its first colon, so
a message from an IPv6 one would be skipped), and a message's body is text/plain;
what a restart does to other bodies is in `ShortMsg`.

### What is in a message

`ShortMsg` - one message: its text, its tree, which of the two is valid, which is
newer, the TPDU decoded (`sm`); what the handlers change in it; when
`make_text_valid` renders it; how it is packed for a cell, a relay or a service
centre; what a record of the save file keeps of it. Queueing and time are
left out: a handler of the state that the message is in may run at any time.

`SmqValidation` - the checks of the acker (`validate_msg`), those of messages
that smqueue makes or reads back (`validate_short_msg`), `set_qtag`, Call-IDs, the
packing before a delivery (`pack_sms_for_delivery`, as far as the checks see it: the type, the
kind of TPDU, and the packings that fail or end the process), and the answers that come to any
form of a message that was sent.

`SmsCodec`, over `BitVectors` - an SMS-SUBMIT as a phone encodes it, what `RPData` and
`TLSubmit` parse, the SMS-DELIVER written for the other phone and what that one
reads: octet by octet, bit by bit, since the codec is about nothing else. `Written` makes
a frame as long as `bitsNeeded` announces, beyond which `fillField` asserts.
`BitVectors` has the fields, `pack`, `unpack`, `hex`, `unhex`, `map`, puncturing and
parity of `BitVector`; `VectorBits` writes a vector bit by bit and says what all of them
make of it.

### Threads and sockets

`SmqPipeline` - the threads of `run`: main, reader, acker, writer. `pc[t]` is where
thread `t` is; `m_queue`, `m_mutex` are the reader's `SmqThreadSafeQueue`, `m_tsq` the
acker's queue, `m_stop_thread[t]` and `m_stop_main_loop` the flags, `i` the turns of
the main loop, `rmsg` the acker's copy of the front. A step reads a flag, makes a
system call, is a critical section, or copies the front after `front()` has given the
mutex back; a push takes two steps, between which `count()`, which does not take
the mutex, may return anything. Datagrams are numbered as they arrive, and
`kind[n]` is what the acker's checks will find. Nothing in the program pushes to the
writer's queue or takes from the acker's, so `SmqPipeline` and `SmqManager` do not
share state at this commit: what would join them is the stub `main_loop`.

`SmqNetwork` - the sockets of `SMnet`: `ListenOnPort` (an address fails or gives a
socket), `PollSockets` with the `select` of poll.c (`MapSelectResults`),
`ReadFirst`, which reads the first socket that is ready after each poll, and
`DeliverMsgDatagram`, which tries the addresses of a host and the sockets of each
family until one `sendto` works. `Arrives` and `Discarded` are the system's.

`Interthread` - `InterthreadQueue`, two of them joined by `iqConnect`, `InterthreadQueueWithWait`,
`InterthreadMap`, `InterthreadPriorityQueue` and `Semaphore`, on one mutex and two
signals. `op[t]` is the operation of thread `t`, `at[t]` where it is: a step is a
critical section, up to the wait, the signal that `write` gives after it
has released the mutex, or a wakeup, which may be spurious or a timeout.

`LockMultiple` - `ScopedLockMultiple`: the constructor with its owner bits, the
three attempts of `_lockAll`, which gives back what it has when a `trylock` fails and
begins again with another mutex, and the destructor.

### Registry and libraries

`SubscriberRegistry` - `disk` and `mem`, the rows with their dirty column, and
`syncMemoryDB` statement by statement (`sync`): the query is generated before the
locks, rows are copied to disk, marked clean, new ones loaded, deleted ones pruned, and
each statement may be refused. Beside it run `AddUser`, `DeleteUser` (node manager),
`ProcessRegister` (sipauthserve) and `Exit`.

`Configuration` - `table`, `cache`, its `age`, and the node manager's update of a
key, which reads the old value, sets the new one and notes a static key as dirty
in three steps, between which other processes write. `ConfigurationKeys` -
`isValidValue` type by type, on values as sequences of tokens, with the positions in
an `unsigned` of 32 bits where the code keeps them there (`Wide`); delimiters go by their names.
Of the types, FILEPATH (Configuration.cpp:426-446), REGEX and STRING (573-613), which hand the
value to `regexec`, are left out, and so is the `float` branch of VALRANGE (630-631).

`Vectors` - who owns a block: construction, clone, alias, segment, assignment, shift,
destruction of `Vector` and `BitVector`.

### For the checks and the proofs

`MCSmqManager`, `MCSmqRestart` - the two scales of ticks. `MCPersistence`,
`MCPipeline`, `MCInterthread`, `MCLibraries`, `MCMessages` - small instances; each
puts modules side by side that share nothing, and its variable `part` says which of them a
behaviour is of. What a property says of one part is what the module says of it alone.

`SmqManager_proofs`, `SmqForward_proofs`,
`Persistence_proofs`, `Messages_proofs`, `SmqPipeline_proofs`, `Threads_proofs`,
`Libraries_proofs`, `Codec_proofs` - see section 5.

Definitions whose comment begins with "A faulty" are variants of the definition
below them, as a plausible mistake would make it. No specification uses them:
each breaks the property that PROJECT.json pairs it with.

## 3. Runs

No run but pipeline checks for deadlock: the queue stops when a short code asks it to,
or when it is empty and the bound on messages is reached; the others end at their
bounds. In pipeline, `Ended` is the only step of a program that has ended.

Passing:

| run | instance | shows |
|---|---|---|
| core | 3 messages, 1xx 2xx 3xx 4xx and unknown responses, all short-code actions but RETRY_AFTER_DELAY | `TypeOK`; `ListComplete`: none lost, none linked twice; `SendsWithinLimit`; `DroppedAfterAllSends`; `LeavesWhenDone`; `ResendSpaced`: copies are 75 s apart; `OrderKept`: a message comes to wait for a later one only by an answer or the rate limit |
| serial | 4 messages, 2xx 3xx 4xx, one response to a message at a time | `DeliveredIsGone`; `Forwards`: the queue implements `StoreAndForward` |
| leaves | 3 messages, 1xx 2xx 4xx 6xx, a retry limit and rate limit of 1, registration | `EveryMessageLeaves`, `RegistrationGoesOn` |
| pipeline | 3 datagrams of every kind; IPv4 and IPv6 sockets, hosts of no to three addresses | `InOrder`, `ShutsDown`, `ReceivedIsHandled`; `SentOnceOrTold`, `EverySocketHeard` |
| persistence | 2 messages, 2 starts; 2 subscribers, 3 rows | `SurvivesRestart`: an orderly stop and start lose no message; `ReloadedInOrder`; `StartsServing`; `SyncKeepsAddresses`: no sync changes or forgets an address; `SyncCatchesUp` |
| interthread | each container with 2 readers, one who waits for it to fall or for either of two, and a writer, 3 items; 3 threads and 3 mutexes in different orders | `NoLostWakeup`, `ReaderWakes`, `FallIsTold`, `TimedReadReturns`; `NoCircularWait` |
| libraries | 2 keys, a cache of 2 seconds; values of up to 3 tokens; vectors of up to 9 bits; 3 vectors, 3 blocks | `StaleIsYoung`, `CacheAgrees`, `DirtyTells`; `AcceptsAsDescribed`; `VectorsReadBack`; `OneOwner` |
| messages | a message and 3 rounds of lookups and starts; 2 messages, 3 Call-IDs, 2 REGISTERs; sample texts and numbers | `TextArrives`, `SentIsLatest`, `RelayGetsItsType`, `BounceQuotesText`; `ValidStaysValid`, `AnswerFindsItsMessage`; `SubmitIsParsed`, `DeliverArrives` |

Failing, because the code does not do what its comments say:

| run | property | what happens |
|---|---|---|
| v_delivered | `DeliveredIsGone` | two 2xx to one message are queued: the first finds the second by its tag, deletes it, and the message is sent again |
| v_restart | `StartsServing` | a saved time does not fit into the `unsigned` it is read into; the stream fails without reaching its end, and the loop of `read_queue_from_file` never ends |
| v_register | `RegisteredReachesDisk` | a subscriber who is on disk and not yet in memory is told 200, and the `UPDATE` that should register him finds no row |
| v_saved | `SavedSurvives` | a message that was packed for its cell is saved as an SMS-DELIVER, which the reading of the file cannot parse: it is lost |

### What the passing runs leave out

Each passing property says what the code does; where the code does less than one
would wish, the property names the exception, which is a behaviour of the code, too.

- core: the queue looks at the front only, and a response and the rate limit move a time
  in place. `OrderKept` is about every step and any list, in order or not: it says whom such
  a step may hold up, the messages behind the one it moved, and that one if the answer brings it
  forward behind others. It does not say for how long: a minute for a 1xx, up to the 50
  minutes (`NT`) of the table of delays for a redirection or a rerun. Of messages that are due
  together it says nothing: `set_state` inserts a message before its equals.
- core: `DroppedAfterAllSends` holds where `max_retires` is not set. It is also read as the
  rate limit; with it set, attempts that are put off are counted and a message is dropped
  without having been sent that often.
- persistence: `TimesFit` is TRUE, a build where the saved times fit; v_restart is the other one.
  `SyncKeepsAddresses` excepts one who is deleted and added anew while his address is saved;
  `SyncCatchesUp` excepts subscribers to be loaded with one who is on disk twice
  (`NoneTwice`): the statement that adds them is refused as a whole.
- pipeline: `EverySocketHeard` excepts a socket behind one that never falls silent: the
  first that is ready is read after every poll. A datagram that cannot be parsed, and a From
  without a tag, end the process; `validate_msg` returns what its last check finds, and a
  datagram that failed an earlier one is queued.
- libraries: `Misjudged` names values that `isValidValue` takes for what they are not, or
  the other way round, because positions of `find` are kept in 32 bits and compared with
  `npos`, and what `>>` cannot read is a 0: a lone `-` is in every range with a 0 in it. A range
  written without a colon (`0-100` in ConfigurationTest.cpp) is read as 0 to 0. `CacheAgrees` judges every
  key, after what this process writes, too; it excepts a record of the cache (`overtaken`) that
  another process has changed in the table since it was made, or that was made when the row could
  not be read: such a lookup keeps the default in the cache. The next record of the key is judged
  again. `DirtyTells` excepts keys that anybody but the node manager wrote (`others`) and those that
  became dirty when their old value could not be read (`misled`): the default is noted for it then.
- messages: `Miscounted` is a number with a plus and an even count of digits, which
  `TLAddress::write` announces one octet too long; `Misread` are the validity periods of
  formats 1 and 3, after which parsing goes on at the wrong bit. `RelayGetsItsType`
  excepts a message that was restarted between lookup and packing
  (`convert_content_type` is not saved), `ValidStaysValid` a message that was packed into an
  SMS-DELIVER, which `parse` does not take and a start throws away (v_saved), and says that
  no other that was in order is thrown away; `BounceQuotesText` one that went to a place that takes
  another type, `AnswerFindsItsMessage` two messages with one CSeq number and From tag
  (`Twins`).

### Bounds

`MaxMsgs` bounds the messages ever entered. Three are a message, a
response and a duplicate; a message, its bounce and the answer to the bounce; an
SMS, its REGISTER and the answer; two messages that compete for the front, and
an answer. Four, in serial, are what a bounce and a second answer need. Two, in
persistence, are enough to be saved in one order and read in another. `MaxLate` is how
long a message is remembered to be overdue (the order among overdue messages is
that of the list, so longer makes no difference to a guard). `SmallTicks` keeps
the equations between the delays that spacing depends on (75 s = 15 s + 60 s);
`CoarseTicks` keeps only "at once", "later" and "much later", for runs that do not
measure delays. A response's class is enough: 480, 486 and 5xx are handled as 1xx,
6xx as 3xx.

In pipeline, three datagrams are one in the acker's hands, one queued and one being pushed; the
main loop may be stopped before, between and after them, since no step of main waits for the
others, and how many turns it takes makes no difference. Two pending datagrams (`MaxPending`)
are one read and one left; two families are a socket before and a socket behind. In interthread,
`MaxWrites` is as many items as there are threads to wake; low water marks 0 and 1 are an empty
queue and one that is not; the owner bits are those of LockTest.cpp. Persistence has three rows,
so that a subscriber may be on disk twice beside another one, and two users, so that one
statement fails for one because of the other. `Period` 2 is a cache that is young, at its limit
and past it. Three tokens are an address, a delimiter and a port; nine bits are an octet and one
over, with fields of up to four (`MaxField`) at every place of them and rotations as maps; three
vectors are an owner, its alias and a copy. The relay of `SmqValidation` takes VND_3GPP_SMS
(`RelayContents`), so that any message may become an SMS-DELIVER; the theorem is about one that
takes text, too. Three rounds of `ShortMsg` are a lookup, a restart and another lookup, or two
places of different kinds. Random numbers 1 and 5 may collide or not. The texts of the codec
have the lengths around seven septets and an octet, with and without headers that need fill
bits; the validity periods are the ends of their four ranges.

## 4. Fairness

leaves assumes weak fairness of `ProcessTimeout` and of `Tick`, nothing of
arrivals. The driver calls `process_timeout` whenever its wait for a datagram
ends, and time passes. `EveryMessageLeaves` excepts messages that wait for a
registration: `ready_to_register` may fail for ever, and so may the registry.
The number of responses is bounded by `MaxMsgs`, so the run does not speak of
a peer that sends 1xx for ever: each defers the message by another minute.

In pipeline every thread is weakly fair: the operating system runs a thread that can
run. The main thread is, too, except in its loop: it sleeps a second in each of its
150 turns, and if the end of the loop were certain, `ReceivedIsHandled`, which
excepts datagrams that the acker is stopped before it handles, would say nothing. A mutex
that is released again and again is a matter of strong fairness; with a
bounded number of datagrams the reader takes it only so often, and weak fairness is
enough. A datagram that cannot be parsed crashes the process, after which nothing is
promised. Of the sockets, `PollSockets` and `ReadFirst` are weakly fair: the driver calls
`get_next_dgram` again and again. Nothing is assumed of what arrives.

In interthread, each thread in an operation goes on (`Runs`) and its timeout comes
(`TimePasses`); nobody has to call, and no wait has to return without a signal. In
persistence, the loop that reads the file goes on (`Load`); the syncer's loop goes on
(`SyncSteps`, weakly fair) and no statement of it is refused for ever (strong fairness
of `Generate`, `ToDisk`, `Add`, `Prune`): SQLite refuses while another process holds
the lock, and the sync tries again in the next period.

## 5. Proofs

Assumptions: the types of the constants (`TicksAssumption`, `ManagerAssumption`,
`ShortMsgAssumption`, `ValidationAssumption`, `PipelineAssumption`, `NetworkAssumption`,
`InterthreadAssumption`, `LockAssumption`, `VectorsAssumption`, `RegistryAssumption`,
`VectorBitsAssumption`), and three facts of libraries: no two passive addresses that `getaddrinfo` returns are of one family, oSIP
makes one body of what is no multipart, and the delays add up as their milliseconds do.
Nothing is assumed about the number of messages, the delays, the retry limit, the kinds
of responses, threads, mutexes or blocks. Where a theorem needs more, it says so.

`SmqManager_proofs` - first what the operations of `TimeSortedList` do to a list:
the insertion loop ends (`InsertPosBounds`, which needs the least element of a set of
naturals), insertion adds one element and keeps others in order, removal takes exactly one,
`FirstTagged` is in the list and carries the tag. Then `TypeCorrect`: `Spec => []TypeOK`,
with a lemma for each way a handler changes the list (`RequeueType`, `OriginateType`,
`DeleteType`, ...).

In the same module `Safety`: the inductive invariant `Safe`, from which follow

- `NoMessageLost`: `[]ListComplete`;
- `SendsBounded`: `[]SendsWithinLimit`;
- `NoBounceLoop`: `[]BouncesNeverBounce`, which no run checks.

None of the three is inductive. `ListInv` adds that the messages in the list have
numbers up to `created` (so a new one is not there yet) and that no datagram was
sent without a tag (so a response has one). `SendsInv` ties the datagrams sent for a
message to its `retries`, which the limit looks at: every send counts an attempt
first, and no redirect, rerun or bounce resets the count. `DepthInv` says that
only messages from `Bounce.Code` are bounces, and those `MayBounce` refuses. The proof
goes through one intermediate predicate, `Shape`: each step keeps a message, removes it,
enters a new one, or sends it. Each handler is shown to have that shape, and
`ShapeSafe` shows once that the shape preserves the invariant.

On `Safe` rest three more, about times and counts:

- `KeptInOrder`: `OrderKept`, for every step, and lists in any order. `Held` says of a list and a
  message that it waits there for a later one. Removing the front, inserting a message at
  the place of its new time and putting one in front of all that are due hold up nobody
  new (`HeldTail`, `HeldInsert`, `HeldCons`, `HeldRemove`); for `HandleResponse` and
  `RateLimit` it is shown whom a time moved in place may hold up (`HeldChanged`).
- `SendsAreSpaced`: `ResendSpaced`, for any `Ticks` that keep sums. `SpacedInv` says how long
  ago a message was sent, state by state: in ASKED_FOR_MSG_DELIVERY, 15 s ago when its time is
  up; in AWAITING_TRY_MSG_DELIVERY, 15 s, and 75 s when its time is up; in all others, and when
  it is not in the list, 75 s. `waited` starts again only with a send, and a step
  that would lead to a send earlier (a 1xx, a redirection, a rerun) goes through one of the
  two states.
- `AllSendsUsed`: `[]DroppedAfterAllSends`, under `EveryAttemptSends`. `CountInv` says that
  `retries` is the number of sends of a message in the list, or that it had all its sends, or that
  it could not be packed and is on its way out. The three hypotheses are what the code needs for
  this. Without fresh tags a response may be taken for a request and counted; a short code that
  asks for a retry counts one without a send; and `max_retires`, where it is set, is the rate
  limit, too, so that an attempt that is put off counts.

`SmqForward_proofs` - the refinement, under `FreshTags` and `SerialResponses`:

- `Implements`: `Spec => Forwards`, by step simulation: the initial state maps to that of
  `StoreAndForward`, and every handler to one of its actions or to none;
- `ResponsesConsumed`: `[]ResponsesAreConsumed`, a response is never routed as a request;
- `DeliveredStaysGone`: `[]DeliveredIsGone`;
- `LeavesOnlyWhenDone`: `LeavesWhenDone`.

They rest on `ForwardInv`: `Safe`, and `TagInv`, which says that a request's tag is its
own number, that a response carries the tag of a request that was sent and waits to be
handled, and that no two queued responses carry the same. Without it
`FirstTagged` may find another response, which is what v_delivered shows. Again one
predicate, `TagShape`, says what a step may do to tags, and every handler has that shape.

`Persistence_proofs` - the save, the end and the start of the process:

- `SafeAfterRestart`: `RestartSpec => []Safe`, what holds of the running queue holds in
  every incarnation of it;
- `OrderedAfterRestart`: `[]ReloadedInOrder`;
- `NothingLostAtRestart`: `SurvivesRestart`.

The invariant `RestartInv` adds to `Safe` what is in the file, phase by phase. `FileInv`:
records are of different messages, which were entered and have a tag. `SaveInv`: while the
queue is saved, the file is the back of the list in reverse. `StopInv`: when the process
stops, every message of the list has a complete record. `DownInv`: then the list is empty.
`LoadInv`: while the file is read, the list is what was read so far, the record read last in
front. `Serve` is every step of the queue, and preserves the rest of the invariant because no
phase is disturbed by it. That the messages which leave in service had ended or were
answered needs a lemma of every handler, of the tags and kinds it leaves (`KeepsTags`, and what
follows it).

And of the registry, `SyncsKeepAddresses`: `SyncKeepsAddresses`, for any subscribers, rows,
registrations and refused statements, and `RegistryCorrect`: `[]RegInv`. What makes it hold is
`SavedInv`: between the statement that saves the dirty rows and the one that marks them clean,
whoever is dirty has his address in all of his rows on disk, or was added anew. So the row
that is marked clean, and may be loaded again from disk, is never older than memory. A
deletion, which the node manager may do between any two statements, leaves the rows of the
others in order, which is all that the proof needs of `DeleteUser`.

`Messages_proofs` - the content of a message, in `ShortMsg`: `TextsArrive`: `[]TextArrives`;
`RelayTypes`: `[]RelayGetsItsType`; `BouncesQuote`: `[]BounceQuotesText`; `LatestIsSent`:
`SentIsLatest`, for any number of lookups, sends, saves and starts. The invariant
`MessageInv` (theorem `MessageCorrect`) says for every state what the tree, what was parsed of
the body, the type and the conversion that is still due have to do with each other
(`MessageOK`), and the same of a record in the file (`RecordOK`); that a Call-ID stands
for one place (`CallsOK`), without which a resend could not be told from a message to
another peer; and what the message was when it came (`CameSo`).

And of `SmqValidation`: `StaysValid`: `[]ValidStaysValid`; `AnswersFind`:
`[]AnswerFindsItsMessage`, for any messages that may arrive. `ShortMsgVerdict` turns the
sequence of checks with their codes into one condition, `ShortMsgMet`, which each handler keeps
true; of a packed message only `Formed` is left, which does not look at the TPDU.
`ValidationInv` adds that the numbers of the messages are unique, that whatever goes by one
number has one tag, also the answers to a message that has left, and that a link is to the tag
of the message it is to.

`SmqPipeline_proofs` - `DatagramsInOrder`: `[]InOrder`; `AckerNeverWaits`:
`[]FrontNeverWaits`; `ThreadsEndFirst`: `[]ReleasedLast`; `PipelineTyped`, for any number of
datagrams and turns. The invariant `IInv`
adds what the three rest on: the mutex is taken exactly while the reader pushes
(`MutexInv`), the acker's copy is the front until it pops (`CopyInv`, true because nobody
else pops), no number in the acker's queue is greater than the last one handled
(`TsqInv`), and where the threads are while main starts and joins them
(`ThreadInv`). One lemma per action; the steps that move no datagram share `IdleIInv`.
And of `SmqNetwork`, `SendsOnceOrTells`: `[]SentOnceOrTold`, for any list of addresses and any
failures. `SocketsInv` says that no two sockets are of one family: with two, the inner
loop, which goes on after a `sendto` that worked, would send a message twice.

`Threads_proofs` - of `Interthread`, `NoSignalLost`: `[]NoLostWakeup`, for any threads that do any
operations of a queue, a priority queue or a semaphore. `WInv` adds that who waits or was
woken is in a reading operation, so that a wakeup is not given to one who does not want the
item, and that nobody waits for these containers to fall. Each step changes the items and
the threads on their way to them by as many (`PendingOneMore`, `PendingLessOne`,
`PendingSwap`).

Of `LockMultiple`, `NoDeadlock`: `[]NoCircularWait`; `LocksAll`: whoever is through has
all three mutexes; `LocksTyped`. They assume `OwnsFirst(main)`: threads own nothing or their
first mutex when they call, and one of them, `main`, may own its first two, as in
LockTest.cpp. This is what the retreat needs: it gives up the mutexes it began with,
so a thread that waits holds nothing, but for `main`, and a circle would need two that hold
something.

`Libraries_proofs` - `OwnersAreUnique`: `[]OneOwner`, for any number of vectors and blocks;
with the types, by which the blocks in use are among those allocated, it is inductive. And
of the configuration, for any keys, values and period: `CacheIsYoung`: `[]StaleIsYoung`;
`CacheIsRight`: `[]CacheAgrees`, of every key that is not `overtaken`, whatever this process set
or removed and whatever of that failed; `DirtyIsTold`: `[]DirtyTells`, of the keys that are neither
`misled` nor in `others`. The last speaks of the time
between two updates only; `UpdateInv` says what holds within one: the old value that was read
is the effective one until the new one is set, and then the report is still the one for the
old value. `AcceptsDescribed`: `[]AcceptsAsDescribed`, for keys and values of any length below
`Npos`, whatever the width of `size_t`: type by type, from what `find`, `substr` and `>>`
return (`FindIsFirst`, `SubstrIsPart`, `ExtractReads`); a list of addresses is compared at the
first token where the code and the description part. The values in `Misjudged` stay excepted.

`Codec_proofs` - `VectorsCorrect`: `[]VectorsReadBack`, for vectors of any length, all
generators and maps. The loops of `BitVector` are recursive functions here, and the
installed provers cannot cite an induction theorem. Instead `UpTo` states induction for a set of
numbers, from the well-foundedness of the naturals, and `Recursion` that a function is there
which a recursion up to `n` defines. With these, shifting out what `peekField` has accumulated is
shown to give the bits back (`ShiftsOfNumber`), on which fields, octets and digits rest;
the elements that `copyPunctured` keeps are counted (`LeftIs`). For parity, the step of the
syndrome is linear (`SyndromeIsLinear`, `RunSums`), and the register of `parity` holds after every
bit what the one of `syndrome` would hold after as many zeros as it is wide (`EncoderIsPower`), so
that the parity word, shifted in, cancels it. One wrong bit adds the run of a single bit, which no
zero brings back to zero, because the last coefficient is 1 (`ZeroStaysZero`, `OneBitShows`).

Of `SmsCodec`, `SubmitsAreRead`: `[]SubmitIsParsed`, and `DeliversAreRead`: `[]DeliverArrives`,
for any numbers, texts, headers, alphabets and periods. `CodecInv` says that each stage holds
nothing yet or exactly what comes of the sender's message: the frame, its fields (`Parsed`), the
frame to the receiver with the same user data or with the text encoded again (`Delivery`) and
what that one reads (`Heard`). The rest is about frames: `Has(v, rp, w)` is that `w` stands in `v`
behind `rp`, `Piece` that it is as long as said; `Join` and `Split` take a frame apart, a field
and an address in it are read as written (`DigitsAreRead`, `AddressIsParsed`), the TPDU is cut
out by the lengths before it (`TPDUIsCutOut`), and behind the septets of a header those of the
text begin where `decode` looks for them (`SeptetsAreRead`, `TextIsDecoded`); put together,
`SubmitIs` and `DeliverIs`. `CodecAssumption` says what the messages are: numbers of at most
`MaxDigits` characters, as `L3BCDDigits` can hold; header and text of at most 160
septets, as one SMS-SUBMIT can hold; and that `Failed` is not what a parser returns
otherwise. The periods in `Misread` and the numbers in `Miscounted`, which the code reads or
writes wrongly, stay excepted.

Only model-checked: the liveness properties (`EveryMessageLeaves`, `RegistrationGoesOn`,
`ShutsDown`, `ReceivedIsHandled`, `EverySocketHeard`, `StartsServing`, `SyncCatchesUp`,
`ReaderWakes`, `FallIsTold`, `TimedReadReturns`), since TLAPS cannot prove liveness under
fairness.

## 6. Not modelled

PROJECT.json lists every component with the reason. In short:

- The syntax of SIP is oSIP's. JSON (JsonBox) and TOML (cpptoml) are vendored parsers;
  they, the command line and the defaults of smqueue.cpp only deliver values, which are
  constants here. Together they are a fifth of the repository's lines.
- smqueue.h, smcommands.cpp, most of SmqReader.cpp and SmqWriter.cpp are commented
  out; SmqMessageHandler and QueuedMsgHdrs have no callers. There is nothing in them
  that the program does.
- `remove_socket`, which moves `sockets` and not `sockinfo`, has no callers either.
- The logger, sockets, timers, `sqlite3util` and pthread wrappers are calls of the system; where
  a component uses them they are its outcomes.
- COMP128 and the RAND of the registry, lookups that only read, the JSON
  requests of the node manager beside the configuration and the subscribers.
- In `src/GSM` and `src/SMS`: elements of mobility management, link-layer frames, the CP
  layer, RP-ACK and RP-ERROR, which belong to OpenBTS and which smqueue does not use.

Hazards that are known and have no property, because the code does nothing about them, or
because a peer decides:

- every timeout of ASKED_TO_REGISTER_HANDSET originates one more REGISTER, without a limit,
  and a peer that keeps sending 1xx defers a message for ever;
- a 4xx that comes twice bounces the message twice: `bounce_message` does not look at the
  state it is in;
- the log line of `set_state` reads a row of the table of delays that is not there;
- nothing takes messages off the acker's queue, which grows with every datagram;
- `wait` with no time left returns without giving up the mutex, so that a loop around it
  starves others: the timed `iqWaitForEither` is such a loop, which spins when its time has
  passed, and no property speaks of when it returns; `wait(sz)` is told by a signal that another waiter may take, so that
  `FallIsTold` speaks of one;
- the addresses set in the registry's memory since the last sync are gone when it restarts;
- when the random device cannot be opened, the fallback generator begins again at every start.

## 7. Plan

1. (done) `SmqTimeouts`, `TimeSortedList`, `SmqManager`; runs core, serial, leaves;
   `TypeCorrect`, `NoMessageLost`, `SendsBounded`, `NoBounceLoop`.
2. (done) `SmqPipeline`, `SmqNetwork`; run pipeline; `DatagramsInOrder`, `AckerNeverWaits`,
   `ThreadsEndFirst`.
3. (done) `StoreAndForward`, `SmqForward`; `Implements` and what follows from its invariant.
4. (done) `SmqRestart`, `ShortMsg`, `SmqValidation`, `SmsCodec`; runs persistence, messages.
5. (done) `SubscriberRegistry`, `Interthread`, `LockMultiple`, `Configuration`,
   `ConfigurationKeys`, `BitVectors`, `Vectors`; runs interthread, libraries; `NoSignalLost`,
   `NoDeadlock`, `OwnersAreUnique`, `CacheIsYoung`, `CacheIsRight`, `DirtyIsTold`.
6. (done) The times, the counts, the restart, the content of messages and the sockets as
   theorems: `SendsAreSpaced`, `AllSendsUsed`, `KeptInOrder`, `SafeAfterRestart`,
   `NothingLostAtRestart`, `MessageCorrect`, `StaysValid`, `AnswersFind`, `SendsOnceOrTells`.
7. (done) `AcceptsDescribed`, for values of any length; what a sync of the registry may not do to
   an address, `SyncsKeepAddresses`; the operations of `BitVector`, `VectorsCorrect`; the codec,
   `SubmitsAreRead` and `DeliversAreRead`.
8. The queue driven by the pipeline, when the repository's `main_loop` calls the handlers
   again.

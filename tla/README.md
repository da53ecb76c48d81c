# Specifications of QuestionsSys

QuestionsSys is a bank of interview questions: students and teachers run a
terminal client, a load balancer sends each client to one of several question
servers, and the servers keep users in MySQL (cached in Redis) and questions in
Redis. This directory holds TLA+ models of it, TLC configurations that check
them, and theorems that TLAPS proves about them. Line numbers are those of the
source files; everything is modelled from the code, since the repository's own
README is only a title.

    client --5001--> balance (hash ring) --ip, port--> client
    server --5000--> balance: port assigned, then PING / PONG every 10 s
    client --port--> server: epoll thread -> task list -> 5 workers
    worker --> MySQL pool (user)     worker --> Redis master / 2 replicas
    import tool --> Redis master (questions)

## 1. Inventory

| Part | Code | State | Operations | Talks to |
|---|---|---|---|---|
| Thread pool | `server/threadpoll.cpp` | `_tasks`, `_mtx`, `_condition` | `AppandTask`, `ThreadWork`, `Task` | epoll thread appends, workers call handlers |
| Epoll loop | `server/sys.cpp` | epoll set, `_cliInfo`, descriptors | accept, hang-up, read | task list; `_cliInfo` and descriptors are shared with `SendResult` in the workers |
| Sockets, framing | `server/ser_socket.cpp`, `client/cli_socket.cpp`, `pdu.h` | what was read of a packet | `RecvBuf`, `SendBuf`, `PduProtocol`, `GetBody` | the epoll thread receives, the workers send; the client does both |
| Messages | `IM.User.Msg.pb.*` | fields and their "has" bits | setters, `ByteSize`, serialise, parse | handlers and views |
| User handlers | `server/control.cpp` 49-187 | MySQL table `user`, Redis `user:id:*` | `Register`, `Login` | MySQL pool, Redis master and replicas |
| Question handlers | `server/control.cpp` 189-479 | Redis hashes `string:1` ... `tree:5` | `SelectQues`, `InsertQues`, `DelQues`, `GetAllQues` | Redis master and replicas |
| MySQL pool | `server/mysql.cpp` | `_mysqlPool`, `_size` | `GetOneConnect`, `Close`, `Reconnect`, `Query`, `Insert` | the workers |
| Redis connections | `server/redis.cpp` 325-605 | one context and mutex each, opened once | `Query`, `Insert`, `Exist`, `ExeCmd`, `Del` | the workers |
| Load balancer | `balance/balance/balance.cpp` | `data` (ring), `fd_hashid`, `serport` | `DealServer`, `DealClient`, `timeout_cb` | three kinds of thread share the maps; only `accept` is locked |
| Client | `client/view.cpp`, `client.cpp` | role, `mp1`, `mp2`, `tv` | register, login, menus, lists, drawing, insert, delete | one request at a time through `cli_socket.cpp` |
| Test clients | `client/test.cpp`, `tress.cpp` | a counter | send without waiting; one request a connection | the server |
| Import tool | `server/insert/main.cpp`, `insert/redis.cpp` | a pool of two connections | `flushdb`, then `exists`, `hexists`, `hset` for each question | the Redis master, beside the server |

What is hard in it, and what makes each part correct:

* **Thread pool.** A wait that is an `if`, not a `while`; a notification after
  the unlock; a `continue` that leaves a `do ... while (0)` and runs a task
  nobody appended. Correct: order, no request lost or run twice, no lost
  wake-up, every request finishes.
* **Epoll loop and workers.** A task carries a descriptor *number*. The epoll
  thread and five workers all close numbers, the kernel reuses them, and
  `_cliInfo` is not locked. Correct: a client gets its own answer, once; a
  patient client's connection is not closed; an entry of `_cliInfo` goes with its
  connection, but for the one order of steps that lets it stay.
* **Framing.** `RecvBuf` reads all there is, keeps the first packet and forgets
  the rest; a piece shorter than a header is an error; the body becomes a string
  up to its first zero byte. Correct: what a handler reads is what was sent up to
  that byte, connections stay in step while clients wait for their answers, and
  a call returns unless a piece was too short.
* **User handlers.** Check and insert in two statements, a cache that is written
  after the answer, replicas that lag, commands that fail in the middle.
  The text of a command is the format of `redisCommand`. Correct: the outcome is
  that of one directory of accounts; the cache holds what the format makes of
  the table's account.
* **Connections.** MySQL connections die, reconnects fail, threads compete; a
  Redis context that breaks stays broken, is freed by `Query` and used again, or
  ends the process. Correct: one user each, none lost on any path, refusal only
  when there are too few, and no trace of any of it in the answers but errors.
* **Question handlers.** Test on a replica, write on the master, list key by key.
  Correct: answers account for what is stored, no question is lost unnoticed, a
  listing shows nothing that was never stored and misses nothing that was stable.
* **Balancer.** Registration, removal and lookup interleave; positions collide;
  descriptors are reused. Correct: ring and `fd_hashid` agree, deaths are
  noticed, clients are served, and what was deleted cannot be found any more.
* **Client.** Lists are cached for an hour and used by number; numbers are drawn
  until one is new. Correct: a deletion hits what was on the screen, a student
  gets five different questions, the drawing comes to an end.
* **Import tool.** An unchecked flush, a loop that asks for the same field, a pool
  that loses connections. Correct: the list is stored once, in its hashes; one
  broken connection does not stop it.

`PROJECT.json` lists every hazard with its line and the properties about it, or
why there is none.

## 2. Modules

| Module | Models | Abstract specification |
|---|---|---|
| `ThreadPool` | `threadpoll.cpp` | `TaskQueue`: append, begin in order, finish |
| `Server` | `sys.cpp` Run, `ser_socket.cpp`, `SendResult`, `cli_socket.cpp`; instantiates `ThreadPool` | `Rpc`: calls return with their own answers |
| `Wire` | `pdu.h` and the generated messages, byte by byte | |
| `Stream` | one connection, client program to handler and back; extends `Wire` | |
| `UserStore` | `Register`, `Login` over MySQL and Redis | `UserDirectory`: one account for an id |
| `MysqlPool` | `mysql.cpp` | |
| `UserService` | both, and the Redis contexts; extends `UserStore` and `MysqlPool` | `UserDirectory` |
| `QuestionStore` | `InsertQues`, `DelQues`, `GetAllQues` over Redis | |
| `Balance` | `balance.cpp` | |
| `ClientView` | `view.cpp`, menus of `client.cpp` | |
| `RedisPool` | `insert/redis.cpp` | |
| `Importer` | `insert/main.cpp`; extends `RedisPool` | |
| `MC*` | constants and symmetry for TLC | |
| `*Proofs` | theorems about `ThreadPool`, `Server`, `UserStore`, `MysqlPool` and `UserService` (the last three in `UserServiceProofs`), `QuestionStore`, `Balance`, `ClientView`, `Importer`, and `Stream` with `Wire` | |

Definitions marked `mutant` in a comment are variants with a typical mistake
that no specification uses; they show that a property notices the mistake.
`map` in `PROJECT.json` gives the source lines of every definition.

### ThreadPool, TaskQueue
`tasks` is `_tasks`; a worker's `pc` is where it stands in `ThreadWork`: before
the lock, waiting, woken but without the lock, or in `Task`. `AppandTask` and
`NotifyOne` are two steps because line 37 is after the unlock. `Lock` and
`Relock` run to the next blocking point under the mutex. A worker that finds the
list empty again runs the *phantom* task (line 66 leaves the `do`, and `fd` is
uninitialised). `SpuriousWake` is what `condition_variable::wait` may do.

### Server, Rpc
A connection is an identity; `table` says which connection is behind a number.
`EpollWait` takes a snapshot of the ready events that `Accept`, `HangUp` and
`Readable` work off while the world moves on. `Accept` and `Insert` (line 152) are
two steps: a worker that holds the same number from an earlier connection may
close it and erase its entry in between, and the entry is then inserted for a
number nobody has. `StaleOnlyByInsert` says that this is the only way to a stale
entry. On the way out close and erase are one step of the epoll thread, since no
other thread accepts or inserts in between. `RecvPacket` and `RecvError` are
the ends of `RecvBuf`, which in between blocks the epoll thread (`poll` with -1).
A worker sends (`SendOk`, `SendError`) to whatever is behind its number *now*, and
after an error closes (`CloseAfterError`) and erases (`EraseAfterError`) in two
steps. What handlers do with databases is left out, except that they return:
`InsertQues` may loop for ever (see `QuestionStore`), and five such requests
would stop the server. `Faults` selects what may go wrong. Packets are whole
here; their bytes are the subject of `Stream`.

### Wire, Stream
`Wire` has the header (16 bytes with padding, numbers in network order) and the
four messages as the generated code writes and reads them: fields whose "has" bit
is set, in order, numbers as varints, ten bytes for a negative one; `Body` is the
`char *` that becomes a `std::string`. `Stream` follows one connection: a request
of a view, of `test.cpp` (writes without waiting) or of `tress.cpp` is put `up`,
TCP delivers any number of bytes at a time, `RecvBuf` applies `PduProtocol` to
what it has, a task carries the packet, and `Handle` decodes it, in any order, as
workers overtake each other. The answer comes `down` the same way. Once a packet
was read together with part of the next, the connection is `astray` and not
followed further (that takes a client that does not wait). `AsSent` is the
reference: the fields up to the first that is zero or empty, whose encoding
holds the first zero byte. `MessagesOf` says what a dialog may send: any `int32` in
a number, any text without a zero byte that a buffer of 1 MB holds.

### UserStore, UserDirectory
`rows[id]` is the table, `cache` the Redis master, `replica` the replicas.
`Register` and `Login` ask a replica (any one: `count++ % 6` is not locked), then
MySQL, then insert or, after the answer, write the cache. Every early return and
failing command is a step. `Exit` is the `exit(0)` of the Redis wrapper: workers
stop, the stores stay. The schema of `user` is not in the repository, so whether
`id` is a key is the constant `UniqueId`.

Both stores get an account as text in a command, and neither takes any text as it
is. `control.cpp` 174 puts name and password into a text that `redis.cpp` 431 uses
as the *format* of `redisCommand`: `%%` becomes `%`, another `%` takes an argument
that is not there, so the password `a%%b` is cached as `a%b`. `control.cpp` 100 puts
them between the quotes of a statement, where quotes and backslashes count.
`Kept[a]` and `Cached[a]` are the accounts that may come of `a` (none: the command
fails; the process may also die, `MayExit`). `CacheAgrees` therefore says that
Redis holds what the format makes of MySQL's account, and `UserDirectory` lets an
account be found in either form; for accounts of letters and digits there is only
one form, and both say what one would expect. So a user with `%%` in the password
may be refused, and another password accepted, once the login is cached: the run
has such an account, and the directory's promise is limited to what holds.
Texts are one word, as the client reads them with `cin >>`, and shorter than the
buffers of the handlers. The directory's other limit is the race of two
registrations when ids are no key: the run has `UniqueId = FALSE`, and the
theorems cover both.

### MysqlPool
`pool` and `size` are `_mysqlPool` and `_size`. `GetOneConnect` is one action: it
holds `poolLock` throughout, and drops from the front every connection that
neither answers the ping nor reconnects. `lost` collects these. A query looks
again after `sleep(1)`, an insert does not; a refused insert calls `Close(NULL)`.

### UserService
The composition. A handler's `select` and `insert` begin a statement of the
pool, wait for a connection, run on it or fail, and give it back (`Release`)
before the next step of the handler; without a connection the handler returns an
error (`NoConnection`). `link` is the state of the reading contexts (six) and the
writer, opened once by the constructor of `Sys`: `Break` at any moment; `Query` on
a broken one frees it and the next `Query` on it fails or dies; question
handlers may free one, too. `Restart` is the end of the process at a place where
the code has one (`MayExit`: a command other than `Query` on a broken context, a
freed context, a closed MySQL handle, an error number printed as a string, also
after an insert that was stored, an argument that a format does not have)
and its start by the script, with fresh connections and the same stores.

### QuestionStore
`master` and `replica` map questions to contents, `pending` holds the writes a
replica has not applied. Key and number make a field. Each Redis command is a
step. `InsertQues` keeps asking for the field in `probe` while it draws new ones
into `field` (line 235 repeats the old `cmd`); each draw is a step (`Draw`).

A write has three steps: the master executes it (`HSet`, `HDel`), the handler
reads the reply (`ReadReply`), and `SendResult` sends the answer (`Send`). The lock of
`redisWrite` is held from the first to the second (`WriterFree`). The reply may be
lost (`ReplyLost`), the answer may not be sent (`SendFails`), and another worker may
end the process at any point (`Exit`), so a question can be stored, or deleted, and
nobody told. `balance` counts successes only when they are sent; `silent` counts
what was written and never reported, and `Owing` the workers in between.
`balance`, `silent`, `seen` and `stable` are history variables for the properties.
Contents meet the same format as passwords (`control.cpp` 246): `content` is what
comes of it, an unusable text is among the failing commands, and no property
compares a content with what the teacher typed.

### Balance
`ring` is `data`, `listed` is `fd_hashid`, `freed` the deleted nodes. `timeout_cb` is
`hpc`, walking numbers in order. For each entry of a dead server, giving back its
port (`DropEntry`, 218-221), deleting the node (`DeleteNode`, 222), clearing and
deleting the entry (`ClearEntry`, 224 and 225) and erasing it (`EraseEntry`, 226) are
steps of their own. A lookup is two: `Find` keeps the iterator of line 193 in
`found`, and `Answer` uses it (199 to 203) some time later, when node or entry may
have been deleted, whether that removal is still under way or over. What is
deleted reads as anything (`Garbage`) or ends the process (`Crash`), a null node and
the `end()` of a ring emptied meanwhile end it, and so does stepping the heartbeat's
iterator past `end()`. `overlapped` is a history variable: a registration and a
removal have overlapped, by `SendPort` during a removal or a loss during a
registration. Nothing keeps them apart; the properties that need it say so.

Two merges are left, and change no behaviour that a property sees. `AddReal`
registers port, entry and position at once (131 to 141): a lookup reads only the
first map, and a removal that is under way changes neither this position, which
was free, nor, in the list, anything that the order of its last step and the
append would tell apart. The two reads of the node (200 and 201) are one, since
what is deleted does not come back. The operations of one map or vector are
atomic here: what a data race inside one would do is left out. `HashOf` is the
hash, a constant function; `MCBalance` has collisions of virtual nodes with
virtual ones and with a real one.

### ClientView
One client. `menu` is where `Run`, `StudentRun` or `TeacherRun` is, `view` and `pc`
where the view's `Process` is. `drawn` and `shown` are the set `st` and the number of
questions shown; each number drawn is a step, and one that was drawn before
changes nothing. Registration and login concern the types of the
accounts the server has (`users`); a request may fail, be carried out although its
answer says otherwise, or lose the server, which ends the client. The lists are
`mp1` (fields) and `mp2` (questions) with their age (`fresh`, one hour); logging
out keeps them. `OtherClient` changes the bank at any moment; the bank itself is
atomic here, since what replicas do to a listing is the subject of
`QuestionStore`. A listing is in the order of the 25 hashes (`TableOf`), and of a hash
in any order. `ListLost` is a failure that the server reports with `IM_OK`, which
the client parses as an empty list. `touched` is history.

### RedisPool, Importer
`RedisPool` takes the front connection, pings it, and loses it to the pool if it
does not answer; a command tries again once after a second; `Close` queues the
connection again, also one that broke under the command. `Importer` is the
program: a flush whose result nobody looks at, then for each question `exists`,
`hexists` on the field drawn first (`asked`) while new ones are drawn into `field`,
and `hset`, whose 0 (a field overwritten) counts as failure and ends the tool.
`Client` is a write of the server's users meanwhile.

## 3. Runs

| Run | Instance | Shows |
|---|---|---|
| `thread_pool` | 3 workers, 3 requests | order, exactly once, no lost wake-up, every request finishes; implements `TaskQueue` with its liveness |
| `server_patient` | 2 clients, 2 calls each, 2 workers, spurious wake-ups | the call is always in one place, no connection is closed under a client, every call returns with its own answer (`Rpc`) |
| `server_faults` | 2 clients, 2 workers, clients that leave, fragments, failing sends, phantoms with any command | answers go astray only after the server gave up the connection; at most one answer; one way only to a stale entry of `_cliInfo` |
| `stream` | each client program, 8 requests with numbers of 1, 2 and 10 bytes and zero and empty fields, 2 answers, 2 calls, pieces of any size | requests and answers arrive as sent up to the first zero byte, the connection stays in step, calls return |
| `user_service` | 1 id that is no key, 2 accounts, one of which the texts change, 2 workers, 2 connections, 1 context and the writer, 1 replica | the cache agrees up to the format; pool sound; implements `UserDirectory` through failures and restarts |
| `question_writes` | 1 key, 2 numbers, 2 contents, 1 replica, lag 1, 1 write unreported at a time | answers account for what is stored; no silent loss; the loop of line 231 turns only while its first field stays |
| `question_reads` | 2 keys, 2 replicas, lag 2, failing commands | listings hold what was stable and nothing that never was |
| `balance` | 2 servers, 2 virtual nodes, 2 threads, 2 clients, no death | servers are pinged, clients served |
| `balance_deaths` | 2 servers, 3 ports, 1 virtual node, 1 thread, 1 client, 2 deaths, numbers reused | ring and lists agree; the first death is noticed; deleted nodes are found only during a removal |
| `balance_churn` | 3 servers, registration during a removal | **violated**: entries that no list knows (see 6) |
| `client` | both roles, 4 fields of 2 degrees, 2 contents, draw 2, faults | lists, drawing and its end, deletion |
| `import` | 3 questions in 2 hashes of 3 fields, 2 connections, 2 writes of clients | stored once and in order; stops only if cut; ends or asks for ever |

**Why the bounds suffice.** Three workers are the fewest with two that compete for
a notification while a third runs. Two connections and two numbers give every
order of close, reuse and late answer between an old and a new owner of a
number. (The branch of `accept` without a free number needs more clients than
numbers and is not reached.) Two requests on one stream are the fewest that can run
together, and every way to cut them into pieces is taken; the numbers of one, two
and ten bytes are the three ways to write one. Two accounts of one id on two
workers reach the race of two registrations and the login between them; ids do
not interact. Two connections for two workers
give pools from full to empty, with a refusal for the second as soon as one
died. One replica of one context lags behind the master and breaks, is freed and
used again beside a writer that works; a second of each gives a worker nothing
but a choice between two states of one, since a handler reads Redis once. In
`question_writes` two numbers are the fewest with a new field beside the one asked
for, and one replica with a lag of one gives the check a past; `MaxLost` keeps the
writes that nobody was told of within one of the successes, so that they can be made
again and again. In `question_reads` two replicas with a lag of two show one
reader two different pasts. Two servers on colliding positions, with a third
port, register, die at any step of a lookup or a removal, and inherit numbers and
positions; a third server adds only a third position to the iterator, which
`balance_churn` has. `balance` needs no deaths: both its properties ask nothing of
a run once a server has died, so the runs without deaths are all they speak of.
Drawing 2 of up to 3 is the code's 5 of
many: the boundary is "more than Draws". Two questions of one hash make the second
meet the field of the first, and the third field leaves room for both and for a
client's. Bounds are named in the modules: `MaxCalls`, `MaxNumber`, `Buffer`, `MaxDeaths`, `MaxLag`,
`MaxLost`, `Draws`, `MaxOthers`.

**Deadlock** is checked except in the runs whose system stops by design: clients
that have all left (`server_faults`), servers and clients that all have connected
or died (`balance*`), a connection on which nobody makes another call (`stream`),
an import that is over (`import`).

**Fairness.** Threads are scheduled, so workers, the epoll thread, the heartbeat and
`DealClient` threads get weak fairness, and so does the rest of a packet under way
(TCP delivers it) and a live server's PONG. Weak fairness is enough everywhere: no
property says that a particular worker or `DealClient` thread gets the mutex,
only that some thread serves. In `stream` it is one condition on all that TCP, the
epoll thread, a worker and a waiting view do (`Work`); in `import` on the tool, a
program of one thread whose commands return. Nobody has to connect, call, die,
leave, break or restart. Replication is fair in `question_writes`.

## 4. Theorems

Each theorem holds for every value of the constants that satisfies the named
`ASSUME`s of its module, which TLC evaluates in the runs.

`ThreadPoolProofs`, any sets of workers and requests: `TypeCorrect`,
`FirstInFirstOut`, `OnceEach`, `WakeupsSuffice`, and `PoolIsAQueue` (every step is a
step of `TaskQueue` or a stutter). The inductive invariant is
`TypeOK /\ FifoOrder /\ NoneTwice /\ ServedOnce`: that a request is taken by one
worker needs that `tasks` has no repetition and nothing that was started, which
follows from order plus "nothing was submitted twice". `NoLostWakeup` is
inductive together with the type invariant.

`ServerProofs`, any clients, numbers, workers and faults: `ServerTypes`,
`EntriesGo`, `OwnAnswers`, `NoSecondAnswer`. The type invariant needs `CallMade` (what is unread was
sent by a call) and `FdToClose`. `EntriesGo` is `StaleOnlyByInsert`, which needs no
more than types: each step that closes a number also erases its entry, or leaves a
worker that will. `OwnAnswers`
rests on two facts: open connections have their own numbers (`OwnNumbers`), and a
task or a worker refers to a number that is still its connection's, unless the
server has released that connection (`WellAddressed`); `Moves` says what a step
may do to numbers, so that both survive the steps that close and reuse them.
`NoSecondAnswer` rests on: the requests in the list and with workers all differ and
have no response yet, and the responses differ. A packet can only add a new request
(`PacketIsNew`), since all that was appended of its connection has a smaller number
than its latest call (`Numbered`).

Three more theorems of `ServerProofs` assume `Patient`: the clients of `view.cpp`,
which wait for every answer and whose requests all have one, packets whose header
comes whole, and room for a response. Any spurious wake-ups are allowed.
`ConnectionsKept` and `CallsHaveOnePlace` say that such a call is lost nowhere, and
`CallsGetTheirAnswers` that the server then is the `Rpc` of its clients, but for
liveness. The invariant `PatientIInv` follows the call: it is in the inbox, or it
is the only request of its client in the list or with a worker, or its response is
the only one in the outbox (`ClientSide`, `ServerSide`, `NotForgotten`). Numbers
are closed by the epoll thread only, for clients that have left, while a number in
the batch or under `RecvBuf` keeps its connection (`OnlyEpollCloses`).

`UserServiceProofs`, first part, `UserStore` for any ids, accounts, workers,
replicas: `TypeCorrect`,
`RedisAgreesWithMysql`, `HandlersAreADirectory` (both with or without a key, and for
any `Kept` and `Cached`), `RepetitionsBounded` (without a key an id gets at most one row a
worker, by counting rows and workers past the check; `Threads` finite). The
inductive invariant is `TypeOK /\ CacheAgrees /\ InTheHandler`: between a confirmed
login and the cache write, the account the handler carries must be the first row
of its id, and stays so because rows are only appended.

Second part, `MysqlPool` for any threads and finitely many connections: `PoolTypeCorrect`,
`OneUserEach`, `NoneLeaks`, `EnoughForAll`. The invariant is
`PoolTypeOK /\ Exclusive /\ Conserved /\ RefusedOnlyWhenShort`. That a thread is
refused only when there are fewer usable connections than threads is a counting
argument: the refused thread saw the pool empty, so all usable connections were
held by the others; it uses the library's facts on cardinality.

Third part, the two together. What is proved of the parts is carried to the whole:
each way through the handlers takes the pool by steps of `MysqlPool`, a stutter or
a new start, so `ServicePool`; and whatever connections, contexts and restarts do to
the order of the handlers' steps, `ServiceCacheAgrees` and `ServiceIsADirectory`.

`QuestionStoreProofs`, any keys, numbers, contents, workers, replicas (finitely
many numbers and workers), any lag and any bound `MaxLost`: `AnswersCount`,
`NothingLostUnnoticed`, `ListingsArePast`. The invariant adds what a worker holds at
each place (`Handler`). The questions on the master are a finite set, to which a
write adds an element, takes one away, or neither; the worker that wrote owes an
answer from then on, and `NetStep` follows the number of those that do, whether the
answer is sent, lost, or dropped with the process. For listings the invariant follows
`index`: all that was stable in the hashes before it is in `rsp` (`ListedSoFar`),
and each replica holds what is stable and nothing that was not seen
(`HistoryKept`), also as it applies writes between two reads.

`BalanceProofs`, any servers, clients, threads, numbers, ring, hash and collisions,
with registrations and removals in any order: `BalanceTypeCorrect`,
`RingStaysAgreed`, `DeletedFoundOnlyWhileErased`. The last two speak of behaviours
until a registration and a removal overlap, as their properties do: section 6
shows that the claim fails after that. `TypeOK` alone is not inductive: an iterator is
dereferenced in most steps, so the invariant `IInv` also says that a list is never
empty and names positions of the ring, none of them twice (`Lists`), that what a
removal has left to erase is on the ring and in no other list (`Removal`), and
that a port in `serport` is that of one real entry (`PortsKept`). `RingAgrees`
speaks only of the moments when no change is under way; `Agreement` is what holds
in between: every server has one number, and an entry under a number belongs to
the server behind it (`Tables`, `Owners`) unless that is being removed
(`Orphans`), and every position is in a list or in the rest of the removal
(`Covered`). That `begin()` of a map exists for any map is the lemma `HasLeast`.

`ClientViewProofs`, any fields, degrees, contents and number of draws:
`ListsDoNotMix`, `DeletionByNumber`, `DrawsTheDegree`, `DrawingEnds`. The
invariant says that both the list and the reply on its way to it differ from the
bank only in fields touched since (`ReplyStaleOnlyIfTouched`), and that a number
chosen is in the list (`NumberInList`); drawing adds that what is drawn is a set of
numbers of the degree, as many as were shown, and that there are more than `Draws`
of them (`DrawnSoFar`). `DrawingEnds` is the safety half of termination (a new number
is always left); that `rand` meets it is probability.

`ImporterProofs`, any list of questions, hashes and fields, at most two
connections (the tool's number): `StoresTheList`, `OneBrokenConnectionIsNoReason`.
The invariant (`StoredSoFar`, `FieldIsFree`) places every question before the
current one in exactly one field, and says why the field of `hset` was free if it
was the one asked for; `PoolShrinks` counts the connections a broken ping costs.

`StreamProofs`, for any requests of the dialogs (every `int32`, every text without a
zero byte shorter than 1 MB), any answers whose `ret` is not zero, and any number
of calls up to `MaxNumber`: `RequestCarried` and `AnswerCarried` say of one message
what the other four say of a connection: `StreamTypeCorrect`,
`ConnectionStaysInStep`, `EveryRequestAsSent`, `EveryAnswerAsGiven`.

The first half follows a message. `VarintGroups` and `TenGroups` say which bytes
a number becomes, and that its size is what `ByteSize` added to the header;
`NumberIsRead` that these bytes, wherever they stand, are read as the number again.
A body is *laid* field after field (`Laid`); the parser's walk from field to field
(`Fields`) visits exactly these places, and the last one cut short leaves what was
set before. The first zero byte of a body lies in the encoding of the first field
that is zero or empty, so the C string is the laid body of the fields before it
and perhaps a tag. Recursive functions are characterised by their equation, after
showing that a function with that equation exists, and induction on numbers is done
with a set of counterexamples, which has no least element (`Descent`).

The second half is an inductive invariant (`IInv`), which TLC checked too. `Carried`
splits the requests at some place: tasks and handled requests are those before it,
and as long as the connection is open, what the server has not read is the
concatenation of the packets after it (`Joined`); `WithoutOverlap` says that without
overlap this is the last packet or nothing. `InTurn` has the order for the clients
that wait, with at most one request that is not handled, and `View` the same of the
answers on the way back. That `RecvBuf` cuts exactly one packet off a piece with
more in it follows from `PackLen` being the length of the first. The requests of
`test.cpp` differ by their ids, so for "each once" `Test` needs that the ids that are
read are those that were sent.

**Only model-checked:** liveness (the provers do not treat `ENABLED`), so
`LoopsOnlyIfStored`, `CallsReturn` and the other `~>` properties, and the liveness
halves of `ImplementsRpc` and `ImplementsTaskQueue`; `EveryEntryListed`, which does
not hold.

## 5. What is not modelled

* Destructors of `Sys`, `ThreadPoll`, `MysqlPool`, `RedisPool`: of singletons that
  nobody deletes, or at the end of the program.
* `SIGPIPE`: nobody masks it, so a send to a reset connection ends the process;
  the models take the error return for which the code is written.
* Data races inside one operation on a `std::map` or `std::vector`: steps are whole
  operations (`_cliInfo`, the three containers of the balancer).
* What the texts of accounts and questions look like: see `UserStore` and
  `QuestionStore` for what formats and quotes do to them.
* The overflow of `count` after 2^31 requests (`control.cpp` 67: the index would be
  negative) and the search for a free port when all are taken (`balance.cpp` 106).
* Buffers of 1 MB (a listing that does not fit, `control.cpp` 20) and the 1000
  rounds after which `RecvBuf` gives up.
* A descriptor shortage in `server_patient`: with more clients than numbers a
  client waits until another leaves.
* `HeartRate` of the server (`sys.cpp` 24) ignores errors of `recv` and `send`, so it
  spins when the balancer is gone; a live server's PONG is an action of `Balance`.
* What an `astray` connection yields (`Stream`); unknown fields and groups in a
  message, which no program here writes; the padding of the header, never read.
* `IMQuestionMsg` and the merging, arena, reflection and descriptor parts of the
  generated code: not used. Of `redis.cpp`, lines 1 to 324 are under `#if 0`, and
  `ReConnect` needs an answer to PING other than PONG.
* `jia.cpp`, `socket.cpp` (experiments), logging, scripts and configuration. The
  replication that is configured there is the external part of the stores.

## 6. Finding

`balance_churn` violates `EveryEntryListed`. `timeout_cb` removes the positions it
finds in the list of a lost server, then clears and erases the list (lines 216 to
229), without a lock. `DealServer` may still be appending to it: because the
server was lost during its own registration (TLC's trace), or because line 215 had
closed the number and a new server got it. What was appended meanwhile stays in
`data` and no list leads to it, against the comment at `balance.cpp` line 5: the
heartbeat cannot remove these positions, and clients go on being sent to them.

The passing runs allow the overlap too; what `RingAgrees`, `FirstDeathNoticed` and
`DeletedFoundOnlyInRemoval` promise ends with it (`overlapped`). Servers register
after others died, with their numbers, and die during their registration.

## 7. Plan

Done, in this order of importance: `ThreadPool`; `Server`; `UserStore`,
`MysqlPool` and their composition `UserService`; `QuestionStore`; `Balance`;
`ClientView`; `Wire` and `Stream`; the import tool; and the proofs of section 4.

Left, in order of what it would add:
1. `ClientView` over `QuestionStore` in place of its atomic bank, so that a list
   is of several pasts at once.
2. `InsertQues` over Redis contexts that break, as `UserService` has them for the
   user handlers.

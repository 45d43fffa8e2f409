# Formal model of nekoq-component

TLA+ modules of this repository's own core logic, the TLC configurations that
check them on small instances, and TLAPS proofs of the properties that matter
most for every instance. Paths are relative to the repository.

Contents: [the system](#the-system), [the modules](#the-modules),
[the runs](#the-runs), [the proofs](#the-proofs),
[deviations](#deviations-from-the-documents), [what is left out](#what-is-left-out),
[the plan](#the-plan).

## The system

`nekoq-component` is a set of Go components. Its centre is a configuration
service: rows in PostgreSQL, any number of stateless-looking servers that keep
all valid rows in memory, and clients that long-poll a server.

    write API --> DatabaseDataWriter --> table `configuration` (PostgreSQL)
                                               |  sequence > last
                                         DatabaseDataPump (one per server)
                                               |  dump channel, EventChannel
                                         server.pumpLoop --> selectors stores
                                               |  notify channels
    client.processLoop <-- POST /retrieving -- handleRetrieveAndListen
          |  callbacks
    ConfigContainer

Beside it stand an identifier generator, the write-ahead log of a replication
design, stores over etcd and bbolt, a secret service (keys in two levels,
certificates, tokens) and HTTP adapters.

| Component | State | Operations | What is hard |
|---|---|---|---|
| Data writer (`configure/cfgimpl/datawriter.go`, `ddl_pg.sql`) | the table, `cfg_seq`, advisory lock -1000, open transactions | SaveConfiguration, DeleteConfiguration | numbers drawn before the commit, concurrent first inserts, bounded retries, aborts anywhere |
| Data pump (`configure/cfgimpl/datapump.go`) | `updateScanId`, the page in hand, the pool, two channels | Startup, TriggerDumpToChannel, scanLoop, Stop | paging over a table that moves, errors that are not seen, Stop against a send |
| Server, read side (`configure/configserver/server.core.go`, `server.go`) | stores per selectors and optional selectors, listeners, notify channels, `rwlock` | RetrieveOrWait, handleRetrieveAndListen, GET, pumpLoop, Shutdown | lost wakeups, channels that close, timer against notification, stores that come into being |
| Server, write side (`server.write.go`, `server.go`) | none of its own | saveConfiguration, deleteConfiguration | which answer stands for which outcome |
| Server, process (`server.go`, `server.core.go`, `http/stdserver/server.go`) | the pools, the servers that listen, what has been applied | Startup (dumpFromPump, the write API, the read API), pumpLoop, Shutdown | starts and stops that fail half way, restarts beside writers, who waits for whom |
| Client (`configure/configclient/client.go`, `client.adv.go`) | requests and their versions, `lockRequests`, `c.lock`, containers | StartClient, processLoop, Register, StopClient | servers of different progress, Register beside a long poll, what "loaded" means |
| Identifier generator (`utility/idgen/id.go`) | `time`, `seq`, a mutex | Next, NextN | clock read before the lock, clock set back, int32 limit |
| Write-ahead log (`db/alpha/replication/wal.go`) | the file, `currentPosition`, `writeQueue`, `rwlock` | Startup, Write, WriteLoop, Shutdown | restarts, torn records, a WriteLoop that outlives Shutdown |
| etcd store (`db/consistent/etcd/etcd.go`) | keys and leases in etcd, the leases a process keeps alive, watch goroutines | Acquire, Leader, WatchFolder, Set, SetIfNotExists, Del | leases that expire between two steps, repeated Acquires, changes between the watch and the first reading |
| bbolt store (`db/simple/bbolt/bbolt.go`) | a table in a file | Put, Get, Del, ... | none: one library transaction a call |
| Key storage (`configure/secretimpl/secret.pg*.go`) | tables `secret_level1`, `secret_level2`; per process, whether it is unsealed | unseal, store, load by name or id | versions read outside the transaction that uses them, several processes that initialize one store, keys rotated under a call |
| Certificates, tokens (`secret.pg.cert.go`, `secret.pg.jwt.go`, `secretaddon`, `permissions`) | table `secret_cert`, `cert_id_seq` | save, load, climb a chain, sign, verify, match permissions | rotation of an authority or its key while a certificate is issued or a token lives; the bounded climb |
| Secret server (`configure/secretserver`) | none of its own; clients hold tokens | handlers that make keys, certificates, tokens | several reads of the store in one request; tokens that ask for tokens |
| General client, commands, chi adapters | none worth a model | calls | none |

What makes each correct, and where it is stated:

* writer: sequence numbers are committed in order and are distinct, one insert
  at a time, every call returns, a saved configuration is valid;
* pump: no committed change is skipped, changes arrive in order, nothing is sent
  on a closed channel;
* server: no listener outlives its request, no wakeup is lost, channels are large
  enough, no send on a closed channel, the shutdown ends with all requests;
* the server's process: what it answers follows the committed changes without gaps,
  over restarts, is complete from the first answer on, catches up with writers;
  Shutdown returns and leaves nothing that listens;
* client: it is "loaded" only with everything, containers hold what it claims,
  it converges to the newest version, it stops;
* generator: identifiers are distinct and grow;
* secret store: each name is a sequence of versions of which the last alone is
  valid, what a key or certificate names as its parent is what encrypted or
  signed it and is there, an unsealed process can use what the others store,
  every call returns;
* secret server: a token is accepted while it lives, jwt.admin comes from jwt.admin
  only, unless somebody was answered a key that signs tokens; a certificate comes with
  the whole chain of its issuer and is fetched with the same chain and the key that its
  request named;
* etcd store: whom Acquire made leader, by the lease its process keeps, is the
  leader; a leader that is gone does not block the key; the receiver of a watch ends
  with what is there;
* log: positions are in order and distinct over restarts, what was acknowledged
  is in the file and is covered by `CurrentPosition`, writes return.

## The modules

Each module names the code's functions. Locals become fields of a per-goroutine
variable, an unbuffered or lock-protected section becomes one step, everything
that another goroutine can see in between is a step of its own. Definitions
introduced by the words "Mutant of" are plausible bugs, not used by the
specifications: each shows that a property can fail.

**ConfigStore** - `table`, `cfgSeq`, `lock` and, for every writer, `tx`: the call it
executes. A step is one SQL statement. PostgreSQL is modelled by what the code
relies on: READ COMMITTED, a unique index on the key and one on `sequence` (an
insert with the placeholder 0 waits for a transaction that holds one), a
sequence that never goes back, `pg_try_advisory_xact_lock` released at the end
of the transaction. `SaveLookup`, `SaveInsert`, `SaveUpdate`/`SaveBusy`, `Commit`
are SaveConfiguration in order, `Delete`/`DeleteNothing` the single statement of
DeleteConfiguration, `Abort` any statement that fails. `cfg_status` is kept by
`UpdatedRow` as the statement keeps it. `Version` stands for the whole value.

**DataPump** extends ConfigStore with one server's pump: `dumper`
(TriggerDumpToChannel), `scanner` (scanLoop) and the pool. A query sees the
committed table; `Pages` is what `queryConfigurations` may return, including, with
the fault "truncate", fewer rows than there are, since nothing asks `rows.Err()`.
`delivered` is what the server has received. `cut` is a history variable: the dump
took a query whose rows stopped coming at the first for the end of the records.
The writers' steps interleave with the pump's.

**ConfigReplica** extends DataPump with the rest of the server's process: `proc` is
where it is in ConfigureServer.Startup (`Boot`, `CoreStarted`, `StartWriteApi`,
`StartReadApi`) or Shutdown (`StopWriteApi`, `StopReadApi`, `StopPump`, `CoreStopped`),
`open` the endpoints that listen, `held` the combined servers that the process has
kept, for StartCombinedStdHttpServer may fail after its first server listens.
`DumpFromPump` saves what the dump sends, `Deliver` is the meeting of scanLoop and
pumpLoop on the unbuffered channel, `ApplyBatch` what pumpLoop does under `rwlock`;
`served` is what the stores have been told of each configuration. `Die` is the end of
the process: after main, by a panic (Stop of a pool that was never made), or by a
`Crash`. A write is one step there (`WriteStep`): that the statements of ConfigStore
amount to that is `CommitsAreWrites`, checked and proved. The requests are
ConfigServer's.

**Follower** is what one server promises whoever reads from it, as an abstract
specification: `Publish` a change, `Follow` some of them, never back and never leaving
a gap (`Prefix`), `Reload` while nobody can ask, `Open`. ConfigReplica is shown to
implement it with `truth` and `view` the sequence numbers in the table and in
`served`, `listening` when the read API listens. It is also what ConfigClient takes
its servers for.

**ConfigServer** - the stores (`data`, `listeners`), the handlers' goroutines (`pc`
and their locals), the notify channels (`sent`, `closed`), and pumpLoop, which
holds `rwlock` from `PumpLock` to `PumpUnlock` and applies one event a step.
`NotFound`, `ReplyNow`, `NoUpdateYet` are f1; `NotFound`, `ReplyNow`, `Register` are
f2; `Receive`, `TimeOut`, `Respond` the handler's select and its reading loop;
`Cancel` the deferred cancel function. `Lookup`, `Created` are the two methods of
`selectorsMap`. A batch is any events (DataPump is the module about which ones
come), at most `BatchSize`. `dedupFn` of pumpLoop leaves the events as they were
and is left out. A panic in pumpLoop ends the process: `crashed`.

**ConfigClient** - `loop` is processLoop, which holds `c.lock` in "wait" and "apply";
`caller` the goroutines in Register; `known` what each server has. A server
answers as ConfigServer does: 404 for anything unknown, 200 with all that is
newer, otherwise it keeps the request until the first change or its timer.
Servers only learn higher versions of a configuration but learn them in their own
time and may lose it ("delete"); requests may fail ("network").

**IdGen** - an identifier is the pair (millisecond, sequence number). Reading the
clock, entering the lock and the end of tillNextMillisecond are steps. int32
wraps (`Wrap`) at `MaxInt32`, also the ends of the range that NextN passes to
makeIdRange: an end at the greatest int32, or more numbers than were asked for, runs
beyond the result and panics after the fields were set (`Overruns`): the call hands out
nothing. The zeroes left in a result that the range does not fill are identifiers that
were handed out. `ranged` is a history variable: NextN was called.

**Wal** - the file is a sequence of records. `WriteLoop` is split at the file's
Write (`Begin`, `WriteFile` or `WriteFileFails`, `Commit` or `AnswerError`). `Startup`
reads the last position as `readLastPos` does; after a torn record, which it does
not detect, it may read anything or refuse (`Misread`). `Reopen` is a new Wal on the
files after Shutdown, which does not end the old WriteLoop: what that has begun to
write may still reach the file, or fail (`OrphanWrite`). `damaged` is a history variable: a
record was torn, or two Wals wrote.

**SecretStore** - `rows` holds the three tables of `ddl_pg.sql` as the committed rows
of each name, `call` what each caller (a request of one server process) executes.
The steps are the SQL statements in order, those of a transaction visible to
others when it commits: `StoreLevel1KeySet` (its query), `Insert`, `Archive`, `Commit`;
`StoreLevel2KeySet` (LoadLevel1KeySet), `ReadVersion`, then the same; `StoreL2DataKey`
(its query), `LoadLevel1`, then the same; `SaveCA` or `CreateCert` with `LoadCAKey`,
`OpenKey`, `ReadCertVersion`, then `Archive`, `Insert`, `Commit`, for saveInternal
retires the older rows first. `ReadToken` and `WriteToken` are
SetupUnsealProviderAndWait. An insert waits for a transaction that holds the same
entry of the unique index and fails if that commits; an update waits for the rows
another transaction has updated. Abstracted: a name and a version stand for
key_id or cert_id (a name is of one table); an encrypted or signed content is the
reference `by` to the key that was used; expiry and times. Left out: the chain
above the issuing authority and the managed key of an end user's certificate, which
SecretServer has.

**SecretServer** - the handlers over that store, whose calls are steps here: that the
rotating ones are atomic is what SecretStore shows. `tokens` are those answered and
not expired, each with the key it names (`kid`) and the one it was signed with (`by`);
`handed` is a history, the keys that were answered. A request carries a token that was
`Presented`: one that was answered, or one that a client signed itself, with a key that
was handed out or one the server does not have, naming any key of the server's and
claiming anything (`SignedOutside`). `ValidateJwtToken` is the validator in front of the
handlers, the set of tokens it lets through: `VerifyJwt` and `VerifyPermissions`. `Signs`
and `Checks` are the two tables of algorithms in `addontool.go`.
`JwtManageCreateAdminJwt`, `JwtManageCreateNewJwt`, `KeyManageGenerateNewKey`,
`KeyManageGetKeyById`, `KeyManageGetKeyByName` are handlers of one storage call each;
`call[c]` is a request in progress: `CertManageCreateCert` with `LoadCertByName`,
`LoadCAKey`, `RetrieveCerts` (one parent a step), `NextCertSerialNumber`, `SaveCert`;
`CertManageGetCert` with `LoadCertChainByName` (one parent a step), `LoadCertKey` and
`AnswerCert`, which hands out the key.
Authorities are made by programs over the storage (`MakeAuthority`), as no handler
does it, also authorities of authorities. `line`, `from` and `told` are histories:
whether all tokens that led to a token carried jwt.admin; which key the first of them
named, `None` for the bootstrap token; and the ca_list that was answered with a
certificate. `key_id` is that of any stored key that can sign, or left out, whatever
the certificate request that comes with it: the code does not compare the two, so the
model has no key of the request, and newreq, which changes nothing, is no action.
Types of keys are fixed for each name.

**Rotation** is what SecretStore promises, as an abstract specification: for each
name a sequence of versions, and one action, `Rotate`, that retires all of them and
appends a valid one of the same kind. SecretStore is shown to implement it with
`ring[n]` the rows of `n` in the order of their versions.

**EtcdClient** - each call of etcd is a step of `call[n]`, the Acquire that a node
executes: the first read (`SeesLeader`, `SeesNone`), `Grant`, the transaction
(`PutIfAbsent`), the second read (`ReadsOther`, `ReadsItself`), `KeepAlive`. `Fails` is
an error at any call, and after one a lost answer; `Crash` ends a process, which
then keeps no lease alive. etcd itself is `kv`, whose keys may be bound to a lease,
the leases, which may expire when nobody keeps them (`Expire`), and the stream of a
watch. `leads` and `secure` are history variables: the keys a node's last Acquire
answered with the node itself, and those among them that were bound to a lease the
node kept. WatchFolder is `StartWatch`, `Fresh` and the goroutine (`Forward`); `Receive`
is its caller, which keeps the set of keys. A folder is all keys; the keys that
nodes acquire are written by nobody else, and one by one client at a time (a
process whose leases expired though it still kept them, by a partition, is left out).

**MC\*** give the constants of a run; **\*Proofs** hold theorems.

## The runs

Every property has a mutant: a definition of the model changed the way a
bug would change the code, with which the run's property fails.

| Run | Instance | Properties |
|---|---|---|
| MCDataPump | 2 keys, 2 writers, 2 attempts, 3 sequence numbers, pages of 2, all faults | PendingAboveCommitted, OneFreshInsert, NoMissedChange, NoSendAfterStop, CommitsAreWrites, DeliveredInOrder, CallsReturn |
| MCConfigReplica | 2 keys, a table with up to one change and 2 more, 2 starts, pages of 1, batches of 2, the read API with TLS, all faults | StartsComplete, SilentAfterShutdown, Follows, ReplicaCatchesUp, ShutdownReturns |
| MCConfigServer | 2 configurations, one optional selector, one request for up to 2 of them, batches of 2 | NoStaleListener, ListenerUpToDate, ChannelSuffices, UpdatesWake, ShutdownEnds |
| MCIdGen | 2 goroutines, int32 limit 2, NextN of 0, 2 and 3, clock back and forth, 4 identifiers | Unique, Increasing, EarlierAreSafe |
| MCConfigClient | 2 configurations, one registered late, 2 servers, 2 versions | LoadedIsComplete, ContainersCurrent, Converges, StopEndsLoop |
| MCSecretStore | 2 processes, the second with one unseal key more; one name of each kind; 2 rotations begun of each, 1 of the certificate | Rotations, EveryKeyOpens, IssuedByCA, UnsealedOpensToken, SecretCallsReturn |
| MCSecretServer | one key of two versions, one root, two authorities, one name of certificates, 2 callers, 3 tokens, 4 serial numbers, a climb of 3 levels | TokensVerify, AdminDescends, ChainsComplete, FetchedFits |
| MCEtcdClient | 2 nodes, a key to lead and another, 3 leases, a channel of 1, all faults | SecureLeads, MirrorFollows, LeaderFreed |
| MCWal | 3 calls, a queue of 2, opened 3 times, all faults | LogInOrder, CurrentCoversAcks, AckedIsLogged, WritesReturn |

What they show, and why the bounds are enough:

* *Store and pump.* Two writers are needed for one to hold the lock and one to be
  refused or to wait with an insert; two keys for the unique index on `sequence` to
  matter and for a row to move out of a page's window between two queries. `MaxSeq`
  bounds the numbers drawn; a call starts only while one is left.
* *Process.* The table has been written to before the first start (`OldSeq`), and two
  starts let a process come up on what an earlier one has served. A page of one makes
  dump and scan read more than one, a batch of two merges events of one key. `Writer`
  is empty: writes are whole.
* *Server.* One request suffices: requests only meet in the stores, and what holds
  for any number of them is proved. Two configurations are the least that a request
  can be notified of one by one; two events a batch give batches that notify twice.
* *Generator.* A limit of 2 makes every boundary reachable within a millisecond, and
  NextN of 2 or 3 wraps: to an empty range and, at the least int32, to the panic.
  `FewIssued` stops at states where more than four identifiers were handed out; the
  proofs have no such bound.
* *Client.* Two servers with two versions are the least that can take a client
  back. The late registration meets the long poll, which may fail or be answered while
  the client is suspended or stopped.
* *Secrets.* Two concurrent calls meet at every statement; two versions of the key,
  the authority and its key suffice for a call to hold a reference that is no longer
  the newest. `MaxVersion` bounds the rotations that begin, so that two calls begun
  together can still go one beyond. The proofs do not use the bound.
* *Tokens and certificates.* Four serial numbers make a chain as long as the climb
  allows and one longer, or a shorter one whose authority is rotated under a request.
  Three tokens make a series of requests, and both versions of the key may be handed out
  before any of them. `TokensOrCerts` keeps the two halves, which only meet in a permission
  and in the keys handed out, from multiplying: with certificates there is one token, and
  the run stops where a key is handed out. The proofs have no such bound.
* *etcd.* Three leases let a node acquire again while the lease of its first Acquire
  is there, and another node with it. `MaxLease` bounds the leases granted, `MaxBehind`
  the stream while others write; a channel of one is full at once.
* *Log.* Two records and a failing third, over two restarts.

Fairness. *Store*: statements return, and the database's queue of a lock does
not overtake a waiting insert for ever (strong fairness on `SaveInsert`). *Process*:
the goroutines of pump and server and the steps of Startup and Shutdown run, and a
query that finds rows succeeds now and then (strong fairness on `ScanFindsRows`):
without it a database that fails every query, which the loop retries for ever, would
count as a counterexample. pumpLoop polls every 500 ms and scanLoop parks on the
channel, so one is received once it is sent. *Server*: goroutines run; Go's RWMutex starves neither readers nor
writers although pumpLoop takes it again and again (strong fairness for what
needs the lock); batches are finite; timers fire, which `ShutdownEnds`, which
needs it, states as a premise (`TimersFire`). *Client*: a round ends, for the server's
timer ends a long poll; Go's mutex hands over to a waiter (strong fairness on
`AddConfigurationRequirement`); requests get through now and then. *Secrets*:
statements return, and one that waits for a row or an index entry is not overtaken
for ever (strong fairness on the steps of a call). *etcd*: a lease that nobody
keeps expires; nothing else is fair. *Log*: WriteLoop runs, those of
earlier Wals included. *Tokens and certificates*: no liveness is
claimed. Nothing is fair about writers, callers, faults, Stop or events.

## The proofs

Eight modules, checked by TLAPS for every value of the constants that satisfies the
assumptions named in the modules: that sets the code tells apart are disjoint
(`NobodyAssumption`, `NoOptAssumption`, `NamesAssumption`, `TypesAssumption`,
`ProviderAssumption`, `ValuesAssumption`, the two `KeysAssumption`, `CallAssumption`,
`ApisAssumption`, `CfgAssumption`), that sizes and bounds are positive (`BoundAssumption`,
`PageAssumption`, `BatchAssumption`, `ReplicaAssumption`, `IntAssumption`,
`CountAssumption`, `VersionAssumption`, `LeaseAssumption`, `BufferAssumption`,
`QueueAssumption`, `BoundsAssumption`), and which faults and clocks there are
(`FaultsAssumption`, `LifeFaultsAssumption`, the two `FaultAssumption`, `KindsAssumption`,
`ClockAssumption`). Every safety property of a passing run is proved, invariants, action
properties and both refinements. Each component has an inductive
invariant, a theorem of its own, from which the others follow.

**ConfigReplicaProofs** has three parts, for the server is three modules in one process.

* *ConfigStore* - `StoreInv` says that a transaction in "commit" holds the
  lock and the last number drawn, that all committed numbers are at most the last
  one drawn and distinct, and that one transaction at most inserts. The lock alone
  does not give `PendingAboveCommitted`: that the pending number *is* the last one drawn
  does. `WritesAreAtomic` says that the commits are whole writes of a row that was there
  or of a new one, each with a number above all the others; it needs `ImageInv` besides,
  that the row a transaction is about to commit is still the write it would make of the
  committed row, which nobody else changes while it holds the lock. `VisibleStep` is the
  fact that the pump rests on: a row that changes gets a number above all the visible ones.
* *DataPump* - first, a step of the pump's specification is a step or a
  stutter of the store's (`NextIsStoreNext`), so the store's invariant carries
  over. `NothingMissed` then rests on a cover invariant with one clause for each
  place of the two loops: rows up to the mark are delivered as they stand, those
  between the mark and the page's end are delivered or still in the page. A
  writer's commit moves its row above every mark (`VisibleStep`), so it disturbs
  no clause; `PageFacts` says that a page, even a truncated one, is a prefix of the
  window. `InOrder` needs only that what is in the page is above what was
  delivered; `ScanStopsInTime` that the scanner holds a connection while it sends.
* *ConfigReplica* - `ReplicaInv` adds to those two invariants what the process keeps:
  nobody asks before the dump is drained (`ProcInv`); what listens without being known to
  the process is the HTTP server of one API at most (`OpenInv`); what was received is in
  the stores or in the batch, whose last event about a configuration decides
  (`BatchInv`); the stores are behind what was received, and that behind the table
  (`BelowInv`); what is shown (`ShownInv`); and what readers see has no gaps (`ViewInv`),
  which is not inductive without the rest. `LastDecides` needs the last event of a batch,
  a maximum: `LeastNatural` gets it from the well-foundedness of the numbers, which takes
  no operator as a parameter. `ServerFollows` proves the refinement: `WriteMaps`,
  `ApplyMaps`, `DumpMaps`, `CutMaps`, `DieMaps` map a commit to `Publish`, a batch to
  `Follow`, a dump, a cut and an end of the process to `Reload`; every other step stutters.

**ConfigServerProofs** - `ServerInv` ties each listener to its request (the store
in `at`, the key in `keys`), says that what was sent is of keys without a
listener, and that a closed channel is not empty. `EarlySteps`, `LateSteps`,
`PumpSteps` show that the three groups of actions preserve it. `SingleKeysAreSafe`
adds the assumption `MaxKeys = 1`, which `MCServerPanic` shows to be needed.

**ConfigClientProofs** - `ClientInv` says that what is asked for does not change while an
answer is awaited or applied, so the answer covers all of it (`RoundInv`): processLoop
holds the lock that Register needs. `StartupIsComplete` and `ContainersFollow` rest on
that and on the fact that an answer has one version of a configuration. `RegistersResume`
says that overlapping calls of Register never leave the client suspended.

**IdGenProofs** - `GenInv` bounds all identifiers by (`time`, `seq`): with Next
alone a new one is above the bound (`FreshId`), hence new and larger. With NextN no
identifier is beyond `time` (`ReachedInv`), for a goroutine that spins keeps the others
out (`SpinInv`): what is handed out twice is of the current millisecond
(`RepeatsAreRecent`), whatever the counts and wherever the sequence number has wrapped,
for the ranges are those of the wrapped numbers (`WrapInInt32`).

**WalProofs** - `WalInv` says what WriteLoop has in hand (`LoopInv`) and, until a write is
torn or a Wal overtaken, that all records are whole and at most at the current position,
but for the one about to be committed (`IntactInv`). `NothingTwice` says that no call of
Write is in the file twice: by `PlaceInv` a waiting call is in the queue, with WriteLoop
or with an earlier Wal's, and in one of them, and by `AnsweredInv` one that is in the
file is answered or about to be.

**EtcdClientProofs** - `LockInv` says that a lease is held (kept, or granted to a
call in progress) by one node, whose name is the value of every key that is bound
to it (`LeaseInv`), and that a `secure` key is bound to a lease its node keeps
(`SecureInv`). Such a lease does not expire, and the transaction puts only where
nothing is, so the key stays. `MirrorInv` is about WatchFolder: of each key the latest
event on its way, in the channel or the stream, says whether it is there, and what no
event mentions the receiver knows (`Agrees`, `Knows`). `FreshAgrees` and `Joins` carry this
over the read of the folder, whose result is put between events that it may already have
in it.

**SecretStoreProofs** - `SecretInv` says that the versions of a name have no gaps
and only the last is valid (`VersionsInv`); that a call's version is stale or the
next one, and that of a call with an uncommitted row is the next one (`NumberInv`);
that a call about to commit has retired all lower versions; that no two callers
hold uncommitted rows of one name (`PendingApart`); and that what a call holds as
references is in the store (`ReferenceInv`), which stays true because rows are
never removed. None of the properties is inductive without these. The steps fall
into those that only read (`ReadingGood`) and those that add one row: `CommitGrows`
and `TokenGrows` show these to be `Grow`, and one lemma each says what `Grow`
preserves. `StoreRotates` proves the refinement: the initial rows are empty
rings, `Grow` is `Rotate` (`GrowRotates`), every other step stutters. `NoDeadlock` is
the safety half of `SecretCallsReturn`: chains of waits for index entries and row locks
(`WaitsFor`) end after two, because row locks are held at the end only (`LocksInv`).

**SecretServerProofs** - `ServerInv` says that a token names the key it was signed with
and descends from the bootstrap token or from one that names a key handed out
(`TokenInv`, `Descends`): a token that a client signed is let in only if the key it names
is the one it was signed with (`LetIn`); that a certificate's number is unique and its issuer there, and that the
chain answered with it leads from a root (`RowInv`); that the newest version of a name is
the number of its versions (`VersionInv`), so that the library's facts about cardinalities
give each new one the next number; and what each request has learnt at each of its calls
(`CallInv`): the chain that `RetrieveCerts` has climbed ends in the authority that signs,
and a number drawn is nobody else's. Rows are never changed or removed, so what was
learnt stays true through any rotation in between.

Only model-checked: the liveness properties (`CallsReturn`, `ReplicaCatchesUp`,
`ShutdownReturns`, `UpdatesWake`, `ShutdownEnds`, `Converges`, `StopEndsLoop`,
`WritesReturn`, `SecretCallsReturn`, `LeaderFreed`), for fairness and ENABLED are out of
TLAPS's reach. Types are part of the inductive invariants and so proved; where no run
checks them the theorem stands alone, as for `SequencesDistinct`, `WrittenOnce`,
`Suspended` and `NoCircle`. TLC found no error in the last three on the instances of
MCWal, MCConfigClient and MCSecretStore either.

## Deviations from the documents

Three runs expect a violation.

* **MCStoreSavedValid** - a deleted configuration that is saved again stays deleted:
  `updateConfiguration` (`datawriter.go:182`) leaves `cfg_status`, and the call answers
  200.
* **MCServerPanic** - a request for two configurations, notified of one, is still
  registered for the other until it cancels; a batch that comes first makes
  pumpLoop send on the closed channel, and the process ends
  (`server.core.go:374`). The answer is written before the cancel function runs,
  so a slow reader makes the time long.
* **MCReplicaDeleted** - the dump hands over deleted rows as well as valid ones, and
  `dumpFromPump` saves each without a look at `Deleted` (`server.core.go:166`): a server
  that starts after a deletion answers with the deleted configuration, until somebody
  saves or deletes it again.

Others that the models show, without a run of their own:

* A request waits in the default store, the store of its optional selectors comes
  into being with a newer version, and it times out with 304
  (`server.core.go:99`), though `ConfigureDesign.md:165` says "no update".
* Acquire by the node that holds the key already, after a restart or a lost
  answer, answers success, but what it keeps alive is a new lease that the key is
  not bound to: the key goes with the old one (`etcd.go:120`; `consistent.go:19` says
  "Acquisition success: parameter string == response string"). `SecureLeads` is about
  the others. Each repeated Acquire also leaves one more lease kept for ever.
* WatchFolder's goroutine never ends and does not close its channel: `break` leaves
  only the `select` (`etcd.go:57`).
* A configuration that is deleted and saved again while a request waits for it
  does not wake the request (`server.core.go:385`; intended for deletes by Note 2
  at line 41).
* Once a store of optional selectors exists, configurations that only the
  default store has are unknown through it (`Lookup`), although the default
  record is called a MUST (`ConfigureDesign.md:128`).
* An answer may carry a version below the requested one: SaveConfiguration does
  not compare versions and the save of an event notifies whatever its version.
* DELETE answers 404 when the advisory lock is busy (`DeleteNothing`).
* `Next` may return ErrClockBackward without the clock going back: it reads the
  clock before it takes the lock (`id.go:139`).
* The dump may take a connection that fails for the end of the records (`cut`),
  and asks a lost connection for ever (`ReplicaCatchesUp` states both exceptions).
* Rows that are updated during the dump move above its last id: until the first scan
  the server answers 404 for them (`StartsComplete` is about the others).
* When the HTTPS server of an API cannot be started its HTTP server goes on listening,
  also after Shutdown, for StartCombinedStdHttpServer's result is dropped with the
  error (`stdserver/server.go:211`; `SilentAfterShutdown` states the exception).
* Shutdown after a Startup that failed before a pool was made panics: Stop calls Close
  of a nil pool (`StopWriteApi`, `StopPump`).
* Register panics when another Register has resumed the client that it had suspended
  (`client.adv.go:44`).
* Certificates with ten or more above them can be issued, since recursiveRetrieveCerts
  has no bound, but never fetched (`secret.pg.cert.go:183`; `FetchedFits` states the bound).
* `SecretDesign.md:79` asks for `manage:jwt.new`; the code knows `write:jwt.new` only
  (`permissions/secret.go:8`).
* The ca_list of a new certificate is root first, that of a fetched one issuer first.
* NextN repeats identifiers within a millisecond (its FIXME): `Unique` is about
  Next alone, `EarlierAreSafe` about what NextN leaves intact. When the sequence number
  wraps to the least int32 it panics (`id.go:121`, `Overruns`).
* A key of the secret server that signs tokens can be fetched with key.admin, which jwt/new
  grants, or come with a certificate, and whoever has it can sign a token with
  jwt.admin: "except JwtAdmin" (`controller.jwt.manage.go`) is about what jwt/new signs.
  `AdminDescends` states the exception.
* `key_id` is not compared with the certificate request (`controller.cert.manage.go:63`,
  `:203`): `FetchedFits` is about the key that was named, which may not be the one
  that the certificate certifies.
* A certificate may be signed with a key that has been retired since
  (`KeyById`), and a level 2 key stored under a level 1 key retired since
  (`StoreLevel2KeySet`): both are `1-decrypt_only` by then (`ddl_pg.sql:17`), and
  `secretapi/store.go:153` says that LoadL2DataKeyById is for decryption only.
* StoreLevel1KeySet takes a failed query for an empty result
  (`secret.pg.go:149`): the unique index then refuses the insert.
* CertManageCreateCert does not look at CreateCertificate's error
  (`controller.cert.manage.go:187`), which is outside the models, and SignJwt returns ""
  without an error when it fails (`secret.pg.jwt.go:22`): the answer is 200 with an
  empty token (`SignJwt`).
* A torn record or a second Wal breaks the order of the log (its FIXMEs and
  `Doc.Readme.md` list corruption handling and safe shutdown as undone).

## What is left out

Loss of what the operating system has not written (the log never syncs),
rotation of log files (the code has none), the content of selectors, values and
signatures, HTTP decoding and headers, logging, waiting times. The components
marked `not_modelled` in PROJECT.json, each with its reason: most hold no state,
or are cryptography and encodings whose promises are those of their libraries.

Not modelled, and why more modelling would say little: selectors and signatures of
configurations are string work without steps; the environment client starts a
client and reads variables; bbolt is one library transaction a call; the replication
is a stub; the general client calls handlers one after the other. The secret server's
Startup and Shutdown are two combined servers, whose partial start ConfigReplica has.

## The plan

Modules in order of importance; those above the line exist.

1. ConfigStore, DataPump and their proofs: what the whole service rests on.
2. ConfigServer and its proofs: the concurrent heart of the server.
3. ConfigReplica and Follower: the process over restarts, and its promise.
4. IdGen and its proofs; ConfigClient; Wal.
5. SecretStore, the abstract Rotation, and the proofs, the refinement included.
6. SecretServer: tokens and certificates.
7. EtcdClient and the proofs about Acquire and WatchFolder.
8. The proofs about ConfigReplica (Follower included), ConfigClient, Wal, SecretServer.

---

9. A ConfigClient over several Followers in place of its own `known`.

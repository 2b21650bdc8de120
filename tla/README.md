# Dgraph in TLA+

This directory is a verification project for the Go sources of Dgraph: TLA+
modules that model its components, TLC configurations that check them on small
instances, and TLAPS proofs of the results that matter most for every instance.

Paths such as `posting/list.go` are relative to the repository's root.

## The system and its parts

A Dgraph server stores a graph as *posting lists*, one per (predicate, uid) or
(index term) key. Requests and RAFT entries run in their own goroutines; what
they share is below.

| Part | Source | What it does |
|------|--------|--------------|
| Posting list | `posting/list.go` | one list: an immutable layer read from RocksDB (`pbuffer`), a mutation layer (`mlayer`) over it, `AddMutation`, iteration, `Length`, `commit` |
| List cache | `posting/lists.go`, `posting/hash.go` | the sharded map of lists, reference counts and the pool, the channel of dirty lists, gentle merges, stop-the-world eviction |
| Index | `posting/index.go` | derives index mutations from the value a mutation replaces and the one it sets |
| RAFT log store | `raftwal/wal.go` | persists entries, hard state and snapshots in RocksDB and reads them back at start |
| RAFT node | `worker/draft.go` | proposals, the ready loop, applying entries, batching of messages, joining and restarting |
| Membership | `worker/groups.go` | which server serves which group and who leads it; group zero is the source of truth |
| Mutations | `worker/mutation.go` | splits edges by group, proposes them locally or sends them to the leader |
| UID assignment | `worker/assign.go`, `uid/assigner.go` | gives new external ids an unused uid |
| Shard population | `worker/predicate.go` | a follower that joins copies its group's keys from the leader |
| Backup | `worker/backup.go` | asks the leader of each group to write its data to a file |
| Tasks and sort | `worker/task.go`, `worker/sort.go`, `algo/` | answer one level of a query, merge and intersect sorted uid lists |
| Query | `query/query.go`, `gql/` | parses a query and runs its levels, filters, ordering and pagination |
| Loader | `loader/loader.go` | the bulk loader's pipeline of reader, parsers and edge writers |
| Group configuration | `group/conf.go` | which group a predicate belongs to |
| Connections | `worker/conn.go` | pools of gRPC connections |
| Schema, RDF | `schema/`, `rdf/`, `lex/` | parsers of the schema file and of N-Quads |
| Messages | `task/`, `posting/types/`, `query/graph/`, `worker/payload.pb.go` | generated encoders and decoders |
| Values and tokens | `types/`, `tok/`, `geo/` | conversion of values, index tokens |
| Store | `store/`, `rdb/` | the binding to RocksDB |
| HTTP front end | `cmd/` | request handlers, which turn the quads of a request into edges, and flags |

Everything a server shares between its goroutines is in the first eight rows.
A mutation arrives at the leader of a group, is proposed to RAFT, written to the
log store, committed, and applied to posting lists by every member of the group;
lists change in memory and reach RocksDB later, by merges. After a crash the
members apply the whole log again, since no snapshots are taken
(`worker/draft.go:544`). Queries read the same lists.

## Modules

Each module is one component, or the meeting point of several. Definitions keep
the names of the functions they model where a whole function is one step, and the
map in `PROJECT.json` gives the lines of each.

What a server keeps:

| Module | Models | Steps |
|--------|--------|-------|
| `PostingLayers` | the layers of a list and the pure operations on them | none: `UpdateMutationLayer`, `Merged` (`iterate`), `LengthOf`, `UidsIn`, `ValueIn` |
| `PostingSlices` | the same operations on the slices they are written for | `AddMutation`, `commit`; the layers are kept beside the slices |
| `ListSpec` | what a posting list promises: an atomic map | one per promise |
| `PostingList` | one list used by several goroutines | every access to memory that another goroutine can observe |
| `ListCache` | the map of lists, reference counts, pool, `dirtyChan`, gentle merges, eviction | `GetOrCreate` in five steps, `AddMutation` in three, `gentleMerge`, `commit`, stop-the-world eviction |
| `RaftWal` | the ready loop over the log store, crash and restart | `Ready` (external), `WalStore`, `saveToStorage`, `SendMessages`, `ProcessCommitted`, `Crash`, `Restart` |
| `IndexedApply` | entries applied to an indexed value, merges, crashes, replay | `AddMutationWithIndex` in its steps, `CommitValue`, `CommitToken`, `CrashAndRestart` |
| `UidAssign` | new uids through a RAFT group | `assignUids`, `LockUid`, `CheckUid`, `Propose`, the two ends of the wait, `clean`, `Apply`, crash, change of leader |
| `Membership` | the lists of a group's servers and their propagation | `syncMemberships`, `UpdateMembership`, `Apply`, `Start`, lost calls and proposals |
| `PostingListProofs` | proofs about the first four | |
| `ListCacheCallProofs`, `ListCacheProofs`, `ListCacheMergeProofs` | proofs about `ListCache` | |
| `RaftWalProofs`, `IndexedApplyProofs`, `LoaderProofs` | proofs about the module they are named after | |
| `ExchangeProofs` | proofs about `UidAssign` and, of the next table, `Proposals`, `BackupRelay` and `Pool` | |

Pipelines and exchanges between servers:

| Module | Models | Steps |
|--------|--------|-------|
| `Loader` | the bulk loader's reader, parsers and handlers | each take from and put to a channel, each write to a posting list (`AddMutation`), errors, an eviction |
| `ShardStream` | a follower fills its store from the leader | `generateGroup` and `PredicateData`, `Recv`, `pushKV`, `writeBatch`, a broken stream, the end of the context |
| `BackupFile` | the walk over a store and the file it becomes | `scanKey`, `convert`, `writeCell`, `flush`, `writeToFile` cell by cell, a failing writer |
| `BackupRelay` | who runs the backup of a group | `runBackup`, `relay`, `answer`, a change of leader |
| `Proposals` | a mutation in several groups, one after the other | `proposeOrSend`, `storeProposal`, `propose`, `process`, `ctxDone`, a lost proposal |
| `Batching` | RAFT messages in buffers that are used again | `send`, `batchHeader`, `batchBody`, `tick`, `readCell`, `RaftMessage`, a failed call |
| `Pool` | the connections to one address | `connect` in four steps, `Get`, `Put` |
| `GroupConf` | the file of groups and `BelongsTo` | one per line of the file |
| `MutationRequest` | the HTTP and gRPC handlers, from quads to edges | `receive`, then one per stage of the handler, each of which may fail |

The way of a query:

| Module | Models | Steps |
|--------|--------|-------|
| `GqlLexer`, `GqlParser` | lexer and parser of queries: state functions, the two stacks of filters, fragments, variables | `Parse` of a text, whole or broken off |
| `RdfParser` | lexer and parser of an N-Quad | `Parse` of a line |
| `SchemaParser` | lexer and parser of the schema, and the walk over a map that grows on the way | `ParseBytes`, `visit`, `visitField`, `walkEnds` |
| `Wire`, `WireTables` | the generated `Marshal`, `Size` and `Unmarshal`: one interpreter, and a table of fields per message | `Marshal`, and `Receive` of the bytes whole, cut, or with a field unknown |
| `QueryGraph` | `ProcessGraph`: one goroutine per node, filters, pages, order, counts | `ProcessGraph(n)`, replies of filters and children, `giveUp`, `ctxDone` |
| `SortBuckets` | ordering by index buckets while mutations run; `TokensTable` | `intersectList`, `copySorted`, `nextBucket`, and `setValue`, `delIndex`, `addIndex`, `addToken` of a mutation |
| `UidAlgo`, `UidCalls`, `GoSort` | merging and intersecting uid lists; `sort.Search` (external) | one call of every function |
| `NodeRelease` | the nodes of a response, `nodeCh` and the pool | `preTraverse`, `AddChild`, `Marshal`, failures, `release` |

`IndexConstants`, `MembershipConstants` and `WalConstants` hold the constants and
assumptions of their modules. The `MC...` modules give TLC its data.

How they fit together: `PostingList` is built from the operators of
`PostingLayers`, which `PostingSlices` shows the slices to implement, and it
implements `ListSpec`. `ListCache` takes a list's mutation layer for a set of
mutations and adds what happens to the `List` object; `IndexedApply` and
`UidAssign` take `AddMutation` for the atomic operation that `ListSpec` makes it,
and the merges for atomic writes. `UidAssign`, `Membership` and `Proposals` take
RAFT for what `RaftWal` shows a node to keep: votes and applied entries survive
crashes. `MutationRequest` extends `GroupConf`, and takes `Proposals` and
`UidAssign` for one call each that succeeds or fails. `QueryGraph` takes a sort for
what `SortBuckets` shows of it.

**Runs of several parts.** `MCServers`, `MCCluster` and `MCQuery` are sums: the
variable `part` names one module when a behaviour starts, that module takes all the
steps, and the variables of the others keep their initial values. What a part needs
from another it takes as just described, and no property relates the states of two
parts, so nothing would be gained from the product of their states.

### Abstractions that matter

* Value, value type and label of a posting are one content: the code tells them
  apart only in `samePosting`, which compares all three.
* `ListCache`: every mutation is an addition of its own, so that losing one shows.
  When memory is exhausted (`stw_ram_mb`) is a free choice. A gentle merge has no
  reference to its list (`posting/lists.go:119`): if the object is recycled and
  reset while the merge holds its lock, Go's runtime stops the process or the
  lock is lost; the model stops that goroutine.
* `RaftWal`: the RAFT library is external. `Ready` hands out entries that extend
  the log or replace its uncommitted end, a hard state that does not go back, and
  one vote in a term. `HigherTermConflicts = FALSE` restricts a replacement to
  entries of a lower last term than the replaced one; the usual replacement, by
  the entries of a later leader, is what the run `wal_conflict` is about.
* `IndexedApply`: one value of one entity under one indexed predicate, with two
  possible values that share a token. Lists are merged one by one at any time, so
  a crash keeps any mixture.
* `UidAssign`: allocating takes less than a minute, and a request returns when
  its context is done. The HTTP handler gives a request a minute
  (`cmd/dgraph/main.go:370`), the gRPC handler none: that is the constant
  `Deadlines`. A crash keeps any subset of the used uids in the store and they are
  applied again, which allows more than the code does. A server leads only after
  it has applied what its own log had as committed before a crash: the loop of
  `Run` ticks RAFT's clock between two Readys, and the first one has them all.
* `Membership`: one group stands for all, since groups share only `lastUpdate`.
  A server of group zero that restarts, and the connections, are left out.
* `BackupFile`: keys are byte strings over seven letters in the order of ASCII,
  since which keys a seek passes is a question of bytes. `ShardStream`: bytes of C
  memory that are used after the iterator has moved on read as the key itself or as
  a later one (`KeyBytes`).
* `Batching` and `BackupFile`: `buf.Bytes()` shares its array with the buffer that
  is reset and filled again. A frame, or the text of a list, is a number of cells;
  writer and reader touch one cell at a time and nothing orders them, so that a
  reader can find cells of two batches in one slice. `bmTorn` and `bkTorn` remember
  that a cell was written again before it was read.
* `Loader`: a handler holds one list at a time, from `GetOrCreate` to the write. An
  eviction marks all lists that are held: their writes are refused with `ErrRetry`.
  A line that links two uids asks for three writes where the server marks uids
  (`markTaken`). The index writes behind the first of them are in `IndexedApply`.
* `MutationRequest`: a quad has a kind of defect instead of a text. The error of
  `MarshalBinary` (`cmd/dgraph/main.go:213`) is ignored by the code; a value that was
  just decoded has none.
* Errors of decoding a stored value (`posting/index.go:194`), of `mutate` in
  `UidAssign`, and lengths of messages that overflow 64 bits
  (`task/task.pb.go:1446`) are left out: the value was encoded, the edge built and
  the message written by the same program. So is the end of the context in
  `BackupRelay` (`worker/backup.go:266`), whose answer is that of a failed call.
* `Proposals`: an id of `rand.Uint32` is taken to be used by no other proposal.
* `Wire`: bytes and varints are as in the code; 64 and 32 bit words have two bytes
  and one. `GroupConf` has words of `GcBits` bits; `SortBuckets` tokens are numbers
  below `TokenMod`, so that a negative number has a great token, as in the code.
* Parsers: a text is a sequence of pieces, a word being one piece.
* `QueryGraph`: values are left out, and a task is one step that may fail. A
  function whose index list has a uid behind the end of the list to filter panics in
  `List.Uids` (`posting/list.go:558`), and so does a sort: `qPanic`.

## What TLC checks

| Run | Instance | Shows |
|-----|----------|-------|
| `list_concurrent` | two clients, a merger, two uids, two contents | a list implements `ListSpec` (`ListImplementsSpec`); the cached immutable layer is never out of date (`BufferFresh`); a list with mutations is marked dirty (`DirtyCoversMutations`); `Length` counts what an iteration visits (`LengthCountsIteration`); `TypeOK` |
| `list_progress` | two clients, a merger, an unlocked `Length` | every locked call returns (`CallsReturn`) |
| `cache_evict` | one key, two `List` objects, two clients, a gentle merge, a worker | exact reference counts (`RefCountsExact`); one list that accepts mutations per key (`OneOpenList`); no dirty list is forgotten (`DirtyListsTracked`); an eviction ends (`EvictionEnds`) |
| `cache_gentle` | two keys, three objects, two clients, a gentle merge, no eviction | a list stays the list of its key while it is held (`HeldListsStay`); no acknowledged mutation is lost (`AckedNotLost`); each reaches the store (`MutationsGetMerged`) |
| `group_servers` | `MCServers`, `Servers.cfg`: four parts | below |
| `cluster_calls` | `MCCluster`, `Cluster.cfg`: ten parts | below |
| `query_path` | `MCQuery`, `Query.cfg`: ten parts | below |
| `list_unlocked_length`, `cache_delete_me`, `wal_conflict`, `query_nodes`, `query_offset` | | disagreements between code and comments, below |

`group_servers`:

* uids: no uid is handed out twice (`UniqueUids`); a leader sees every uid handed
  out as used (`LeaderKnows`); with one server that crashes, and two requests.
* membership: lists name a server once, the leader first (`ListsWellFormed`); a
  server that is up to date agrees with group zero on members and leader
  (`LeaderAgrees`).
* log: disk and storage are the log (`WalIsLog`, `StorageIsLog`); one vote in a term
  across crashes (`OneVoteInATerm`); an applied entry is never applied as another
  (`AppliedStays`).
* index: the replay gives the value that applying once gives (`ReplayConverges`)
  and leaves no stale token (`NoStaleTokens`); an eviction costs the index at most
  the token whose list it hit (`IndexMatchesButMissed`).

`cluster_calls`:

* `TransfersAreComplete`: `LoadEdges` that returns no error has asked for every write
  of every line of its groups once, and at most one write per handler was refused for
  each eviction; `populateShard` misses no list of the leader but one behind a
  twin key, whose list had the same checksum; the file of a backup that reports
  success is as long as the texts of the group's lists, and has each of them whole and
  once unless a converter wrote over a cell that the writer had yet to read. Keys with
  the byte of `:` in their uid are taken for index keys by the code and are not
  counted.
* `AckedIsApplied`: a mutation that is acknowledged is applied in all its groups,
  though proposals get lost and time out; the edges of a request are what its quads
  say, new names having one uid each; a request whose text is refused has no effect.
  Quads the code leaves out are listed below.
* `EachInOnePlace`: a predicate has one group, the default panicking exactly when the
  modulus of the file is 0 modulo 2^32; a request for a backup is run once,
  though it is relayed while leaders change; the batches of a peer are its messages in
  order, and each arrives whole, once or not at all, unless its buffer was written
  again before it was read; a connection is in one pool, with one user, or closed.
* `PoolIsNeverReplaced`: the second look at the map in `connect` keeps the first pool.
* `CallsReturn`: `LoadEdges`, `populateShard`, `backup` and `MutateOverNetwork`
  return. The property names the cases in which they do not. `backup`: a store with a
  key whose seek stays where it is (`SeeksInPlace`), and a converter with a buffer for
  a writer that gave up and left `chb` full (`SendsToNobody`). `MutateOverNetwork`: a
  gRPC request without a deadline whose proposal RAFT has lost (`WaitsForLost`); an
  HTTP request always returns.

`query_path`:

* `ParseRecoversQuery`: a query, a quad or a schema that is written down and parsed
  is what it says, and an ill-formed or broken-off one is refused. The exceptions are
  in the properties: a variable without a value in a fragment that is spread twice;
  a query behind a mutation has a name (`gql/state.go:83` refuses it without one);
  for quads, a language that hides an empty predicate, and an empty typed literal;
  for schemas, two objects of one name, and junk.
* `WireRoundTrip`, `CutIsNoticed`: `Unmarshal` gives back what `Marshal` wrote, for
  every message type, and a message that is cut is not taken for another.
* `AnswerIsComplete`: when a query succeeds all its goroutines are done, and each list
  has what filter and page define; an ordered list is paged before it is filtered, as
  in the code. Excluded: negative counts beyond the length of a list, which wrap
  around, and ordered counts.
  `GoroutinesEnd`: no goroutine of a query stays, also when tasks fail and the
  context ends.
* `SortedPage`: a sort gives the page that is asked for, for values of one sign, and
  panics only where a uid of a bucket is behind the end of a list that is not full;
  the table of tokens stays sorted, and has the tokens of the index but for one that a
  mutation is about to add.
* `UidListsAreSets`: merging and intersecting lists are union and intersection.
* `SlicesAreLayers`, `IterationIsMerge`, `ReadsAreDefined`: the slices of a posting
  list stay sorted and are its layers; `iterate`, `Length`, `Uids` and `Value`
  return what they are defined to; `Uids` with an intersection panics exactly when a
  posting is behind the end of that list and the list is not empty.
* `NodesBelongToOne`: a node of a response is filled by one request and reached in
  one way, while others are released to the pool.

`TypeOK` of `PostingList` is checked and proved; those of `Loader`, `ShardStream` and
`BackupFile` are conjuncts of `TransfersAreComplete`, that of `PostingSlices` of
`SlicesAreLayers`. The other modules that define
one keep it as documentation of their state; TLC finds it to hold under the same
configurations.

**Bounds.** Two clients, one merger and one worker are enough for any two
goroutines to meet at one object; four uids for an insertion at both ends and
between two postings, and for the value's uid beside them. Two `List`
objects allow one in the map and one that is evicted but held, or two callers that
race to create the list of a key. Two keys let a gentle merge leave something in
`dirtyMap` (`MergeBatch = 1`). Three terms and indices allow a replaced end of the
log to be replaced again. Two values with a common token have the token deleted and
added by one mutation. Channels have one or two places, so that every send meets a
full one. Three lines with four writes, two handlers, one conversion that fails and
one eviction let a handler fail while others wait, and two lists be lost at once;
frames of two and three cells, and buffers of three cells that are sent from two on,
let a reader find a length of one message and the body of another; three servers and two changes of leader let a request for a
backup return to its first server; three users and a pool of one connection let two
lose the race of `connect` and one close a connection; files of groups have up to
three lines and a modulus of 2^`GcBits`, requests up to three quads. Queries are cut at every piece; messages
nest two deep; the query tree has a filter of two functions, a paged node and a child.
`MaxLog`, `MaxEntries`, `MaxEdges`, `MaxNew`, `Mutations`, `Requests`, `BmMsgs`,
`MaxCalls`, `MaxConns`, `MaxWrites`, `MaxEvictions`, `MaxBadEdges`, `BkMaxKeys`, `RlMaxLeads` and `NdMax` bound the length of
behaviours.

**Deadlock** is not checked in `Cluster.cfg`, `Query.cfg`, `QueryNodes.cfg` and
`QueryOffset.cfg`: one call or one request is followed to its end, and the end has no
successor. That calls do not get stuck before it is `CallsReturn` and
`GoroutinesEnd`.

**Fairness.** `PostingList`: a goroutine that can run does (weak fairness of its
steps), and one that waits for the mutex gets it (strong fairness): Go's
`RWMutex` lets waiting writers pass before later readers and its `Mutex` hands
itself over to a waiter after a millisecond. No call has to be made. `Length` is not
promised to return: commits can make it retry. `ListCache`: weak fairness of each
goroutine's steps once a call has been made, and of the two cases of the select in
`periodicMerging`, which Go chooses between at random. `MCCluster` and `MCQuery`:
some goroutine of the call runs as long as one can (weak fairness of all of them
together, less than the scheduler gives). Failures, lost messages and changes of
leader are never forced. `Proposals` is checked under two assumptions: the context of
an HTTP request ends, for the handler gives it a minute (`cmd/dgraph/main.go:370`);
that of a gRPC request need not, and RAFT applies or loses what is proposed. `query_nodes` assumes
that `release` runs when it can.

## What is proved

The proofs hold for any values of the constants that the modules' `ASSUME`s admit:
any sets of goroutines, keys, servers, requests and values, finite where the code's
are, whose markers (`Nil`, `None`, `NoValue`) are none of them. Two assumptions say
more: the greatest uid is that of values (`LayersAssumption`), and `dirtyChan` has
room for a key of each caller (`CacheAssumption`; it has 10000 places). A theorem that
needs one of the switches of a module (`MayEvict`, `Deadlines`...) says so in its
`ASSUME`, and the section on disagreements names the run or configuration in which
TLC refutes the property without it. An invariant that a run checks is seldom
inductive; each bullet names what had to be added and why.

* One list (`PostingListProofs`). `ListTypes`: `TypeOK` of `PostingList`; its
  `TypeInv` adds who holds the mutex at which place (`MutexInv`) and where the result
  of `getPostingList` is at hand (`UseInv`): without them a step could use a list that
  was never fetched. With no unlocked call of `Length` (`Counters = {}`):
  `BufferStaysFresh`, `DirtyListsAreSeen`, `LengthIsIteration`, and
  `ListRefinesSpec`, that `PostingList` implements `ListSpec`. They rest on
  `ListInv`, which adds `DataInv`: what a goroutine has read under the mutex is
  current; between its write to the store and its two resets a commit has the store
  equal to the merged layers; an `Add` mark is for a uid that the immutable layer
  lacks, a `Set` or a `Del` for one it has (`LayersFit`). The last is why counting
  marks gives the length. Lemmas say what `updateMutationLayer` does to the merged
  list (`UpdateApplies`), when it reports a change (`HasMutatedIffChanged`), that it
  keeps `LayersFit` (`UpdateFits`), that merging twice is merging once
  (`MergedTwice`), and that `Length` counts (`LengthCounts`).
* The cache (`ListCacheCallProofs` has the invariant and the steps of a call,
  `ListCacheProofs` the merges, the eviction and the theorems). `CountsAreExact`:
  reference counts are the number of holders, and the pool has what nobody holds.
  `HeldListsAreKept`: what `GetOrCreate` returned is not recycled before `decr`.
  `ListsOfAKey`: no key has two lists that take mutations. The invariant `Inv`
  gives the holders of a list at every place of `GetOrCreate`, of `gentleMerge` and
  of `MergeLists` (`CallInv`, `MergeInv`), for a count says nothing of who may lower
  it; that a list in the map is that of its key, or the call that made it is about to
  initialize it (`MapInv`); and that a list that takes mutations is in the map or an
  eviction that has stopped the world is about to mark it (`OpenInv`). The last is
  what keeps a second list from being opened.
* What the cache keeps (`ListCacheMergeProofs`). `NoDirtyListForgotten`: a list of
  the map with mutations is always on somebody's way to merge it, because a list with
  mutations is marked dirty and a merge has its keys until it is through with them
  (`TrackInv`). `AckedStays`, where nothing is evicted: an acknowledged mutation is in
  the store or in the list that the map has (`AckInv`). With evictions it is false:
  `cache_delete_me`.
* The log store (`RaftWalProofs`). `VotesSurviveCrashes`: one vote in a term; the
  invariant says that no vote was sent that the disk does not have. Where no entry is
  replaced by one of its own or of a later term (`~HigherTermConflicts`),
  `WalKeepsTheLog`, `StorageKeepsTheLog` and `AppliedEntriesStay`: the log on disk and
  in memory is the library's, and what was applied is applied again after a restart.
  The invariant says at every step of `Run` what storing the Ready at hand would
  leave (`DiskInv`, `StorageInv`) and that committed entries are the same in the old
  log and the new (`CommitInv`). Without the condition `wal_conflict` refutes it.
* Applying entries (`IndexedApplyProofs`). `ReplayGivesTheValue`, for any number of
  goroutines: a server that has caught up has the value that the log gives, over
  whatever a crash left, if no eviction cut an entry short (`ReplayAlwaysConverges`
  where there are none). The invariant: where the value differs, an edge that sets it
  is still to come (`IdealInv`). With one goroutine (`OneWriter`: `processCommitCh`),
  `ReadValueIsReplaced`, `ReplayLeavesNoStaleToken` and `IndexFollowsTheValue`: a
  token that the value does not have is about to be deleted, or belongs to a value
  that an edge to come will set and a later one replace (`OldInv`, `StaleInv`,
  `MatchInv`).
* Uids (`ExchangeProofs`), when requests end within their deadline and one server
  assigns (`OneAssigner`: the group has one server, or its leader neither crashes nor
  moves): `UidsAreUnique` and `LeaderKnowsUsedUids`. The invariant says that the
  lockManager has every uid that a request has in hand (`LockInv`), that an answered
  request is in the log on disk (`SentInv`), and that a server leads only when it has
  applied what its disk has (`AppliedInv`).
* Exchanges (`ExchangeProofs`). `AckedMutationIsApplied`: `MutateOverNetwork` answers
  nil only when each group has applied its edges, since a wait ends with nil only
  through the apply loop and every group has been waited for (`PrInv`).
  `BackupRunsOnce`: a relayed backup runs once at most, in a chain no longer than the
  number of servers, because every server of the chain but the first has recorded the
  request (`RlInv`). `ConnectionsAreKept`, for pools with room for a connection:
  each connection that was dialled is in one pool once, in use by one goroutine, or
  closed, though several connects may race for an address. `PoInv` says it of the
  places as sets, says that the channels have no connection twice, and who may use
  which pool at which place of `connect`: a goroutine that is still making its pool
  has it alone.
* The loader (`LoaderProofs`). `LoadsEveryLine`, for at least one parser and handler
  and finitely many handlers: when `LoadEdges` returns without an error every write
  that the lines of its groups ask for was made once, none was unreadable, and the
  count is that of those lines; and at any time the writes that were refused are at
  most the evictions times the handlers. The inductive invariant `LdInv` says that the
  lines can be given a stage, from "still in the file" to "done with", such that each
  place holds the lines of its stage: the shuffle buffer, `input`, the parsers, `cnq`,
  the handlers (`LdFlow`); what a line at a stage can be, and how many of its writes
  are done (`LdFate`); which handler holds a list (`LdHeld`); what the counters count
  (`LdCounts`); and that a goroutine which returned has left nothing to do unless an
  error was set (`LdEnds`). The last is why no line is on its way anywhere when
  `LoadEdges` returns (`AllDone`). For the losses it counts the lists that are held
  and evicted together with the refused writes (`LdLosses`): a write moves one from
  the former to the latter, and an eviction adds one per handler.

Only model-checked:

* all liveness: the prover does not do `ENABLED` and fairness;
* the pure algorithms (`PostingSlices`, `UidAlgo`, the parsers, `Wire`) and with them
  all that `MCQuery` checks: they recurse over data, for which the prover has no
  induction;
* `ListsWellFormed` and `LeaderAgrees` of `Membership`: what a server knows is a fold
  over the updates it has received, again an induction over data;
* the rest of what `cluster_calls` checks: of `TransfersAreComplete` the shard stream
  and the backup file, of `AckedIsApplied` the quads of a request, and of
  `EachInOnePlace` all but the backup relay and the connections. What is sent or
  written is a fold over sequences of messages there.

## Where code and comments disagree

Five disagreements are runs that TLC must refute; the findings in `PROJECT.json`
quote the comments.

* `list_unlocked_length` (`posting/list.go:209`): `Length` runs `getPostingList`
  without the lock and can put a list read before a commit into `pbuffer` after it.
* `cache_delete_me` (`posting/list.go:346`): `deleteMe` is looked at before the lock
  is taken, so a mutation enters a list that has been merged for the last time.
* `wal_conflict` (`raftwal/wal.go:89`): keys start with the term, so deleting the
  keys above the last entry leaves replaced entries of earlier terms.
* `query_nodes` (`query/query.go:202`): `release` is the only receiver of `nodeCh`
  and sends the children of a node there; when they do not fit it waits for itself.
* `query_offset` (`query/query.go:702`): a count of a page behind the end of a
  filtered list slices with its start behind its end.

The others are reached by the same modules. Each line gives the configuration, what
to change in it, and the definition that TLC refutes in the place of the run's
properties; in a sum, take it from the instance (`I!IndexMatches`) and fix `part`.

| Definition | Configuration | What happens |
|------------|---------------|--------------|
| `LengthIsACount` | `ListUnlockedLength.cfg` | `Length` between the two resets of a commit counts a `Del` against a list it has left: a negative count (`posting/list.go:453`) |
| `IndexMatches` | `Servers.cfg`, `MayEvict = FALSE` | a crash after the merge of a value and before those of its tokens: the replay changes nothing and returns before the index (`posting/index.go:184`) |
| `OldValueIsReplaced` | `Servers.cfg`, two `Writers`, `MayEvict` and `MayRestart` `FALSE`, no deadlock check | two goroutines of the loader read the same old value (`posting/index.go:179`, `loader/loader.go:245`) |
| `RetriesConverge` | `Servers.cfg`, `MayRestart = FALSE`, no deadlock check | `ErrRetry` aborts the rest of an entry on one replica, and nobody retries (`worker/mutation.go:45`, `posting/list.go:43`) |
| `UniqueUids` | `Servers.cfg`, two `Servers`, `MayMoveLeader = TRUE`, `MayCrash = FALSE`, no deadlock check | a new leader has an empty lockManager and has not applied the last entries (`worker/assign.go:43`) |
| `UniqueUids` | `Servers.cfg`, `Deadlines = FALSE`, no deadlock check | a request outlives the minute of its lock (`uid/assigner.go:59`) |
| `ViewsAgree` | `Servers.cfg` | a demoted leader's entry keeps its index and is not sent (`worker/groups.go:406`) |
| `LeaderAgrees` | `Servers.cfg`, `Zeros = {z1, z2}`, `MaxLog = 4` | a server that joins group zero answers while it replays old updates over newer ones (`worker/groups.go:426`) |
| `SeekPassesIndexKeys` | `Cluster.cfg` | the key that is sought to pass the index keys is not behind all of them, and the walk of a backup stays where it is |
| `ShardIsLeaders` | `Cluster.cfg` | keys of the request read as later keys, and a list with the checksum of such a twin is not sent |
| `BackupIsTheData` | `Cluster.cfg` | a converter fills its buffer again while the writer reads it: the file of a backup that succeeds lacks texts and has others twice or in part (`worker/backup.go:117`) |
| `BatchesArriveOrAreLost` | `Cluster.cfg` | a batch is overwritten before its call has read it (`worker/draft.go:233`): the peer steps a message twice or one that nobody sent, or exits; the comment at `worker/draft.go:209` expects lost messages only |
| `ContentsAreConverted` | `Cluster.cfg` | a list is evicted between `GetOrCreate` and the write, which is refused with `ErrRetry`; the loader ignores it and counts the line (`loader/loader.go:246`). Its retry loop is around the conversion only |
| `AcceptedFilesAnswer` | `Cluster.cfg` | a modulus of 2^32 is accepted and is 0 in 32 bits: `BelongsTo` divides by zero (`group/conf.go:148`) |
| `AllNewNamesAreReported` | `Cluster.cfg` | a second block of mutations replaces the uids reported for the first |
| `NoQuadIsDropped` | `Cluster.cfg` | a quad of a Mutation object whose value cannot be read, and every quad behind it, is left out of a request that is acknowledged (`cmd/dgraph/main.go:289`); and so is a line of more than 64 KB of a text, with all lines behind it, for nobody asks the scanner for its error (`cmd/dgraph/main.go:117`) |
| `DoneMeansNoQuery` | `Cluster.cfg` | the gRPC handler does not look for a function at the root of a query, and answers as if there were no query |
| `IntersectsResults` | `Query.cfg`, `SPECIFICATION SlicesSpec` | `Uids` compares its index with the size in bytes of the list to intersect with, and reads behind its end when a posting is greater than all of it (`posting/list.go:558`); the comment at `posting/list.go:106` says "Intersect results with this list of UIDs." |
| `ValuesAreNotEmpty` | `Query.cfg` | a variable without value or default, in a fragment that is spread twice, is empty at the second visit (`gql/parser.go:272`) |
| `UnbalancedIsAnError` | `Query.cfg` | a filter that breaks off ends the process and not only the request |
| `ErrorsAreReported` | `Query.cfg` | when a line of a schema ends in something unreadable the rest of the file is ignored and the schema accepted (`schema/parse.go:162`) |

## What is not modelled

`PROJECT.json` lists every component with its status and every hazard with the
properties that cover it, or why none does.

* Values and tokens (`types/`, `tok/`, `geo/`): conversions between Go values and
  texts, floating point geometry and a tokenizer written in C. They have no state
  and their definitions are those of their libraries; a model would restate them.
  The tokens of numbers and dates, whose order the sort depends on, are modelled.
* The store (`store/`, `rdb/`): bindings to RocksDB, all I/O. The modules take a
  write for atomic, a synced write for durable and an iterator for the ordered keys
  of one moment.
* Snapshots of RAFT: the code that takes them is disabled (`worker/draft.go:544`).
  Joining a cluster, restarts of group zero's servers, and connections as they are
  set up during a join: they depend on the RAFT library's configuration changes,
  which `src/` uses but does not define.
* Output (`ToJson`, values in a response), getters and text formats of messages,
  gRPC stubs: formatting and generated code without state.
* Value tasks, geo filters and the one call that sends a task to another server.
* Start-up, flags, status handlers, helpers (`x/`) and command line tools: calls of
  the packages above.

Four risks are known and outside of the models: two proposals with the same random
32-bit id (`worker/draft.go:139`); a hash of 0 taken for a new uid
(`uid/assigner.go:93`); `lastUpdate`, which a backup requires to be positive and a
server of group zero may never advance (`worker/backup.go:275`); and the early
return of `saveToStorage` for an old snapshot (`worker/draft.go:303`), which no
Ready has while snapshots are disabled.

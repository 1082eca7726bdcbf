# Ryu Teams: specifications, model checking and proofs

TLA+ modules for the Ryu Teams sidecar (`src/backend`) and the crates it is
built on (`src/crates/core`): the team store and its HTTP surface, the sealing
of its database at rest, sealed logs and sealed files, the keys all of it is
sealed under, the in-memory vector index, the sidecar's handoff and peer proof,
and the client it calls Core with. TLC checks small instances; TLAPS proves the
theorems named below for every value of the constants. `PROJECT.json` maps
every definition to source lines and lists the hazards behind the properties.

## The system

Ryu Core spawns the Teams sidecar, hands it a port, a token and a sealing key,
and proxies `/api/teams` to it. The sidecar keeps teams in one SQLite file whose
text columns are sealed, and posts an event to Core after every change.

| Component | State | Operations | What makes it correct |
|---|---|---|---|
| Team store, `backend/src/store.rs` | rows of `teams`; one connection behind an async mutex | list, get, create, update, delete, add_member, remove_member | every call acts as if at one instant; no lost update; no way out of an operation keeps the mutex; rows the process cannot open are not written over |
| HTTP surface, `backend/src/api.rs` | none beyond the request; the events it posts | one handler per operation, plus resolve | events carry records that were real, once per creation and deletion; the newest one is the current record, and what a deleted team was is known |
| SQLite sealing, `crypto/src/content_sqlite.rs`, `plugin_keys/sql.rs`, `sqlite.rs` | per store: the recorded root, the scrub debt, a state and cursor per column; WAL and free pages; the compaction queue | open_store: key check, owed scrub, reset, reopen, batched migration, scrub, VACUUM; reads and writes through `ryu_open`/`ryu_seal`; background compaction | a served store holds no plaintext, freed plaintext is scrubbed sooner or later, no value is lost, the record names a root that opens everything |
| Sealed log, `sealed_log.rs` | header, frames, the writer's next index | create, open_append, append, sync, scan | append only; a crash takes only unsynced records; a torn log opens again |
| Sealed files, `sealed_file.rs`, `secret_file.rs` | chunked files, small secrets | write, read, seek, range, seal in place, rewrite, reseal | a reader gets exactly what was written; the path always holds a whole file; a nonce is used once |
| Custody, `custody.rs`, ladder in `lib.rs`, `app_key.rs` | keychain slot, `master.key`, `memory.key`, recorded key check value, retired set; the same for an app | resolve; keys adopt, retire, import | no key in use is ever without a copy; Core seals only under the recorded key; everything sealed opens |
| Plugin and process keys, `plugin_keys/mod.rs`, `files.rs`, `store_seal.rs`, `process_keys.rs` | delivered key (read once), standalone root and its pin | deliver, resolve, pin, derive, seal, open | what is read is what was written; one key for runs by hand; Core's runs open what Core's keys sealed |
| Envelopes, `content.rs`, `sealed.rs` | none | seal, open, reseal | an envelope opens under its own key and context alone, and is never text |
| Vector index, `vector_index.rs` | partitions, shared byte budget, what was evicted | upsert, remove, hydrate, evict, search, drop | used bytes are the sum of the partitions'; the least recently used goes first; a search sees what the store holds |
| Sidecar runtime, `sidecar-runtime/src` | handoff file, proof cache | publish, load, withdraw, authorize; probe, remember | a handoff leads to its own run; a token is sent only where it was just shown to be held |
| App events, `app-events/src/lib.rs` | none between calls; the buffer of a stream | emit, publish, report, call, status, authorize, stream | a call reports no more than happened; a stream has one terminal item |
| Sidecar process, conveniences, scripts | none | token gate, health, start-up, names, release notes | stateless, or not part of the running program |

How they interact: a handler calls the store (waiting on its mutex), the store
seals and opens columns through SQL functions bound to the process's key set,
that key set comes from the key Core delivered, which Core derives from the
master key custody resolved; after the change the handler posts an event through
the events client. The stdio process and other sidecars reach a sidecar through
its handoff file or a verified bearer, over the same loopback port.

Hard behaviours: handlers interleave between their awaits and may be dropped at
any of them; store operations share one connection; a migration is cut at any
transaction; two processes use one data folder; keys change between two opens;
appends, copies and power losses cut files anywhere; a keychain is unreachable,
unwritable, or loses its entry; rows are read before a lock and used under it; a
cached proof ages while the listener changes; a stream is cut into any chunks.

## Modules and how they correspond to the code

### Teams

**TeamRecords** holds the pure part of `store.rs`: what a row is (name, members,
lead, stamp, and the *form* each sealed column is stored in: plain, sealed under
this process's key, or foreign), what `update`, `add_member` and `remove_member`
do to it, what `StoreSeal` writes and opens in each seal state, and the calls
clients make. `updated_at` is a counter, so that the order of events can be told.

**TeamTable** gives each store operation as one atomic step on `rows`.
**AtomicTeams** is the abstract store: a call is invoked, takes effect once, or is
given up. `create` is two steps there too, since it takes the lock twice.

**TeamStore** is `TeamStore` as written: calls wait for the mutex (`Acquire`),
run statement by statement with the guard held (`RunRead`, `RunUpdate`,
`RunReadBack`, ...), return early where the code does, and may be dropped while
they wait. `pc` is the statement a call is at, `held` the row it has read,
`lock` the holder of the mutex. Within a held guard there is no await, so a
dropped call never leaves it taken; that is what `GuardMatchesPlace` says of
every early return.

**TeamsApi** has one action per stretch of a handler between two awaits, over
TeamTable's atomic steps (justified by `StoreIsAtomic`). `seen` is what the
handler read before its call, `notice` what became of its event; `was` and
`past` are history variables. `Drop` is a client that goes away.

### Data at rest

**ContentSeal** is `open_store` and everything it runs, one action per
transaction or file-system effect, with `Stop` (exit or crash) possible between
any two. A value is abstracted to how it is stored. `residue` is where plaintext
freed by a rewrite may still be read: WAL frames, free pages, unused parts of
pages in use. `resets` is the kind of owner: one that follows
`StoreKeyState::Retired` calls `reset_items` and leaves a large store's VACUUM to
`defer_compaction`; `open_store` itself does neither (both are entry points of
the crate for Core's stores). A deferred compaction is `DeferCompaction` and
`RunDeferred`, which may come at any time beside served writes.

**AppendLog** is the abstract log; **SealedLog** has the file as header and
frames (a length and as much of the body as was written), the writer, the scan
as `CommittedUnder`/`TailAt`, `FailAppend` for a `write_all` that stops part
way and leaves the writer open, so that the owner may append on, `PowerLoss` for
a machine that keeps some prefix of what no sync covered and may leave zeros
behind it (`length` is where the file ends). A length is one unit, written whole
or not at all: a cut between its four bytes is not modelled. Left at the end of
the file, such a cut is a short tail; with zeros or another frame behind it, it
belongs to the exception of `ReopensAfterCrash`.

**WriteOnceFile** is what a sealed file promises: it appears whole or not at
all, and a reader gets its bytes from where it stands. **SealedFile** has the
chunks as the writer seals them (it holds back one, to know the last), the body
that is on disk after a stop (any length, any chunk spoiled), the arithmetic of
`open` from the body's length, and a reader with its cached chunk. A chunk
opens whole, under its root, index and last mark, or not at all.

**FileSwap** is `seal_file_in_place` and the secret files, one file-system call
per action. Files are bodies of two halves, each the version it holds; `dir` is
the two names (the path and `.sealing`), `onDisk` the directories a power loss
may leave, `synced` the bodies it may not cut. `SyncDir` may leave `onDisk` as it
is: `sync_parent_dir` drops its errors and does nothing off Unix. The owner of a data file writes
it in place while it is sealed; `overlapped` records a write that came while an
older version was on its way.

**VectorIndex** has the partitions with their recency, the budget, the evicted
set and the total of each partition. Hydration is split where the code is: rows are
read and the tick is drawn before the write lock (`Build`), the rest runs under
it (`Hydrate`, then one `Evict` per victim, then `Install`); `room` is the call
that holds the lock while it evicts. The owner commits to its store before it
tells the index. `search` is an operator; `top_k` with its bounded heap is
compared with opening the rows one by one.

### Keys

**Custody** runs `resolve` and the ladder in every process one keychain, file or
index write at a time, and the `keys` commands with all processes stopped (as
their documentation requires). A key stands for its own key check value. `proc`
is a process's local state; `Seal` marks the key it seals under. `KeyProbe` is
the host's sample: a key that opens all or none of the data passes or fails,
one that opens some may do either. History variables: `lost` (the keychain's
losses), `raced` (two processes filled empty custody at once), `astray` (keys
sealed under while the folder did not record them, or whose record a command
replaced without seeing the key, which takes `--accept-unreadable` or a key
bundle).

**AppKey** extends it to `app_key.rs`: the variable `slot` says whether the
processes resolve the master key or an app resolves its own, over the same
keychain entry and files. An app reads its record first, takes the ladder, stays
with the recorded key while any slot holds it, refuses while the keychain that
may hold it is away, and generates no key once sealed files are in evidence.

**Envelopes** says which string is taken for which envelope and what the ciphers
do to it: a string is a prefix, a key and a context around what is inside.
`open_secret` is `PluginCipher` as a `SecretSealer`, which refuses the envelopes of
all other schemes; its own `open` (`lib.rs:637`) returns some of them as they are.
**PluginKeys** is `PluginKeys::resolve` in processes started by Core, by a Core
that delivers no key, from another app's environment, and by hand with and
without `RYU_MASTER_KEY`: the delivered key, the standalone root created empty,
written, and pinned in separate calls, the store opened with the result, and a
secret the app shares with its UI frame. The migration is one step here, since
ContentSeal has its own. A row may be copied over another (`CopyRow`): its envelope
still names the first and is refused. A copy put back in the first one's place
counts as a write of it, since the code cannot tell it from a newer envelope.

### Reaching a sidecar, and reaching Core

**Handoff** is the life of runs of a sidecar (bind, publish through a temporary
file and a rename, serve, shut down, look at the file, remove it), the client
that loads a handoff, and `authorize`. **PeerProof** is
`send_with_verified_bearer` with the shared `ProofCache` and a clock: `localhost`
stands for both loopback addresses, a probe takes up to `ProbeMax`, and the
entry is remembered or forgotten when its answer is in. **SidecarAccess**
composes the two over one `listener`: runs, or another program, have the port in
turn, and a run proves the token it was started with.

**AppEvents** is the client, one call at a time (calls share nothing):
validation, endpoint and token, what Core does with the request, an answer that
arrives or is lost, and the bounds of Gateway, the hops, the client and the call
itself counted in ticks. A field is how it compares with its bounds. A model
stream is lines, written as the start of a data line, its content, other bytes
and newlines, cut into chunks anywhere, also inside a boundary.

## Runs

| Run | Question |
|---|---|
| `store` | two concurrent calls of any kind over two teams, any seal state: are rows never written over unread, and does the store implement `AtomicTeams`? |
| `api` | three requests meeting on one team: are the events true, unique, is the newest the current record, and is it known what a deleted team was? Are sealed columns protected? |
| `content_seal` | two opens, any key sets, crashes anywhere, a keyless writer, a background compaction: plaintext, debt, loss, the record |
| `sealed_log` | four frames, two record sizes, two roots, failed appends, kills, power losses with and without zeros: does the log reopen, continue, and implement `AppendLog`? |
| `sealed_file` | any plaintext of up to seven units in any pieces, any stop, any reads: nonces, length, ranges, and does it implement `WriteOnceFile`? |
| `file_swap` | a data file sealed in place, or a secret rewritten by two processes, with kills, failed writes and power losses: is it whole, the newest, and sealed in the end? |
| `vector_index` | two threads over three partitions with room for two vectors: budget, coverage, order of eviction, and does a search see the store? |
| `custody` | two processes, one command, one keychain loss, one environment key, or an app's key over five starts: are keys kept, recorded and opened? |
| `plugin_keys` | two processes, three starts under any settings, two masters, text that looks like an envelope: is what is read what was written, do Core's keys open it, do runs by hand keep one key? |
| `sidecar_access` | two runs in turn, another program on the port, a client, two callers sharing the cache: does the handoff lead to its run, does a bearer follow its proof? |
| `app_events` | every call and every stream of up to four lines: are outcomes honest, is there one terminal item, do chunks not matter? |
| `custody_race` | the finding below |

Bounds, and why they are enough:

- `store`: two callers are one holding the mutex and one waiting or between the
  two halves of `create`; two teams show that a call disturbs no other row.
- `api`: three requests let one change a team between another's read and call
  and a third undo it; all interleaving hazards of the handlers need two or three.
- `content_seal`: two columns show the walk and `all_items_sealed`; two rows with
  `BATCH_SIZE` 1 give a batch, a cursor and a crash between two batches; two
  opens give a crash, other keys, and a resumption. Two roots make each open
  current, retired or foreign.
- `sealed_log`: the long body (3 units) reaches past a whole short frame (2), so
  an unfinished record can swallow what is appended after it; four frames allow a
  repair with committed frames before it and appends after it.
- `sealed_file`: chunks of 2 units with tags of 2 make every remainder class of
  the length computation occur (no remainder, less than a tag, an empty and a
  partial last chunk); 7 units are four chunks, so that a read can skip a chunk.
- `file_swap`: three versions are the one before, the one being sealed and one
  written meanwhile; two faults let a power loss follow a kill; four files are
  two processes' temporary files twice.
- `vector_index`: sizes 1 and 2 under a budget of 2 make one partition push out
  two, fit exactly, and not fit at all; two callers let a change overtake a
  hydration, two changes let a second one follow it.
- `custody`: three keys are the two that can conflict and a fresh one; `k3` may
  also be `RYU_MASTER_KEY`. `MAX_RETIRED_KEYS` is 1, so that the set is met both
  empty and full. Two starts are two processes at once, or a run before and one
  after the command. Larger instances (three starts and two commands with two
  retired keys; a third process that uses no key file) were also explored
  without a violation and left out for their time.
- `plugin_keys`: three starts are a crash while the root is made, a second
  process, and a run under another setting; the texts begin like an envelope
  and like an escape; one write of each is enough for each to be read by every
  later kind of process.
- `sidecar_access`: two runs are an older and a younger one; with `Ttl` and
  `ProbeMax` of 1 and the clock to 3 a proof can be fresh, age, and be
  remembered after it was forgotten.
- `app_events`: limits below and above the client's own bound of 2 with a margin
  of 2 over one hop; four lines are two frames, or a frame with two data lines.

Symmetry is used where no operator chooses among the elements (callers in `api`,
callers and partitions in `vector_index`, processes and row ids in
`plugin_keys`, callers in `sidecar_access`, keys outside the environment in
`custody`), and never in a run with a liveness property.

`CHECK_DEADLOCK FALSE` is set where opens, frames, starts, commands, versions or
the clock are bounded, so that the instance really stops: all but `store`, `api`
and `app_events`.

Fairness, and why the code justifies it:

- `file_swap`: a started call runs on, and an unsealed file is tried again,
  because callers "mark the work pending and retry at the next start"
  (`sealed_file.rs:45-46`). Faults are bounded, so that `EventuallySealed` asks
  what happens once they stop.

The other specifications state no fairness: that the mutex is given back on every
return, and that a batch takes only rows past the cursor, are single guards of
the code, and nothing else promises that something must eventually happen.

## What is proved

For every value of the constants that the modules' assumptions allow:

`TeamStore_proofs` (any callers, teams, agents, rosters):
- `TypeCorrect`, with lemmas about TeamRecords' operators.
- `MutualExclusion` (`GuardMatchesPlace`): the guard is held by a call exactly
  while it is between its statements. It is inductive with the type invariant.
- `NoLostUpdate` (`NoStaleWrite`): needs the strengthening that a held record is
  the row as it is while its call has the guard, which follows from
  `GuardMatchesPlace`: only the holder changes rows.
- `StoreIsAtomic` (`ImplementsAtomic`): initial states map to initial states and
  each step to a step of AtomicTeams or a stutter; the safety part.

`SealedLog_proofs` (any records, sizes, roots and number of frames; an owner may
append on after a failed append, and a power loss may leave zeros):
- `LogTypeCorrect`, `WriterStarts` (`WriterStartsAtEnd`: `open_append` leaves
  nothing unreadable in front of what is appended next), `WriterContinues`
  (`WriterContinuesLog`), `LogReopens` (`ReopensAfterCrash`), `LogIsAppendOnly`
  (`ImplementsLog`). The inductive
  invariant says that the scan under the log's own root ends after all frames or
  at an unfinished one (`EndsAt`), that while none is unfinished an open writer
  stands at the end of the file with the next index, that an open writer's key is
  the log's (`Scanned`), and that the first frame lies inside the file before
  every other (`FirstInside`). What lies behind an unfinished frame, records or
  zeros, is left open, so the scan's `CommittedUnder` is the number of frames
  before it whatever happened there. A foreign root is accepted only where the
  first frame is unfinished, and then commits nothing.

`ContentSeal_proofs` (any columns, rows, batch size, roots, opens):
- `StoreTypeCorrect`, and with it `ValuesAreKept` (`NothingIsLost`). That a batch
  has a last row comes from the well-ordering of the naturals.
- `ScrubIsOwed` (`ResidueIsOwed`) needs the strengthening `DebtHolds`: at which
  places of an open the debt must already, or still, be recorded.
- `ServedIsSealed` (`ServedStoreIsSealed`) rests on `WalkInPlace` (columns before
  the current one are sealed, past the walk all are) and `ColumnsSealed`
  (undisturbed, a column holds no plaintext up to its cursor, which crashes and
  later opens find as it was, and none once sealed).
- `RecordFollowsValues` (`RecordMovesAfterReset`) rests on `ResealedSoFar`: what
  an open that resets a retired store has walked is under the current root, as
  long as it met nothing it cannot open.

`ContentSeal_proofs`, of PluginKeys (any processes, master keys, rows, texts, ways
to run the app, starts and writes): `KeysHold` is the inductive invariant `KeysInv`,
and `ReadsTrue` (`ReadsAreTrue`), `CoreRunsOpen` (`CoreRunOpensAll`) and
`HandKeyKept` (`HandRunsKeepTheirKey`) are its consequences.
- What is sealed is sealed under a key of Core's or the pinned one (`OwnKey`), and
  a row's key *fits* the store: it is the one on record, or both are among Core's
  current and retired keys. The key on record changes only for one that fits
  (`FitsOn`), so what fitted goes on fitting. A row is the text itself, the text
  escaped, or an envelope that, if it names that row, has the row's text inside
  (`RowHolds`).
- Of a process it says, per place of its start, what it read from its environment
  (`AsSet`, `AsDelivered`), which key it goes on with (`Resolved`), and how it came
  by a root (`Rooting`, `Pinning`): only one process at a time writes a root, and
  only while there is no pin. Two that record a key at once hold keys that fit each
  other, because the way the app is run did not change since they started.
- The assumptions on the constants say that keys, `None` and `Torn` differ, that a
  root made by hand is no master key, and that what was typed is no real envelope.

`VectorIndex_proofs` (any callers, partitions, sizes and budget; finitely many ids):
- `CoverageIsExact` (`EvictedAreGone`), inductive as it stands, and
  `LeastRecentGoFirst` (`EvictsOldestFirst`), since the lock is held from one
  eviction to the next.
- `IndexHolds` is the inductive invariant `IndexInv`; `IndexTypeCorrect`,
  `BudgetIsKept` (`BudgetHolds`) and `SearchServesTheStore` (`ServesTheStore`)
  follow from it. In every held partition positions lead to vectors and back and
  the bytes are theirs (`Sound`), through the swap that `remove` does, and `used`
  is the sum over the held ones. Room is being made only for a partition that is
  built and not held, or one that has just grown (`RoomFits`). Changes of one
  partition are told one at a time (`OneWriter`) and are in the store before they
  are told (`Committed`); a hydration nothing overtook has built the rows as they
  are (`BuiltOfRows`), so a held partition is its rows but for what a change in
  flight is about to tell it (`HeldFollows`).
- `used` sums a function in an order nobody fixed. That the sum is one number, and
  grows by what is added, is shown on a smallest set for which it would not be.
- The ranking holds of every set of vectors: two best-first orders of nearest
  vectors agree in their scores place by place, and the heap, fed in any order,
  ends with nearest ones, since there is no first place where it would not.

`SealedFile_proofs`, of SealedFile (any chunk size, tag, roots and lengths):
- `NonceUniqueness` (`NoncesAreUsedOnce`), from `Numbered`: chunk *i* carries index
  *i* - 1, the writer's next index is their number, and only the chunk `finish`
  seals bears the mark.
- `FileTypeCorrect`, `LengthTrusted` (`LengthIsTrustworthy`), `RangesExact`
  (`RangesAreExact`) and `FileImplements` (`ImplementsFile`) rest on `FileInv`:
  every chunk's plaintext follows that of the one before it (`InOrder`), all but the
  last are full and the buffer holds what is not sealed yet (`Buffering`), the size
  is that of the chunks until something is cut off (`Finished`), and a reader is
  only ever open on chunks that end with the mark (`Reading`). A size from which
  chunks can be counted belongs to one number of chunks, so a file cut anywhere
  either has the size it was finished with or is refused. That the loop of
  `read_range`, a recursive function, returns the range is shown from the end of the
  range backwards: the pieces a later chunk adds are known before an earlier one's.

`SealedFile_proofs`, of FileSwap (any processes, versions, files and faults):
`NamesAreSafe` is the inductive invariant `SwapInv`, and `AWholeFileIsNamed`
(`PathIsWhole`) and `LastWriteStays` (`NewestStays`) are its consequences. It
speaks of every directory in `onDisk`, not of `dir` alone, and needs no directory
to be synced ever: whatever a power loss goes back to leads to a synced and whole
file, with what was last written if nothing overlapped it (`Kept`). For that, a
file in the making must be no path of any such directory, belong to one process
only, and hold the value that process will give the path (`Owned`); it is whole
before it is synced and synced before it is renamed.

`AppKey_proofs` (any keys, processes, starts, commands and losses; of the
processes at most one records the key, `CustodyAssumption`, as the folder has one
owner, and an app's process is another):
- `CustodyTypeCorrect` and `IndexNamesHeldKeys` (`IndexedKeysAreHeld`) from
  `Base`, which says what a place says of a process's fields and that an index
  about to be written names keys the vault already holds.
- `SealingKeysHeld` (`SealingKeysAreHeld`), `OwnerFollowsTheRecord`
  (`OwnerUsesRecordedKey`) and `RunsOpen` (`RunsOpenAll`) from `CustodyInv`: a
  command runs alone; every entrusted key but the recorded one is in the index
  (`EldersRetired`), and no index about to be written drops one; the recorded key
  has a copy unless it is astray (`RecordSafe`); an owner between its read of the
  record and its run still has the record as it read it; a command replaces the
  recorded key only when that is retired. What a resolution without a race has
  found lies in a slot, or was lost by the keychain (`Unraced`), so a key it
  records is not recorded before it is stored. `AppInv` is the same for an app's
  key: all that is entrusted is under the recorded key, which some slot holds.

`SidecarAccess_proofs` (any runs, tokens, callers, times):
- `HandoffIsItsRuns` (`HandoffLeadsToItsRun`): only the run on the port is past
  its bind and before its shutdown, so a handoff is replaced only by a younger
  run's, and a run about to remove the file found it to be its own.
- `BearersFollowProofs` (`BearerFollowsProof`): an entry of the cache is never
  older than the proof it stands for, and a caller that was cleared at some time
  had a proof less than `Ttl` and one probe before it.

`AppEvents_proofs` (any limits, margins, bounds, streams): `HonestOutcomes`
(`OutcomesAreHonest`), for which a call with a limit is decided before its own
bound runs out, since the hops take less than the margin; `StreamsEndOnce`
(`OneTerminal`), for which frames still to be handled follow no terminal item;
`ChunksAreOne` (`ChunksDoNotMatter`) and `ClientTypeCorrect` (`TypeOK`), which rest
on `WireInv`: reading the wire byte by byte up to where the buffer begins has said
just what the stream has yielded, and the buffer is what has arrived since
(`Framed`). A frame is a whole number of data lines, since no line Core sends
breaks one (`Marked`), and what was said only grows until it is closed.

`AppEvents_proofs`, of TeamsApi (any requests, teams, agents, rosters):
`RequestsHoldTruth` is the inductive invariant `ApiInv`, `ApiTypeCorrect` its
type part. It says of a request what its step says of its answer: the record it
holds is one the team has had (`HoldsTruth`), the notice it owes is of its own
change (`NoticeFits`), and a delete whose handler could not read the team finds it
still unreadable unless another request changed it (`Unread`); of a team, that no
row it has had is newer than its row (`PastLeadsHere`), and that whoever changed it
last left it with what it says still, or said when it was deleted (`LastChange`,
over `Stood` and `Settled`).
- `EventsCarryRealRecords` (`EventsTellTheTruth`): also that a delete's record is
  the team as it stood immediately before, unless the handler's read was overtaken;
- `LifecycleIsAnnouncedOnce` (`LifecycleOnce`);
- `NewestRecordIsCurrent` (`NewestEventIsCurrent`), and for a team that is gone
  `DeletedIsKnown` (`DeletedTeamIsKnown`): where the delete's own record was
  overtaken, the event of the request that overtook it has the later stamp.

`SealedColumnsStaySealed` (`SealedColumnsProtected`) is about single steps and
needs its types only.

Only model-checked: liveness (`EventuallySealed`), which with ENABLED is beyond
the prover. What a recursive function computes for every input
is shown without the library's induction theorems: from a least place, or a
smallest set, at which it would not hold. Type invariants are proved, and left
out of the runs of modules that have such a proof: their configurations list only
what could be wrong.

## Finding

`custody_race`: two processes that find the keychain empty both store a key
there; the second replaces the one the first seals under. The key file is
published first-writer-wins for this reason (`lib.rs:1006-1010`); the keychain
is not. `SealingKeysAreHeld` holds when no such race happened (`raced`).

## Seen while modelling

Places where the code does something other than a comment says, or that deserve
a reader's attention, and that no run is about. Some were found as
counterexamples of properties that have since been stated more exactly.

Teams:
- A member handler compares the roster after its change with one it read earlier
  under another lock; when another request's change and ours cancel out, ours
  raises no event (`api.rs:358-359`, `manifest.json:182` exclude it). In the same
  way a no-op call may fire when another request changed the roster in between.
- `team.deleted` carries the row read before the DELETE, under another lock
  (`api.rs:308`), while `manifest.json:196` promises the group as it stood
  immediately before the delete: another request may change it between the two.
  `EventsTellTheTruth` excepts that window (`Overtaken`); `DeletedTeamIsKnown` says
  what a subscriber knows in spite of it. When the read fails, the id alone goes
  out.
- A DELETE between create's INSERT and its second read makes the insert answer 500
  without its `team.created`.
- An unhealthy store still executes DELETE and rewrites the roster of legacy
  plaintext rows.

Data at rest:
- Without a reset of the items, `migrate_columns` moves a retired store's record
  to the current root when this run met no unreadable value and all items are
  sealed; items sealed before are skipped, so their values stay under the retired
  root (`content_sqlite.rs:568-569` says every value opens under the current
  one). They stay readable as long as the retired root is delivered. This is why
  `RecordMovesAfterReset` speaks of owners that reset.
- A plaintext row written behind the cursor of an unfinished migration is not
  sealed by the next open.
- `run_deferred_compactions` called by a maintenance action beside the worker
  compacts two stores at once, and each clears the other's `running`.
- An owner of a log that appends again after a failed append counts records no
  scan commits (`sealed_log.rs:368`), and the next `open_append` cuts them off,
  synced ones included. `Durable` and `WriterContinuesLog` therefore speak of the
  records before the first append that failed.
- `sealed_log.rs:134-135` calls a zero-filled tail a torn one. Zeros that start
  inside a record and go on past the length it announced make it a record that does
  not open with more behind it: corruption, and the log is refused with all records
  before it. Zeros that end just there make it a failed final record, which is cut,
  or taken for a wrong key when it is the first.
  `ReopensAfterCrash` excepts both (`Overrun`), as well as frames appended after a
  failed one.
- `seal_file_in_place` answers `Sealed` whether or not the directory was synced
  (`sealed_file.rs:504-513`, a no-op off Unix), so a power loss may bring the
  plaintext back under the path. It is whole, and sealed again at the next start.
- What the owner writes to a file between `seal_file_in_place`'s read and its
  rename is lost, and so is a secret written while an older one is resealed.
  `seal_file_in_place` takes no lock: two processes sealing one file at once
  take away or rename each other's `.sealing` file. FileSwap has one sealer at a
  time, either process.

Keys:
- A `memory.key` that differs from the keychain's key is kept, but is not among
  the keys the cipher opens with (`lib.rs:1352-1355` says it is).
- A `keys` command that finds the keychain readable but not writable overwrites
  `master.key` without retiring the key in it unless that is the recorded key.
- An app run with `RYU_MASTER_KEY` never reads the keychain: what is sealed
  under the keychain's key does not open in that run, and the slot's record is
  replaced.
- `TenantCipher::new` has no retired keys, so `enc:v2` values stop opening after
  the master key is replaced; `SealedString` opens with retired keys without
  reporting that the value needs resealing.
- The standalone pin is read, then written: of two first runs by hand with
  different keys, at the same time, both may write it, the second over the first
  (`plugin_keys/files.rs:37`). PluginKeys leaves that out: see the assumptions.

The rest:
- `VectorIndex::remove` on a partition that is not hydrated leaves its total too
  high (`vector_index.rs:377` says it removes from the total).
- A handoff published between an older run's look at the file and its removal is
  removed with it; the invariant excepts that window (`raced`).
- `EventEmitter` and the model stream set no timeout of their own. A frame that
  names another request passes through; a final frame without its blank line is
  dropped. `call_with_agent_grant` leaves a blank grant out where
  `authorize_agent` refuses it.

## Assumptions

- PluginKeys: the way an app is run changes only while no process of it starts;
  legacy text does not begin with `encb:`; the standalone root is lost only at
  rest; owners write without calling `ensure_compat_write` first, as the team
  store does.
- Custody: commands run with all processes stopped.
- Handoff: a sidecar binds before it publishes and stops listening before it
  withdraws. That order is the sidecar's choice, and the Teams sidecar does not
  publish a handoff, so no code in this repository settles it. All runs share
  one port.
- Envelopes: derivations are injective, and an envelope opens under its own key
  and context alone.

## Not modelled

- The sidecar's start-up, paths, token gate and health probe, the SQL text, the
  layout and branding of the runtime, the DLL search path, the manifest: no state
  that changes after start-up.
- `content.rs`, `blind_index.rs`: the bytes of an envelope and the keyed hash of
  a word are the cipher's arithmetic. `SealedString` redaction, webview keys and
  the tenant cipher derive or hide one value per call.
- `install_file_custody`, `copy_retired_keys_with`, `copy_master_key`, the
  data-format marker, the health report of the master key: they set a folder up
  or report on it, and their writes follow one another before any process has
  resolved a key there.
- `compact_to_sealed_file`: a read of a log into a sealed file that is renamed to
  its place; it leaves the log as it is.
- The order in which the compaction worker takes its queue, its delay, and the
  read-only probes of stores.
- `notify.rs`: it words one notification and sends it through `emit`.
- Release scripts and workflows: not part of the running program.

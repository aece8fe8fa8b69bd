# Specification of traffic-count

TLA+ modules, TLC configurations and TLAPS proofs for traffic-count, a daemon
that counts traffic per MAC address with eBPF programs, copies the counters to
SQLite and serves them over HTTP. Paths below are relative to the root of the
repository (`src/` here).

## 1. The system

| Component | State | Operations | Code |
|---|---|---|---|
| eBPF programs | `traffic_map`, one counter block per (ifindex, MAC) | count a packet on ingress or egress | `bpf/*.c` |
| traffic map, user-space view | iterator position | lookup, iterate | `internal/ebpf/map.go` |
| attachment manager, loader | `ifaceStates`, links | load objects, attach, detach | `internal/ebpf/attachment.go`, `loader.go` |
| bootstrap validator | the startup result | check capabilities, interfaces, qdiscs | `internal/bootstrap` |
| runtime service | `status` (mode, attached, failed) | Start, Stop, UpdateFromResult | `internal/runtime/runtime.go` |
| flush loop | `lastFlush`, `flushErr`, stop channels | Start, Flush (on every tick and in Stop), Stop, IsStale | `internal/runtime/flush.go` |
| housekeeping loop | stop channels | Start, runOnce, Stop | `internal/runtime/housekeeping.go` |
| storage repository | three SQLite tables | upserts, queries, prune | `internal/storage` |
| main | start and stop order | start everything, wait for a signal, stop in order | `cmd/traffic-count/main.go` |
| HTTP API | none of its own | health, status, traffic queries | `internal/http` |
| configuration | the parsed file | load, validate | `internal/config` |

How they interact. The kernel runs the programs on every CPU and they share one
hash map. The flush loop's goroutine reads that map entry by entry while it
changes, reads a checkpoint row per entry and commits one transaction per entry
(checkpoint, total, daily row). `main` runs the same `Flush` once more in
`Stop`. The housekeeping goroutine deletes old daily rows from the same
database. HTTP handlers read the service's status, the flush loop's error and
last time, and the database, each without a lock that would cover two reads. The
configuration is read once, before anything else. The database outlives the process; the map is not
pinned and does not.

What is hard here, and what makes each part correct:

* A `Flush` is not atomic and no lock covers it. Correct means that the stored
  day always equals the value the next difference is taken against
  (`CheckpointMatchesDaily`), that all-time totals and daily rows get the same
  amounts (`TotalsCoverDaily`), that the two callers of `Flush` exclude each
  other (`FlushesNeverOverlap`).
* Any statement may fail, and the process may die between any two. A reported
  success must be one (`ReportedFlushIsComplete`), a failure must be retried or
  stay visible (`NeverStallsSilently`).
* Midnight comes at any time: during a Flush, or between the cutoff and the
  DELETE of a prune. Checkpoints must not move to an earlier day
  (`CheckpointDateNeverGoesBack`), days within the retention must not shrink
  (`RetentionHonoured`).
* Unsigned differences wrap when a counter is below its checkpoint, which every
  restart on the same day may cause.
* Shutdown is a chain of waits on channels, each of which competes with a ticker
  (`StopTerminates`).
* The programs race on the first packet of a key (`ImplementsTrafficMap`,
  `OnlyReplacementLoses`).
* Interfaces come and go between the validator's checks and the attachments, and
  one direction may fail without the other (`StrictMeansComplete`,
  `RunningCountsSomething`, `NoLinkLeaks`). An interface may also be deleted while
  the daemon runs; nothing in the code notices.
* `/healthz` and `/api/v1/status` read the mode and the age of the last Flush one
  after the other while Flushes end and the service stops. A 200 must have been
  true at some moment of the request (`HealthyAnswersAreTrue`), must bound what a
  crash would lose (`HealthyBoundsLoss`), and a loop whose Flushes succeed must
  not be called stale, however slow they are (`FreshUnlessFailing`).
* A traffic query reads the clock twice and pages through a table that is being
  written and pruned. No page walk over the totals may miss a key
  (`AllPagesMissNothing`), a window that midnight has cut through must still hold
  its day (`WindowHoldsItsDay`), and `window=all` must cover every answer given
  before (`AllCoversEveryWindow`).

## 2. The modules

```
TrafficCounters ── TrafficMap ──┐
       │                        ├─ FlushLoop ──┐
       ├── Storage ─────────────┤              ├─ Daemon ── MCDaemon
       │                        └─ HousekeepingLoop   │  └─ DaemonProofs ── TrafficProofs
       └── Ledger  (implemented by Daemon) ───────────┘
              └─ TrafficQuery ── MCTrafficQuery
                      └─ QueryProofs
TrafficPrograms  (implements TrafficMap) ── MCTrafficPrograms
                                         └─ ProgramsProofs
Config ── Service ── Health ── MCHealth
             └─ ServiceProofs ── HealthProofs
Sums  (used by Daemon, TrafficPrograms, TrafficQuery)
   └─ SumsProofs  (used by TrafficProofs, ProgramsProofs, QueryProofs)
```

**Sums.** The sum of the values of a function, defined as the number of units of
which its values consist. What is known of cardinalities then gives the facts about
sums that the proofs need, without an induction. `MCDaemon` has TLC compare it with
the sum of the community modules over all functions of up to three arguments and
values up to three (`SumOverAdds`).

**TrafficCounters.** Counter blocks. A block is a function from fields to words;
the Go code treats the six fields alike, so `Fields` is a parameter. `Half`
stands for 2^63 and `Word` for 2^64: `Sub64` wraps as `uint64` does. `Bindable`
is the rule of `database/sql`, which converts arguments for a driver that has
no value checker of its own and refuses a `uint64` whose high bit is set; this
is external code, and it matters, because it is what stops a wrapped difference
from being stored.

**TrafficMap.** The abstract specification of the eBPF side: entries appear with
zero (`Insert`), fields grow by single atomic adds (`Count`), an entry may be
replaced by a zero one (`Overwrite`), nothing is deleted, and there is a largest
number of entries. `counted` is a history variable: the traffic that was really
added, which the totals are compared with.

**TrafficPrograms.** `bpf/ingress.c` and `bpf/egress.c` step by step (lookup,
update, second lookup, four adds) on several CPUs. The kernel's preallocated
hash map is external: one element per entry and a spare one per CPU; an update
of an existing key swaps the spare element in, and a program on another CPU may
go on adding to the old one. A program is four values per CPU: where it is (`pc`),
its packet, the element its pointer refers to, and how many of its four adds are
done; three outcomes of the update are the actions' parts `Replace`, `Create` and
`NoRoom`. Parsing is abstracted to the key and the length it
yields; a frame without a whole Ethernet header changes nothing and has no
action. The user-space view `raw` is a state function, and the module is shown
to implement `TrafficMap`.

**Storage.** The tables and the statements that write them. A transaction is one
step. `date_utc` strings are compared as strings, which is the order of the
calendar, so dates are numbers. `today` is the clock; `pruneCut` is a history
variable, the highest cutoff that was pruned to. `UpsertTotal` and `UpsertDaily` are
the statements that `persistAll` executes inside its transaction
(`flush.go:226-280`); the methods of these names in `storage.go` hold the same SQL
and are called by tests only. The totals and the days are
SQLite integers and are modelled without the overflow of a signed 64-bit column,
which at 2^63 bytes per key is out of practical reach.

**FlushLoop.** `Flush` as four kinds of step for either caller: begin (iterator,
date), next entry, read the checkpoint, commit; plus its ends: iterator
exhausted, or an error. The Go local variables are the variables `key`,
`counters`, `cp`, `currentDateUTC`, per caller. `todo` and `seen` describe the
iterator (`MapIterator.Next`, in `IterNext` and `IterDone`): an entry that was
present when the Flush began is returned, one that was inserted later may be, and
with `"iter"` among `Faults` it may end at any entry. The value of an entry is read in one step; in the
kernel the copy is per word, and every field only grows, so the copy lies
between two values of the entry. `owed` is a history variable, the map as the
latest Flush began, without what an entry replaced since has lost. The branch for a nil map cannot be reached: the service
always builds one, in mock mode too, so it has no action.

**HousekeepingLoop.** `runOnce` in two steps, cutoff and DELETE. `lastRun`,
`lastPruneDate` and `pruneErr` are read by nothing but tests and are left out.

**Daemon.** Their composition under `main`: boot (`svc.Start`, `storage.New`,
`flush.Start`, `housekeeping.Start` with its first prune, or exit), run, and the
stop order: housekeeping, flush with its final Flush, `svc.Stop`. `Crash` may
come at any time. `Faults` says which failures the environment may cause.

**Ledger.** What the database promises its readers: an amount is credited to a
total and to a day that has begun in one step, days before the retention are
forgotten, a total never shrinks. No checkpoints, goroutines or restarts.
`Daemon` implements it (with the same tables and clock; everything else is
hidden), and the queries are stated over it, so that they need not be run beside
the whole daemon.

**TrafficQuery.** `handleTraffic` over the ledger: validation of the parameters,
the readings of the clock that its window needs (`queryDays` asks for the end
first, `queryMonth` for the start), one SELECT, aggregation per (ifindex, MAC),
the page. The steps of the ledger come in between. A key is a pair of numbers
`<<ifindex, mac>>`, since the code orders and filters by both. The order of the
records is the position of each: for the totals its place in the order of the
statement, for a daily window, whose records come out of a Go map, any. One handler is enough, since
handlers change nothing. Clients ask anything, or walk through all pages of
`window=all`. A request is answered before the day after the one on which it
came in is over. `MaxTotal` bounds the totals; the overflow of the sums in an
aggregation is left out for the same reason as in `Storage`.

**Config.** The defaults, what `json.Unmarshal` makes of a file with the
documented spelling of the keys or with that of the struct's fields, and
`Validate`. `Field` is what one field holds after `Unmarshal`. The struct has no
tags, so only `interfaces` matches under both.

**Service.** `main`'s loading of the configuration, the validator, `Service.Start` with the attachment manager, main's
`UpdateFromResult`, `Stop`. Every check and every attachment may turn out either
way, which models interfaces that come and go. A failed capability check has the
same outcome as a validation that no interface passes. `live` is what the kernel
really has, beside the manager's books `state` and `hasLink`. `IfaceGone` deletes an
interface at any time: its programs leave `live`, and the books and the status stay
as they are, so that a status of healthy may speak of an interface that is not there
any more (`gone`, a history variable). A link whose `Close` fails is dropped from
the books, as in the code, and its state is "failed" until `Service.Stop` ends. `Loads` says how
the loader may end; whether a given object file loads as real programs, as a
mock or not at all depends on the eBPF library and is not judged. An interface
that is listed twice in the configuration is not modelled. `MainFails` is every
end of `main` while the service is up; when it may happen is `Health`'s `Dies`. After `Stop` the
process is for a while still there ("stopped"), and so is its HTTP server.

**Health.** `Service` together with a flush loop in time and the two health
handlers. The ticker fires every interval and keeps one tick; a Flush lasts
between 0 and `MaxFlush`, which is assumed to be at most the interval (a longer
one makes the loop stale, rightly); a tick that waits for an idle loop is taken
before time passes, as Go's scheduler does it compared with seconds. What a Flush
does to the database is not repeated here: it succeeds or fails. `age` is the age
of `lastFlush`; `asOf` is a history variable, the time since the latest
successful Flush began, which is what its contents are as old as. A handler is
one step per read. The mode is a Go string, two words that `Stop` assigns without
a lock: a handler that reads it meanwhile may get a mixture, which is none of the
modes (`"torn"`). `sawOk` and `raced` are history variables of a request.

**MCDaemon, MCTrafficPrograms, MCHealth, MCTrafficQuery.** Symmetry and values for
TLC, and the assumption `SumOverAdds`.

**DaemonProofs, TrafficProofs, ServiceProofs, HealthProofs, ProgramsProofs,
QueryProofs, SumsProofs.** The theorems, see section 4.

Definitions named `Mut...` are deliberately wrong variants of the definition
after them, each a plausible slip in the code it stands for. Nothing uses them;
they are put in the place of the right ones to see that a property notices.

## 3. The runs

Passing runs. `CHECK_DEADLOCK FALSE` is used throughout: a process that was
started `MaxBoots` times and is down, or a machine without further packets, has
really stopped.

| Run | Bounds | What it shows |
|---|---|---|
| `accounting` | 1 key, 2 fields, 2 days, 2 boots, failing database, crashes | `TypeOK`, `CheckpointMatchesDaily`, `TotalsCoverDaily`, `FlushesNeverOverlap`, `AccountingInv`, `RowsWithinTraffic`, `CheckpointDateNeverGoesBack`, `RetentionHonoured`; the daemon implements `Ledger` |
| `liveness` | 2 keys, 1 field, failing database, replaced entries | the loop never stalls silently; a signal ends the process; a reported success is complete |
| `programs` | 3 CPUs, 3 keys, room for 2 entries, 3 packets | the programs implement `TrafficMap`; only the replacement of an entry loses packets; directions add up |
| `health` | 2 interfaces, 7 configuration files, all loader outcomes, intervals 2 and 3, Flushes of up to 2 | what the daemon runs on is what `allow_partial` permits; until its close was tried a link the kernel has is in the books; healthy answers are true, bound the loss, and are not withheld from a working loop |
| `queries` | 3 keys, 3 days, `7days` = 2, `30days` = 3, months of 2, limits 0 and 3 of at most 3 (default 2), bad MAC and bad window | page walks miss nothing, windows hold their day, totals cover every window |

Why the bounds are enough for the cases they are meant for:

* `Half = 2` makes words 0..3. A counter of 2 is refused by the driver, and a
  counter of 0 against a checkpoint of 1 gives a wrapped difference of 3, which
  is refused. Two fields give differences of which one field wraps and the other
  does not. Two boots give a counter below its checkpoint.
* Two days give a Flush that straddles midnight, the two Flush callers on
  different sides of it, and with `Retention = 0` a prune of the day before
  while its rows are still being written. What more days could add is covered by
  the proofs.
* Two keys give a Flush that stores one key and fails at the other.
* Three CPUs, three keys and two entries give a key whose entry is replaced while
  another CPU adds to it, a key beside it that must not notice, and a key that
  finds the map full. `MaxPackets` counts all packets. An element that is recycled
  twice while a CPU still adds to it needs a fourth packet; the theorems
  `ProgramsImplementMap`, `LossOnlyByReplacement` and `DirectionsBalance` cover it.
* `MaxFlush` equal to the shorter interval lets an age reach twice the interval
  exactly, where `>` and `>=` differ, and lets ticks wait behind a Flush. Each of
  the seven files is right, or wrong in one way: unreadable, no interfaces, an
  interval of 0 that `Validate` refuses, one of 0 that it does not look at,
  another bad value, the documented keys, the two settings of `allow_partial`.
* The keys of `queries` are one MAC on two interfaces and another MAC, so that
  aggregation can confuse two of them and a default page of two can be full and
  followed by another. Three days with a retention of one let rows be pruned
  inside a window of three, and let midnight fall into a month and between two.
  Longer windows, more keys and other limits are covered by the proofs.

Runs that contradict what the repository says of itself. Each has one property
that states a sentence of a document or comment, and TLC finds a behaviour of
the code that breaks it.

| Run | Statement | What the code does |
|---|---|---|
| `rollover` | "calling it multiple times with no new traffic will not double-count" (`internal/runtime/flush.go:105`) | the first Flush of a day takes the whole raw counter as its difference, so totals get the traffic before midnight again |
| `resync` | a negative difference is discarded and the next Flush resynchronises (`docs/zh/README.md:277`); after a crash in a flush the next one returns to normal (`:851`) | the statement is refused, the checkpoint stays, and every Flush fails the same way while the counter is below it |
| `iterator` | a Flush "reads all counters" and `LastFlush` is the last successful one (`flush.go:104`, `:309`) | an iterator that fails ends the Flush early, as a success |
| `first_packets` | counting is safe on multiple cores (`docs/zh/README.md:265`) | the second of two racing updates replaces the entry the first has counted in |
| `health_status` | healthy means all interfaces attached (`README.md:112`) | main overwrites the degraded mode that Start has set |
| `interface_filter` | `interface` filters by interface name (`README.md:81`) | Flush stores every row with an empty name, so a query that names an interface finds nothing |
| `config_keys` | `allow_partial` allows degraded mode (`README.md:51`) | the struct `Config` has no JSON tags; the documented keys with an underscore are ignored and the defaults apply |

Two passing properties are denied by a sentence of the repository:

* A crash. `docs/zh/README.md:845-851` says that a service which dies in a flush
  leaves the checkpoint behind, that the next delta is too large and traffic is
  counted twice, as a trade-off of precision for reliability. `CheckpointMatchesDaily`
  and, on the first day, `RowsWithinTraffic` say that this does not happen, and the
  code is on their side: checkpoint, total and day are one transaction, and the
  counters of the next process start from zero, so their difference to the old
  checkpoint is too small and not too large. What is lost is reliability: traffic up
  to the old checkpoint is not counted, and a Flush that comes before the counter has
  reached it is refused (`resync`). `README.md:120` and `docs/zh/README.md:175` and
  `:953` say, against `:849`, that checkpoints prevent counting twice. What the code
  does count twice it counts at midnight, without any crash (`rollover`).
* The staleness bound. `internal/runtime/flush_test.go:59-63` has the case "flush at
  exactly 2x interval is stale" and expects true. The code compares with `>`
  (`flush.go:333`), so an age of exactly twice the interval is not stale; the test
  passes only because some time goes by between its `time.Now()` and the call.
  `FreshUnlessFailing` holds for the code and not for the reading of the test: with
  `>=` (`MutIsStale`) a loop whose Flushes take a whole interval would be called stale
  although none of them fails. `flush.go:323`, `README.md:124` and
  `docs/zh/README.md:178` ("older than", "within", "超过") do not decide it as the
  test does.

The overwriting that `health_status` shows also makes `attached_ifaces` list interfaces to which nothing is
attached, in mock mode all of them (`docs/zh/API.md:123` says otherwise).

Three more things that the models show, without a run of their own. The programs
count on between the last Flush and `svc.Stop()`, so what they count then is lost
although `docs/zh/README.md:729` says that the last Flush loses nothing. A degraded
service answers `/healthz` with 503, as `README.md:57` says and
`docs/zh/API.md:71` does not. The pages of a daily window are cut from a new random
order for every request, so a walk through them may miss or repeat records.

### Fairness

`FairSpec` assumes what Go's scheduler and tickers give. Weak fairness of the
steps of a Flush, of the loops and of `main`: a goroutine that can run does run,
and a ticker keeps ticking. Strong fairness of the two loops' exits: when a tick
and a closed `stopCh` are both ready, `select` chooses at random, so it does not
choose the tick for ever, while the exit itself is disabled during every Flush
in between. Nothing is assumed of packets, signals, crashes, restarts, midnight,
nor of the success of a database statement: `NeverStallsSilently` allows a
database that fails for ever, as long as `FlushError()` shows it. It does assume that
every call of the database returns. A write that blocks for ever stalls the loop with
an empty `flush_error`, which is the case `docs/zh/README.md:778-786` describes; then
only the age of the last Flush shows it.

## 4. What is proved

The theorems hold for any sets of keys, fields, interfaces, configuration files and
CPUs, any word size, calendar, retention, length of windows, page limits, flush interval,
number of map entries, number of restarts and any combination of faults, unless a hypothesis is named.

| Module | Theorem | Statement |
|---|---|---|
| `DaemonProofs` | `TypeCorrect` | `Spec => []TypeOK`; checkpoints hold only values below 2^63 |
| | `AccountingInvariant` | `Spec => []AccountingInv` |
| | `AccountsBalance` | `Spec => []CheckpointMatchesDaily` |
| | `MutualExclusion` | `Spec => []FlushesNeverOverlap` |
| | `CheckpointsMoveForward` | `Spec => CheckpointDateNeverGoesBack` |
| | `KeptDaysNeverShrink` | `Spec => RetentionHonoured` |
| | `DaemonImplementsLedger` | `Spec => ImplementsLedger` |
| `TrafficProofs` | `RowsBoundedByTraffic` | `Spec => []RowsWithinTraffic` |
| | `SuccessMeansStored` | `Spec => []ReportedFlushIsComplete`, if `"iter"` is not among `Faults` and `MaxCounted < 2^64` |
| | `TotalsCoverDays` | `Spec => []TotalsCoverDaily` |
| `ServiceProofs` | `StrictServiceIsComplete` | `Spec => []StrictMeansComplete` |
| | `ServiceCounts` | `Spec => []RunningCountsSomething` |
| | `LinksAccountedFor` | `Spec => []NoLinkLeaks` |
| `HealthProofs` | `HealthImplementsService` | `HealthSpec => Spec` of `Service` |
| | `HealthTypes` | `HealthSpec => []HealthTypeOK` |
| | `NoFalseAlarm` | `HealthSpec => []FreshUnlessFailing` |
| | `AnswersAreTrue` | `HealthSpec => []HealthyAnswersAreTrue` |
| | `HealthyLossBound` | `HealthSpec => HealthyBoundsLoss` |
| `ProgramsProofs` | `ProgramsImplementMap` | `Spec => ImplementsTrafficMap` |
| | `LossOnlyByReplacement` | `Spec => []OnlyReplacementLoses`, if `MaxPackets < 2^64` |
| | `DirectionsBalance` | `Spec => []DirectionsAddUp`, if `MaxLen * MaxPackets < 2^64` |
| `QueryProofs` | `QueryTypes` | `QuerySpec => []QueryTypeOK` |
| | `WalksMissNothing` | `QuerySpec => []AllPagesMissNothing` |
| | `WindowsHoldTheirDay` | `QuerySpec => WindowHoldsItsDay` |
| | `AllCoversWindows` | `QuerySpec => AllCoversEveryWindow` |

Assumptions on the constants: `HalfAssumption` (Half is a positive natural
number), `MapBounds`, `CalendarAssumption`, `BootsAssumption` (bounds are natural
numbers), `NilIsNoCheckpoint` and `NilIsNoCounter`; for `Service` and `Health`
`DefaultsAssumption` (the default intervals are positive), `LoadsAssumption`
(there is an interface, files hold values of the right types) and
`HealthAssumption` (a Flush takes no longer than a valid interval); for the
programs `ProgramBounds` (finitely many CPUs and elements, lengths between 1 and
a bound below 2^64: `skb->len` is 32 bits wide), `ElementNames` (elements have
different names) and `FieldNames`; for the queries `LedgerAssumption`,
`QueryAssumption` (windows and months have at least two days, the default limit is
in range), `KeysAssumption` (finitely many pairs of numbers) and `NilIsNoDate`. TLC
evaluates all of them in the runs.

**The accounting.** `CheckpointMatchesDaily` says that the daily row of a checkpoint's
day equals the checkpoint's raw value, as long as the day was not pruned. It is
not inductive: the transaction of a Flush adds a difference that was taken
against a row read earlier. `AccountingInv` adds what makes that difference
right:

* `FlushOwner`: `main` is in Flush only after the loop has returned, so at most
  one Flush is under way, hence
* `CheckpointIsFresh`: the row a Flush has read is still the one in the table;
* `DatesInOrder`: no checkpoint is dated after the date of a Flush in progress,
  and that date is not after today. On the same day the difference is added to
  the row it was taken against; on a later day
* `LaterDaysEmpty`: the new day's row is still empty, so adding the raw value
  gives the raw value;
* `FlushLocalsOK`: the locals have values where they are used.

The arithmetic is the lemma `AcceptedDelta`: if the raw value, the checkpoint and
the wrapped difference are all accepted by the driver, the difference did not
wrap. `CheckpointsMoveForward` follows from `DatesInOrder`. `KeptDaysNeverShrink`
needs one more invariant, `CutoffNotAhead`: the cutoff of a prune in progress
may be out of date, but only by being too early.

`DaemonImplementsLedger` needs both. A transaction of a Flush is a `Credit`
(`PersistIsCredit`) because its amount was accepted by the driver and, by
`DatesInOrder`, its date is not after today; a DELETE is a `Forget`
(`PruneIsForget`) because its cutoff, by `CutoffNotAhead`, is not ahead of the
retention; midnight is midnight, and every other step leaves the tables and the
clock alone. The queries, which are checked over the ledger, may therefore
rely on it for every value of the constants.

**Traffic and totals.** `RowsWithinTraffic` compares two things that no step
relates directly. `TrafficInv` puts the chain in between. `NothingInvented`: the
map, the value a Flush has at hand and the checkpoint are each bounded by what was
counted. `RowsBounded`: the row of the checkpoint's day is at most the checkpoint. It
is equal to it unless the day was pruned, but a Flush that straddles midnight may go
on with a day that was pruned meanwhile, so `CheckpointMatchesDaily` is not enough
here. `FirstDayTotals`: on the first day nothing was pruned and the totals are that
day's rows. More is false. A row of a later day is bounded by all the traffic of its
key and not by that of its day, and the totals exceed the traffic from the second day
on, which is what run `rollover` shows.

**Totals and days.** `TotalsCoverDaily` is inductive beside `AccountingInv`. A
transaction adds one amount to a total and to one day, so to the sum over the days
(`PersistAddsToBoth`); a prune takes from the days only, and from none while the
cutoff is the first day (`PruneTakesFromDays`). No other step writes either table.

**A reported success.** `ReportInv` follows an entry that the latest Flush owes:
`NoEntryForgotten` says that the Flush has yet to visit it, has it at hand with a
value that is new enough, or has stored it; `OwedIsInMap` that the entry has not
shrunk since; `SuccessIsComplete` carries it over to the time between Flushes. Both
hypotheses are needed. An iterator that fails ends a Flush early as a success, as
run `iterator` shows, and a counter that wraps is below what was owed.

**Start and stop.** `ServiceInv` follows Start through the interfaces
(`AttachProgress`: one that is done has both directions or is failed), states what
Start lets pass (`StartedWell`), that the links and the states agree until Stop and
that the kernel has the programs of every link whose interface was not deleted
(`BooksMatch`), and that every link which is left during Stop belongs to an interface
it has yet to come to (`DetachProgress`). Start decides by the books, which a deleted
interface does not change, so the invariants speak of the books and the properties of
the kernel, up to `gone`.

**Health.** `HealthImplementsService` carries the above over to the model with a
clock. `HealthInv` adds

* `CfgFromFile` and `LoopPlace`: the loop runs with an interval that `Validate` has
  accepted, and `svc.Stop()` comes after the last Flush;
* `FlushOnTick`: while Flushes succeed, `age + next` is at most the interval until
  the tick, and the age at most the interval plus the length of the Flush after it,
  so twice the interval is never exceeded;
* `AgesMatch`: `lastFlush` is later than the begin of its Flush by at most `MaxFlush`
  (so `HealthyBoundsLoss` bounds the age of the latest Flush that was recorded as a
  success; that such a Flush has stored the map is `ReportedFlushIsComplete`);
* `HandlersKnow`: a handler that may yet answer "healthy" has read a mode that was
  healthy, and if it is not any more then the last Flush is over, so that what was
  stale stays stale. This is where main's stop order is used.

**The programs.** `OneOwner`: an element belongs to one key, to one CPU as its spare
or to the free list, so an add changes one entry or none that user space sees, and
an update cannot disturb a second key. `RoomLeft`: entries and free elements add up
to the elements there are, so an entry that is created fits into the abstract map.
`CountBounded` bounds what is counted by the packets, through the CPUs that have
yet to add to a field; it is needed because the abstract map is bounded.
`PacketsInv` is for the packets: those of a key that was never replaced are counted
or under way (`PacketsAccountedFor`, over the number of CPUs in `Uncounted`), no
pointer goes to a free element (`FreeUntouched`), and a second lookup misses only
when the map is full (`MissMeansFull`).

`DirectionsAddUp` speaks of a moment without programs under way. `EntriesBalanced`
says what holds at any other: the total of an entry is ahead of its two directions by
`BytesToCome` and `PacketsToCome`, which the first two adds of a program open and its
last two close, summed over the CPUs. A created entry is balanced because nothing adds
to a free element. `EntryWithinCounted` bounds an entry by what was counted, and with
`CountBounded` and the hypothesis no add wraps; an add that wraps would change the
total and not yet its direction.

**Queries.** `QueryInv` has a part for each property.

* `HandlerPlace`: a handler under way has a parsed request, with a limit in range,
  that came in today or yesterday.
* `WindowPlace`: the day of the first reading of the clock lies between the bounds.
  At most one midnight comes while a request is under way, and a window of n days,
  with n at least 2, that is read one day later still reaches back to that day. For
  this `queryMonth` has to ask for the start first: at the end of a month it would
  otherwise end before it starts.
* `TotalsCover`: a total covers the sum of the days that are kept, and every answer
  given so far. An answer adds up different days of one key, so it is a part of that
  sum (`SumMonotone` over the rows).
* `WalkPlace`: a key the walk has yet to see has a place, in the order of the
  statement, at or after the walk's offset. Rows are only inserted, so places only
  grow. Places are a bijection onto the positions, so a page that is not full was the
  last one, and nothing is left behind it.

The code's promise is for `window=all`: the page walk over a daily window has no such
property, since its order is new with each request.

Every inductive invariant was checked by TLC under the bounds of the corresponding
run before it was proved.

Only model-checked, because out of the prover's reach: `NeverStallsSilently` and
`StopTerminates`, which rest on fairness and ENABLED.

## 5. Not modelled

* `ListCheckpoints` beyond its success or failure at the start, and `GetDaily` and
  `GetTotal`, which only tests call. None of them changes state.
* The lists and texts of the status, the texts of errors, logging. An HTTP server
  that cannot bind its address: it is logged and the daemon runs on.
* Which outcome a given object file has in the loader: it depends on the eBPF
  library (the structs handed to `LoadAndAssign` have no `ebpf` tags,
  `loader.go:52-56`), so all three are possible.
* Whether the eBPF library accepts what the iterator gives it: `NextKey` gets a nil
  pointer of type `*TrafficKey` first (`map.go:33-39`, `:55`), and `ebpf.go` declares
  12-byte keys (`:24`) for a struct of 10 bytes, which is what `loader.go:109` says.
  The model takes the iterator as one that works, unless `"iter"` is among `Faults`.
* A client that walks the pages by a limit of its own, when the server has replaced
  it: the walk of `TrafficQuery` goes by the limit in the answers.
* `Stop` of a loop that was never started and concurrent `Stop`s: `main` does
  neither.
* Clocks that step backwards: `today` only grows.
* The kernel's map below its interface, the eBPF library, SQLite's journal: a
  transaction is atomic and durable when its commit returns.
* Code generation, test helpers, `systemd` and packaging.

## 6. What is left

Everything that changes state in the running service is modelled, every safety
property of a passing run is proved, and the two liveness properties are checked by
TLC. What could be added is a closer connection of `Daemon` and `TrafficPrograms`:
`Daemon` is stated over `TrafficMap`, which the programs are proved to implement, and
the two are not composed into one specification.

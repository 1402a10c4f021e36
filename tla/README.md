# Verification of async-rust

TLA+ models of the concurrent programs in this workspace, the TLC runs that
check them on small instances, and theorems about them with TLAPS proofs.

Three crates hold most of the workspace's own concurrent logic: a replicated
key-value store over Raft with a terminal (`19-raft-replication`), a chat broker
(`9-local-chat-mesh`) and a two-priority executor (`16-async-queue`). Two families
of smaller programs have a protocol worth checking too: the futures that share
data behind a mutex (`12`, `14`, `15`), and the writer and watchers of a file
(`4`, `5`, `6`). The other crates are exercises of one language feature each.

## Inventory

### 19-raft-replication

| part | state | operations |
|---|---|---|
| `node.rs` `RaftNode` | role, term, vote, log, commit index (in the `raft` crate and `MemStorage`), store | `campaign`, `tick`, `propose`, `step`, `poll_ready` |
| `runtime.rs` `Worker` | `pending_puts` and the node it owns | client requests, peer messages, ticks; then `process_ready` |
| `runtime.rs` `NodeHandle` | none; each call blocks on a channel of its own | `put`, `get`, `status`, `campaign`, `shutdown` |
| `runtime.rs` `spawn_node`, listener | none | binds its address; a thread per connection reads one message and hands it to the worker |
| `bin/node.rs` | input line, cursor, output lines, scroll, status bar | keys, commands, log lines, drawing |
| `protocol.rs` | none | `ConsoleCommand::parse` |

The worker is one thread and owns its node, so a node is never touched by two
threads. What is concurrent is the cluster: every message travels on a TCP
connection and a thread of its own, so messages are reordered, and lost when a
connection fails. Callers block on a reply channel that the worker keeps in
`pending_puts` until a command with their key and value is applied. The terminal
is such a caller: one thread draws, reads keys and blocks in calls.

Hard: competing elections with late votes; appends of deposed leaders; a caller
whose leader is deposed; a worker that ends with callers waiting, or with a
terminal about to call it; a bind that fails in another thread; a window that
follows its newest line while lines come from two sides.
Correct means: one leader per term; nodes apply the same commands; nothing
committed changes; Ok means committed and applied; no caller is forgotten; the
cluster looks like one store; the user can go on typing; what the user reads
does not move.

### 9-local-chat-mesh

| part | state | operations |
|---|---|---|
| `broker.rs` `BrokerState` | `clients` (a mutex), a broadcast channel of 128 | `register_client`, `remove_client`, `broadcast`, `subscribe` |
| `broker.rs` a task per connection | where it stands in `handle_connection`; its inbox; a read in progress | handshake, welcome, session, clean up |
| `message.rs` | none | a JSON line per message |
| `client.rs` | the user's line | select over server, terminal and ctrl-c |

Tasks run on the threads of one tokio runtime and share the registry and the
channel. Hard: two clients with one nickname; everything that can happen between
registering, announcing, subscribing, unregistering and announcing the leave;
lag; a read dropped half way by the select; connections that die at each point.
Correct means: nicknames are unique and freed; announcements are in order;
people in the chat know of each other; a session catches up, or ends.

### 16-async-queue

| part | state | operations |
|---|---|---|
| `spawn_task`, `Runnable` (async-task) | a task's Runnable: queued, being run, or not there | schedule, wake |
| the two queues | channels, and threads started on first use | `try_recv` high then low; `recv` low |
| `join!` | the caller's place | `block_on` each task in turn; a panic drops, and so cancels, the tasks after it |
| network stack of `demo_two`, `ServerFuture` | in hyper, TLS and mio | futures woken from outside |

Hard: a wake that races the end of the poll; panics; tasks cancelled wherever
they are; polls that never return; stealing between queues. Correct means: no
task is polled by two threads, no wake is lost, tasks finish.

### 12, 14, 15: futures that share data

`CounterFuture` and `AsyncWriteFuture` try the lock in `poll` and wake themselves
when they do not get it; the async versions and `12` wait in the queue of a tokio
mutex. State: who has the lock, its queue, the counter or the file. Hard: a
future that returns Pending and is never woken; two read-modify-writes at once;
a failed write; a future its owner stops polling while it has the lock or its
place in the queue. Correct means: every increment, decrement and entry takes
effect once, and everybody finishes.

### 4, 5, 6: a file and those who watch it

`5-file-writer` appends lines (`tokio::fs` writes them in the background);
`4-file-watcher` prints the file when it changes, `6-async-tail-f` what is new.
State: the file, its modification time, a task that compares it, the watch
channel, main's offset. Hard: a write while main reads; a notice that is only a
flag; a file that is removed, truncated or impossible to read; modification times
too coarse to tell two writes apart. Correct means: each line printed once, in order, in the end.

### The rest

`13` (a future woken from another task) and `18` (a demo of the `raft` crate on
one thread) are not modelled, nor are the language exercises. `PROJECT.json`
lists every part under `components`, modelled or not, and every hazard under
`hazards`.

## Modules

| module | what it models |
|---|---|
| `RaftNode` | the consensus node: elections, replication, commit and application, one operator per handler |
| `RaftWorker` | extends `RaftNode`: the workers, their callers and the network; the properties |
| `ReplicatedStore` | abstract: what the cluster promises, without elections, logs or messages |
| `MCRaftWorker` | instances for TLC |
| `RaftWorkerProofs` | types, log bounds, `CommittedNeverChanges`; callers; `ElectionSafety` |
| `RaftLogProofs` | the inductive invariant of the logs; `StateMachineSafety`, `LogMatching`, `LeadersHaveCommitted` |
| `RaftStoreProofs` | `AckedPutIsReplicated`, `StoresConverge` and the refinement `ClusterIsOneStore` |
| `NodeTerminal`, `MCNodeTerminal`, `NodeTerminalProofs` | a node process as its user sees it: terminal, worker, listener; an instance; its safety properties |
| `ChatBroker`, `MCChatBroker`, `ChatBrokerProofs` | the broker and its clients; instances; its safety properties |
| `PriorityExecutor`, `MCPriorityExecutor`, `ExecutorProofs` | the executor; an instance; its safety properties |
| `LockFutures`, `MCLockFutures`, `LockFuturesProofs` | the tasks of 12, 14 and 15 and their locks; the programs; types, `OneOwner` and the refinement |
| `AtomicUpdates` | abstract: data that is updated one whole update at a time |
| `FileWatch`, `FileWatchProofs` | 5 as the writer, 4 or 6 as the watcher, and the file between them; its safety properties |

Operators named "Faulty" in a comment are deliberately wrong variants of the
definition after them: with one in its place, the run named in `PROJECT.json`
under `mutants` finds the property violated.

### RaftNode and RaftWorker

The `raft` crate is a dependency, not part of this repository. `RaftNode`
models what `node.rs` relies on, for the `Config` of `RaftNode::new`: no
pre-vote, no quorum check, at most one entry per append. Each handler of the
crate is an operator (`GrantVote`, `AppendAccept`, `HandleAppended`, ...), `Step`
is their disjunction and corresponds to `RaftNode::step`; `Hup` is `campaign`,
`HeartbeatTick` is `tick` when a leader's heartbeat is due, `ApplyEntry` is
`apply_entries`. A heartbeat is merged with the append its answer triggers.
Which part of a message can matter is kept; snapshots, membership change and
read index, which the code never uses, are left out.

`RaftWorker` gives each event of `Worker::run` an action: `Receive` (network
arm), `ElectionTimeout` and `Heartbeat` (tick), and, for the client arm,
`PutOnLeader`, `PutRefused`, `Campaign` and `CallFails`. An event includes the
sending of what it produced (first half of `process_ready`); `Ready` applies one
committed entry and answers the PUT that waits for it (`notify_put`). A worker
with entries left to apply takes no other event, as in the code, where
`process_ready` runs to its end before the next select. `Stop` is every way out
of the loop; dropping `pending_puts` closes the reply channels. `get`, `status`
and logging change nothing and are left out.

A log entry is its term and the call it came from: `KeyOf` and `ValueOf` give
the command, so two calls may write the same key and value and still be told
apart by the model, though not by `notify_put`.

**ReplicatedStore** is the cluster as its callers should see it: one sequence of
decided PUTs that only grows and has each of them at most once, nodes that apply
it in order, and a caller that is told Ok only when a command with its key and
value is applied. The refinement mapping takes the committed entries of the node
that has committed most for what is decided (`Decided`), and the nodes' stores
and answers as they are. `ClusterIsOneStore` is the abstract specification
under that mapping.

### NodeTerminal

The main thread is at a `Place` in the loop of `run_tui`: `DrainAndDraw` (log
lines, `render_ui`), a key or none, then the status if it is due. A command that
needs the node is a `Call`, which leaves the thread waiting, and `Reported`,
`Listed` or `ListFails` when it returns; `update_status` is such a call too
(`Due`, `Refreshed`). The worker takes requests in order (`Serve`), remembers a
PUT until it is applied (`PutApplied`), and may end by shutdown, by an error or
because the listener panicked (`WorkerCrashes`, `NetworkCloses`); what it then
leaves behind is what makes the handle's calls return errors. What its node
decides is `RaftWorker`'s subject: here its answers are any it may give, and
role, term and leader are one number.

The input line is kept as bytes because `cursor_position` counts characters and
is used as a byte index; the output is how many lines there are, and what the
window shows is its first line, `Top`. `Parse` is `ConsoleCommand::parse`. What
a line says is chosen when it is read: its length does not limit it.

### ChatBroker

A task of the broker is at a `Place`; a step takes it to its next use of shared
state or of its connection. `Register` is the critical section of
`register_client`. `WelcomeFails`, `AnnounceJoined` and `Subscribe` are the
three points between registering and the session. The two arms of the session's
select are the `Read...` actions and `Deliver`, `Lagged`, `DeliverFails`.
`ReadHead` and `ReadTail` are a line that arrives in two segments; a broadcast
in between drops the read with what it holds (`DropRead`). `Unregister` and
`AnnounceLeft` are the two steps of `cleanup_client_disconnect`. The channel is
modelled as all messages posted and, per inbox, the position read; only the
newest `Capacity` can be received. `view` is what a client has been told.

A client that stops reading (so that a write blocks) and the end of the process
are not modelled.

### PriorityExecutor

`Take` and one of `Finish`, `Panic`, `Pend` are the start and the end of
`runnable.run()`; in between, another thread may use the task's waker (`Wake`).
async-task's promise of one Runnable per task is modelled by `state` and
`woken`. `HighTurn` is the loop of a high priority thread, which looks at its
own queue and then at the other; `LowTurn` the loop of a low priority thread,
which blocks in `recv`. `started` is the `LazyLock` of each queue: its threads
exist from the first send on. Futures are reduced to the number of polls they
need and to who wakes them; `Endless` are those whose poll may never return, as
that of `ServerFuture` at the end of its input.

When the task that is joined has panicked, `block_on` panics too, and the
unwinding drops the handles the caller has left (`DropHandle`). async-task closes
such a task: its future is dropped by the worker that takes its Runnable (`Take`)
or by the one that polls it, when the poll ends (`Pend`); one that waits is
scheduled once more for that, and wakes do nothing from then on. The caller is
any thread: a panic of `main` would end the workers as well.

### LockFutures and AtomicUpdates

One module for three programs, which differ in constants: who spins
(`Spinning`), who sleeps with the lock (`Sleeping`), whose write may fail
(`Fallible`), whose owner may leave it (`Abandonable`), who is awaited before
whom (`After`). A round of a task is taking the lock (`TryLocks` or `TryFails`
in a `poll`; `LockNow`, or `LockLater` and `Resume`, for `lock().await`), `Read`,
`Write` or `NoWrite`, and dropping the guard (`Release`, or `HandOver` when
others wait, which is tokio's fairness). `Abandon` is the select of `12` taking
its timeout: the future is pinned outside the select, so it is not dropped, and
keeps what it has.

`AtomicUpdates` knows no locks: an update is one step, on the value the last one
left. `UpdatesAreAtomic` is its specification, with the data as the value and the
finished rounds (`Turns`) as its turns; an update takes effect with `Write`, and
everything else is a stutter.

### FileWatch

`OpenToAppend` and `WriteAll` are `append_data`; `Land` and `LandFails` the
background write, after the writer believes it done. `Look` is one turn of
`watch_file_changes` that finds a new modification time; `Notice`, `OpenToRead`,
`ReadAll` or `ReadNew`, and `PutOut` are main of `4` and `6`. `OpenToReadFails` is
a file that is gone; `StartFails` and `ReadFails` are the other errors of opening
and reading (permission, contents that are no UTF-8), after which `4` panics and
`6` waits for more news, its offset unmoved. `Remove` and `Truncate` are somebody
else; `Touch` may leave a modification time as it was.
Lines are numbered as they are written, and offsets count lines.

## Runs

| run | instance | checks |
|---|---|---|
| `raft_writes` | 3 nodes, 1 PUT, terms to 2, 3 messages in flight | types; `ElectionSafety`, `StateMachineSafety`, `LogMatching`, `LeadersHaveCommitted`, `StoresConverge`, `AckedPutIsReplicated`, `CommittedNeverChanges`, `ClusterIsOneStore` |
| `raft_callers` | 3 nodes, 2 PUTs of one key and value, 1 campaign, a worker that stops | `WaitersAreTracked`, `AckedPutApplied`, `ClusterIsOneStore` |
| `raft_put_answered` | 2 nodes, 1 PUT, 1 lost message, fairness | `PutAnsweredByStableLeader` |
| `node_terminal` | a line of 2 bytes, 5 output lines, 1 log line, 1 status change, fairness | types; `AsciiEditsNeverPanic`, `WindowKeepsItsPlace`, `UserIsServed`, `StatusBarFollows`, `DeafWorkerEnds` |
| `chat_broker` | 2 clients, 2 nicknames, channel of 1 | types; `UniqueNicknames`, `PostsInOrder`, `OneKnowsTheOther`, `HangUpFreesNickname`, `SessionsCatchUp` |
| `executor` | 4 tasks, 3 threads, a panic, two tasks it cancels, one poll that never returns | types; `OneRunnable`, `NeverStranded`, `OwnQueue`, `TasksFinish` |
| `lock_futures` | the programs of 12, 14 and 15, fairness | types; `OneOwner`, `UpdatesAreAtomic`, `TasksFinish` |
| `file_watch` | 2 lines, 2 files, 2 removals or truncations, 1 repeated time, 1 failed read, fairness | types; `TailIsExact`, `NoLineTwice`, `PanicsOnlyOnLoss`, `EveryLineIsPrinted`, `LatestIsPrinted` |
| `raft_lost_put` | 3 nodes, 1 PUT, fairness | violates `LostPutReturns` |
| `terminal_newest` | as `node_terminal` | violates `NewestIsVisible` |
| `chat_zombie` | 3 clients | violates `RosterIsCurrent` |
| `chat_roster_gap` | 2 clients | violates `EveryoneKnowsTheRoster` |

Run one with `tlc -workers 2 -config <run>.cfg <module>.tla`; `PROJECT.json` names
the module of each.

The last four runs state what a comment or README says and the code does not do;
`findings` in `PROJECT.json` quotes the line and says what the counterexample
shows.

Three more places where code and text disagree need no run to see:

- `campaign` on a leader answers that an election was started
  (`runtime.rs:437`, its doc at 147), and raft has ignored it.
- `notify_put` (`runtime.rs:540`) answers Ok to whoever waits for this key and
  value, so two equal PUTs can be answered by one entry, and the second lost
  without notice; `AckedPutApplied` says what Ok does mean.
- A comment (`16-async-queue/src/main.rs:509`) has low priority threads take
  high priority work; `recv` at line 504 blocks on their own queue.

### Bounds

- `MaxTerm = 2`: two elections, so there is a deposed leader with an entry of its
  own and a new leader that does not have it, the situation every safety
  property of Raft is about. Either election may have several candidates.
- `FewInFlight` stops exploring beyond states with more than 3 (or 4) messages in
  flight. With three nodes a broadcast is two messages, so a whole broadcast and
  an old message fit together: votes and appends of both terms overtake each
  other. Each property has a faulty variant of the code that the run finds within
  these bounds.
- `OneCandidatePerTerm` fixes who stands in which term, in the two runs whose point
  is a deposed leader and its callers (`raft_callers`, `raft_lost_put`); the first
  has its campaign called on the second leader (`CampaignsOnN2`). Every election is
  open in `raft_writes`.
- `raft_writes` has appends that are refused and logs that are cut, which two nodes
  in two terms cannot have: there the second leader needs the vote of the only
  other node, and so has its log.
- In `raft_callers` both PUTs have the same key and value, and the run reaches a
  PUT on the deposed leader that is answered by the other's command, its own entry
  overwritten. Exchanging the two is a symmetry (`Twins`).
- `raft_put_answered` uses two nodes: its caller sees one node at a time, and a
  leader with one lost message has no majority until a heartbeat repairs it.
- Symmetry over nodes is used in `raft_writes`, which checks safety only; its
  refinement mapping picks a node with the most committed entries, and which one
  it picks makes no difference to the entries.
- Terminal: two bytes hold a wide character, or a character on each side of the
  cursor. The window has three rows and the banner and HELP are one and two lines
  long, so five lines overflow it, and scrolling, following and clearing all
  happen. `MaxOffset` bounds how far Down runs past the end.
- Chat: with a channel of one message a session lags after two posts; the real
  capacity of 128 changes only how long that takes. `MaxLines = 1` line per
  connection after the hello; the rude client may say each kind of line.
- Executor: the tasks cover every way a poll can end, on both queues, and the
  panic comes after one successful join and before two tasks that are still to be
  joined: one is cancelled while queued, polled or waiting, the other while queued
  or in its poll that never returns.
- Locks: the counters take their lock three times; three entries share a file,
  so one waits behind another that waits.
- Files: two lines and two files let a line land in a file that was replaced
  since; one repeated modification time hides one change; one failed read takes one
  notice with it (`MaxError`).

`CHECK_DEADLOCK FALSE` is set where the system may come to rest: a Raft cluster
whose calls, terms and messages are used up, a terminal that has ended, a chat
whose clients have left, programs that are done, a file nobody writes to. The
`executor` run checks for deadlock: there a thread always has a turn.

### Fairness

- Raft: each worker thread goes on applying (`WF(Ready)`), ticks come
  (`WF(Heartbeat)`), and every pair of nodes goes on exchanging messages of each
  type, as a thread per connection does while connections succeed. Elections,
  calls and losses are never forced.
- Terminal: weak fairness of the main thread, of the worker's serving and of the
  two things a failing bind leads to, as threads are scheduled. `SF(Due)`: the
  status is asked for when 50 ms have passed, and a turn without a key waits for
  100, so it is due again and again. That a PUT is applied is not promised.
- Chat: weak fairness of each connection's task as a whole. Tokio polls every
  task that was woken; which ready arm of the select runs is random, and the
  fairness does not promise either arm its turn. Clients are never forced.
- Executor: weak fairness of each thread and of each waker. Threads are
  scheduled by the operating system; what a waiting task waits for is assumed to
  come. A poll that never returns has none.
- Locks: weak fairness of each task: the runtime polls every task that was woken.
  It is not strong: a spinning task gets the lock because the others have
  finitely many rounds.
- Files: weak fairness of the task that looks and of main, as on a runtime with a
  thread for each; the writer, its background writes and the file's other users
  are never forced. On a one-thread runtime `4` would not have it while the file
  is missing (see the hazards).

## Proofs

Assumptions on the constants are `NodeAssumption`, `CommandAssumption` and
`CallAssumption` (any finite set of at least two nodes, any calls, keys and values,
any bound on terms and losses), `TerminalAssumption` (any sizes and bounds),
`ChatAssumption`, `ExecutorAssumption` (any tasks, each spawned at most once and
polled at least once, any threads that serve one queue each), `LockAssumption`
(any tasks, locks, rounds, order and programs) and `WatchAssumption` (any bounds,
at least one file). Nothing else is assumed.

| theorem | states |
|---|---|
| `RaftWorkerProofs!TypeCorrect` | `Spec => []TypeOK` |
| `RaftWorkerProofs!TypesAndBounds` | in addition applied <= commit <= log length |
| `RaftWorkerProofs!CommittedStays` | `Spec => CommittedNeverChanges` |
| `RaftWorkerProofs!WaitersTracked` | `Spec => []WaitersAreTracked` |
| `RaftWorkerProofs!AcksAreApplied` | `Spec => []AckedPutApplied` |
| `RaftWorkerProofs!OneLeaderPerTerm` | `Spec => []ElectionSafety` |
| `RaftLogProofs!ClusterInvariant` | `Spec => []ClusterInv`: the inductive invariant of the logs |
| `RaftLogProofs!CommittedIsAgreed` | `Spec => []StateMachineSafety` |
| `RaftLogProofs!LogsAgreeBelow` | `Spec => []LogMatching` |
| `RaftLogProofs!NoElectionLosesEntries` | `Spec => []LeadersHaveCommitted` |
| `RaftStoreProofs!AcksAreReplicated` | `Spec => []AckedPutIsReplicated` |
| `RaftStoreProofs!StoresAgree` | `Spec => []StoresConverge` |
| `RaftStoreProofs!ClusterImplementsStore` | `Spec => ClusterIsOneStore`: the refinement |
| `NodeTerminalProofs!TerminalTypes` | `Spec => []TypeOK` |
| `NodeTerminalProofs!PanicNeedsWideCharacter` | `Spec => []AsciiEditsNeverPanic` |
| `NodeTerminalProofs!WindowStaysPut` | `Spec => WindowKeepsItsPlace` |
| `ChatBrokerProofs!BrokerTypes` | `Spec => []TypeOK` |
| `ChatBrokerProofs!NicknamesAreUnique` | `Spec => []UniqueNicknames` |
| `ChatBrokerProofs!PostsAreInOrder` | `Spec => []PostsInOrder` |
| `ChatBrokerProofs!OneIsToldOfTheOther` | `Spec => []OneKnowsTheOther` |
| `ExecutorProofs!ExecutorTypes` | `Spec => []TypeOK` |
| `ExecutorProofs!RunnableIsUnique` | `Spec => []OneRunnable` |
| `ExecutorProofs!NoWakeIsLost` | `Spec => []NeverStranded` |
| `ExecutorProofs!TasksKeepTheirQueue` | `Spec => []OwnQueue` |
| `LockFuturesProofs!LockTypes` | `Spec => []TypeOK` |
| `LockFuturesProofs!LockHasOneOwner` | `Spec => []OneOwner` |
| `LockFuturesProofs!UpdatesInTurn` | `Spec => UpdatesAreAtomic`: the refinement |
| `FileWatchProofs!WatchTypes` | `Spec => []TypeOK` |
| `FileWatchProofs!TailPrintsExactly` | `Spec => []TailIsExact` |
| `FileWatchProofs!TailNeverRepeats` | `Spec => []NoLineTwice` |
| `FileWatchProofs!UnwrapNeedsLoss` | `Spec => PanicsOnlyOnLoss` |

**Committed entries.** An append is refused below the commit index, and an
accepted one cuts the log only after `m.prev`, which is not below it; so no step
changes the committed prefix. `LogBounds` makes the prefix meaningful.

**Elections.** `ElectionSafety` is not inductive: nothing in it says where a
majority came from. `Backs(v, t, a)` says that v's vote for a in term t is on its
way or counted. `BackingIsKept` (a node in that term still has it as its vote)
and `BackingIsUnique` are inductive together, and `LeaderHasMajority` says that
a leader's votes are counted votes. Two leaders of one term have majorities that
meet (`MajoritiesMeet`, from the library's facts on cardinality) in a node that
backs both.

**Callers.** `WaitersAreTracked` needs `PendingOnce` (no call is remembered
twice) and `HomeIsKnown`. `AckedPutApplied` rests on `CommittedStays`: what was
applied when the caller was answered is still there.

**Logs.** No conjunction of facts about one state shows that nodes agree on what
is committed: the reason lies in elections and acknowledgements that are over.
`ClusterInv` therefore says that a record of them exists: `led[t]`, the log of the
leader of term t as it last led, and `acked[v][t]`, how much of it v has
acknowledged in t (`\E led, acked : LogInv(led, acked)`). No variable is added; the
proof of a step builds the next record from the last. Every log is put together
from leaders' logs (`Fits`), which is log matching; a commit index is of entries
that a majority acknowledged (`CommitsAreChosen`). The heart is
`LeadersAreComplete`: an entry that a majority has acknowledged in its term, or
still may because enough nodes have not left it (`Safe`), is in the log of every
later leader. It needs that what a node acknowledged it keeps (`AcksAreKept`), and
that a candidate whom it votes for has it (`VotesAreSafe`), because `UpToDate`
compared the logs; then the voters and those who acknowledged share a node
(`MajoritiesMeet`). `LogStep` collects what a step may do to logs, record, commit
indexes and messages; each handler is shown to make one (`Hup`, votes, appends,
acknowledgements, proposals), and each part of the invariant to survive one, so
that no part is proved handler by handler.

**Stores and the refinement.** A store is what the applied entries leave
(`IsStoreOf`), applied entries are committed, and committed ones agreed:
`StoresConverge`. For `ClusterIsOneStore` what is decided is the committed entries
of a node that has committed most; that there is one is well-foundedness
(`SomeForemost`), and that it does not matter which is `StateMachineSafety`. Then
decided grows and never changes (`DecidedGrows`), a call is in it at most once
(`CallsOnce`: a call is proposed once, and copies of an entry stay at one index),
and each step of a worker decides, applies, answers, or is a stutter.

**Terminal.** An edit panics when the cursor, taken as a byte index, is inside a
character. That it is never past the end of the line (`LineOK`) is inductive,
and an index within a line of one-byte characters is a boundary, so a panic
means a wider one. The window: `Top` is the smaller of the offset and the last
possible first line; `Show`, by which everything prints, leaves the offset alone
unless the window is at the bottom, and more lines cannot pull a window up
(`ShowKeepsPlace`). Keys that scroll, CLEAR and drawing are the exceptions the
property names. The types need two more arguments. At most two requests are in the
channel because a call's request is there only while its caller waits, and what
EXIT sends stays only for the last turn (`CallsFit`); and the output stays within
its bound because lines that are still to come, of a command in progress and the
last one of a worker, are counted before they are printed (`LinesFit`).

**Chat.** A nickname is given to a connection in the step that registers it, when
no registered one has it; registered connections are past their handshake
(`PastHandshake`), so that none registers twice. `PostsInOrder` is inductive
together with `PostsFitPlaces`, which says what a task has posted from where it
stands. `OneKnowsTheOther` is about sessions, but the reason holds from the
registration on (`OneOfTwoKnows`): of two clients the later is listed the earlier,
who is registered as long as it is there (`PresentAreRegistered`). Afterwards only
a message that somebody left takes a nickname from a view, and by
`PostsFitPlaces` that connection is closed, so it is not that of somebody present
who never shared it.

**Executor.** The invariant `ExecutorInv` is the properties of the run and three
more. `OneRunnable` says where the Runnable of a task is: `QueuesHold` for the
queues, `WorkersHold` for the threads. Scheduling a task that is not queued adds it
to one queue (lemma `Enqueue`), taking the head of a queue moves it to the thread
that took it (`Dequeue`, `Engage`), the end of a poll releases it (`Release`).
`NotYetSpawned` is needed for a spawn to find its task in no queue and with no
thread. `NeverStranded` is not inductive: that a poll which returns Pending leaves a
wake to come, already during the poll, is `PendingWillWake`, and that a task asked
to be polled has a poll left is `PollsToGo`. A task cancelled while it waits is
queued again by the drop of its handle, which is `Enqueue` once more, and the head
of a queue that is only dropped leaves the workers as they are (`CancelInv`).

**Locks.** A write appends to what its task has read, and `AtomicUpdates` to what
the data is: they are the same by `OwnerIsCurrent`, which holds because a task
that has read is the owner and a lock has one (`OneOwner`). `OneOwner` is
inductive with the types; a lemma for each way a lock changes hands (taken,
queued for, left, handed over) keeps it, the last being the one about queues:
the head leaves the queue of waiters and no other does. `RoundToGo` says that who
is not done has a round left, so the abstract turn is allowed. Every other step
leaves `data` and `Turns` alone.

**Files.** `StillThere` says that a file main has been told of is still there, and
is the one it has open, unless something was removed or truncated; with it
`TailIsExact` is inductive: a line that lands is put at the end of the file
and changes no part of what was there (`SubSeqOfAppend`), and a read starts where
the offset is, so that two parts are one (`ExactAfterRead`). `NoLineTwice` has no
such condition and needs another argument: a line is in one place of one file or on
its way to one (`LinesOnce`), and what was printed and is still in some file is
before the offset (`PrintedOnce`), while what is read next is after it.
`PanicsOnlyOnLoss` rests on `NewsWasSeen`: main reads only on news, and news comes
only from a look that found a file, whose modification time is never the initial
`None` (`StampsOK`).

TLC checked the inductive invariants before they were proved, on instances as
small as those of the runs: `LogInv` with its record as history variables,
`PostsFitPlaces`, `OneOfTwoKnows`, `CallsFit` and `LinesFit` as they are.

Check a module with `tlapm <module>.tla`.

### Only model-checked

Every safety invariant and action property of the passing runs is proved, and so
are both refinements. Left to TLC:

- Liveness (`PutAnsweredByStableLeader`, `UserIsServed`, `StatusBarFollows`,
  `DeafWorkerEnds`, `HangUpFreesNickname`, `SessionsCatchUp`, `EveryLineIsPrinted`,
  `LatestIsPrinted` and both `TasksFinish`): the prover has no support for
  reasoning about fairness and ENABLED.
- Nothing about recursive definitions is stated: induction over data is out of
  the prover's reach.

## Not modelled

- A node that restarts under its old id. `MemStorage` is volatile by design
  (`node.rs`), so the node forgets its vote and log and the guarantees above hold
  only for nodes that stay down once they stop.
- Time: the election timeout may run out at any moment, a heartbeat is due at any
  moment. A worker stalled in a blocking `connect` is only a slow worker.
- The chat client's own loop, with its `read_line` and `read_message` that its
  select may drop half way; a client that stops reading; the shutdown notice of
  the broker, which races the end of the process.
- The remote waker (`13`): whether its trigger finds a waker is decided by two
  sleeps. The raft demo (`18`): one thread, one queue, no schedule that
  `RaftNode` does not have. The network stack of `16`: library I/O.
- Language exercises: no shared state.

## Plan

1. The safety part of the liveness properties: what each of them needs in every
   state, such as that a task of the executor that must finish has a thread for
   its queue, as theorems beside the runs that check the rest.
2. The chat client, and a connection that can be full.

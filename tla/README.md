# PeerStreamer-ng in TLA+

This directory models the C program in `src/` (`peerstreamer-ng.c` and
`src/src/`), checks the models with TLC on small instances and proves theorems
about them with TLAPS.

PeerStreamer-ng lets browsers watch and publish live video over a peer-to-peer
overlay. It is a single-threaded HTTP server (mongoose) driven by its own
scheduler. For each channel somebody watches, and for each source somebody
publishes, it runs a *streamer*; it starts a Janus gateway as a child process and
asks it over HTTP for the mountpoints and video rooms that carry the media to and
from the browsers.

## 1. Inventory

| Part | State | Operations | Talks to |
| --- | --- | --- | --- |
| Streamer manager (`pstreamer.c`) | ordered set of `struct pstreamer` (name, base port, last beat, `janus_streaming_id`, tasks); first port | create, create source, touch, purge, destroy, port search, scheduling of tasks | Janus client, task manager, GRAPES |
| HTTP handlers (`path_handlers.c`, `mg_http_utils.c`) | none | POST and UPDATE of channels and sources, the two indexes, the creation handlers | manager, channels, clients |
| Creation callbacks (`streamer_creation_callback.c`) | per creation: the client's connection, the streamer, a handler | trigger: look for the connection, answer | mongoose, HTTP handlers |
| Janus client (`janus_instance.c`) | process id, session, two plugin handles, heartbeat task | launch, handshake, heartbeat, create and destroy mountpoints and rooms, forward | Janus through mongoose connections |
| Main program (`peerstreamer-ng.c`) | `running` | start, poll loop, signal, teardown | everything |
| Task manager (`task_manager.c`, `list.h`) | list of tasks with timers and descriptor buckets | new task, destroy task, poll (select and sweep), stopwatch | task callbacks |
| Task callbacks (`periodic_task_intfs.c`) | none | mongoose, purge, channel refresh, streaming tasks, their reinit functions | task manager, manager, channels |
| Integer buckets (`int_bucket.c`) | ascending array with counts | insert, flush, iterate | task manager |
| Channel list (`pschannel.c`) | ordered set of channels | refresh from the CSV file and the local sources, find, insert | manager, HTTP handlers |
| Tokens and router (`tokens.c`, `router.c`, `routes.c`) | table of compiled routes | split a line or a path; first matching route | HTTP handlers, channels |
| SDP, debug, text lengths | - | formatting and output | - |

**How they interact.** `main` calls `task_manager_poll` until SIGINT. The poll
sleeps in `select` and then triggers the tasks that are due. The task of mongoose
serves every connection: a client's request runs a path handler; a POST creates a
streamer and opens a connection to Janus whose user data points into the streamer
and to the client's connection; when that connection closes, the callback answers
the client. The purge task destroys streamers that nobody renewed for 10 seconds.
The streaming tasks call the streaming library and leave the manager alone.

**What is hard.** There is one thread, so nothing interleaves *inside* a callback.
What does interleave: clients that post, renew and leave; requests that travel to
Janus and back, fail or are dropped; the purge; the teardown. Pointers are kept
over this interleaving (to a streamer, into it, to a client's connection), memory
is freed and its addresses come back. The scheduler's list changes while it is
swept. Timers are wound down by rounded measurements. Nothing that fails on the
way to Janus is ever tried again. `PROJECT.json` lists each of these hazards at its
line.

**What makes each part correct.** The manager: names and ports are unique, a
streamer is only taken from a client that stopped renewing it, its tasks and its
mountpoint live and die with it. The callbacks: a client that posted is answered,
once, and nobody else is. The handshake: the handles are those of the session in
use and the session survives. The scheduler: a sweep sees the tasks it was meant to
see, timers are honest, and nobody starves. The buckets: they are what was inserted.

## 2. Modules

| Module | Models | Extended or instantiated by |
| --- | --- | --- |
| `Ports` | `assign_streaming_ports`, the range of a streamer | `Streamers`, `Channels` |
| `LeaseTable` | abstract: what the manager promises its clients | `Streamers` (refinement `ImplementsLeases`) |
| `Streamers` | manager, HTTP handlers, creation callbacks, requests to Janus, purge, teardown; Janus and mongoose as environment | `MCStreamers` |
| `TaskManager` | `task_manager_poll` and the callbacks that change its list | `MCTaskManager` |
| `JanusInstance` | launch, session, handles, heartbeat, the end of the Janus process | - |
| `IntBucket` | `int_bucket.c` | `MCIntBucket` |
| `Channels` | `pschannel.c`, the refresh task, the requests that read and write the list, the channel file and its editors | `MCChannels` |
| `Tokens` | `tokens.c` | `Requests` |
| `Requests` | `router.c`, `routes.c`, and what the handlers, the Janus client and the channel list take from tokens | `MCRequests` |
| `PortsProofs`, `StreamersProofs`, `MountProofs` | proofs about `Ports` and `Streamers` | - |
| `TaskManagerProofs`, `JanusProofs`, `IntBucketProofs` | proofs about `TaskManager`, `JanusInstance` and `IntBucket` | - |
| `ChannelsProofs`, `RequestsProofs` | proofs about `Channels`, and about `Tokens` and `Requests` | - |

Definitions named "Mutant of ..." in a comment stand next to the definition they
spoil. No specification uses them: they are what a plausible mistake in the code
would look like, and show that the properties notice it.

### Streamers

One action is one callback run to its end, which is what the single thread
guarantees. The two loops that destroy streamers are taken one iteration at a time
(phases `purging` and `destroying`, in which nothing else of the program moves),
so that Janus, another process, can step between the iterations.

| State | Code |
| --- | --- |
| `ps[p]` | the `struct pstreamer` at address `p` and its place in the ordered set; `age` is `now - last_beat`, `jid` is `janus_streaming_id` |
| `tasks[p]` | the tasks in the task manager whose data is the `psinstance` of `p` |
| `handles` | `streaming_plugin_handle` and `videoroom_plugin_handle` being nonzero |
| `http[c]` | a client's connection: open, waiting for the answer to a POST, or the kind of its last answer |
| `call[k]` | a connection to Janus with its user data: operation, `data[0]`/`scc->ps`, client |
| `mounts`, `rooms` | what exists inside Janus |
| `phase`, `doomed` | the program counter of `main` and of the running loop |

Client connections and connections to Janus share the addresses `Conn`, as both are
`struct mg_connection` from one allocator. `gone`, `stale` and `wait` in a call are history:
the client has left, the streamer has been freed, how long a creation has been in flight.
`hosted` in a streamer is history, too: it was posted as a source and has a room of its own.
`source` is what the code asks (`pstreamer_is_source`: the port is 0). The two differ, because
the port of a channel is the `atoi` of a text: `PostChannel` chooses `source`, and a channel that
is taken for a source has a mountpoint and no room.

A request goes through `queued` (connection opened), `sent`, `answered`, `closing`.
`HandleReply` is `MG_EV_HTTP_REPLY`, `CloseCall` is `MG_EV_CLOSE`, which is where the
callback fires. Connecting may fail (`noconn`), a connection may close before its
reply (`drop`), Janus may answer with an error (`refuse`), and a missing handle makes
a request function return at once.

The constant `Faults` says what may go wrong in a run, so that each property names
the environment it needs:

- without `unready`, clients post only after Janus granted the handle the request needs;
- without `noconn`, `mg_connect_http` succeeds (`EnoughConn`: an action that needs
  connections waits until addresses are free, since a finite `Conn` is a bound of the
  model and not of the program; with no free address at all it fails);
- without `reuse`, malloc does not return an address that a callback in flight still holds;
- without `nopsc`, `psinstance_create` succeeds.

No constant bounds the time Janus takes: `Tick` is always possible, as the program sets no
timeout for a request, so a creation may outlast its streamer.

`Outcome` reads a freed streamer as anything. `StoreReply` writes only into a live
streamer, the one that is at the address *now*; a write into memory that is free has
no effect the model could show.

### TaskManager

`SelectTimeout`, `SelectReady` and `SelectError` are the first half of
`task_manager_poll`, `Visit` one iteration of a sweep. `list` is kept in order, because
the order decides whether a task added by a callback is met by the same sweep.
`Callback` says what a callback may do to the list: mongoose's creates up to two tasks
(a streamer's five are created in one go; two show every order), the purge's destroys any
tasks of streamers. Each task has its own descriptors; mongoose may create tasks also on a
timeout, which over-approximates. Timers count milliseconds and the real time in `select`
half milliseconds, because `stopwatch_select` rounds to the nearest millisecond.
A task with a reinit function is set to anything from `Shortest` to `MaxTimeout`, the largest
value of the type `timeout`, whatever its period: these functions hand on what the streaming
library returns. The others get their period.
`Overrun` bounds how late `select` returns.

### JanusInstance

Actions are the handlers of the replies, the heartbeat, the steps of Janus and `Tick`.
One unit of time is 5 seconds (beats every 30 s, up to 10 s late, replies within 15 s,
session timeout 60 s as in `Tools/janus_conf/janus.cfg`). `Tick` is held back while a reply
is overdue or the heartbeat would be more than `MaxLate` late: these are the assumptions
under which a session can be kept at all. A reply with status 200 that carries an error is
read as the id 0, as `janus_instance_msg_get_id` does. When every address of `Conn` is in use
a connection waits; three are enough for the handshake and the beats.

The variable `faults` holds what may go wrong in a behaviour, chosen once in `Init`; a
property that needs an environment names it there. With `crash` the Janus process may end at
any time (`Crash`): its sessions and handles are gone and its connections answer nothing, and
when it comes up again (`Listen`) it knows none of the old ids. The program does not notice,
as in the code.

### IntBucket

The search is taken one turn of its loop at a time; `insert` and `iter` are its users. `bag`
and `given` are history: what was inserted, what an iteration returned. A caller that
iterates has the bucket for itself, as in `task_manager_poll`. Counts wrap at `Wrap` (2^32 in
C).

### Channels

Requests, answers of Janus, the refresh and edits of the file are one action each.

| State | Code |
| --- | --- |
| `ps[i]` | of a streamer: base port, `source_ip`, `source_port`, `display_name`, and whether its POST waits for Janus |
| `list` | the ordered set of `struct pschannel`: the name by address and port, the key `pschannel_cmp` compares |
| `file`, `out` | the CSV file and the dump `<file>_out.csv` |
| `provided` | history: waiting requests whose channel was in the file or a named source at every moment since |

Ports are kept in the form they have in the code. A client sends a text; most texts are what
`sprintf` prints for a number and stand for that number, the others (`Odd`: padded, not a
number) become one through `atoi` and the 16 bits of `source_port` (`OddValue`). The second
lookup of a channel prints the number, so `AnswerNamed` holds for the first kind only, which
`provided` says. A text that is read as 0 makes the streamer a source, as in the code.

A streamer may be destroyed at any time, also while its POST waits for Janus, and its answer then
never comes to this module.

`Refresh` is `pschannel_populate_task_callback` with its four calls in order; the order of the
second and third is what `DumpIsOwn` is about. `Edit` appends a line, cuts the file short or
moves it away. `Restart` keeps the two files only.

### Tokens and Requests

`CountStep`, `CountEnd`, `FillStep` and `FillEnd` are one turn each of the two loops of
`tokens_create` and what follows them; `n`, `i`, `np`, `sv` are its variables. A text is a
sequence of symbols: a character, or a word of several (`Words`), which is all the code tells
apart besides delimiters and blanks (`nnp - np > 1`). `sv` maps the slots written so far to
their tokens; it is no sequence, so that a slot that was skipped would show.

`Requests` adds the callers. `AddRoute` is one call of `router_add_route`, `TryRoute` one turn
of the loop of `router_handle`, `ReadText` the call of the tokenizer for a line of the channel
file and for an answer of Janus. A route has the word of its pattern and whether an id
follows; `Matches` says what `regexec` does with these patterns. `MsgGetId` goes on with the
unsigned result of `tokens_check` as the code does, slot 0 for no id (`Width` is 2^32 in C).

## 3. Runs

| Run | Question | Bounds |
| --- | --- | --- |
| `streamers_nominal` | With a Janus that does what it is asked, however late: is every waiting client owed one answer, is every mountpoint accounted for but in the two known cases, has every source the room its client was told about? | 1 name, 2 streamers, 4 connections, 2 mountpoints, 1 publisher, `Interval` 0; no fault |
| `streamers_faults` | With requests that are lost or refused and missing handles: ports, leases, own mountpoints, no answer for somebody else | 2 names, 2 streamers, 3 connections, 2 mountpoints, no publisher, `Interval` 0; faults `unready`, `drop`, `refuse` |
| `streamers_live` | Are creations answered, do their pointers hold for the interval of the purge, are expired streamers destroyed with their tasks, and does the teardown end? | 1 name, 1 streamer, 3 connections, 1 mountpoint, `Interval` 1; faults `drop`, `refuse`, `nopsc` |
| `streamers_misdelivery` | finding: an answer written to another client | fault `reuse` |
| `streamers_unanswered` | finding: a POST without handles is never answered | fault `unready` |
| `streamers_phantom_room` | finding: 200 for a room that does not exist | fault `refuse` |
| `streamers_unnotified` | finding: Janus is ended before it is told | no fault |
| `tasks` | Sweep, timers, starvation of the purge | mongoose, purge and 2 streamer tasks; periods of 1 and 2 ms, timers up to 2 ms |
| `janus` | Is the session kept and are both handles granted when nothing fails; which handles can be stored when anything fails, Janus itself included? | 3 connections, 1 session, 2 handles; no fault, or every fault (a second session is never asked for) |
| `bucket` | Order, contents, memory, iteration, termination of the search | 6 integers, counts modulo 2, capacity 1 growing by 2 |
| `channels` | Do the list, the answers and the dump agree with the sources and the file while all of them change? | 2 streamers, 2 nodes, 2 names, 4 lines, file of 1 line, one padded port and one read as 0 |
| `requests` | Do the two walks of the tokenizer agree and is what the callers take from its tokens what they mean? | URIs of 6 symbols, lines of 5 and a newline, answers of 3 members; initial tables of 0 and 10 routes |

*Why the bounds are enough.* Two streamer addresses give a streamer that gets the memory of
another and two streamers in one destruction loop; one name is enough for a name that is
taken twice in a row, and `streamers_faults` has two for two leases at a time. Three connections
give a client, its request, and one more that can be either (a second client, or a second
request); `streamers_nominal` has a fourth, as without `noconn` the loops wait for a free one for
each streamer. With `Interval` 0 an age goes from "renewed" to "over it", which is all that the
properties of the first two runs tell apart; `streamers_live` has `Interval` 1 and with it an age
"at the limit", where `NoDanglingCreation` and `ExpiredPurged` could be off by one. Two mountpoints let
both streamers have one, and let Janus run out of them. `noconn` is in no run: that fault,
and all of them together, are left to the theorems. In `tasks`, up to two tasks are created and destroyed in one
callback before and after the cursor. Six integers give searches of every depth up to three
and every place to miss, and the capacity is reached several times. In `channels` a line may be for
the address of a source of this node, of another node, for a padded port and for one read as
0; with one line at a time the file is extended, cut and moved between any two requests (that
the last of several lines for a key stays is left to `ChannelsProofs`, which has files of any
length). In `requests` every text over four symbols (URIs) or three (lines) up to the bound is
tried, so empty pieces, pieces of one character and of blanks occur at the beginning, in the
middle and at the end; the table of routes grows from 0 through 2, 4 and 8, or not at all. Symmetry sets are used
only in runs without liveness.

*Fairness.* `main` polls in a loop that nothing in the program blocks, hence weak fairness
of the service of each connection and of the teardown; Janus answers what it was sent (weak
fairness of `JanusServe` and `Serve`), but in `streamers_live` it may also drop or refuse.
Clients need not post or renew, and no signal need come. A client that waits for nothing
closes its connection in the end, and the purge is strongly fair: both only say that the
bound on `Conn` does not keep the purge waiting for ever, as in the program nothing does. In
`TaskManager` the sweep is weakly fair, and `SelectTimeout` strongly: the purge acts on
timeouts only, and when descriptors were always ready before the earliest timer the program
would indeed starve it. In `JanusInstance` the poll, Janus and the heartbeat are weakly fair
and Janus starts to listen. In `Channels` only the refresh whose dump can be opened is weakly
fair: the task comes back each second (`PurgeRuns` is the same statement for the purge), and
`ListsFollow` is about a file system that lets itself be written now and then; clients, Janus
and editors owe nothing.

*What the passing runs show beyond single calls.* `AnswerOwed` and `MountsAccounted` relate
what the program, its callbacks in flight and Janus know of a creation at every moment.
`MountsAccounted` names the two ways in which the program does forget a mountpoint, and TLC finds a
behaviour for each when it is left out: the reply comes after the purge took the streamer
(`AnsweredLate`), or the channel's port reads as 0 and an UPDATE overwrites the number, or the
teardown destroys a room instead (`TakenForSource`). `NoDanglingCreation` does not say that Janus is in
time; it says that the purge frees nothing under a creation younger than its interval.
`SourceHasRoom` shows why the purge may *not* remove the room of a source: the name may be
taken again while the removal is under way. `SweepExact` shows that the plain
(unsafe) list iteration is right because tasks are added at the head and only the purge
removes tasks, none of them its own. `NeverTooEarly` shows that rounding can halve a timer
and no more. `ImplementsLeases` reduces the manager to a table of leases. `HandlesGranted`
and `GrantsHandles` say that after a restart of Janus nothing of the new process is mixed with
what the old one granted. `NamedSourceListed` holds although each refresh empties the list,
because the whole rebuild is one callback and the file is loaded over the sources, not instead
of them. `ListsFollow` is what keeps a node from advertising a source for ever, and it needs the
dump to be written anew and not continued. `FitsMemory` relates the two walks of the
tokenizer, whose tests are written twice and differ between the middle of a text (more than
one character) and its end (one is enough); `Dispatched` needs exactly that difference, as an id
of one character must be found while empty segments are not. `IdFound` shows that the search
for an id copes with answers that have none only because slot 0 is an opening brace.

## 4. Findings

1. `streamers_misdelivery` (code bug). `streamer_creation_callback_trigger` recognises the
   requester by address only.
2. `streamers_unanswered` (code bug). The manager ignores that a request to Janus could not
   be made; the callback is lost and the client waits for ever.
3. `streamers_phantom_room` (code bug). The handler of the video room's reply reports success
   whatever Janus said.
4. `streamers_unnotified` (the code does not do what a comment says). The teardown sleeps so
   that Janus gets the notifications, but nobody polls the connections that carry them.

What no text of the repository contradicts is a hazard only: the one request for a
session is lost when Janus does not listen after one second (`BecomesReady` is stated for
behaviours without faults; with `slowboot` TLC finds it violated), rooms of purged sources stay in
Janus, and so do the mountpoints of a creation that Janus answers after the purge and of a channel
whose port reads as 0 (the two exceptions of `MountsAccounted`).

## 5. Proofs

Each theorem holds for all values of the constants that satisfy the named assumptions of its
module (and the `ASSUME` written in the theorem).

- `PortsProofs!AssignPortFresh`: the search finds a free odd base port, in a range that
  touches no other.
- `StreamersProofs`: `TypeCorrect`, `TasksServeLiveAlways`, `PortsDisjointAlways`, for every set of
  faults. The inductive invariant is `TableInv`: types, the tasks of live streamers, `PortsInv`
  (base ports are whole strides from the first, so that *different* ports already mean
  *disjoint* ranges) and `LoopInv` (the destruction loops visit streamers that are still in the
  table, and after them it is empty; without it nothing would say that the teardown leaves no
  task behind). `PortsSuffice` assumes fewer streamers than would make ports wrap (about 9900).
  `LeasesImplemented`: the manager implements `LeaseTable`, for every set of faults. `LeaseSteps` sorts
  the steps into five kinds (nothing happens to the leases, one is granted, renewed or ends, all age),
  and with `NamesUnique` each kind is a step of the table or a stutter.
- `StreamersProofs`, the callbacks of the creations: `CreationsNeverDangle` for every set of faults and
  however long Janus takes, `NobodyAnsweredTwice` and `AnswersReachAskers` (without `reuse`),
  `AnswersOwed` (when connections and handles are there). They rest on `PointersInv` (a creation that is
  not stale points to a live streamer that is no older than the creation, so that one the purge reaches
  belongs to a creation older than `Interval`; a stale one has waited longer than that), `ClientsInv` (the
  client of a creation waits or has gone, and no two creations share one) and `OwedInv`.
- `MountProofs`: what the manager believes of Janus. `MountsAreOwn` holds for every set of faults:
  `ClaimsInv` says that of a live streamer that stores a mountpoint's number, a creation that was
  answered and not stored yet, and a destruction that was not served yet there is at most one for each
  mountpoint; every step lets claims end or passes one on (`Fewer`, `Stored`, `Passed`, `Made`, `Unmade`).
  It assumes that numbers of publishers and mountpoints differ: the purge of a source asks Janus to
  destroy the *mountpoint* that has its publisher's number, which would take a peer's away.
  `MountsAccountedFor` is the converse, an action property: a mountpoint somebody has a claim on keeps
  one over every step but in the two cases the property names. It needs that a creation's reply finds a
  streamer without a mountpoint (`FreshInv`: the streamer of an open creation has no number yet, and
  one posted as a source never gets a mountpoint's), that no two creations are for one streamer
  (`AloneInv`), and that a destruction loop has the handle and a free connection for each streamer it
  visits (`HandleInv`, `ConnInv`); hence without `reuse`, `noconn` and `drop`, but with a Janus that refuses
  and takes any time. `AccountStep` goes through the steps: a claim passes from the reply to the streamer
  (`ReplyIsFresh`), from the streamer to the request that destroys its mountpoint (`DisposeAccounts`), or
  stays where it is. `SourcesHaveRooms` and `RoomsBeforeAnswers` rest on
  `RoomInv`: a request whose reply is in has made its room, and no room is removed while the program
  serves.
- `TaskManagerProofs`: `TaskTypes` (where there is a reinit function a timer may be anywhere in the
  type `timeout`), `SweepsExact`, `TimersAlwaysHonest`, `NoTaskTooEarly`, for any number
  of tasks, any periods and any `Overrun`. `SweepExact` is not inductive. `SweepInv` adds that the tasks
  `main` creates stay in the list behind all others (`BootLast`): new tasks go to the head, so the purge,
  one of the last, only destroys tasks the sweep has already visited, and the next element of the list it
  reads is one that was there before. `TimersHonest` rests on it: that a task is charged once for a wait
  follows from its being visited once. The order of a list is taken from its positions (`Before`), which
  keeps induction over lists out of the argument.
- `JanusProofs`: `SessionTypes` and `HandlesOnlyGained` for every set of faults, so `Attach` in
  `Streamers` is what `JanusInstance` does; `HandlesOfSession`, also for every fault and for a Janus
  that ends and restarts: a stored handle was granted to the stored session, because every reply on
  its way names the session it was asked for; `SessionNeverLost` without faults and for all periods with
  `BeatPeriod + MaxLate + MaxDelay < SessionTimeout` and `MaxDelay <= BeatPeriod`. The session is kept
  because of `RefreshInv`: the idle time of the session is bounded by the age of the last beat or
  by that of a request on its way; `AskedOnce` says that there is only one request for a session.
- `IntBucketProofs`: `BucketTypes`, `BucketOrdered`, `BucketContents`, `BucketFits`, `IterationsExact`,
  `SearchesShrink`, for any set of integers and any capacity. The invariant `BucketInv` adds to order and contents that what lies outside the
  bounds of a search was ruled out by a comparison (`SearchInv`) and that an iteration has
  returned exactly the elements up to its cursor (`IterInv`).
- `ChannelsProofs`: `ChannelTypes`, `NamedSourcesListed`, `AnswersNamed`, `DumpsAreOwn`, for any number
  of streamers, any lines and port texts. Ports are whole strides as in `StreamersProofs`, so no two
  sources share an address and a rebuild loses none of them. For `AnswersNamed` the invariant says that
  the address of every provided request is in the list now: a refresh puts back what is provided, no
  other step takes a key out.
- `RequestsProofs`: `MemoryFits`, `TokensAreFaithful`, `RequestsDispatched` and `IdsFound`, for all texts
  shorter than `Width` (tokens.c keeps lengths in a `uint32_t`), any symbols and any initial table.
  - `TokensInv` says of both walks that the counter is the number of tokens the walk has come past,
    `Cardinality(Passed(np))`, where the tokens are defined from the positions of the delimiters alone
    (`TokenEnds`); `TurnPasses` and `EndPasses` make a turn of either loop agree with that definition, so
    at the end both counters are `Cardinality(TokenEnds)`.
  - `Filled` adds what the slots hold: the slot of a piece is its rank, the number of tokens that end
    before it, and it holds `TokenOf` that piece. What `substring_trim` makes of a piece is settled
    without the walks: of a piece of blanks an empty token (`BlankPieces`: blanks are taken off twice, the
    difference wraps, and the remainder decides), of any other a slice that begins with the piece and may
    run on behind it (`InkPieces`).
  - `DispatchInv`: no route before `at` fits. At most one route fits a request at all (`OneRoute`), so the
    order of the table does not matter; and a URI with an id has exactly two tokens, however many slashes
    are in it (`UriTokens`).
  - `IdsFound` takes two things about Janus for granted, named in `AsPrinted` and held against the answers
    of the run when TLC evaluates the assumption: an answer begins with a brace that no blank follows, and
    an `"id":` stands between two blanks with a value behind it. Then the tokens that are
    `"id":` are the ids of the text and no others (`TokensOfIds`), the value is the next token
    (`IdTokens`), and the first matching slot is the first id (`FirstSlot`). Without an id
    `tokens_check` returns -1, the sum wraps to slot 0, and that slot begins with the brace (`NoIdNumber`).

What liveness rests on is proved where it is a property of steps:

- The loops end. `TeardownsShrink`: after the signal every step makes `(phase, doomed, Connected,
  Pending, InJanus)` smaller in that lexicographic order, for every set of faults. `PurgesTakeAll`:
  so does every step of a purge with `(Orphans, InJanus)`, and it leaves no orphan; `PurgeInv` says the
  loop has all of them still to visit. `SweepsShrink`: a sweep has a task less to visit after each
  step, although callbacks add tasks. `WalksAlwaysAdvance`: the walks over a text end behind it.
- The timer of the purge only goes down (`PurgerAlwaysCountsDown`). An event that wakes
  `select` at once can leave it where it is: that time passes is the fairness of the run.
- One refresh is enough (`RefreshesFollow`). `ListsFollowRefreshes` draws the conclusion: `ListsFollow`
  holds of every behaviour of `Spec` in which again and again the refresh runs or would change nothing
  (`RefreshRuns`). Weak fairness of `Refresh(TRUE)` says this with `ENABLED`, and the step from the one to
  the other is not proved.

Only model-checked: the liveness properties under `WF_` and `SF_`, as the prover has no rule for
`ENABLED` here, and induction over the orders above is out of its reach. Every invariant and every action property of
the passing runs is proved. `RECURSIVE` operators are out of the prover's reach; none of the
modules has one.

## 6. What is not modelled

- The streaming library (GRAPES, `psinstance_*`), mongoose, and Janus beyond what the program
  sees of them; the text of messages, paths and answers.
- The streamer options, which are only handed to `psinstance_create`; quality and SDP file of a
  channel, which are only copied. Texts longer than their buffers (`PSID_LENGTH`, lines of 255
  characters, `name_lengths.h`): names and lines are values without a length.
- The name of the dump, cut from that of the channel file at its first dot; the lock of the two
  files, which a stream that was just opened always gets. `sdpfile.c`, which nothing calls.
- A last line of the channel file that lacks its newline and has no token (one character and a
  comma), and an answer of Janus with an empty body: the code then reads through a pointer it did
  not check, and the modules leave these texts out of what `FitsMemory` and `IdFound` say.
- A connection to Janus at the address of a client that left (`reuse`): the search for the client's
  connection finds it, too, and the answer is written to Janus; `Trigger` then answers nobody.
- A source whose `psinstance_create` failed, in `Channels`: its address comes from a psinstance that is NULL.
- HTTP pipelining: a client sends nothing while it waits. Whether `mg_mgr_free` polls once
  more before it closes connections.
- How `janus_instance_launch` forks and execs; `Streamers` takes Janus to live until the teardown,
  its end and restart are in `JanusInstance`.
- The web client, which runs in the browser: clients post, renew, leave in any order.
- `FD_SETSIZE`, and a `select` longer than the 16 bits of a timeout.
- `int_bucket_sum` and `int_bucket_occurr_norm`, which have no caller.

## 7. Plan

Done, in this order: `Ports`, `Streamers` with `LeaseTable`, their proofs; `TaskManager`;
`JanusInstance`, its proofs; `IntBucket`, its proofs; a Janus that ends and restarts, with the proof
of `HandlesGranted`; `Channels`, its proofs; `Tokens` with `Requests`, the proof of `FitsMemory`; the proofs that `Streamers`
implements `LeaseTable`, of `MountProofs` and of `TaskManagerProofs`; the proofs of `TokensFaithful`,
`Dispatched` and `IdFound`; what liveness rests on. Next:

1. `Streamers` with a Janus that restarts: which mountpoints and rooms the program then believes in.

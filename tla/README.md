# A formal model of DRT

DRT runs guest programs as *instances* of a *swarm*: a tree of supervised,
capability-limited programs that one thread drives step by step, that talk by
queues, call the host through connectors, and can be hibernated to a snapshot
and woken again.  Around that core are the connectors that give programs the
network, files, databases and processes; listeners, a relay and peer-to-peer
sessions that bring the outside in; and the consent, grants and consoles by
which an operator stays in charge.  This directory holds TLA+ modules of these
parts, translated from the source, the TLC configurations that check them, and
proofs that TLAPS checks.  `PROJECT.json` maps each definition to its source
lines.

## 1. Inventory

| Component | State | Operations | Meets |
|---|---|---|---|
| Instance table, `drt-swarm/src/swarm.rs` | slots (id, parent, grants, bounds, instance or snapshot, wake buffer, deferred spawn), handle map, next id | spawn, kill, hibernate, wake, query, ref, push, step | host (`SwarmHost`), engine, guests |
| Endpoints, same file | endpoint queues, one held message per far end, token table | bind, route, hold, retry, close | instance table, wake buffer |
| Pump, `drt-swarm/src/pump.rs` | calls in flight, settled answers | poll, deliver, drain, land, forget | dispatcher, guests' two queues |
| Deployment, `drt/src/start.rs` | parks with deadlines, activity, residency budget | drive, wake due, enforce residency, step | pump, swarm, clock |
| Engine boundary, `drt-swarm/src/engine.rs` | queues, waits | push, pop, run, resume, snapshot | guest core (external) |
| Capabilities and config, `drt-caps`, `drt-config` | grants, denies, bounds | holds, attenuate, fits, resolve | instance table |
| Dispatcher and handles, `drt-connector` | registry, handles per owner, offers | route, transfer, claim, release, ended, notices | pump, swarm |
| `socket`, `net`, `ws` connectors | a record per handle, transport events, tasks | open, accept, send, recv, close, sweep | handles, kernel or transport |
| Listener and serve loop, `drt/src/listen.rs`, `start.rs` | connections, ingress, held requests, replies owed | accept, take, answer, stream, retry, time out | deployment, root program |
| Relay and tunnel, `relay.rs`, `tunnel.rs` | parked legs, splices, questions pending | park, ask, admit, claim, splice | serve loop, root program |
| Peer-to-peer, `drt/src/p2p`, `drt-rtc` | sessions, pairings, streams with credit, forwards | poll, follow, open, call, data, end, reap | signalling server, WebRTC (external) |
| WireGuard, netcheck and report bridges | snapshots, an allocation, measurements, held reports | command, look, measure, report | root program's queue |
| Plugin host, `drt-plugin` | sessions with child processes, calls in flight | begin, poll, abandon, release | dispatcher |
| `exec`, `ssh`, `rest`, `ldap`, `ssmtp`, `crypto`, `sql`, `fs`, `data`, `kv` | a call's state; known hosts, used codes, databases, revisions | one call, one answer | dispatcher, the outside |
| Consent, boot and grants, `drt-config`, `boot.rs`, `gsr.rs` | project, consent and live files; requests and decisions | edit, check, accept, deploy, ask, sign, verify | operator, command line |
| Consoles, `control.rs`, `repl.rs`, `sshd.rs` | questions and orders in flight, lines, runs | ask, answer, stop, feed, interrupt | serve loop, operator |
| Front ends, platform shims, standard library | | | |

Nothing in the first six rows runs in parallel: a swarm has one thread.  What
makes them hard is order.  A step is a sequence of loops over a table that the
loops themselves change; a death in one loop frees a slot that another refills;
handles, tokens and queue handles outlive what they named; messages sit in five
kinds of place between a sender and a reader; and hibernation removes an
instance from the middle of all this without ending it.  The other rows are
hard as concurrent programs are: tasks that share a channel or a lock, a deadline
against a late answer, an order given to something that is just ending, a file
changed between its check and its use, and a far end that may stop at any moment.

What each must guarantee:

* **table**: a handle names its own instance or nothing; no orphan; authority
  only narrows; one form per instance; the host's view matches; lost children
  are reported; requests reach only downwards; a buffered message wakes.
* **endpoints**: order, no duplicate, no loss while the far end is resident and its
  engine takes pushes, bounded holding, held messages land.
* **pump**: one answer for each drained request, in order, nothing kept for
  the dead.
* **deployment**: the budget holds, deadlines are heard through hibernation, a
  wake is not wasted, an answer reaches whoever waits for it.
* **connectors that hold things**: an offer names what its maker holds, nothing
  outlives its owner, a wake is true, a vital resource takes its owner with it.
* **listener**: one response to each request, true notices, held requests in
  order and settled.
* **relay, sessions, streams**: only what was admitted; in order; both ends end.
* **reports**: what a program is told of the network is what was seen.
* **calls**: an answer is whole or is an error; what is stored stays or its loss
  is said; nothing of a call is left behind.
* **authority**: a ceiling, a consent, a grant, a login, a signature or a path
  gives no more than it says, whatever is edited or replayed meanwhile.

## 2. Modules

| Module | What it is |
|---|---|
| `Tree` | the abstract specification: a tree of handles that grows by narrowing authority and dies by subtrees |
| `Swarm` | the instance table and the phases of `Swarm::step`; implements `Tree` |
| `SwarmProofs` | its inductive invariant, its action properties and the refinement, proved |
| `Endpoints`, `EndpointsProofs` | message routing between instances; its proofs |
| `Pump`, `PumpProofs` | hostcalls and their answers; its proofs |
| `Deploy`, `DeployProofs` | extends `Pump` with `DeployHost`, the residency policy and the driver's step; its proofs |
| `Owners`, `Sockets`, `Net`, `Ws` | handles by owner with offers and releases; the three connectors that keep them |
| `Connectors`, `ConnectorsProofs` | the three behind one dispatcher, and what all of them promise; the proofs of it |
| `Listen`, `Serve`, `ServeProofs` | the two acceptors of a listener; the serve loop over them; the proofs of both |
| `Relay` | relay, admission by the program, splice, device |
| `Wisp`, `P2p`, `Forward` | streams of a session; pairings and the host's sessions; relayed, fallback and forwarded calls |
| `Wireguard`, `Netcheck`, `Bridges` | the device loop; a measurement run; how reports reach the program |
| `Plugin` | out-of-process connectors |
| `Exec`, `Ssh`, `Rest`, `Ldap`, `Ssmtp`, `Crypto`, `Stores`, `Kv` | one module per connector (`Stores`: sql, fs and where data puts its bytes) |
| `Data` | tables written as parquet or CSV and read back |
| `P2pVerb` | what the verbs `drt p2p` and `drt tunnel` make of an operator's keys |
| `Caps`, `Boot`, `Gsr` | capability sets; consent, deployment and boot; grant requests |
| `Console`, `Repl` | the control plane and its consoles; the REPL |
| `MCNetwork`, `NetworkProofs` | `Relay`, `Wisp`, `P2p` and `Bridges` in one run; the proofs of what they promise |
| `MCServices` | 19 parts in one run, values for TLC |

Values that a module is checked with and that are sets of records stand at its
end (`ResidencyRequests` and `AuthorityRequests` in `Swarm`, `Slots` and the sets
of links in `Endpoints`, the waits in `Deploy`, `Symmetric` in `Connectors`,
`SmallRuntimes` in `Serve`).  A module of proofs extends the module
it is about and holds nothing else, so that the model reads alone.

**Swarm.**  `table`, `index`, `node`, `next_id`, `spawns` are the fields of
`Swarm`; a slot's record is kept under its handle.  `pc`, `cur` and `bound` are
the position inside `step`: which loop, which slot, and the length captured when
the loop began.  Every turn of a loop is an action; host calls happen while `pc`
is `"idle"`.  `attached` and `released` count what the host was told.  `event`
is the event the last action delivered.  What a guest asks, when it stops,
whether its program loads, its snapshot restores or the engine takes a snapshot
are nondeterministic.  A capability set is a set of names, so prefix patterns
and denies are outside this model; the several bounds of a child, which follow
the same two rules, are one number.

**Endpoints.**  One variable for each place a message can be: `out`, `held`,
`pending`, `inbox`; `sent` and `read` number messages per link.  Routing is an
action per loop turn, run at the start of a step and for a program that has just
stopped.  The engine of a far end may fail a push (`MayFail`): `route_slot` then
drops the held message, and `route_one` the one it popped, and closes the endpoint
(`RetryFails`, `RouteFails`).  An error met while an instance is woken and its
buffer drained, or from a look at a queue, is left out.  `InOrder` says of the
places a message passes, oldest first, that each holds messages in order and that
none holds one older than the place before it; `OneHeld` counts the message being
tried again as held; `KeptWhileResident` says that a step loses at most the message
whose push `Failed`, the oldest on its link.

**Pump.**  A table per instance for what it asked, what is in flight, what has
settled and what is on `host/replies`.  `Drive` begins `poll` with any subset of
the calls in flight ready; `Settle` takes one of them, and `deliver` and the drain
loop take one turn each.  `answers` and `left` are history: the answers in the
order the host had them, and how many the guest has read or its queue evicted.

**Deploy.**  `park` is `DeployHost::parked`; a deadline is `never`, `armed` or
`due`, and the clock moves one from armed to due at any moment.  `recent` is the
order of last activity.  `stage` is the position in `DeployDriver::step`.
Whether the wait's queue handles belong to the present residency is the field
`wait` of a park.  `undriven` is history.

**Connectors.**  `Owners` keeps the table of `Handles`, the offers, who is gone and
whom the connector reports as ended; the two halves of a step are `pc`. `Sockets`,
`Net` and `Ws` extend it, each with its calls as actions and with the steps of the
kernel, the transport or the task between them: a call that waits is one that is not
enabled yet.  A call in flight goes with its caller, and what the transport was
opening for it is then `Abandoned`: nobody settles it and nothing closes it, though
the transport may let go of it.  `Connectors` wires one of them per behaviour.  Left
out: a far end that resets, the root as a caller, owners that hibernate, and the
delivery of a notice to its queue, which `Swarm` has as an input.

**Listen and Serve.**  `Listen` has a record per connection for each of the
runtimes: a thread per connection, or one polling pass; a deadline or a client
that leaves may come between any two steps.  `Serve` is the loop: step, replies,
held requests, orders, wait.  Stop and pause come as one order.

**Relay.**  Each websocket is a task with its position; channels are counts.  A task
that writes to its peer (a message, a ping, a pong) does nothing else until the peer
takes it, which no timeout bounds: the field `writes`.  The program's answer may
come late, twice or to another question.  **Wisp** has the caller's and the host's
entry of a stream, the two directions of the channel and what str0m refused.
**P2p** has the pairings' tasks, the commands and reports between them and the host,
and the broadcast that skips; a session is named for what its pair entry names, so
that entries may share one.  **Forward** has the call role, the relay's session and
task, and the one call a forwarded peer's streams share.

**Wireguard** cuts `drive` at its awaits: take a command, look at the allocation,
read the peers, report; the device's tasks run between.  **Netcheck** fixes a
network unknown to the run and has one action per measurement.  **Bridges** has
the six bridges with what each holds, replaces or drops.

**Plugin** has the session per scope key and each call by its wire id, with the
process free to answer, err or exit.  **Exec**, **Ssh**, **Rest**, **Ldap**,
**Ssmtp**, **Crypto**, **Stores**, **Kv**, **Caps**, **Boot**, **Gsr**,
**Console**, **Repl**, **Data** and **P2pVerb** keep one record each, whose fields
are the state of a call or of the files; their far sides (a program, a server, a
directory, an operator) take every step they could.

**Crypto** has secrets that are wired by the operator, named by a caller or derived
by label, each a term of the key it comes from; who may sign with one; the checks
of a token by secret or by key set, with its times; and one-time codes that are
used once.  **Data** writes a table as parquet, in groups of pages whose levels say
where the nulls are, or as the text of a CSV, and reads a range of rows or columns
back.  **P2pVerb** merges the keys of the configuration and of the command line
into one role, with the addresses and port maps they name and the older tunnel
block; what a match server and its topics file are given; and the framing of the
one reply a caller reads from a signalling server.

A definition whose comment begins with `Mutant:` is a plausible bug in the
definition it stands before.  `PROJECT.json` names the one that shows each
checked property can fail; the others show the same of the parts that the
properties of `MCNetwork` and `MCServices` collect.

## 3. Runs

| Run | Bounds | Checks |
|---|---|---|
| `swarm_residency` | 3 slots, 5 handles, buffer of 1 | `TypeOK` `TableExact` `NoOrphans` `OneForm` `HostMirrors` `StopReported` `ReachesOnlyBelow` `DeferredKept` |
| `swarm_authority` | 3 slots, 3 handles, 2 names, 2 stated bounds | `Attenuated`, and `TreePromised`: `Swarm` implements `Tree` |
| `swarm_wake` | 2 slots, 3 handles, fairness | `PendingWoken` |
| `endpoints_order` | a live and a stale link, inbox, buffer and endpoint queue of 2, 4 messages, fairness | `InOrder` `OneHeld` `KeptWhileResident` `HeldLands` |
| `pump` | 2 instances, 3 requests each, a reply queue of 1 | `EachOnce` `AnswersInOrder` `OwedToTheLiving` |
| `deploy` | root and 2 instances, budget 1, one call, fairness | `BudgetHeld` `WokenIsDriven` `ParksExact` `DeadlineHeard` |
| `connectors` | 2 owners, 3 handles, 2 connections, buffers of 1 or 2 | `OffersTrue` `NothingOfTheDead` `ToldTrue` `InOrder` `VitalEnds` |
| `serve` | 2 connections on either runtime, backlog and queue of 1, fairness | `OneResponse` `NoticeTrue` `InOrder` `HeldSettles` |
| `network` | relay: 2 legs, a caller, channels of 1; wisp: a stream, credit of 2, 3 packets, room for 1 in str0m; p2p: 2 pairings of 2 names or of one, a peer that calls or comes directly, 2 sessions; bridges: 4 reports, 2 held; fairness | `AdmittedAndTold` `ArrivesInOrder` `EndsAndArrives` |
| `services` | 19 parts, values in `MCServices` | `AuthorityHeld` `AnswersTrue` `StoredTrue` `NothingLeftBehind` `NetworkTold` `StepsEarned` |
| `endpoints_evict` | one link, an evicting inbox | violated: `HeldWasRefused` |
| `deploy_reply` | as `deploy`, no timeouts | violated: `AnswerLands` |

The bounds.  Three slots give three generations, so that a marking pass too few
shows; a fourth handle makes a slot be used again; a fifth makes a held spawn meet
the rate twice.  Four messages fill an inbox or a wake buffer of two, the held slot
and one place of an endpoint queue together.  Three requests against a reply queue
of one give an answer landed, one settled and one still asked.  Two instances for a
budget of one make the policy choose.  Programs' waits, requests and callers are
constants of the models, limited to those a run's question can tell apart. Two
owners and three handles let a handle be offered, taken and its number's neighbour
be opened meanwhile; buffers of one make every push meet a full one. Two connections
make one request wait behind another.  More packets than credit make a stream wait
for it, and two packets before the dial ends have an order to lose.  Three chunks
over a cap of two, a window of two events for three revisions, two databases for one
connection: the bounds of `MCServices` go one past the limit they are about.

`MCNetwork` and `MCServices` check parts that share no state.  A behaviour picks
one part in its initial state and stays with it, so each part is explored as it
would be alone, and each property is the conjunction of what the parts promise
about one subject.  In `MCNetwork` every part has its own variables, which keep one
value in the behaviours of the others; in `MCServices` `s1`, `s2`, ... stand for
the variables of the part that runs.

Fairness.  `DeployDriver`'s loop calls `step` while anything lives, and a step's
loops are finite: weak fairness of the step's actions.  A guest that is driven
parks or stops (it has an instruction budget).  In `Endpoints`, strong fairness
of `Read` and `Declare` says that a far end which is resident again and again is
driven and reads: `HeldLands` is a promise about far ends that read.  No fairness
is assumed of hosts, of connectors' answers or of the clock.

In `Serve` the loop is a thread whose waits are bounded, and the grace of a held
request runs out: weak fairness of each.  In `MCNetwork` tasks the runtime polls
are weakly fair (both ends of a session, the host's loop and the broadcast).  The
relay's two are strongly fair: their `select!` takes one of the ready branches at
random, so a peer that pings without end does not keep what else is ready
waiting.  Strong fairness is of a task between its writes: nothing says that a peer
takes what is written to it, and what `EndsAndArrives` promises of a splice is
premised on `Reads`, that both peers take each write in the end.  A session that
never connects meets its deadline, and a bridge's pass and the program's read go on.
Nothing is assumed of networks, servers, clients or operators.

Deadlock checking is off where everything may end: `pump`, `connectors`, `serve`,
`network` and `services`.

### What the violated runs show

* `endpoints_evict`: `push` turns `DroppedOldest`, a message that landed, into
  `Limit`; the router holds it and sends it again in every step, evicting one
  more message of the far end each time.
* `deploy_reply`: the residency policy hibernates a program that waits on
  `host/replies`, and a settled answer wakes nobody.  The answer is held, as
  the pump's comment says, for a return that need not come.  The property holds
  in the same model with the policy off.

### Sentences the models refute

These are stated in their modules as the source says them and TLC finds each
violated, with the bounds of the part's run unless said; they are kept as
definitions and are not runs.

* `Swarm.EveryOpGated`: the comment on `do_ref` says "Ancestry gates it like every
  other op"; `do_query` has no such test, and a child is told its parent's status.
* `Deploy.WaitOfResident`: `wait_of` answers for a hibernated instance, against
  its comment.
* `Boot.CeilingIsTheRoots`: a configuration that names no capability is given
  `host:*` (`ceiling` in `config.rs`), also inside a root whose ceiling is less
  (the comment in `boot.rs`: "The ceiling is the root's, whatever the profile
  asked for").  `Boot.RunsWhole`: a `live/` cut short by a crash is run.
* `Connectors.AnswersTheDead` (one owner, one open, under the `FairSpec` of
  `Connectors`: the driver's steps go on, and poll the calls of those who live): "an
  answer for an entry that is gone (the owner died while it waited) is closed at
  once" is said of `settle`, but the death of the owner drops the future that would
  have called it (`forget`, `pump.rs:166`), and `release` closes only entries that
  have a connection (`close_all`, `connectors/net/src/lib.rs:862`).  A ws listener
  that was being bound goes on accepting, for nobody.
* `P2p.UnreachedIsDown` (two entries of one name, under the `FairSpec` of `P2p`): an
  entry is `Unreachable` when "the call failed before an answer, or the session
  never connected".  Two pair entries of one name ask for one session
  (`park.rs:431`).  The host refuses the second record as a duplicate with a
  `Closed` for that name (`host.rs:804`); both tasks read it as the end of their own
  and report `unreachable`, and the session of the first record comes up and stays.
* `Relay.LotLives`: the sweep that ends `park_leg` runs before the leg's own
  receiver is dropped, so an ended leg stays in the lot until the next sweep.
  `Relay.FullDuplex`: both tasks of a splice can wait for each other's room.
* `Wisp.EndIsLast`: a stream's end overtakes data that waits for credit.
  `Wisp.CreditKept` (4 packets): a CONTINUE does not count the data on its way, so
  a caller that keeps to its credit can be closed as throttled.
* `Net.ClosedPast` (`Early = 2`, a backlog of 1): "a buffered handle is held to
  [`RECV_BACKLOG`] unread messages, past which the connection is closed", but a
  message too many that comes before the answer of `open` is settled finds no
  connection to close, and `settle` then gives the connection to an entry that is
  over: it stays up, and nobody can reach it.  The proofs below and `NoneForgotten`
  therefore say of forgotten connections what is true when an open is settled
  before its buffer can overflow, `Early <= RECV_BACKLOG`.
* `Forward.FallbackOnNoPath`: a fallback is taken on every error, not only where
  there is no path.
* `Wireguard.LossHeard`: a relay lost in the look that replaces the baseline is
  not told.  `Bridges.BillArrives`: a TURN bill is pushed once and may be dropped.
* `Netcheck.ProbedElsewhere`: the inbound probe may come from a place this run has
  contacted.
* `Console.StopHeardInShell`: a stop ordered in a shell may end the process before
  its answer is read.  `Ldap.OnePerson`: `find_user` asks for two entries and
  drops the mark of truncation, so a directory that answers one at most makes an
  ambiguous filter look certain.
  `Gsr.DecisionHeard`: the first file of a request that does not verify decides,
  whatever valid decision comes after it.
* `P2pVerb.FlagsWin`: a flag wins over its key in the configuration, but `p2p`
  reads the tunnel block again when `drt tunnel` hands it on, so the file's
  `claim = wss://...` comes back as the relay of a call that
  `drt tunnel --claim rtc:peer` named by its peer alone ("Flags win per key",
  `tunnel.rs`, `Args::resolve`).
* `Data.NullReadBack` (CSV, two columns, two rows): a null is an empty field,
  "the only thing a CSV can say for a null, and what `read_csv` reads back as
  one"; in a table of one column that is an empty line, which the reader skips,
  and the row is lost.

## 4. Proofs

TLAPS checks these for every value of the constants that the assumptions allow;
where a run states the property, the run shows it on a small instance.

| Module | Theorem | Establishes |
|---|---|---|
| `SwarmProofs` | `Safety` | `Spec => []Inv`, the inductive invariant |
| | `TypeCorrect` `HandlesExact` `TreeWhole` | `TypeOK`, `TableExact`, `NoOrphans` |
| | `Attenuation` `Residency` `HostContract` | `Attenuated`, `OneForm`, `HostMirrors` |
| | `StopsReported` `ReachBounded` `ThrottledKept` | the action properties `StopReported`, `ReachesOnlyBelow`, `DeferredKept` |
| | `TreeImplemented` | `TreePromised`: the table implements `Tree` |
| `EndpointsProofs` | `EndpointsInvariance` | the inductive invariant |
| | `OrderAlwaysKept` `HeldAtMostOne` `NeverLost` | `InOrder`, `OneHeld`, and the action property `KeptWhileResident` |
| `PumpProofs` | `Invariance` | the inductive invariant |
| | `AnsweredOnce` `OrderKept` `NothingOwedToTheDead` | `EachOnce`, `AnswersInOrder`, `OwedToTheLiving` |
| `DeployProofs` | `DeployInvariance` | the inductive invariant |
| | `BudgetAlwaysHeld` `WokenAlwaysDriven` `ParksAlwaysExact` | `BudgetHeld`, `WokenIsDriven`, `ParksExact` |
| | `DeployPumps` `DeploymentAnswers` | the driver implements the pump, whose promises it therefore keeps |
| `ConnectorsProofs` | `ConnectorsInvariance` | the inductive invariant, one part for each connector |
| | `OffersStayTrue` `NothingStaysOfTheDead` `ToldStaysTrue` `StaysInOrder` | `OffersTrue`, `NothingOfTheDead`, `ToldTrue`, `InOrder` |
| | `VitalAlwaysEnds` | the action property `VitalEnds` |
| `NetworkProofs` | `NetworkInvariance` | the inductive invariants of `Relay`, `Wisp`, `P2p` and `Bridges` |
| | `AdmittedAndToldAlways` `ArrivesInOrderAlways` | `AdmittedAndTold`, `ArrivesInOrder` |
| `ServeProofs` | `ServeInvariance` | the inductive invariant |
| | `ServeTypes` `OneResponseAlways` `NoticesTrue` `RequestsInOrder` | `TypeOK`, `OneResponse`, `NoticeTrue`, and the action property `InOrder` |

`KeptWhileResident` excepts the message whose push the far end's engine failed;
`NothingOfTheDead` excepts what the transport was opening for a caller that died
first, and which stays (`Connectors.AnswersTheDead`, above).

The assumptions are that instances are finitely many where they are counted, that
capacities and limits are not zero, that the sets which shape a run (who wakes,
whose queue evicts, what is asked) are sets of the right kind, and that names of
different kinds differ (a device's websockets and callers', the names of pairings
and calls).
On the network side channels, windows and queues may even have no room at all; only
`HELD_MAX` is one at least.  TLC evaluates the assumptions in the runs.

**The instance table.**  No invariant is inductive alone.  `NoOrphans` after a
sweep needs that what was swept is closed downwards (lemma `BelowClosed`) and that
freed records are empty (`TableExact`); `Attenuated` needs `NoOrphans`, since a
child's parent must be the same instance before and after; `HostMirrors` needs
`OneForm`; and the sweep of a stopped program needs `Finishing`, that the slot
still holds it after its last messages were routed.  `Reserve` concerns a bound of
the model: a handle is left for each held spawn.  So `Inv` is the conjunction of
`TableInv`, about the table, `StepInv`, about the position in a step, and the type
of events.  The argument goes by the few ways the code changes the table:
`ReleaseKeeps` (sweep), `BuiltKeeps` and `NotBuiltKeeps` (claim, then load or not),
`SwapOutKeeps` and `SwapInKeeps`, and `FieldsKeep` (fields that leave tree and
forms alone); `HostKeeps`, `PhaseKeeps`, `DrainKeeps` and `DriveKeeps` collect them
per group of actions, and `NextInv` collects those.

The action properties follow the same division.  Every step is of a `Kind`: a
sweep of all that is below one handle (`Swept`), or a step that leaves the tree
alone, spends a handle or grows a child (`Same`, `Spent`, `Grown`) and swaps out
only the instance whose request it serves or one below it.  Most steps are `Calm`:
they leave the tree and the held requests alone.  `BelowYounger` bounds the reach
of a sweep: who is below an instance is younger, and what is below that is below
the instance.
For `TreeImplemented`, a step that leaves the tree alone maps to a stutter
(`TreeSame`), and the other kinds to `Tree`'s actions (`TreeSpent`; `TreeGrown`, by
`Attenuated`; `TreeSwept`, by `BelowClosed` and `NoOrphans`).

**Routing.**  That messages are in order does not follow from the order before.
The number of a new one must exceed all on the way; nothing may be buffered for an
instance that is resident; and what is routed or tried again must be the oldest
its sender has, which is what `OneHeld` says, of `held` and of what `route_slot`
has taken out of it.  `LinkInv` puts the five places of a link in line, with the
last message read before them; the lemmas on sequences say what appending, dropping
the head and removing a far end's messages do to the numbers of one sender.

**The pump.**  `Book` keeps the numbers: what is still asked are the last of the
requests, of those before them each is in flight or answered, and answered once.
`Line` cuts the answers into read, queued and settled.  Order rests on `Driving`:
where the drain loop finds room, `deliver` has left nothing settled.

**The driver.**  Where can an instance be that was woken and not yet driven?
Ahead of the drive loop, or there is none (`WokenInv`), whatever stopped or died
meanwhile; the budget then counts only candidates that have run.  `DeployPumps` is
the refinement: every step of the driver is a step of `Pump` or leaves it alone.

**Listener and loop.**  `OneResponse` needs what may have been written at each
stage of a connection (`ThreadedSound`) and, on the polled runtime, that what is
owed is the rest of one response: a head first and only if nothing was written, a
last chunk last and only once the token is gone (`PolledSound`).  `NoticeTrue` needs
that a connection with a notice out is `Over`, which no later step undoes, and that
there is one place for its notice (`Lone`).  `InOrder` needs `Looped`, that the loop
holds nothing once the queue exists and it looks for more, and `Rotated`: within a
pass over what is held, what was put back is older than what is still to be looked
at.  Lemma `ThreadTurns` reduces a thread's step to its new stage; `MailArrives`,
`MailTaken`, `MailRetried` and the lemmas `Order...` say what each move of one
message does, and each action then cites the move it makes.

**The connectors.**  `Accounted` is what all three keep of handles and offers:
handles are below the next one, every offer is backed by its maker (or, on net, by
nobody) and made once, and no owner is gone.  It is stated of a table, its next
handle and its offers, not of the variables, so that one lemma serves every
connector and also the tables a sweep passes through: `OnlyAccounted` (offers go),
`InsertAccounted`, `CloseAccounted`, `ReleaseAccounted`, `TransferAccounted`,
`ClaimAccounted`.  To that `SockInv` adds what readiness says of a socket, and
`WsInv` what a task that waits knows of its inbox (`TaskFine`).

On net a poll reads all the events there are, so its step is itself an induction.
`NetFine` is said of a table, the pushes, the keys to close and the transport of
which the first `i` events are read; `EventStep` takes it from `i` to `i + 1`
through the three kinds of event and their refusals, and `SweepFine` to the end.
Its parts: `TableFine`, who may hold which connection; `Fresh`, a connection that
is reported has no entry yet; `Lines`, that of the messages of a handle those
pushed precede those buffered and those the events before those still to be read;
`Reached`, that whoever is up is held, waited for, reported or to be closed.
`NetInOrder` then reads `InOrder` off the line of a handle.  That an accept is
reported of a connection nobody asked for was not evident: without it the entry
of a new connection could be one an open still waits for, and TLC found the
invariant not inductive until `EventFine` said so.

**The network side.**  A behaviour is one part's, so `NetworkInv` is the four
invariants side by side, and a step needs only that of its part.

*Relay.*  That an answer cannot let in a websocket it is not about rests on
`AskedOnce`: a question is in one place on its way from the relay to the program,
and nothing was answered while it is on the way.  `Answered` then ties what the
program said to what the relay hears and to who goes on.  `PlacedOnce` says a leg
is in the lot once or with one caller, and that whoever is in the lot was parked;
`SweepKept` needs of `retain` that it picks legs in their order (`FilterPicks`),
and `RelayTells` turns "with one" into the cardinalities of `OneCaller`.

*P2p.*  A report that says a session is up is about one that was, in the host's
queue and in the inbox of every pairing, and a command to open is for a name that
was `Asked`: some entry of it came and the rule allows it.  What a task waits for is
such a name too, whoever else waits for it.  What is told later is true because what
is on its way is.

*Wisp.*  Four places hold the bytes of a stream: what the caller queued, the
packets on the way, what the host took and what the target got.  `CallFine` and
`InOrderOf` number the ends, and `Line` says that the data of a stream on the way,
among the packets of all the others, has just the numbers between what the host
took and what the caller sent.  `Line` is claimed only while the host `Takes` what
comes: it drops the data of a stream it forgot.  That it does not mistake late data
for that of a new stream is `Opening`: the packet that opens a stream comes once,
before all its others.  `Audited` rests on `StageOf`, what each stage of an entry
has said and not yet heard.  A step is cut down to the stream it is about:
`CallerPumps`, `HostHears` and `HostAlone` say when the invariant of all streams
follows from that one's, and `LineGrows`, `LineNext` and `LineSkip` what a packet
sent, taken or passed over does to it.

*Bridges.*  `SaidInOrder` puts got, queued, held and not yet taken in one line of
rising numbers.  A push cuts a sequence in two (`PushSplits`), the first half below
the second (`Halves`); what is kept of it is `Among` it, in its order.  That a
bridge loses nothing before it holds all it may is a count: reports that rise from
1 are at most as many as were said (`AtMost`), and the one at place `i` is `i` at
least (`AtLeast`), so what goes past `HELD_MAX` is never WireGuard's first.

Data of any length.  The provers cannot use the library's induction theorems, which
take an operator.  What they can use is that strict inclusion is well founded on
finite sets, which is a theorem about sets: `LeastNumber` applies it to the initial
segments of the naturals and `Induction` follows, for a set of numbers.  With it
`OnlyUnfolds` and `SweepUnfolds` show that the functions of `Only` and of `Sweep`
exist and unfold as written, and `OnlyPicks` what a filtered sequence is.
`NetworkProofs` has the same of the filters of `Relay` and `Bridges` (`FilterExists`,
`FilterPicks`).

Only model-checked.  Liveness, which TLAPS does not do: `PendingWoken`, `HeldLands`,
`DeadlineHeard`, `HeldSettles`, `EndsAndArrives`, `StepsEarned`.  What a recursive
definition computes: `Rest`, `Data` and `Crypto` work on data of any depth or
length.  The parts of `MCServices`, each a record whose one or two promises its run
covers: their proofs are not written.  In `Deploy`, that `recent` is
a sequence of instances: it is filtered with `SelectSeq`, of which the provers know
no fact, and no theorem needs it.

## 5. Not modelled

The guest core (external: its queues appear as the outcomes the Rust code tells
apart); encoding, parsing and validation of messages beyond accept and refuse;
events that do not fit a supervisor's queue; scopes of capabilities, except where
a connector's module has its own; arguments delivery.  In `Deploy`, swaps that
programs ask for themselves, and trees deeper than the root's children.

Network stacks (ICE, DTLS, SCTP, TLS, SSH, the WireGuard tunnel, STUN and TURN
exchanges), SQLite, the parquet library and cryptographic primitives are external:
the models take their outcomes.  Most verbs of the command line only read, print or
start what is modelled.  The browser front ends, the platform shims, the Windows
halves of the console and of the process tree, `hostcall`, `time` and `aloecrypt`
are input, output or encoding.  The matchmaker's rendezvous is a program of the
standard library; `P2pVerb` has what the verb gives it and `Kv` what it keeps.

Known and not covered by a property: a resource declared vital when it is already
over; a listener's waiting connections after it is claimed by another owner; the
`busy` flag of a p2p stdio service, which nothing resets; a relay's peer that stays
and stops reading, which holds both tasks of its splice (`relay.rs:455`,
`relay.rs:535`); a mail the relay took whose answer timed out; `DeployHost::active`,
which grows with every instance; the spawn rate, which is spent in slot order, so
that busy programs in low slots can throttle one in a high slot for as long as they
ask (`swarm.rs:1199`); a program that stops while a message it sent is held, which
goes with its slot (`swarm.rs:1143`); an `order` that names a column twice, which
meets the `expect("named above")` in `connectors/data/src/lib.rs:1032`; and `--pair`
beside a call, which is ignored where `p2p/mod.rs` says such a flag is named.

## 6. Plan

1. Proofs: `Narrows` of `Caps` and the other parts of `MCServices`.
2. Hibernating owners in `Owners`, composed with `Swarm`.
3. The matchmaker's rendezvous, and the client of it in `P2p`, in one module.

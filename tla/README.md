# A TLA+ model of kbridge

kbridge lets users run `kubectl` in clusters that accept no inbound
connections. A user's CLI talks HTTP to **central**; an **agent** in each
cluster talks gRPC to central, polls it for one-shot commands and keeps a
bidirectional stream open for interactive ones. This directory specifies that
machinery in TLA+, checks it with TLC and proves its safety with TLAPS.

## Inventory

| Part (source under `src/internal`) | State | Operations | Correct when |
|---|---|---|---|
| Agent registry (`central/store.go`) | agent ID → cluster, status, last seen | Register, UpdateHeartbeat, GetByClusterName, MarkDisconnected | a cluster is reached through its live agent |
| Command queue (`central/commands.go`) | request ID → command, status, result channel | Enqueue, GetPendingForAgent, MarkRunning, Complete, Fail, WaitForResult, Remove | no command lost by the queue, run twice, or left behind |
| One-shot endpoint (`central/http.go`) | one goroutine per request | handleExecCommand | answer and audit row agree with what ran |
| gRPC service (`central/grpc.go`) | one goroutine per call | Register, Heartbeat, GetPendingCommands, SubmitCommandResult, OpenStream | an abandoned call does no harm |
| Agent command loop (`agent/agent.go`, `executor.go`) | agent ID, received batch | pollAndExecuteCommands, executeAndSubmit | each received command executed once |
| Session manager (`central/stream_manager.go`) | agent ID → stream, sessions, channels | Start*, Route, Cancel, Register/UnregisterAgentStream | sessions end exactly when they should; limit kept |
| Streaming endpoints (`central/http.go`, `exec_http.go`, `portforward_http.go`) | one goroutine per request | handleStreamCommand, handleExecAttach, handlePortForward | a returned handler leaves no session and no process |
| Agent stream (`agent/stream.go`, `portforward.go`) | session → process, channels | openAndServeStream, run*Session, pfSession | processes die with their session or stream |
| Agent lifecycle (`agent/agent.go`) | connection, agent ID | Run, reconnect, Stop | reconnects, and stops when told |
| Login, tokens (`central/auth_handlers.go`, `auth/`) | users, refresh tokens | login, refresh, logout, change password | a spent or revoked token is worth nothing |
| Admin, agent tokens (`central/admin_handlers.go`, `agent_auth.go`) | users, clusters, agent tokens | CRUD, Authenticate | no lost update, revoked tokens refused |
| Policy (`central/policy.go`, `rbac.go`) | the loaded policy | Allows, Reload, Watch | exactly the granted requests pass |
| Rate limiter (`central/ratelimit.go`) | bucket per key | allow | at most the configured rate |
| Audit, SQLite store (`central/audit.go`, `sqlite_store.go`) | rows | Record, queries, clean-up | every command leaves a true row |
| Frames (`execframe`, `pfframe`) | none | encode, decode | round trip |
| CLI (`cli/`) | tokens, local connections | commands, refresh and retry, port-forward registry | retries never repeat a command |

**Interaction.** An HTTP request finds an agent ID in the registry, passes the
policy and either puts a command into the queue (one-shot) or starts a session
(streaming). The agent's poll takes commands from the queue; its submission
puts the result into the command's channel. Sessions multiplex over the
agent's stream; the stream's receive loop feeds the sessions' channels. The
registry, the queue and the sessions live in central's memory only.

**What is hard here.** gRPC handlers do not look at their context, so a call
the agent gave up on runs on beside the next one. Critical sections are short
and a decision is often made in one and acted on in the next (snapshot, then
mark; count, then insert; look up, then send). Agent IDs change with every
registration and old entries stay. The two ends of a stream notice its loss at
different times. Timeouts race results. `PROJECT.json` lists each hazard at its
line.

## Modules

`Names` – identifiers shared by the one-shot modules.

`AgentStore` – the registry: one operator per method of `AgentStore`. An ID is
never reused (`issued`), an entry never removed.

`CommandQueue` – the queue: one operator per critical section. Membership in
the map (`queued`) and the fields of the `PendingCommand` objects are separate,
because goroutines keep pointers to removed commands. `Complete` and `Fail` are
two steps (`SetFinished`, `OfferResult`), as in the code.

`ExecPath` – the one-shot path, composed over the two. Goroutines are explicit:
`handler[r]` is the program counter of `handleExecCommand`, `pollPc[s]` of a
`GetPendingCommands` call, a record in `submits` a `SubmitCommandResult` call.
One agent process per cluster holds `current` (its ID), `call` (the poll it
waits for) and `batch` (commands received and not yet executed). `Reliable`
switches all faults off.

`ExecService` – what the endpoint promises, without queue, polls or agents.

`SessionManager` – the session manager: one operator per critical section of
`m.mu`, and `Session.close`. An `agentConn` is named by its `OpenStream` call.

`StreamPath` – the streaming endpoints, the `OpenStream` handler and the
agent's stream, composed over `SessionManager`. `pc[s]` is the program counter
of a request's handler, `srv[c]` that of an `OpenStream` handler; either kind
of goroutine may be inside `Cancel` or the exit case of `Route`, whose steps
`job` records. `proc[s]` is the kubectl process. A send on a closed channel
sets `crashed`: a panic in a gRPC handler ends central.

`UserStore` – the `users` and `refresh_tokens` tables: one operator per SQL
statement, with the UNIQUE e-mail and the cascading foreign key. A token pair
is its number.

`AuthService` – the handlers of login, refresh, logout, password change and the
administration of users, over `UserStore`. `http[c]` is the progress of a
caller's handler, one statement per step. `family`, `doubled`, `intended` and
`crossed` are history: the login a pair descends from, the logins whose
rotation was disturbed, the rows as non-overlapping updates would have left
them, the users whose updates overlapped.

`AuthCli` – invocations of `kb` that share one configuration file, composed
with `AuthService`: login, logout, a command with its 401-refresh-retry
(`doRequest`, `StreamCommand`), the same in `runExecInteractive` and
`runPortForward`, and `clusters use`. `calm` is history: nothing has happened
after which a new login is to be expected.

`ClusterStore` – the `clusters` and `agent_tokens` tables, statement by
statement.

`Enrollment` – creation and revocation of agent tokens, and `Register` with
`Authenticate`, over `ClusterStore` and `AgentStore`. `reg[s]` is the progress
of a `Register` call; a call its agent gave up on goes on (`gone`) with a
cancelled context, which fails its statements and not its memory operations.

`AgentLifecycle` – the agent process, composed with `Enrollment`: `Run`,
`connect`, `register`, the heartbeat loop, `reconnect` with `MaxRetries`, the
ID the stream goroutine uses, `main` with `Stop`. Every lost call, restart or
broken connection uses up one of `MaxFaults`.

`PortForward` – one port-forward session from the local program to the pod:
`kb`'s connection registry, central's two bridges, the agent's `pfSession` with
the two goroutines of a connection. `hand` is what the receive loop holds
between looking a connection up and using it, `unread` what the system holds
for a local program; `KbWaits` says that `kb`'s only reading goroutine is in a
`Write` to a program whose socket has no room (`SockBuf`), with no deadline.

`Frames` – the wire format: `WriteFrame`, `ReadFrame` and the payloads, over
sequences of bytes; `PutUint16/32` and `Uint16/32` are `encoding/binary`'s
big-endian integers.

`Policy` – pure operators: `matchPattern` as the code's two-pointer loop
(`matchLoop`, a recursive function over the loop's positions),
`parseAccessRequest` (`namespaceAfter` is its loop over the words), rules,
roles and `validate`; beside them the meaning
`docs/rbac.md` gives (`Glob`, `RefResource`, `RefNamespace`, `RefAllows`, with
the default role for users without a binding only), and what the code allows
beyond it (`DefaultDespiteBinding`).

`PolicyEngine` – the policy in force: start-up, the file's changes, the
watcher's and the SIGHUP handler's reloads, each in two steps (read, store).

`Interactive` – one `kb exec -i` session end to end: `kb`'s goroutines, both
halves of central's bridge, the agent's stdin and resize channels, the executor
with the goroutines around the process (`pump`), the process itself (external)
and a descendant that may hold its pipes (`heir`).

`MC…` – model values, plans and symmetry for TLC. `MCPolicyEngine` and
`MCPortForward` also check the pure operators of `Policy` and `Frames`: in a
behaviour of its own, beside a resting engine or session, an input is written
down a character, a word or a byte at a time and the operators are compared
with their reference on each.

`ExecPathProofs`, `StreamPathProofs`, `AuthCliProofs`, `AgentLifecycleProofs`,
`PortForwardProofs`, `InteractiveProofs` – theorems about the module each is
named after, which it extends. `PolicyProofs` – theorems about `Policy` and
`PolicyEngine`; `FramesProofs` – about `Frames`.

How they compose: `ExecPath` = `AgentStore` + `CommandQueue`; `StreamPath` =
`SessionManager` + handlers + agent; `AuthCli` = `AuthService` + `UserStore`;
`AgentLifecycle` = `Enrollment` + `AgentStore` + `ClusterStore`;
`PolicyEngine` = `Policy`. `PortForward` and `Interactive` take up where
`StreamPath`'s session has been started and follow its data, which
`StreamPath` only counts.

Definitions whose comment starts with "Mutant of" are plausible bugs, used to
make sure that the property named with them in `PROJECT.json` can fail.

### Abstractions

* A command is its request; a result is one of exit 0, another exit code, an
  error message. Output is a count of chunks in a channel.
* Time: a timeout, a late heartbeat, a broken connection may happen at any
  moment.
* In `ExecPath` and `StreamPath` the policy decision and the validity of a
  body are free choices; `authorizeExec`'s 401 is not reachable behind the JWT
  middleware.
* In `ExecPath` registration is the registry update; what precedes it is
  `Enrollment`.
* In `StreamPath` the registry is an input (found and connected, or not). A
  send is one step: a send blocked by flow control is not modelled.
* SQLite: the pool has one connection, so a statement is atomic, and the
  foreign-key pragma, which is set on that connection, is taken to hold.
  Hashes, signatures and random IDs are sound and distinct. A failing statement
  or a cancelled request context is a step that may happen.
* `PortForward`, `Interactive`: the hops between `kb` and the agent are one
  FIFO channel per direction; the loss of the agent's stream is in
  `StreamPath`. A chunk of bytes is its number, so that order, loss and
  duplication show. In `Interactive`, `kb`'s two writing goroutines share a
  pipe without a lock: `KbTear` is the interleaving of their two-part frames,
  after which central decodes nothing the user sent.
* `Policy`: a string is a sequence of characters, a command-line word is its
  text and the kind of flag it is; verbs and role names are plain values.
* `Frames`: a byte has `ByteBase` values; nothing depends on there being 256.

## Runs

Passing:

| Run | Instance | Shows |
|---|---|---|
| `ExecOverlap` | 1 request, 2 clusters, 2 IDs, 2 poll handlers, all faults | `AtMostOnce`, `RunsAsAuthorized`, `AnswerGenuine`, `AuditTruthful`, `QueueHasOwner`, `NoLostWakeup`, and the inductive invariant |
| `ExecRefinement` | 1 request, 1 ID, 2 poll handlers, all faults, fairness | `ImplementsService`, `EveryRequestEnds` |
| `ExecReliable` | 2 requests, 2 clusters, 2 IDs, no faults, fairness | `AnsweredWithResult` |
| `StreamSessions` | 2 sessions (attach, port-forward), 1 stream, limit 1, channels of 1 | `ListedSessionsOpen`, `NoStrandedHandler`, `HandlersReleaseSessions`, `StreamAuditTruthful` |
| `StreamReconnect` | 1 session (stream, port-forward), 2 streams, fairness | `DisconnectEndsHandler`, `ProcessEnds` |
| `AuthSessions` | 2 invocations of any commands, or 1 beside 2 requests of administrators; 3 users, 3 token pairs, all faults | `OneTokenPerLogin`, `NoTokenOfDeletedUser`, `RunsOnce`, `TransparentRefresh`, `UpdatesMerge` |
| `AgentEnroll` | 1 agent, 2 administrators, 2 tokens, 2 cluster rows, 2 IDs, 1 fault | `TokenBound`, `RevokedStaysOut`, `ServesItsCluster` |
| `AgentLife` | 1 agent, 3 IDs, 2 retries, 2 faults, fairness | `Heals`, `SignalEnds` |
| `PortForwardConn` | 1 connection with 3 chunks each way, or 2 with 2 chunks from the pod; channels of 1 and 2, local sockets of 1, fairness; 2 frames of bytes with 2 values, payloads up to 4 where 3 are allowed | `BytesInOrder`, `ClosedOnce`, `ClientCloseReachesPod`, `PodCloseReachesClient`, `SessionReleases`, `FramesRoundTrip` |
| `PolicyReload` | 3 documents (one invalid) and a broken file, 4 edits, fairness; patterns and values up to 5 characters, commands up to 3 words | `CatchesUp`, `PatternsMatch`, `DecisionsCorrect` |
| `InteractiveExec` | both modes, 4 chunks in, 1 out on each stream, 1 resize, channels of 1, fairness | `InputInOrder`, `OutputComplete`, `ExitReachesUser`, `LeavesNothing` |

A disagreement between the code and one of its comments (`PROJECT.json`,
findings): `InteractiveEOF`. When the user's input ends, `kb` half-closes the
request, to "send EOF to remote stdin" (`cli/exec.go:221`). Central's upstream
goroutine returns, no message says so to the agent, and the process never sees
the end of its input.

### Known deviations without a run

The models contain the following behaviours, which the properties above
therefore exclude or tolerate explicitly.

* A stale registry entry answers 503 for a cluster whose agent is connected
  under a new ID (`store.go:99`; `docs/api.md:47`).
* Sessions are counted and inserted in different critical sections, so
  concurrent starts exceed the limit (`stream_manager.go:163`;
  `docs/configuration.md:55`).
* `Route` sends on a channel `Cancel` may have closed: central panics
  (`stream_manager.go:301,334`). Likewise `pfSession.data` at the agent
  (`portforward.go:120`; `panicked` in `PortForward`).
* A port-forward that failed keeps its slot until the stream ends
  (`portforward_http.go:65`; `docs/api.md:135`).
* The deferred `UnregisterAgentStream` of a broken stream removes the next one;
  its sessions end at central and kubectl goes on (`grpc.go:231`;
  `docs/api.md:55`). `ProcessEnds` excepts exactly this case.
* The stream may be opened under the ID of the previous registration
  (`agent/stream.go:36` between `connect` and `register`).
* `kb logout` with an expired access token, or whose deletion fails, reports
  success and leaves the refresh token valid (`docs/security.md:319`).
* A refresh does not look at `is_active`.
* Two refreshes of one token at the same time both succeed, and a failed
  deletion of a used token is ignored (`auth_handlers.go:107`);
  `OneTokenPerLogin` excepts these. Overlapping updates of one user lose one
  (`admin_handlers.go:204`); `UpdatesMerge` excepts them.
* `kb clusters use` and a refresh in another invocation overwrite each other's
  configuration; `TransparentRefresh` speaks of invocations that do not overlap.
* A SIGHUP during the watcher's reload may put an older document in force
  (`policy.go:175`), and a change between start-up and `Watch` is not seen;
  `CatchesUp` excepts both.
* A star in a *value* is taken for a star of the pattern's when the two meet
  (`rbac.go:23` compares characters first), so that `*b` does not match `*ab`.
  Names in Kubernetes have no stars; the only value with one is the namespace
  "*" of `--all-namespaces`, of which `MatchPatternIsGlob` speaks too.
* `-n value` before the resource makes `value` the resource
  (`rbac.go:98-103`); `DecisionsCorrect` speaks of commands with `-n` after it.
* The default role is documented for "any user with no matching binding"
  (`docs/rbac.md:15`; likewise `:84-86`, and `configs/rbac.yaml:7` "no explicit
  binding"); `rolesFor` gives it to everybody (`policy.go:62`).
  A bound user therefore keeps what the default role grants. `RefAllows` is the
  documented meaning; `DecisionsCorrect`, `DecisionsOfTheCode` and
  `DecisionsAlwaysCorrect` say that the code allows that and
  `DefaultDespiteBinding`, and no more. With `RefAllows` alone TLC refutes the
  property at once: in the run's document `Default`, subject `b` is bound to
  `admin` and reads cluster `a` as the default `viewer`.
* A window resize in the middle of an input frame makes the rest of the input
  unreadable (`cli/exec.go:216,234`); `InputInOrder` speaks of what the user
  typed before. `resizeTo` drops the newest size, not the oldest, when its
  channel is full.
* A descendant of kubectl that holds its output pipes keeps the session's
  goroutines: `WaitDelay` acts in `cmd.Wait`, which comes after the readers
  (`executor.go:318-324`). `ExitReachesUser` and `LeavesNothing` except it.
* `kb port-forward` writes what comes down for all its connections from one
  goroutine, without a deadline (`cli/portforward.go:276`): a local program that
  holds its socket open and does not read stops the data, closes and errors of
  all other connections. `PodCloseReachesClient` and `NobodyStuck` except the
  time `kb` waits so (`KbWaits`); the session's own end, too, is noticed only
  afterwards.
* When kubectl port-forward exits, nobody tells central or `kb`: connections
  are then refused one by one.
* A signal that arrives while the agent's first connect or register is failing
  leaves `Stop` waiting for ever; `SignalEnds` speaks of agents that had
  registered.
* Two overlapping `GetPendingCommands` calls return the same command, although
  it is marked "so it's not returned again" (`grpc.go:164`); it still runs once.
* One-shot calls answered 404, 503, 400 or 500 leave no audit row, although
  "every call is recorded" (`docs/api.md:50`).
* `UnregisterAgentStream` "closes all of its sessions"
  (`stream_manager.go:117`) but not those inserted afterwards or on a stream
  that was replaced; they end when their client leaves.

**Bounds.** Two poll handlers are the smallest number that overlap (an
abandoned call and the next one). Two IDs give a cluster a stale and a fresh
registry entry; two clusters let a command go astray. With all faults one
request is enough: the queue keys everything by request ID, and no step reads
the entry of another request. Two requests, in one snapshot or in two queues,
are run without faults; with faults the proofs cover any number. The same holds
for the other instances: what the invariants say of them is proved for any
size, and the bounds matter for the liveness properties.
Two sessions share a stream and compete for a
limit of 1; two streams give a replaced one and its successor. Channel capacity
1 (`OutputBuffer`, 64 in the code) and one message in flight (`WireBound`,
flow control) make "full" reachable at once; the code never tests other
lengths. `AuthSessions`: two handlers are enough for every pair of statements
to interleave, three pairs give a login, a rotation and a second login or
rotation. `AgentEnroll`: two administrators ask for one new cluster at a time;
two `Register` calls are an abandoned one and the next. `AgentLife`: two faults
let a reconnect fail while it mends the first, and two retries let it give up.
`PortForwardConn`: two connections are related by the goroutines that serve
both: the agent's receive loop, which does not block, and `kb`'s, which does. Of
three chunks one fills the channel to the pod, one overflows it and one comes
after. Of two chunks one fills the local socket and at the other `kb` waits, with
the second connection's close behind it; that connection needs no data
(`Shared`, `MaxShared`). The payloads checked are
on both sides of the limit and of the IDs' four bytes. `InteractiveExec`: of four
chunks one is being written, one fills the channel, one is dropped and one
comes after it. `PolicyReload`: a star remembered, given up and returned to
needs four characters. Requests, IDs, streams and edits are used up, and
sessions end for good, so the runs do not check for deadlock.

**Fairness.** `ExecPath`: every goroutine of central that can step does; the
agent's poll loop keeps polling and executes what it received; a submission
that is not lost is handled. These are Go's scheduler and the tickers. The
timeout belongs to the wait for a result, since `context.WithTimeout` always
fires. Arrivals, faults, registrations and heartbeats are under no obligation.
`StreamPath`: the same for handlers and for the steps of `Cancel`; a client
that left is noticed although output keeps coming, because `select` chooses at
random among ready cases; both ends notice a broken connection; a cancelled
process dies and its goroutine gets its turn on the stream's mutex (strong
fairness, as Go's mutex does not starve). `AgentLifecycle`: the agent's loops,
its calls and central's handlers step; the stop channel, ready from the signal
on, is chosen by a `select` that meets it again and again (strong fairness);
faults are finitely many. `PortForward`, `Interactive`: every goroutine of
`kb`, central and agent that can step does, a kill is carried out, and the
stdin goroutine, whose `select` meets the done context again and again, takes
it (strong fairness); users, pods, processes, their descendants and local
programs may do nothing for ever, and need not read: `kb`'s reading goroutine
owes nothing while it waits for a local program, nor does the agent's writer in
a `Write` to the pod until that socket is closed. `PolicyEngine`: the two reload goroutines handle their
events. `AuthCli` is checked for safety only.

## Proofs

Every safety invariant the runs check is proved, and of the liveness properties
of `PortForward`, `Interactive` and `PolicyEngine` the half that is safety (see
below). The theorems hold for all values of the constants that satisfy the
assumptions of the module (sizes are natural numbers, channels have a positive
capacity, `None` is not an identifier, sets of different things are disjoint,
policy documents are well-formed and one of them is valid): bounds, buffer
sizes, the numbers of requests, sessions, agents and users, and the lengths of
patterns, commands and payloads are free. TLC evaluates these assumptions in
every run and has checked each inductive invariant on small instances.

None of the invariants of the state machines is inductive. In each module the strengthened invariant
is a conjunction of named parts, there is a lemma per action (the parts it can
disturb are proved in it, the others follow from frame lemmas, named `…Kept` or
`Keep…`), a lemma per kind of channel operation, and a last step that combines
them.

**`ExecPathProofs`** (`ExecInv`): `RunsAtMostOnce`, `RunsOnlyAsAuthorized`,
`AnswersAreGenuine`, `AuditIsTruthful`, `QueueDoesNotLeak`, `NoWakeupIsLost`.
`AtMostOnce` holds not because a command is returned by one poll (it may be
returned by two) but because, once it has run, no poll that an agent still
waits for holds it, and none will be given it since it is no longer pending.
The parts: `IdsInv` (an ID belongs to one cluster for ever), `RequestInv` (a
queued request was allowed, is bound to an ID of its cluster, and leaves the
queue only when it is no longer pending), `PollInv` (what poll handlers hold),
`RunInv` (a received command has not run; one that ran can not come again),
`ResultInv` (every result on its way is the result of the request's run).
`PathImplementsService`, `Spec => Service!SvcSpec`, is the safety part of the
refinement: every step maps to a step of `ExecService` or to a stutter.

**`StreamPathProofs`** (`StreamInv`): `FoundSessionsAreOpen`,
`HandlersCanReturn`, `ReturnedHandlersReleased`, `StreamAuditHolds`. The heart
is `SessionsInv`: a session that was started is closed, or in the map, or held
by a goroutine that will close it whatever happens (`SureClosers`: inside
`Cancel` or the exit path past the lookup, or unregistering the stream). For
this `JobInv` and `ServerInv` say that such a goroutine has taken the session
out of the map before it closes it, `HandlerInv` that a handler's progress
bounds what exists of its request, and `MessageInv` that an exit code of 0 or
an error on its way is a true one.

**`AuthCliProofs`** (`SessionInv`): `DeletedUsersHaveNoTokens`,
`RotationHolds`, `UpdatesAreKept`, `RequestsRunOnce`, `RefreshIsTransparent`.
`PairInv` says that pairs are issued in order and what the table holds was
issued; `RotationInv` that a login being refreshed has no other refresh in
progress and no token but the one about to be deleted; `UpdateInv` that a row
about to be written back differs from the current one in the changed fields
only; `CalmInv` that while nothing disturbs the session one invocation runs at
a time and the file, or the invocation that is exchanging it, has a live token.

**`AgentLifecycleProofs`** (`LifeInv`): `TokensBound`,
`RevokedNeverRegisters`, `AgentsServeTheirCluster`. `AdmInv`, `CallInv` and
`ProcessInv` say that what an administrator's handler, a `Register` call or an
agent read in an earlier statement is still true of the tables, which only
grow; `IdInv` that the ID of a call is nobody else's until it is entered, also
while calls their agents gave up on go on.

**`PortForwardProofs`** (`ForwardInv`): `BytesArriveInOrder`,
`ChannelsClosedOnce`. `UpFlow` and `DownFlow` say that of the chunks of a
connection sent and not yet received the channel holds a first part without a
gap, and all of them while the session is open (`Carries`); `HandInv` that the
chunk in the receive loop's hands is the next one; `ConnInv` that the agent's
table holds exactly the connections whose socket is open, and that a
connection's channel is closed when, and only when, it leaves the table.
`ForwardNeverSticks`, which counts the states in which `kb` waits for a local
program, or a writer for the pod, among those where nothing can step, rests on
`EndInv` beside it: a close by either end is on
its way to the other, behind the open frame if that is on its way too
(`ClientClose`, `PodClose`), a session that central has ended is told to the
agent or was (`CancelTold`), and `kb` ends before its session only if kubectl
did not start (`ErrorEnd`).

**`InteractiveProofs`** (`TerminalInv`): `InputArrivesInOrder`,
`OutputIsComplete`. `OrderInv` says that the process, the stdin goroutine, the
session's channel and the stream hold chunks of input in order, each hop before
the next; `GapInv` that as long as the process may still read, nothing is
missing before a chunk at the agent but what the agent dropped; `PumpInv` that
a reader ends only with its pipe empty and no writer left, and the result comes
after the readers; `PipeInv` and `OutputInv` that pipe, session channel and
`kb` together hold each output from the first chunk to the last; `ExitInv` that
`kb` sees the exit code when the channel is drained. `SessionsNeverStick` rests
on `EndInv`: the executor leaves only after its result has closed the session,
a session closed otherwise has told the agent or will, and `kb` does not end
before its session.

**The safety half of liveness.** `NobodyStuck`, of `PortForward` and of
`Interactive`, is about the states in which no goroutine of the program can
step (`Quiet` spells out that the guards of the fair actions are false): there,
what the liveness properties wait for has happened. `NoChangeLost` says so of
the policy's reloads, and `NoStrandedHandler` and `NoLostWakeup` of a single
waiting goroutine. What is left to TLC is that such a state is reached.

**`PolicyProofs`**. `MatchPatternIsGlob`: the loop of `matchPattern`, which
returns to the last star only, answers whether the pattern's stars can be
filled to give the value. `LoopInv` says that between the last star and the
current position there are only characters that match those after the star's
mark; `ToFind` what the loop still has to find out; from every position it can
be at, the loop answers `ToFind`, by induction on the last star, its mark and
the position in the value, which grow in this order. Giving up earlier stars
loses nothing: what matches after an earlier star matches after the last one
too (`LoopStep`). `RequestIsDocumented`: the loop that skips the value of `-n`
finds the last flag that names a namespace, and the first word that is no flag
is the resource. `DecisionIsDocumented` puts the two under `Policy.allows`, for valid
documents that name no default role, and for subjects without a binding in any
other; `DecisionsOfTheCode` says for all subjects what is allowed, the default
role of bound users included. That `validate` refuses a role without a name is
needed, since it would be everybody's when there is no default role.
`PatternsAlwaysMatch` and `DecisionsAlwaysCorrect` are the run's properties. For the engine,
`PolicyAlwaysValid` says that an invalid document is never in force and
`PolicyFollowsFile` that no change of the file is lost; the invariant
(`ReloadInv`) bounds the reloads in progress and says which event or reload
still stands between the file and the policy.

The provers have no induction and no recursive definitions of their own, so
these are proved first: a set of numbers that is not empty has a least member
(from well-foundedness), hence induction over a set of numbers; a monotone
function on the subsets of a set has a fixpoint, hence a recursive definition
with truth values has a solution; a value and a step function define a
sequence.

**`FramesProofs`**. `FrameIsRead`, `CutFrameIsRefused`, `PayloadsAreDecoded`
and the run's property, `FramesAlwaysRoundTrip`, rest on lemmas about division
(the digits of a number to any base give it back) and about slices of
concatenated sequences.

`TypeCorrect`, `StreamTypes`, `SessionTypes`, `LifeTypes`, `ForwardTypes`,
`TerminalTypes` and `PolicyTypeCorrect` are the type invariants, in which the
bounds of the channels are.

For the provers, records updated in several fields are written as one nested
`EXCEPT`, and the type invariants of `StreamPath`, `PortForward` and
`Interactive` are conjunctions of parts per component.

**Only model-checked**: the liveness properties (`EveryRequestEnds`,
`AnsweredWithResult`, `DisconnectEndsHandler`, `ProcessEnds`, `Heals`,
`SignalEnds`, `ClientCloseReachesPod`, `PodCloseReachesClient`,
`SessionReleases`, `CatchesUp`, `ExitReachesUser`, `LeavesNothing`) and the
fairness part of `ImplementsService`. Reasoning about fairness needs `ENABLED`,
which is out of the prover's reach.

## Plan

Blocking sends on a stream, if the transport's windows can be kept small; and
properties for the hazards that have none yet (`PROJECT.json` says why).

## Not modelled

Configuration files, TLS set-up, row mapping and queries of the store, the
retention of audit rows, generated protobuf code, argument parsing and terminal
handling of the CLI, `kb edit` (fetch, edit, apply: sequential requests), Helm
charts: input and output without behaviour over time. The rate limiter's
buckets are a library's, over real time; the models contain its refusals. Flow
control of gRPC and HTTP/2: a send on a stream, or from `kb` to central, never
blocks (writes to local sockets and to the pod may). Central's graceful shutdown:
its effect on handlers is that of the restart the models have.

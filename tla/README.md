# Formal models of the Chat2API DeepSeek Web Gateway

TLA+ models of the gateway in `src/`, the TLC runs that check them on small
instances, and TLAPS proofs for every instance. Files of the program are named
relative to the repository's `src/`, those of `scripts/`, `tools/` and `docs/`
relative to its root.

## The system

A Fastify process turns OpenAI-style chat requests into DeepSeek web sessions.
It is one Node.js process: the code between two `await`s, a timer, an event
listener or a release callback runs without interruption, and everything
interleaves at the awaits. SQLite is accessed synchronously. So an action of a
server model is the code from one await to the next, and the hard behaviours are
state read before an await and used after it, callbacks of several requests in
any order, and the many exits of loops with awaits in them. Around the process
are three more actors: a browser extension and the administrator's page, which
poll and message, and shell scripts on the host, which cron, a release and a
reboot interleave.

| Component | State | Operations | Interacts with | Correct when |
|---|---|---|---|---|
| Concurrency gate (`server/gateway/concurrency.ts`) | counter, two FIFO queues, timers, abort listeners | `tryAcquire`, `acquire`, release callback, `drain` | one gate for the chat route, one per account for the router | no permit leaked, invented or parked; waiters settle once; foreground first, FIFO |
| Session pool (`main/proxy/adapters/deepseek-session-pool.ts`) | per key: entries, promise chain, counters | `acquire`, `release`, `invalidate` | leased by `deepseek.ts`, given back when the stream handler ends | exclusive leases, no entry lost or leaked, an open conversation is listed or on its way out, the chain never jams |
| DeepSeek adapter (`deepseek.ts`, `forwarder.ts`) | token cache; per call: lease, files, proof of work, abort signal | `chatCompletion`, uploads, prompt building | session pool, provider, stream readers | an aborted call asks only for its clean-up; the prompt can be read back; no call ends with a lease |
| Stream handling (`deepseek-stream.ts`, `server/gateway/streaming.ts`) | per stream: buffer, path, results, done and cleanup flags, timers | readers, decoder, finish, fail, cleanup, priming, idle timeout | adapter, chat route | text does not depend on chunks; one outcome, cleanup once |
| Request schemas and tool emulation (`server/schemas/`) | none | parse, emulate tools and JSON mode, apply stop sequences | chat route, adapter | calls are of offered tools; no stop sequence is delivered |
| Chat route (`server/routes/openai.ts`) | per request: permits, abort controller, log row | `executeChat`, `finalizeStream` | gate, router, store | permits and log row settle together, the log tells what the client got |
| Routing engine (`server/gateway/router.ts`) | account gates, circuits; account rows and usage events | `forward`, `RoutedResult.release`, `markAccountHealthy` | gates, store, forwarder, monitor, chat route | permits follow requests through failover; only eligible accounts; every request answered |
| Account health monitor (`server/providers/account-health*.ts`) | timers; registry of snapshots | periodic, timed and manual checks, `stop` | account rows, circuits, hooks of `app.ts` | every hold is followed up, accounts come back, nothing runs after `stop` |
| Link sessions (`deepseek-link-session.ts`) | records with a status and an expiry | create, claim, fail, complete, cancel | admin routes around an awaited validation, the console's polls, the extension | one validation at a time, one account per link, every link settles |
| Admin routes (`server/routes/admin.ts`) | account rows, keys | create, link, validate, patch, import, test, delete; key routes | store, registry, router | identities are unique; decisions survive concurrent writers |
| API authentication and rate limits (`server/security/`) | sliding windows in memory, quotas and keys in the store | the guard of each request | store, key routes, restarts | limits follow the history of requests; a secret opens what its policy says until it ends |
| Store (`main/store/store.ts`) | keys, quotas, usage events, accounts, request logs | synchronous transactions | everything | windows roll, quotas hold across restarts |
| Web console and connector (`web/`, `tools/deepseek-session-connector`) | panel, polling effect; popup, worker, content script | start, poll, cancel; check, message, retry | link routes | both ends are told once and the truth |
| Host operations and boot (`scripts/ops`, `core/storage/database.ts`) | locks, backup files, status files, container, database | backup, health check, release, migration | cron, Coolify, reboots | backups are whole, every change is told or tried once, a release has its backup |
| Application assembly (`server/app.ts`, `bootstrap.ts`, `core/config.ts`) | hooks | start, stop | all of the above | the hooks are part of Router and HealthMonitor |
| Account transfer (`operations/accountTransfer.ts`) | none | import, export | admin routes | what an import does to accounts is in Onboarding |
| Admin authentication, readiness, metrics, alerts, setup and smoke scripts | reports, signed cookies | | | not modelled |

`PROJECT.json` lists each component with its status, and the hazards of this
code at the line where they bite.

## Modules

**PermitPool** is the abstract promise of a gate: at most `Limit` holders, a
caller waits only when all permits are out, a returned permit goes to a waiter in
the same step.

**ConcurrencyGate** is the class in detail. `active` and `queue` are its fields,
`phase` is where each caller's promise or release callback is, `aborted` its
signal. `Release` contains the whole `drain` loop, computed as the shortest prefix
of the waiting line whose live waiters exhaust the free permits.
`ImplementsPermitPool` instantiates PermitPool with holders and queued callers.

**SessionPool** models one pool key. The chain of acquires is `chain`; the head
one is at `chained`, `retiring` (awaiting the delete of an expired session) or
`creating`, and `op` holds its local variables, which is what becomes stale.
`Release` and `Invalidate` run at any time. A dropped session is deleted upstream
in two awaits: `tokening` for the access token of the clean-up, then `closing` for
the delete; a refused token leaves the session `abandoned`, open at the provider
and known to nobody. Sessions are numbered by creation, which is their order in
the array.

**Router** models `forward()`. `Route` is the loop from its head to the next
await and is part of every action that reaches the head. `Resume` is
`reserveCandidate` after its await, `FinishWell`/`FinishBadly` are
`RoutedResult.release`. Account gates are kept as holders and a queue, which the
proofs of ConcurrencyGate allow; `EveryGateIsAPool` composes each with PermitPool
again. Health checks and admin writes read an account row before an await and
write it after. Left open: time (a cooldown or a usage event may end at any
step, so their lengths and the retry hints are not represented), the failure
count above three, the order of candidates, wording.

**ChatRequest** models one request through `executeChat`: `route` is the await it
is at, `permits` and `log` what its exits must settle, `source` and `output` the
streams of each attempt, `spoken` whether there was output (text, or citations
at the end), `lease` and `outcome` what the handler's `cleanup` does
with the session. `Loop` is the router seen from here: another account at once, a
place in a queue, or a failure. The log row may be pruned while it is pending.
Left out: the contents of chunks.

**HealthMonitor** models the monitor's runs (`runs`: first, periodic, timed, and
the administrator's test and patch), the timers with `scheduleAccount`'s rule of
keeping the earlier one and `setTimeout`'s 31-bit limit, the registry, `stop`, and
the other writers of a status: admin routes and traffic, of which a success writes
`active` whatever the row says. A run checks its
accounts one after another; the order, by the age of rows, is left open.

**LinkSession** holds the registry of links as operators on its map, and two
modules use it. **Onboarding** is the server's side: link captures, creations,
imports, patches, validations, tests, deletions and monitor checks, each cut at
the awaits of the duplicate-identity check, over account rows and the fingerprints in
the registry. The accounts a check lists are a set of which it always takes the
oldest that is left, which is the store's order. **LinkPairing** is the conversation of three parties about a link:
the panel of `App.tsx` with its polling effect (a disposed effect ignores its
polls), the popup, worker and content script of the extension, and the
server's links with validation as one step; the route may refuse a completion
before it reaches the links (its rate limit, origin and payload checks), and the
connection may break. Client and server clocks agree.

**ApiAccess** models keys, policies, networks, models, the minute's window, the
daily quota, the account's usage window, rotation, expiry, the bootstrap key and
restarts. The handlers are synchronous, so each is one action; history variables
record what was asked and promised, and the properties compare the two. Requests
that were counted are kept per tick, and `CountSince` is how many of them there
are after a cutoff, as the code filters timestamps and takes the length.

**DeepSeekCall** is one call of the adapter: token, lease, uploads with polls,
proof of work, completion, then the event stream cut into chunks anywhere, also
inside a character. An abort may come at every await, and while the answer is
read. Failures carry their codes: each step its own, error events and envelopes
those the provider's text maps to, and `finalizeSession` reads them to keep or drop
the session. The clean-up is part of the call: `releaseSession` and
`invalidateSession` may ask for a token (`exchange`) and for the delete, both without
the client's signal, and their failures change nothing. A text may be white space
only, which counts in a stream and not in a collected body. A file is absent, being
processed or processed.

**Conversation** is a chat as text: messages, media, tools and JSON mode become
one prompt, events of the answer become a stream or a body. A text is a sequence
of symbols, one of which is a word, a marker, a brace or the fence of a JSON block.
A file has a name or none, a content, and a place among the parts of its message:
the prompt numbers unnamed images among the files, the upload among all parts
(`Called`, `Upload`), uploads are told apart by content and have names made safe.
Left out: the characters of names but for those of `safeMediaFilename`'s three kinds,
the rewriting
of `[citation:n]` and search-control markers inside a text, and a `FINISHED`
fragment split between events. The `none` branch of `buildToolInstruction` is
unreachable and has no counterpart.

**HostOperations** runs the backup, the health check and the release against each
other under their locks, with partial and final files, migrations at boot,
failing commands and a reboot between any two steps. A notification is heard or,
when `logger` or the script fails or is not there, `unheard`.

The definitions of ApiAccess, DeepSeekCall and Conversation that every
specification has are called `AccessInit`, `AccessNext`, `AccessSpec` and so on
with `Call…` and `Conversation…`, so that one module of proofs can extend them
together with another component.

The `MC…` modules give the model values, symmetry sets and small data the configs
need and state no behaviour.

How they compose: PermitPool is implemented by ConcurrencyGate and by every gate
of Router; ChatRequest sees Router as `Loop` and SessionPool as a lease;
DeepSeekCall ends where ChatRequest's streams begin and takes Conversation's
prompt as given; LinkSession is shared by Onboarding and LinkPairing.

## Runs

| Run | Bounds | Shows |
|---|---|---|
| `gate` | 5 callers, 2 permits, 2 places | accounting, work conservation, exact queues, no overtaking, implements PermitPool; foreground waiters settle if holders release, all waiters if timers fire |
| `pool` | 3 requests, 2 sessions, lifetime 1, clock to 2 | exclusive leases, no leaked entry, no forgotten session though the clean-up may get no token, every acquire answered |
| `router` | 2 accounts, 2 requests, 1 permit each, 1 place in a queue, every kind of failure, 1 check or admin write | permits follow requests, requests go to eligible accounts only, account gates are permit pools under failover |
| `router_answered` | 2 accounts, 2 requests, 2 permits each, account reserve 1, usage window of 1, one kind of failure | background work takes idle accounts only beyond the reserve, every request is answered (nobody waits for a permit here; that waiters are served is `gate`'s) |
| `chat` | up to 3 attempts, streamed or not | permits, log row, verdict and health agree with what the client got; no failover once committed; every request ends; every session goes back |
| `health` | 1 account, interval 2, fallback 1, timer limit 2, mutes of 1 and 2, clock to 2, 2 runs, 3 acts | holds are followed up, `stop` is final, accounts come back |
| `onboarding` | 2 links, 1 pending, lifetime 1, 2 identities, bundle of 2, 2 calls, 3 acts | identities are unique up to what no check could know, one account per link, every link settles |
| `pairing` | 1 link, 2 checks, 2 polls, 4 acts | both ends are told truly, once per link unless its user gave it up, a console that stays learns the end |
| `access` | bootstrap key and 2 client keys, 2 secrets, minute and day of 2 ticks, rates 0 and 2, quota 2, windows 1 and 2, clock to 2, 2 requests, 2 changes | every answer follows the key's history and newest policy; the usage window holds across restarts |
| `call` | 2 files, 2 polls, answers of up to 3 events | whichever step ends a call, it asks nothing more but its clean-up and holds no lease; the texts, and the failure code reported first, do not depend on chunks |
| `conversation` | the requests and answers of MCConversation, 3 events, 2 files | the prompt tells the conversation; the client gets what it asked of what was said |
| `operations` | retention 1, age 1, clock to 2, one write, backup by cron, release and reboot, 3 checks | backups stand, each change of status is tried to be told once and truly, a release deploys over its backup |

Why the bounds are enough: in the gate two callers hold, two wait and one is
turned away, so grants, overtaking and refusals all meet. In the pool three
requests are an acquire that awaits, one that releases meanwhile and one queued
behind. In the router two accounts make failover and its alternatives possible.
Three attempts are a first, a middle and a last one. One account is enough for
the monitor because runs meet only in what they do to one account, but for the
length of a run over many, which the proofs cover; a mute of 2 and a timer limit
of 2 let a delay overflow, since one second is added. Two calls of Onboarding
are a check-then-insert and whoever gets in between; one pending link makes the
second evict the first. In `access` the second of two requests is the one a limit
of one or the first of a new window meets, and two changes are a policy and a
restart, or a rotation and a deletion. In `operations` three checks see an
outage, its repetition and its end. The proofs below remove the bounds for what
they prove. `Max…` constants are cut-offs of the models; none is in the code but
`MaxPending`, `MaxQueue` and `MaxAttempts`, which is the number of accounts. Symmetry is
used in runs without liveness only. The view of `access` leaves out the last
answer, which no guard reads and which the action properties see in the step that
gives it.

### Fairness

- `HoldersRelease` (premise of `ForegroundServed`): a holder calls its release
  callback, which the chat route's finalizers do for every answered, failed or
  closed request. `TimersFire` (premise of `EveryWaiterSettles`): a waiter's
  timer fires.
- `SessionPool!FairSpec`: the running acquire's upstream calls return (15 s to
  create, 10 s to delete). Nothing is assumed of requests that hold leases.
- `Router!FairSpec`: `forward()` continues when its promise resolves, the queue
  timer fires, the provider answers or times out (request timeout, 30 s first
  byte, 90 s stream idle, the connection's own timeout). Aborts, cooldowns,
  checks and administrators need never act.
- `ChatRequest!FairSpec`: every await of a request is bounded, so something other
  than another chunk happens in the end while the process runs; a client need
  never leave.
- `HealthMonitor!FairSpec`: the clock goes on, a check ends (10 s), timers fire.
  The fairness of timers is strong because `MaxRuns`, a bound of the model, may
  make a run wait; in the code nothing does. Whether cooldowns end by themselves
  is left open, so `HoldsEnd` does not lean on it.
- `Onboarding!FairSpec`: a check ends. `LinkPairing!FairSpec`: React renders, polls are
  sent and answered, timers of the page fire, checks go on. Users need never act.
- ApiAccess, DeepSeekCall, Conversation and HostOperations state safety only.

### Assumptions

What a provider, Docker, Coolify or a shell command answers is chosen freely. A
file that was written survives a reboot: loss of power before the disk has the
data is not modelled. A backup does not take longer than the retention. SQLite
does not fail, and tokens and secrets are not guessed.

The constants are restricted only where the code restricts them. `AccessAssumption`:
an address or a rule is a number within the width of its family, which is what
`parseIp` returns (`ip-allowlist.ts:3-51`), and usage windows are at most a day.
`ConversationAssumption`: requests are what the schemas of `chat.ts` let through and
events what the decoder tells apart; a number is written in digits, which no link is;
and a client's words are other symbols than those the gateway puts around them
(`Template`: its line break, the replaced marker, file names). A client that types such a
phrase is not told apart from the gateway by DeepSeek either; role markers, which
the code does defend against, may stand anywhere in a text.

### Disagreements met while modelling

The models follow the code; the properties above are stated so that they hold of
it. These are the places where a document, or a reader's expectation, says
otherwise. None of them is a run.

- An acquire leases an entry that was retired while it awaited the retirement of
  another (`docs/providers/deepseek.md:40`: expired leases are retired), and a
  media request can get an idle session that has a conversation
  (`docs/providers/deepseek.md:23`: media use a fresh session). `ExclusiveLease`
  and `NoForgottenSession` hold all the same.
- A healthy credential check erases a rate-limit cooldown
  (`docs/providers/deepseek.md:57`: the two signals are separate), and a
  request that was already running lifts a hold.
- The first-byte timeout destroys the stream with an error after its error
  listener was removed, an uncaught exception that ends the process
  (`docs/architecture.md:60` promises a `504`); this is `up` in ChatRequest.
- A stream that breaks after its first byte is cut without the SSE error object
  of `docs/architecture.md:63-64`.
- A check of the extension that ends late removes whatever link is stored by then,
  also a newer one; the user has to start again.
- A character whose bytes come in two chunks is damaged; `TextIndependentOfChunks`
  excepts it (`cut`).
- `docs/deployment.md:56` and `:78` say a release makes a verified backup;
  the script goes on when its backup finds the lock taken. `DeployedAfterBackup`
  says what is left: a backup of its own, or one it skipped.
- `docs/architecture.md:49`, `docs/operations.md:24`, `docs/client-quickstart.md:27`
  and `README.md:46` say tools and JSON mode are rejected; the code emulates both.
- Readiness reports an account as operational whose usage window is exhausted,
  and the limiter's `prune` is never called.
- With more than one permit per account, background work joins foreground work on
  its account and may be left there alone, so more accounts than the reserve allows
  can come into its hands (`core/config.ts:39` allows up to 100 permits).
  `ReserveKept` says in which two ways an account gets there; it is checked with two
  permits and proved for any number.
- A session whose clean-up gets no token is dropped locally and stays at the
  provider for good (`deepseek.ts:285-300`); `NoForgottenSession` counts it as given
  up.
- A health alert whose `logger` or notification fails is swallowed after the status
  was recorded, and no later check makes up for it (`check-production-health.sh:58-62`,
  `184-189`; `docs/operations.md:122-123` announces an alert on a failure).
  `AlertsFollowStatus` says that a check tries once.
- An unnamed image after a text part is `image-1` in the prompt and `image-2` where it
  is uploaded, and a name with unsafe characters is uploaded under another one
  (`deepseek.ts:672-674`, `688`, `727`, `839`); of two names of one content only the
  first is uploaded. `PromptTellsTheConversation` excepts the first, applies
  `safeMediaFilename` for the second, and asks for each content once.
- An answer of white space only is an error for a collected body and a success for a
  stream (`deepseek-stream.ts:444-455`, `535`); `Shown` tells them apart.
- An account the administrator disabled while it served is made active again by the
  success of that request (`router.ts:222-230`).
- A link whose user gave it up may be reported to the console again, by a poll
  answered before React renders (`App.tsx:1841-1857`); `ToldOnceAndTruly` allows one
  such report for each time.
- The duplicate check of accounts is not atomic: two accounts of one identity are
  possible when the calls that made them overlapped. `IdentitiesUnique` excepts
  exactly accounts that came in while the call ran.

## Proofs

| Module | Proves of every instance | From |
|---|---|---|
| `AdmissionProofs` | of ConcurrencyGate: types, the four invariants and action properties, `Spec => ImplementsPermitPool` | `Limit >= 1`; callers need not be finitely many |
| | of ApiAccess: answers follow the key's history, the usage window holds across restarts, entry follows the newest policy, for addresses that agree with a network on its leading bits | any keys, secrets, policies, widths of addresses, prefixes, rates, quotas and lengths of a minute and a day; usage windows of at most a day (`core/config.ts`); any number of changes and restarts |
| `UpstreamProofs` | of SessionPool: exclusive leases, no leaked entry, no forgotten session | any requests and lifetime |
| | of DeepSeekCall: calls end clean: after an abort nothing but the clean-up is asked for, and no ended call holds a session; the text does not depend on the chunks | any number of files, polls and events; chunks that end anywhere |
| `ChatRequestProofs` | of ChatRequest: permits span the request, the log tells the truth, health needs content, no failover once committed | any number of accounts |
| | of Conversation: the prompt tells the conversation, the answer is as asked | any requests and events, of any length; any limit on files |
| `RouterProofs` | permits follow requests, requests are sent to eligible accounts, every gate implements the permit pool | any accounts, requests, limits and reserves |
| | background work takes idle accounts only beyond the reserve | any number of permits per account, finitely many accounts |
| `HealthMonitorProofs` | every hold is followed up, `stop` is final | any accounts, interval, timer limit and number of runs |
| `LinkPairingProofs` | both ends are told truly, a link not given up once | any number of links, polls and checks |
| `OnboardingProofs` | one account per link, identities are unique up to what no check could know | any number of links, calls, events and identities, any bundle; finitely many accounts at the start |
| `HostOperationsProofs` | backups stand, each change of status is tried to be told once and truly, a release deploys over its backup | any retention, age limit, number of writes, backups, checks and reboots |

Each component has one inductive invariant (`IInv`, `AccessInv`, `CallReads`,
`ConversationInv`), one lemma per action, and ends in temporal steps that combine
`Init => IInv` with the step.

Results about data of any length rest on induction. The library's induction
theorems take an operator, which the provers cannot instantiate; here the operator
is replaced by the set of the numbers, or of the sequences, that have the property
(`NatSets`, `SeqSets` in `ChatRequestProofs`): a set that holds 0 and the successor
of each of its members holds every number. That a recursive function, such as the one
in `FlattenSeq`, exists and does what its definition says is proved the same way.

- *Gate.* Accounting, work conservation and exactness of the queues hold only
  together: `drain` stops at the limit because the counter is the number of
  holders; the counter is right after a grant because granted waiters are distinct
  and hold nothing; a newcomer may ignore the queues because none is parked. The
  refinement follows step by step: `Release` is `Return` with at most one waiter,
  because the invariant leaves one free permit to drain.
- *Pool.* The running acquire chooses from an array it read before its awaits.
  `LeasesMarked` says what is leased is marked in use, so it is not chosen again;
  `HeadAwaits` says only the head of the chain retires. For what is open upstream
  the invariant follows a dropped session through the awaits of its clean-up: its
  request keeps its number until the delete is sent or given up.
- *Chat.* `Stages`, `Leases` and `Outcomes` say for each await what it may rely on:
  which permits are held, whether the row is pending, which attempt has the lease
  and whose outcome is final.
- *Router.* A released permit goes to whoever is in the queue, so the queue must
  name only waiting requests, and each once (`Follow`); `Tried` says a request's
  account is new while it waits and tried once it works.
- *Reserve.* `ReserveInv` stands beside Router's `IInv`: background work never waits in
  a queue, so no released permit is handed to it. Then a step makes an account
  background-only either by removing its foreground holders, or by dispatching to
  it. A foreground dispatch adds a foreground holder; a background one either
  shares an account that had foreground holders, which keeps them, or takes an idle
  one, after counting that the idle accounts without it are as many as the reserve
  (`Spared`); the account counted is still idle after the step, whichever permit
  the failover gave back in it.
- *Access.* The counters forget, so the invariant says what they still have to know.
  `Remembered`: the limiter's window is the history of this boot for the last
  minute, the day's row that of the key as long as the key is listed or may still be
  made (a deletion drops the row, and the id is blocked for good), the attempts
  those of a whole day, which no window exceeds. `RowsFollow`: every row says of its
  secret what was last announced, the bootstrap row with the secret of this boot.
  `Network` divides by a power of two; that two addresses are then the same network
  exactly if their leading bits are the same is an induction over the bits
  divided away, in which a bit is the rest modulo two.
- *Call.* `CallReads`: the lines already read, the buffer and what is still on the wire
  make up the answer, whole and in order, wherever a chunk ends; what was
  delivered is what the lines say that have ended; a damaged character is the only
  difference, and only if a chunk ended inside it. Other conjuncts say
  that an ended call holds no lease and that a clean-up is of a session that was given
  back or dropped; the rest of `CallsEndClean` follows from the shape of every step,
  since each request but the clean-up's goes through `Send`.
- *Conversation, the answer.* `ConversationInv` says that the collected texts are those
  of the events (`Without` and `FlattenSeq` respect concatenation), and that the map
  of results has each address once, with an address the provider gave. From
  the map follows the list (`CitationsAre`: sorting by number loses and doubles
  nothing), and from text and list what is cut at a stop sequence (`StopsAre`) and
  what is taken for a call (`CallsAre`).
- *Conversation, the prompt.* `Adds` relates what is sent to what was asked: the same
  messages, with instructions after a system's text or in a message put in front;
  it composes (`AddsMore`), so JSON mode and tools are treated alike. `TurnOf` says
  that a turn begins with a role marker, except for the first, and holds no other:
  `Masked` replaced those of the text, and nothing else of it is lost
  (`WithoutMasked`, `TrimLeaves`). Such turns can be read back from their
  concatenation (`TurnsReadBack`), the names of each turn's files with them, and
  `Distinct` keeps the first part of every content and no other.
- *Monitor.* A hold keeps its timer because a timer is replaced only by an earlier
  one and used only by a run that sets the next (`HoldFollowedUp` with
  `RunsBounded`); `stop` is final because no admin call or request is in flight by
  then (`Quiet`).
- *Pairing.* `Truthful` follows a completed link through polls, checks and
  statuses; `ToldOnce` needs `Attentive`: the ref that remembers a report is reset
  only with the panel, and then the live effect is of no link or of one its user gave up.
  `Counted` bounds the reports of a link by the times that happened.

- *Onboarding.* That a link makes one account follows from `LinkInv`: calls that
  complete a link are for distinct links without an account, and such a link waits
  for no other (`Captures`), so an eviction, a cancellation or a restart in between
  changes only what the link says. Unique identities rest on `Sure`: a call in the
  middle of its comparison has compared every account it is sure of, or has it still
  in its list with the identity it has now. `Budget` bounds the accounts that the calls
  in flight may still add.
- *Host operations.* `Runs` says a run under way has the lock and has copied a sound
  database, and its file is younger than the retention, so that no other run prunes
  it; nothing is read from a file after it has its final name. `Alerts` and
  `Verdicts` tie the status file to the last verdict of the history, and a change
  that is not told yet to the check that is about to tell it. `Releases` carries the
  backup from its end to the order of the deployment.

Only model-checked is liveness under fairness, which the prover does not reach:
`ForegroundServed`, `EveryWaiterSettles`, and that every acquire, request, lease, link
and hold ends.

## Plan

1. Gate, pool, router, chat: modelled, checked and proved.
2. HealthMonitor and LinkPairing: modelled, checked and proved.
3. Onboarding, ApiAccess, HostOperations: modelled, checked and proved.
4. DeepSeekCall and Conversation: modelled, checked and proved. Next: an invariant
   that ties a call's session to SessionPool's leases, and citation markers.
5. Readiness and `unavailableRoutingFailure` as operators over Router's accounts,
   with the retry hint compared to when an account is really free.
6. A second link in `pairing`, for which the state space has to be cut first.

## Not modelled

Admin authentication (stateless signed cookies), metrics, alerts and readiness
(reports over state that others keep), the encryption and parsing of an account
bundle, SQL and failures of SQLite, HTTP parsing, configuration parsing, the
console's pages other than linking, wording and translations, the WASM challenge
(external), and the setup, doctor, restore-drill and smoke scripts, which are
sequential and run by hand. Within the modelled parts each component's note in
`PROJECT.json` names what is left out.

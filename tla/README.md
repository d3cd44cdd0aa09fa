# Psiphon Access: login, locks, resumption and rotation, specified and checked

Psiphon Access is a fork of Teleport. What the fork adds, and what its own code
is about, is the Google Workspace login of `lib/googleoidc`: OIDC requests and
callbacks, users bound to Google accounts, and roles from Google groups. This
directory holds TLA+ modules for that login, for the upstream code it stands on
(the backend and its locks, the user cache, login hooks and login states), and
for two upstream protocols every session of the cluster depends on: resumable
SSH connections and the rotation of certificate authorities. With them come the
TLC configurations that check them, and TLAPS proofs.

## 1. Inventory

| Component | State | Operations | Interacts through |
|---|---|---|---|
| Login requests (`request.go`, `state.go`) | nonce, used marker and auth request of each state token, in the cluster backend, each with an expiry | `createAuthRequest`, `PutNonce`, `Nonce`, `Claim` | backend; the URL given to the browser |
| Callbacks (`callback.go`, `service.go`, `audit.go`) | locals of each callback; audit record | `validateCallback`, `checkIdentityClaims`, `makeAuthResponse`, `emitLoginEvent` | backend, connector resource, Google token endpoint, Auth Service |
| Web handlers (`webhandlers.go`, `plugin.go`) | browser cookies | `callback`, `finishCallback`, login handlers | Proxy to Auth Service RPC |
| User binding (`callback.go`) | user records with revisions; user cache; user login states | `createUser`, `validateSubjectBinding`, `validateExistingSubject` | backend, cache events, login hooks |
| Group lookup (`groups.go`) | byte budget, pages, context | `lookupGroups`, `searchGroups`, `gateRelations`, `classifyGroupFailure` | Cloud Identity over HTTP |
| Role mapping (`callback.go`, `lib/services/traits.go`) | claims, traits, roles | `calculateUser`, `TraitsToRoles` | login rules, role store |
| Connector policy (`policy/`) | none | `ValidateConnector`, `WorkspaceDomains`, `GroupLookupSettings`, `CheckHostedDomain`, `CheckEmailDomain` | called on every read and write of a connector |
| Plugin, activation, modules | registered service, entitlement | `Activate`, `Install`, `InitAuthProcess` | process start |
| Transport (`transport.go`) | none | `RestrictClientToGoogle` | HTTP client |
| Backend locks (`lib/backend/lock.go`) | a lock item with owner and expiry; timer of the refresher | `AcquireLock`, `Release`, `resetTTL`, `RunWhileLocked` | backend; used by access lists, roles, CA and key initialisation |
| Connection resumption (`lib/resumption`) | send and receive buffer of each end, the attached transport and its loops, the server's entry | `Read`, `Write`, `Close`, `runResumeV1Unlocking`, `runClientResumableUnlocking`, `resumeConnection` | transports, a lock and a condition variable per end |
| CA rotation (`lib/auth/rotate.go`) | stored authority: phase, mode, active and trusted keys, revision | `RotateCertAuthority`, `AutoRotateCertAuthorities` | backend, schedule |
| Rotation of processes (`lib/service/connect.go`) | stored rotation and identities, identities in use | `connect`, `syncRotationState`, `rotate`, `reRegister` | cache of an Auth Service, certificates, disk |
| Backend, cache, Auth Service and the rest of Teleport | see `components` in `PROJECT.json` | | |

What is hard here, and what the properties are about:

* **Time.** Three items of one login are written at three moments with one TTL,
  so they expire at three moments. Every pair of them opens a window.
* **Concurrency.** Callbacks run on any Auth Service of the cluster; nothing but
  an atomic `Create` and a conditional update orders them.
* **Mixed inputs.** A callback is a URL: any state token, any code, any browser.
* **Stale reads.** The connector changes between request and callback; the user
  list comes from a cache; a record changes between read and write; roles are
  read back from a record every login of that user overwrites.
* **Leases.** A lock is an item with a TTL. Its owner renews it in time, or finds
  out too late that it is gone.
* **Goroutines that share a connection.** Transports replace each other while
  two loops per transport run on each end, and each of them may break in the
  middle of a frame.
* **A distributed change in phases.** Processes follow a rotation at their own
  pace, from caches that lag, and may stop between any two writes.
* **A remote service** that answers late, partly, with errors, too much, or not
  at all, while a timer runs and the browser may go away.

What makes each part correct: a state token yields at most one token exchange;
credentials go to an account that consented to that very login, and a browser
gets only sessions of logins it started; the domain allow-list in force during the callback
decides; no login overwrites a user of another identity; a group counts only
when Google has confirmed it in a complete listing; every login ends;
functions that run under one lock exclude each other; a resumable connection is
a byte stream; and no process is locked out by a rotation that leaves it the time
to follow.

## 2. Modules

### `OIDCLogin`: requests and callbacks

Each backend access and each call to Google is one action; `Tick` may come
between any two. A backend item is its expiry time; it is live while
`now < expiry`, as `Memory.removeExpired` has it. `PutNonce` and
`CreateOIDCAuthRequest` are the two writes of `createAuthRequest`, a crash or an
error between them is `CreateOIDCAuthRequestFails`. A callback `p` moves through
`pc[p]`: found (the request was read), claimed, resolved (connector and
domains), ready (nonce read), exchanged, identified, issued, answered. Every
early return of `validateCallback` is an action of its own or a disjunct of one,
including the used marker that was written although the backend reported an
error (`ClaimFails`). `SetConnector` is the administrator. `Consent`, `Codes`
and `Redeemable` are Google: a code remembers the account, the PKCE challenge
and the nonce of the URL it was issued for, and can be exchanged once. A
callback may present any issued code, or one Google never issued.

Abstractions: secrets of different logins differ (they are random); an ID token
is the code's account and nonce (its signature is the library's business); the
audit event is dropped, as the code goes on whether it could be emitted or not: a
failure is only logged (`audit.go:217`), and a session may exist without its
event. The SSO test flow
is refused by `getConnector` for every connector spec, because the connector it
builds carries no labels and hence no allow-list (`login_test.go` says it fails
closed), and SSO MFA is refused at once; neither is an action.

### `UserBinding`: users and login states

`createUser` in its steps: `ValidateSubjectBinding` (reads `cache`, or the
backend while the cache is unhealthy), `GetUser` (reads the backend),
`CreateUser` or `UpdateUser` (atomic create, or update under the revision
read), then `LoginHook` and `GetUserOrLoginState`. `pending` holds the user
events on their way into the cache, applied in order by `CacheApply`. The
administrator creates, edits and deletes users; expiry of a record is
`RemoveUser` as well. A user record is its connector, its subject and its
revision. `uls[name]` is the login whose roles the stored login state holds.

Assumed: an administrator's edit keeps the identity of a record, as the user
commands do. A forced upsert of a handwritten user resource may set any
identity and is left out, as are local password logins and access lists, which
also write login states.

### `GroupLookup`: the lookup of one login

`Begin` drops the groups claim of the token and starts the lookup;
`SendRequest` and the responses are `searchGroups`; each pass of the loop of
`gateRelations` is a `GateNext`, and its return is `GateRelations`;
`CalculateUser` maps roles and sets the groups trait. Google
chooses the length of every body, the relations of every page, errors, and
silence. `Expire` and `Cancel` end the context; once it is done the HTTP client
reports its error instead of any other, and a response may still win the race.
Addresses are abstract up to their case; `validGroupAddress` is the set
`Malformed`; a 403 is the reason Google gave. The class "filtered" is what the
code makes of it: the label gate leads to it as well as the two gates that the
comment on `groupOutcomeFiltered` names.

### `BackendLock`: one lock, many servers

`p` is one call of `RunWhileLocked`, with the random id `AcquireLock` gives it.
`pc[p]` follows the goroutine of the caller: idle (about to compute an expiry),
creating, running (the function), releasing (before the `Get` of `Release`),
deleting (before its `Delete`), done. `refresher[p]` follows the goroutine that
renews the lock: it waits for `timer[p]`, reads the item and computes the new
expiry (`ResetTTLGet`), and swaps (`ResetTTLSwap`). `canceled` are the calls
whose function has been told to stop.

Time is relative. An item has the time it has `left`, and is gone when that is
used up. `wait[p]` and `late[p]` say how far the two goroutines are behind; the
expiry of an item is computed before it is written, so `Item(p, t)` is an item
that has already lost `t`. `MaxDelay` bounds how far behind anybody falls: it
stands for scheduling and for a round of calls to the backend. All actions may
fail, with or without their effect on the backend, and a server may crash; its
item stays. The refresh interval is the default of half a TTL. How late is too
late is not a matter of `MaxDelay`: the history variable `slow` remembers that
somebody was behind by more than `Tolerance`, which is just below a sixth of the
TTL, and `failed` that a refresh failed. `MutualExclusion` holds until one of the
two happens.

### `ByteStream` and `ResumableConn`: a stream over transports that come and go

`ByteStream` is what a resumable connection promises to the programs on its two
ends. There are no transports in it: bytes arrive in order and once, at most a
send buffer of them is on the way, and an end is told of the end of the stream
only when its peer has closed it and everything has arrived.

`ResumableConn` is the protocol of `lib/resumption`. A byte is its position in
the stream, so a byte that is lost, repeated or out of order shows in `rcvd`.
For each end there is the handler that waits to attach (`RequestDetach`,
`Abandon`, `Attach`), the handshake, the read loop (`ReadFrame`, `ReadData`,
`ReadErrorTag` and its two ways to fail), the write loop (`ChooseFrame` under the
lock, `WriteFrame` without it), and `Detach` when both loops have returned. The
client's redial loop is `loop`: main, redial (before it looks whether the
connection is closed), backoff (until the dial returns), last (no more dials
after a refusal), done. A transport is a pair of bounded channels. When it
breaks, what was sent may still be read, a write may succeed and be lost, and the
data of a frame may have arrived in part (`LastRead`).

Abstractions: a frame holds at least one byte when there is one to send, and
otherwise any number up to the limit, which covers the two halves of a ring
buffer; the watchdog of the handshake is one of the causes of `HandshakeFails`;
whatever makes a server refuse a dial is one outcome. A transport is dialed,
authenticated and its token found in one step (`Dial`, `DialLost`). `InOrder`
says whether handlers of one end attach in the order of the dials; the code does
not enforce it, see `resumption_late`.

### `CARotation` and `AgentRotation`: phases of a rotation

`CARotation` is one certificate authority: what each request makes of it
(`ProcessRotationRequest`), and calls that read it, compute the next one and
store it under the revision they have read. A key set is named by the rotation
that made it. A call that fails, or whose Auth Service stops, is `UpdateFails`.

`AgentRotation` extends it to the processes of a cluster, for the host CA. Each
Auth Service has its copy of the authority in `cache[a]`. A process has a stored
rotation and two stored identities (`disk`), the identities in use for its
clients and servers (`mem`), and a `task` while it follows the cluster to another
phase: it registers again (from the cache of an Auth Service that may be a phase
behind, or from the backend when the cache does not match), writes the identity,
writes the state, and uses the identity. It may stop before each of these
(`Crash`), and starts again from what is stored (`Connect`). An Auth Service needs
no connection for its own registration, and asks its own cache.

A write of the identity or of the state may also fail (`WriteFails`): the process
goes on with the identities it uses, and tries again.

Time is not modelled. `autoRotate` compares the clock with the schedule and looks
at nothing else, so a scheduled phase may come at any time. What the code leaves
to people is the constant `Care`: what a request for another phase, and the
schedule, have waited for. It is `"none"`; or `"reported"`, every process reports
the current phase, as the guide to CA rotation asks for; or `"settled"`, they all
report it and none is about to leave it (`Settled`). Nobody sees that a cluster
has settled; it follows when all processes have reported the phase for longer
than any of them takes to go to another one. A rollback waits for nothing.
Reporting alone does not do, see `rotation_reported`.

The comment on `RotateCertAuthority` says that a failed automatic transition
"switches back to the manual mode"; `autoRotate` does not, it tries again at the
next turn of its loop.

Left out: keys in HSMs, processes that join during a rotation, the repair of
principals and system roles by registering again, and the other certificate
authorities, which rotate one by one in the same way. Writing the state and
using the new identity are one step: nothing reads one without the other but a
restart. A forced rotation (grace period 0) locks everybody out by design; the
history variable `forced` remembers it.

### Proof modules and instances

`OIDCLoginProofs`, `UserBindingProofs`, `GroupLookupProofs`,
`BackendLockProofs` and `ResumableConnProofs` extend the modules above, as does
`CARotationProofs`, which `AgentRotationProofs` extends; `MC_OIDCLogin`,
`MC_UserBinding`, `MC_GroupLookup`, `MC_BackendLock`, `MC_ResumableConn` and
`MC_AgentRotation` instantiate the modules for TLC.

## 3. Runs

| Run | Instance | Shows |
|---|---|---|
| `login_expiry` | 1 login, 2 callbacks, TTL 2, time to 4 | `OnlyFirstClaimExchanges`: only the first claim presents a code, although the marker expires; types |
| `login_binding` | 2 logins, 1 callback, 2 browsers, 2 accounts, 2 domains | `LoginBinding`, `SessionOfOwnLogin`; `DomainPolicy` under every edit of the connector |
| `user_overlap` | 2 logins, 2 names, 2 subjects, 3 steps of the administrator | `UserKeepsIdentity`, `SubjectBoundUnlessStale`, `RolesOfSameSubject`; types |
| `user_failed_lookup` | 2 logins, no administrator | refutes a comment: group roles after a failed lookup |
| `groups_lookup` | 2 pages of up to 2 relations, 6 kinds of relations, relation limit 3, budget of 2 bytes | `CompleteOrNothing`, `OutcomeMatchesListing`, `OnlyConfirmedGroupsCount`, `BufferBounded`; `LookupEnds` under fairness; types |
| `lock` | 2 calls, TTL 7, delays up to 4 | `MutualExclusion` until somebody is slow or a refresh failed; `NoTakeover`; `LossNoticed` under fairness; types |
| `resumption_stream` | 3 transports, a byte each way or 2 from the server, send buffer 2, receive buffer 1 | `ImplementsStream` (`ByteStream` is implemented), `PeerPositionInBuffer`, `AcksFit`; types |
| `resumption_progress` | 2 transports, 2 bytes, all buffers 1 | `EverythingArrives`, `CloseIsNoticed`, `TransportsReleased` under fairness |
| `resumption_late` | 3 transports, 1 byte, handlers in any order | refutes a comment: a live peer taken for gone |
| `rotation_trust` | 1 rotation, 2 calls, 2 Auth Services, 1 agent, 1 crash; `Care = "settled"` | `TrustOverlap`, `NewKeysWithdrawn`, `NoLockout`; types |
| `rotation_catchup` | 1 rotation, 1 call, 1 Auth Service, 1 agent, 1 crash; `Care = "none"` | `CatchUp` under fairness |
| `rotation_reported` | 1 rotation, 1 call, 2 Auth Services, 1 agent, no crash; `Care = "reported"` | refutes a comment and the guide: a lockout although all report the phase |

**Why the bounds are enough.** In `login_expiry` the clock passes the TTL of an
item that was itself written as late as the previous one allows (TTL 2, time 4),
so every order of the three expiries occurs; with one login all interference is
on one token. `login_binding` needs two of everything that can be confused, and
one callback: callbacks that mix up logins differ in their inputs, not in their
number. There an account has its hosted domain and its address in
different domains, so the two checks are told apart. `user_overlap` lets an
administrator delete, recreate and edit one record under two running logins. In
`groups_lookup` a listing may be one relation over the relation limit, end on
the last allowed page, or go one page beyond it, every gate drops something, and
the budget is overrun on the first page or on the second.
In `lock` the TTL is the smallest for which a delay of one is below a sixth, so
there is no slack to hide behind before somebody is slow; a delay of four is more
than a refresh can bear, so that afterwards a lock expires, is taken by the other
call, and the first still tries to refresh it, or deletes it. In
`resumption_stream` the third transport is the one that could see what the first
replacement has got wrong; a frame of two bytes meets a receive buffer of one, so
that a transport can break with a frame half read; with a byte each way
acknowledgements and data cross. In `resumption_progress` every buffer and
channel is as small as it can be, so every wait on the way of an upload happens;
full buffers in both directions at once, and delivery over a third transport after
a lost answer, are too many states for a liveness check. In
`rotation_trust` two caches lag independently, two calls overlap, and a crash or a
failing write comes between any two writes of any process; a second rotation adds
nothing to safety but keys. The mode of a request only decides whether the schedule
goes on by itself, and an administrator may ask for whatever the schedule does, so
"auto" as the one member of `RequestModes` loses nothing and saves states. In
`rotation_catchup` a process misses any number of phases, as nobody waits for it;
one that misses a whole rotation is refused or left alone ("Clear local state and
re-register", says the error), and `Follows` excepts it.

**Deadlock** is checked except where the system may stop: in the `user` runs
logins end, in the `resumption` runs connections are closed and transports used
up, in the `rotation` runs the administrator need not start another rotation. In
`GroupLookup` the end is a step that changes nothing.

**Fairness** is assumed in four runs.

* `groups_lookup`: the timer of `context.WithTimeout` fires, and the goroutine of
  the callback runs; nothing is assumed of Google.
* `lock`: time passes and the goroutines of `RunWhileLocked` are scheduled;
  functions need not return.
* `resumption_progress`: the goroutines of the two ends are scheduled, programs
  read what there is to read, the reconnection loop ends by a dial or by its
  timeout, the grace timer fires, and the SSH server returns from a connection
  that has ended. Nothing is assumed of the network: transports may break at any
  time, up to the bound on dials.
* `rotation_catchup`: caches follow the backend, stopped processes are started
  again, and the loop of `periodicSyncRotationState` goes on. A registration or a
  write may fail any number of times but not for ever (strong fairness of
  `ReRegister`, `WriteIdentity` and `WriteState`), as that loop tries again after
  every error.

The login and user modules have no fairness: there, a person may simply walk away.

### What the refuted comments mean

* A login whose group lookup failed "grants no roles from group mappings". Its
  credentials are made from the login state of the user name, which a
  concurrent login of the same user may have just written. They are roles of the
  same Google account (`RolesOfSameSubject`).
* `remoteClosed` means "that we know that the remote side of the connection is
  gone". Handlers of several transports wait for the same lock in no order. When
  one of the server is delayed while a newer transport is attached and
  acknowledges data, it then detaches the newer one, reads the position the
  client sent on the older one before giving it up, finds it below the send
  buffer and ends the connection, with the client alive. In the order of the
  dials (`resumption_stream`) this does not happen.
* "Make sure all Agents and Proxy Service instances have completed the transition
  to target phase before proceeding to the next phase", says the guide
  (`ca-rotation.mdx`), and has the administrator look at the phases they report.
  With two Auth Services, an agent that has stored and reports rollback may ask one
  whose cache still says update_clients. `local.Phase != Init && local.CurrentID !=
  remote.CurrentID` lets it go back (the comment above it says "only if the
  previous phase was Init"), and it registers for a certificate of the new keys. It
  reports rollback until that is stored. When all report it and the rotation is
  completed meanwhile, the new keys are dropped, and the agent then uses a
  certificate nobody accepts. It takes a cache that lags while the other processes
  roll back. `NobodyLockedOut` says that nothing else is missing: if in addition
  nobody is about to leave the phase, no agent is locked out.

Four smaller disagreements are visible in the modules without a run of their own:

* `request.go` stores the nonce first "so that a callback can never find a
  request without its nonce". It also expires first. The callback is denied.
* `state.go` says a second callback finds the marker. The marker may have
  expired when the callback stalled after its lookup. The second claim is
  harmless, because the nonce has expired by then; this is what
  `StateIsSingleUse` proves.
* `validateSubjectBinding` "denies a login whose Google subject is already bound
  to another Teleport user". It reads a cache and its answer is not tied to the
  write, so overlapping logins before and after a rename bind one subject to
  two users. `SubjectBoundUnlessStale` says that nothing else does.
* `Release` refuses a lock with "ownership changed". It compares and deletes in
  two calls. When somebody is late, or after a refresh has failed and nobody renews
  the lock, it may expire between the two, and the delete removes what the next
  owner has created. Until then this cannot happen: that is part of
  `MutualExclusion`.

## 4. Proofs

Every invariant and every action property of the passing runs is a theorem, for
every value of the constants: any number of logins, callbacks, calls, processes
and transports, any length of a listing or of a stream. The assumptions are
those the modules name: limits that are numbers, a positive TTL, two ends that
differ, Auth Services that are not agents, and a `None` that is none of the values
it stands beside (`NoneFresh`, `NoneIsNoUser`, `NoneIsNoOutcome`,
`NoneIsNoIdentity`, `NoneIsNoAuthority`). TLC evaluates all of them on the runs.

In each module `TypeCorrect` proves the types; they are rarely inductive alone, so
`TypeInv` adds where a process must be for a variable to hold what a step reads.

### `OIDCLoginProofs`

* `TypeCorrect`. `TypeInv`: a started login has a stored request, a running
  callback has read one, and a callback past the exchange holds a real code.
* `StateIsSingleUse`: `OnlyFirstClaimExchanges`. The argument of `SingleUse`: the
  nonce is written before any callback can claim, so it expires no later than the
  marker the first claim writes. As long as the marker is there nobody claims;
  once it is gone, so is the nonce, and a second claim fails before the exchange.
  The invariant compares the two expiry times.
* `CredentialsToConsenter`: `LoginBinding`. `BindingInv` follows the secret: the
  challenge of a code names the login its account consented to, and a code that
  passed the exchange answers the challenge of the callback's own login. So the
  binding rests on PKCE; the nonce is a second lock on the same door.
* `SessionsToStarter`: `SessionOfOwnLogin`. `DeliveryInv`: a callback with the
  proxy has issued credentials of its own login, and one that set a cookie has
  ended, so neither what it read nor the request of its login changes again. With
  `LoginBinding`, the account of these credentials consented to that login.
* `DomainsEnforced`: `DomainPolicy`. `PolicyInv` relates the connector to a history
  of what was on offer while a callback ran: what it has read is part of that, and
  an identified callback has passed both domain checks of what it read.

### `UserBindingProofs`

* `IdentityKept`: `UserKeepsIdentity`, an action property. Revisions are never
  handed out twice (`Revisions`), so a record that still has the revision a login
  has read is the record whose identity the login compared. `PutKeepsInv` is the
  heart: a write under a fresh revision shuts out every login that has read the
  record before.
* `OneNamePerSubject`: `SubjectBoundUnlessStale`. `BindingInv`: what
  `validateSubjectBinding` found still holds of a login that nobody has overtaken.
* `RolesOfOneAccount`: `RolesOfSameSubject`. `RolesInv`: the record a login wrote
  keeps its identity until it goes away, which is `IdentityKept` again, so all
  logins of a name that write the login state, or are about to read it, are of one
  Google account.

### `GroupLookupProofs`

* `BudgetHolds`: `BufferBounded`. While the lookup may still read, bytes held and
  bytes left add up to the budget (`Budget`), so the one byte a read may take
  beyond what is left is the last. The page limit is part of `TypeCorrect`.
* `FailsClosed`, `OutcomesTrue` and `OnlyConfirmedGroups`: `CompleteOrNothing`,
  `OutcomeMatchesListing` and `OnlyConfirmedGroupsCount`. What a fold over a
  listing computes would need induction over sequences. The loop of `gateRelations`
  is in the model pass by pass, so its loop invariant does instead: after n
  relations the groups are those of the first n that passed, each once, and the
  counters tell what was dropped (`GatedInv`). `ListingInv` adds that only a
  complete listing is gated, and that there is no result before that.

### `BackendLockProofs`

* `LockExcludes`: `MutualExclusion`. That the owner runs alone says nothing about
  the time the lock has left, so it is not inductive. `Held` adds how long a lock
  lasts: a renewed item has lost at most one delay, then the timer runs for half of
  the TTL, then the refresher is at most one delay late; `Release` is one delay
  more. That is less than a TTL when three delays are less than half of one: hence
  the sixth in `Tolerance`. `InTime` says that nobody has a larger delay before
  `slow` is set.
* `NeverTakenOver`: `NoTakeover`, for any delays. The swap compares ids, and
  `Create` wants no item.

### `ResumableConnProofs`

`ConnectionInvariant` proves `ConnInv`, on which the other theorems of the module
rest. It holds whether or not handlers attach in order, and has five parts.

* `TypeInv`: types, and which loops of an end run on which transport.
* `ChannelInv`: what is in transit, for each transport and each direction.
  `Through(s, b0, a0, b1, a1)` says that the messages s continue one stream from
  position b0 to b1 and acknowledge the other one from a0 to a1. An end that has
  not attached the transport is sent a position at most (`QuietInv`); during the
  handshake that position is what the peer has received, and what follows it starts
  where this end's receive buffer ends (`GreetInv`); afterwards the messages continue
  the receive buffer and the frame half read (`ListenInv`). They end where the write
  loop of the peer is, unless the transport is broken and a write was lost. An
  error tag is the last message.
* `BufferInv`: what is acknowledged was received, and what is received was written.
* `SendInv`: the write loop is within the send buffer.
* `OrderInv`, which says something only with `InOrder`: an end that sent something
  on a transport has passed it, so the position it sent is the one it still has.

`ThroughAppend`, `ThroughTail` and `BytesCut` are the facts about sequences; each
group of steps then has one lemma for each part (`HandshakeChannel`, `SendChannel`,
`ReadingBuffers`, `AttachOrder` and so on). Steps that only take something back, a
broken transport or a loop that returns, are treated once, by `WeakensKeeps`.

* `SendPositionsHeld`: `PeerPositionInBuffer`; `AcksAlwaysFit`: `AcksFit`. In any
  order of the handlers: the late handler of `resumption_late` ends the connection,
  but no end ever sends bytes it has dropped or is told of more than it sent.
* `EndOfStream`: `EndMeansEnd`, assuming `InOrder`. This is the property that
  `resumption_late` refutes without that assumption; with it, every position of a
  handshake fits the send buffer (`PositionFits`), so an end is told of the end by
  the error tag alone, which follows all that was written (`EndSeen`).
* `ConnectionIsStream`: `ImplementsStream`, assuming `InOrder`. `ReceivesStream`
  shows that what a read loop adds are the next bytes of the peer, `WritesStream`
  that the send buffer bounds what is on the way; every other step is one of the
  program or leaves the stream alone (`LocalStream`, `OutsideStream`).

### `CARotationProofs` and `AgentRotationProofs`

* `TrustOverlaps` and `RollbackWithdraws`: `TrustOverlap` and `NewKeysWithdrawn`.
  `RotationInv` adds which keys sign in which phase (`KeysByPhase`), and that a
  call whose revision is still the stored one has computed its result from the
  stored authority (`JobInv`). `RequestKeeps` goes through the requests one by one;
  `UpdateKeeps` is the step where every other call becomes too late. `RotationTyped`
  comes from the same invariant.
* `ClusterImplementsRotation`: `Spec => RotationSpec`. The variables of the authority
  are the same in both, and every step of a cluster of any size is a step of the
  authority or leaves it alone. So these theorems hold of the cluster that
  `rotation_trust` checks.
* `NobodyLockedOut`: `NoLockout`, for any number of processes and rotations, and
  under its hypothesis `Care = "settled"`; without it the statement is false
  (`rotation_reported`). A
  process holds certificates from caches that lag, so three invariants are needed.
  `OrderInv` orders rotations and phases (`Ord`): a process of an Auth Service is
  never ahead of its cache, nor a cache of the backend. `PaceInv` is what the
  care of the administrator amounts to: a call that can still be stored is one step ahead
  of the authority, and the cluster is settled unless that step is a rollback.
  `TrustInv` says what processes hold, in three stages: one set of keys signs
  everything (`SoleStage`); while clients change, servers have certificates of the
  old keys and everybody trusts these (`ClientsStage`); while servers change, all
  clients trust both (`ServersStage`). A rollback starts in any of the three and
  stays in it, until it ends in the first.

**Only model-checked**: `LookupEnds`, `LossNoticed`, `EverythingArrives`,
`CloseIsNoticed`, `TransportsReleased` and `CatchUp`. They are liveness properties
under fairness, which is out of the prover's reach.

## 5. Not modelled, and why

* Clocks of several Auth Services that disagree: one clock is assumed.
* Connector policy as text (URLs, regular expressions, claim grammars): pure
  functions on strings without state.
* The HTTP transport, the plugin registry and the process start.
* In resumption: deadlines, the version and key exchange, handover of a
  connection to another server process through sockets.
* In rotations: HSM keys, joins, repair of principals, and alerts.
* The rest of Teleport, which the fork does not change: see `PROJECT.json`.

## 6. Plan

Done: `OIDCLogin`, `UserBinding`, `GroupLookup`, `BackendLock`, `ResumableConn`
with `ByteStream`, `CARotation` with `AgentRotation`, their runs, and proofs of
all their safety properties. Next, in this order:

1. An abstract specification of a login (it is denied, or grants credentials once,
   to a consenting account) that `OIDCLogin` is proved to implement.
2. Clock skew between Auth Services in `OIDCLogin`: how much of it
   `StateIsSingleUse` bears.
3. A composition of login, user binding and lookup for one login.
4. `ConnectorPolicy` as operators on abstract connectors, and activation order.

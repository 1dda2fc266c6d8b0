# A formal model of Asena

Asena (`src/`) is a reverse proxy in Go: it reads a static `asena.yaml` once,
follows a `dynamic.yaml` while it runs, matches every request against the rules
of its routers, and forwards it to a server that a load balancer chooses. This
directory holds TLA+ modules that model its parts, TLC configurations that
check them on small instances, and proofs, checked by TLAPS, that the important
properties hold for every instance. `PROJECT.json` maps each definition to the
lines it models, and lists the hazards, the runs, their mutants and the theorems.

## The system

| Component | State | Operations | Talks to |
|---|---|---|---|
| Start and end (`cmd/startasena.go`) | `ctx`, the `http.Server` | settings, first load, consumer goroutine, server, graceful shutdown | all others |
| Dynamic configuration (`internal/config/service.go`, `defaults.go`) | `cfg`, `hash`, `updates` (a channel of one), the watch, the debounce timer | first load, `watch`, `reload`, `Get` | the file through fsnotify; the consumer through `updates` |
| Proxy manager (`internal/proxy/manager.go`, `route.go`, `matchroutes.go`) | `ProxyHolder`, `RouterHolder` | `BuildReverseProxy`, `MatchRouter`, `GetProxy`, `ServeProxy` | the consumer calls it, so do all requests |
| Reverse proxy hooks (`manager.go`) | a result box per request | `Rewrite`, `ModifyResponse`, `ErrorHandler`, `reportDone`, `applyStickyCookie` | `httputil.ReverseProxy` calls them, they call the balancer |
| Balancers (`internal/proxy/balancer/`) | counters, weights, averages, rings, a map by url hash | `Next`, `Done`, `SetStickyCookie` | the hooks |
| Rule language (`internal/rule/`) | none | `ParseRule`, `Match`, `Specificity` | the proxy manager |
| Server and certificates (`internal/server/`) | the certificate, the SIGHUP channel | `ServeHTTPS`, `Load`, `GetCertificate` | the TLS handshakes, the renewal client, SIGHUP |
| Static configuration (`internal/config`, `pkg/configwriter`) and flags (`pkg/cli`) | the file `asena.yaml` | read, fill in defaults and flags, write back | start only; the administrator edits the same file |
| Logger, middleware, packaging | none that matters | | |

How they interact: the watch goroutine arms a timer for each file event; the
timer's goroutine reloads and, if the content is new, stores it and offers it to
the channel; the consumer takes it and builds balancers, proxies and routes,
which two stores put in place. Each request is a goroutine of its own: it loads
the routes, later the proxies, and then runs the hooks, which share one balancer
per service with all other requests.

What is hard about it:

- the hooks of many requests interleave, and run in an order that
  `httputil.ReverseProxy` decides (failure before a header, failure after one,
  upgrade, failed upgrade), while each slot must be taken and given back once;
- `reload` compares without a lock, stores under one and sends after it, and two
  of them may overlap;
- events, the debounce timer, a slow build and a full channel race for the last
  change of the file;
- two holders are swapped one by one under requests that load them one by one;
- balancers promise something about long sequences of calls, and a client's
  history is spread over the balancers of several reloads and a cookie in its jar;
- `asena.yaml` is emptied before it is written, by a process that may be killed;
- a certificate and its key are two files, and SIGHUP comes when it likes;
- the signal that ends the process comes while requests, builds and reloads run.

What makes each part correct: every pick goes to a least busy server and every
counter is what it claims to be (least-connections, least-time); hooks call `Next`
and `Done` in pairs (hooks); clients come back to their server as long as the
algorithm promises, and turns are even (the other balancers); shares follow the
weights (weighted round-robin); nothing unaccepted is handed out, what overlapping
reloads leave is put right by the next, configurations travel in order, the last change
wins (dynamic configuration); requests go forward only, find what their configuration defines,
and get the most specific rule (manager); settings survive restarts (static
configuration); certificates are whole and only get newer (server); and of all of it
together: the routes in force are those of one accepted state of the file, catch up
with it, and a shutdown cuts nobody short who could still be answered (start and end).

## Modules

| Module | Models | Role |
|---|---|---|
| `LeastBusy` | | abstract: each request goes to a least busy server, no counter in sight |
| `LeastConnections` | `balancer/leastconnections.go` | `Next` and `Done`, one step each, refine `LeastBusy` |
| `ReverseProxy` | `manager.go`: `ServeProxy` and the hooks | extends `LeastConnections` with the life of requests |
| `DynamicConfig` | `config/service.go`, `defaults.go`, the consumer of `startasena.go` | file, watch, timer, reloads, channel, consumer |
| `Manager` | `manager.go`: `BuildReverseProxy`, `GetProxy`; `route.go`, `matchroutes.go`, `handler.go` | the hot swap under requests |
| `LiveConfig` | | abstract: one accepted state of the file at a time routes the requests |
| `Asena` | `startasena.go` from the consumer on, `server.go`: `Shutdown` | composes `DynamicConfig` and `Manager` with server, requests and shutdown, refines `LiveConfig` |
| `WeightedRoundRobin` | `balancer/weightedroundrobin.go` | constructor and `Next` |
| `LeastTime` | `balancer/leasttime.go` | `Next` and `Done`, one step each |
| `RoundRobin`, `IPHash`, `ConsistentHash`, `StickySession` | the files of those names in `balancer/` | constructors and `Next` as functions from a balancer to a choice and the balancer after it |
| `ClientAffinity` | the hooks with those four, `applyStickyCookie`; browsers (external) | clients and their cookies across reloads |
| `Rules` | `internal/rule`: lexer, parser, matchers, scores | how the text of a rule is read, what it matches and how exact it is |
| `StaticConfig` | `config/service.go`, `defaults.go`, `configwriter/writer.go`, `cli/parser.go` | `asena.yaml` from start to write back |
| `Certificates` | `server/cert.go`, `server.go`: `ServeHTTPS` and its SIGHUP goroutine | loading and reloading a pair of files |
| `AsenaServer` | `startasena.go` up to the server | composes `StaticConfig` and `Certificates`, with kills and restarts |
| `*_proof` | | theorems about the module of that name; `LeastConnections` is in `ReverseProxy_proof`, `Manager` in `Asena_proof`, `StaticConfig` and `Certificates` are in `AsenaServer_proof` |
| `MC*` | | constants for TLC |

The program is in two compositions because its halves meet only at the start: the
settings of `asena.yaml` decide where `dynamic.yaml` is and how to serve, and are not
looked at again.

```
LeastBusy <= LeastConnections - ReverseProxy
LiveConfig <= Asena = DynamicConfig + Manager
ClientAffinity = RoundRobin + IPHash + ConsistentHash + StickySession
AsenaServer = StaticConfig + Certificates
```

Operators named `X_Something` with a comment that begins with "Mutant" are faulty
variants of `X`, used to see that a property can fail; no specification uses them.

**LeastConnections.** A server is its position in the list; `active` is
`connServer.active`; `held[r]` is the server request `r` was given and has not
reported, which only the callers know. Both methods hold `lc.mu` all the way, so
each is one step.

**ReverseProxy.** `pc[r]` says how far `httputil.ReverseProxy.ServeHTTP` is,
`box[r]` is the `balancerResult`. A hook touches shared state only through one
call of the balancer, so a hook is one step. `ErrorHandler` is the action's part
that the code has, which is nothing, both when the round trip fails and when an
upgrade breaks after `ModifyResponse`. With a null server, one without url or a url
that does not parse, `Rewrite` leaves the request the URL it came with
(`"untargeted"`). For most that is no host to send to; a request in `AbsoluteForm` names
one itself and may be answered, and then `reportDone` finds what is in the box.
`CountsUnanswered` says what a counter is worth: the requests without a response
header, not those in flight, as the comment of the type and the manual have it
(`MCCountsRequestsInFlight.cfg` below).

**DynamicConfig.** `reload` is four steps (`ReadFile`, `CompareHash`, `Store`,
`Send`), for each of several loaders at once. A content is a model value; the
sets `Malformed`, `BadService`, `NullService` and `NullRouter` say what
validation, normalisation and building make of it. Versions number the changes of the file, for the
properties only. `Surroundings` says what may happen besides edits in place:
edits before the watch is there, replacement of the file, errors of fsnotify,
builds longer than the debounce interval, a signal. `alone` is the loader of the last reload
to begin, as long as no other ran beside it, for `LoneReloadSettles` only.

**Manager.** Rules are given by the requests they match and their specificity.
`BuildReverseProxy` computes everything and then takes two steps for its two
stores; a request takes one step for each holder it loads. Generations number the
configurations, for the properties only.

**Asena.** What was one step of the consumer in `DynamicConfig`, `FinishBuild`, is
`Build`, `SwapProxies` and `SwapRoutes` here, and what was any configuration for
`Manager` is `HttpOf` of the content that was read. `server` follows
`http.Server`: `ServeHTTPS` returns before its goroutine listens, so `Listen` is a
step of its own and may come after the signal or fail. `reply[r]` is the handler's
answer, or `"stalled"` for an upstream that outlasts any deadline; `late` says that
the five seconds of the shutdown are over. `written` and `source` record
where routes come from, for the properties only: `Live` is the state of the file that
the routes in use were built from, which is what `LiveConfig` calls `inForce`.

**WeightedRoundRobin.** `Next` is one step under `wrr.mu`. `calls` and `picks`
count what happened, for the properties only. Weights are converted from `uint`
to `int` as the constructor does, and `Wrapped` makes every sum an `int`. No weights are
ruled out: the constructor looks at no sum, so `Fits` is a condition of the properties, and
`ExactWithinRoom` says that where it holds nothing wraps. What other weights do to
the shares is in `MCWeightsOverflow.cfg`.

**LeastTime.** `Score` is the sum of requests and milliseconds that the code forms,
with times in units (`Unit` to a millisecond) and the average rounded down to one;
`AverageWithinSamples` and `EveryServerGetsTried` are about order, which rounding
keeps. `Errors` says whether `Done` is ever told of an error: the interface has the
penalty, but the hooks pass only `nil` today (manager.go:138, see
`every_request_reports`), so the model covers what the balancer does if they change.

**ClientAffinity.** A balancer is a value, `balancers[g][service]` the one that
reload `g` made; a request keeps the generation it was admitted by. A browser has
one sticky cookie per host, since name and path are fixed. An answer is one step
from `ModifyResponse` to the jar, so answers reach a jar in any order. Hashes are
arbitrary functions, which is all that the code relies on. An entry of a server list
may be null: round-robin and IP-hash choose it like an entry without url, and the
constructors of sticky-session and consistent-hash panic on it, which ends the
process (`Panic`); `inForce` is 0 until the next process has a configuration, and the
browsers keep their cookies. Ring points may collide,
and then `Rings` has every outcome of the unstable sort. Of a client without an address
`SameClientSameServer` says nothing: both hashing algorithms let it take turns
(iphash.go:43-47, 60-68).

**Rules.** Texts are sequences of characters, where a matcher's name, an address
and a prefix length count as one. `Lex`, `buildLeaf` and `Parse` (with one level for
each of `parseOr`, `parseAnd` and `parseUnary`) read a text as the code does; an
error is a token or a result of its own. A node carries what `Specificity` and `Match`
compute of it: its score, and the numbers of the requests it matches. The variable
`rule` is the rule as its author has it in mind, a sequence of operators, calls and
slips, edited by writing a piece, adding a condition or replacing the last call;
`tree` is what `ParseRule` makes of its text. `Meaning` is what it should make of it,
found by splitting at the operator that binds loosest, which is not how the parser
goes about it. `ReadAsWritten` leaves out values whose parentheses do not balance:
the lexer counts parentheses inside quotes too. So does `NarrowerWins`, for what the
proof of it brought to light: a call left open by its value runs on to the next
parenthesis that closes it, so that in ``Host(`(`) && PathPrefix(`)`)`` it swallows the
rest, and narrowing the last call need not narrow anything. `ConditionsActAsWritten`
can do without.

**StaticConfig.** `stage` is how far `main` is: reading, writing (the file is
whole), encoding (the file is empty), configured, serving. A setting has a value or
is `Unset`; flags replace the defaults, the file goes before both, but for the port:
`Port` is that of the scheme, and what the file says of it is overwritten. `EncodeFails`
leaves any prefix of the settings, or what is no YAML. `intended`, `intact` and
`promised` record what the administrator may rely on, for the properties only.

**Certificates.** `pem[part]` is the version of the file on disk, 0 when it is
missing; the renewal client (external) issues versions and installs or removes the
parts one by one. `Load` is `Stat`, `ReadCert` and `ReadKey`, with renewals in
between. SIGHUP is deadly until the goroutine has called `signal.Notify` (`Sighup` in
`AsenaServer`), and a channel of one afterwards.

## Runs

Bounds: every run is an exhaustive search.

| Run | Instance | Shows |
|---|---|---|
| `proxy_requests` | 4 requests, 2 of them in absolute form, 3 servers (one with a bad url, one null) | `ActiveIsInFlight`, `ImplementsLeastBusy`, `KeepsBalancerProtocol`, `BoxNamesTheSlot`, `CountsUnanswered`, types |
| `config_any` | 2 overlapping reloads, 6 contents, 3 changes, everything in `Surroundings` | `OnlyAcceptedConfigs`, `LoneReloadSettles`, `NoTimerAfterStop`, types |
| `config_live` | 1 reloader, 3 contents, 3 changes, slow builds | `TravelInOrder`, `NoRedundantReload`, `ChangesAreDetected`, `AppliedUnlessDropped` |
| `hot_swap` | 2 requests, 3 builds from 4 configurations | `RequestsGoForward`, `MissingOnlyIfRemoved`, `MostSpecificWins`, types |
| `rules` | rules of up to 7 pieces, 5 with a slip; 12 calls, all but one of them from 2 | `ReadAsWritten`, `ConditionsActAsWritten`, `NarrowerWins` |
| `weighted_rounds` | 4 servers, all settings of absent, 0 to 4, 7, huge and too large weights, `int` up to 140 | `NeverAhead`, `RoundsAreProportional`, `ExactWithinRoom`, types |
| `client_affinity` | 2 clients with 2 requests each, 2 reloads, any number of panics, 8 load balancers of 4 algorithms, 2 with a null entry, counter modulo 4 | `PinsToServer`, `TurnsAreEven`, `SameClientSameServer`, types |
| `least_time` | 4 requests, 3 servers, responses with and without error | `CountsInFlight`, `AverageWithinSamples`, `EveryServerGetsTried` |
| `restarts_and_renewals` | 3 settings, the port one of them, 4 saves, 2 sets of flags, 2 renewals, any number of starts | `SettingsSurvive`, `PlainOnlyByFallback`, `CertificatesMoveForward`, `RenewalIsServed`, types |
| `whole_program` | 1 request, 1 reloader, 3 contents (one with a null router), 2 changes, slow builds, a signal | `FollowsFile`, `RoutesCatchUp`, `GracefulShutdown` |

Four requests are enough for two to share a server while a third holds another
and a fourth picks, and three servers for a tie among the rest. Two reloads are
what it takes to overlap, and three changes of the file give two that overlap and one
more to be read alone; in `config_live` they allow there-and-back-again (a, b, a) with one
more in flight. Three builds and two requests let a request
see the routes of one configuration and the proxies of the next while another
comes later; the four configurations have a tie, an unusable router, a removed
service and a router without service. The settings of weights cover shares from
one in sixteen to nearly all, and the calls several rounds of each; an `int` of 140 has
room for all of these, for one huge weight, though not as `Fits` asks, and not for
the sum of two. Seven pieces
are enough for a group followed by an operator, `(a || b) && c`, and for two
operators of each kind in a row; the calls have values with parentheses, commas
and operators in them, wrong numbers of arguments and addresses that do not parse.

Two requests of one client give one that is answered late, after the other was
sent; two clients share the counters; two reloads take a client from any load
balancer to any other, with servers added, removed, moved, null or without url and with
colliding ring points, and with a panic before, between or after them. The counter modulo 4 wraps within the four requests of the
run, and 4 is no multiple of 3, as 2^64 is not. Four requests in flight on three
servers are enough for a fourth that meets only busy servers, and the samples stay
few because one duration, with and without the penalty, makes two of them. Two
renewals make three versions: one served, one half installed when a load
reads it, and one that comes during that load. Starts, kills and saves are not
bounded. In `whole_program` two changes of the file reach from the first
configuration over one that is in the channel while another is being built, and
content `a` may come back; what a third adds is in `config_live`. One request is
enough because requests share nothing but the holders, which `hot_swap` has with two, and
the set of open connections that `Quit` looks at. `MaxBuilds` is above the number of
configurations that can arrive (`AsenaAssumption`), so it stops nothing.

Symmetry is used in two runs with invariants only, `client_affinity` and
`least_time`: requests of one client are interchangeable.

`CHECK_DEADLOCK FALSE` stands where requests end, where the file is left alone and
nothing remains to be done, where the process has ended, and where a rule has reached
its bound of pieces.

Two runs are expected to fail: each states what a document or a comment says and
the code does not do.

| Run | What the trace shows |
|---|---|
| `every_request_reports` | `ErrorHandler` does not report: a failed request keeps its slot for good (manager.go:154-157, ADR-0009) |
| `pins_to_server` | two sticky-session services with the same servers behind one host share a cookie; an answer of one names a server that `byHash` of the other knows too, and the next request to the other goes there (stickysession.go:17, 67-70, 92) |

The models show more of this kind. These have a configuration here, run by hand, and
end in the trace they describe:

| Command | What the trace shows |
|---|---|
| `tlc -config MCCountsRequestsInFlight.cfg MCReverseProxy` | the report comes with the header: a streaming response or a websocket is not counted (leastconnections.go:11-12, DYNAMIC_CONFIG.md:87) |
| `tlc -config MCUpdateDropped.cfg MCDynamicConfig` | a send that meets a full channel drops the newest configuration (DYNAMIC_CONFIG.md:179 says the last write wins) |
| `tlc -config MCFileReplaced.cfg MCDynamicConfig` | the watch is on the file, not its directory, and ends when another file is put in its place (ADR-0005, DYNAMIC_CONFIG.md:6-7) |
| `tlc -config MCNullEntry.cfg MCDynamicConfig` | a null service or router panics where a failed reload is promised (DYNAMIC_CONFIG.md:155, 169) |
| `tlc -config MCNoRequestDropped.cfg MCManager` | old routes and new proxies: 404 for a request both configurations serve (ADR-0007) |
| `tlc -config MCPortSurvives.cfg MCAsenaServer` | a port saved in `asena.yaml` is overwritten at the next start with the default or the flag (defaults.go:71-75); ADR-0001:9, 16 names the port first among the settings the file holds |
| `tlc -config MCWeightsOverflow.cfg MCWeightedRoundRobin` | weights whose sum is beyond an `int` wrap around, and the picks no longer follow them (weightedroundrobin.go:48; lines 19-22 say they do) |

And these follow from the definitions:

- a change between the first load and `watcher.Add` is lost in the same way as a
  replacement (`"early_edit"` in `Surroundings`);
- two reloads that overlap can leave the older configuration in force
  (`ChangesAreDetected` fails with `TwoReloaders`): the one that read first stores last,
  or compares with a hash that is about to change (service.go:96-119). It stays so until
  another event brings a reload that runs alone (`LoneReloadSettles`);
- the lexer counts parentheses within quoted values, so one that does not balance
  them ends a call too early or too late, against the comment at lexer.go:67-69.
  `ReadAsWritten` asks for `Balanced` values for that reason; without it
  ``Path(`(`)`` is refused;
- a bare `ClientIP` range below /15 scores less than `Host`, against the ranking of
  DYNAMIC_CONFIG.md:49, which calls itself rough;
- a SIGHUP ends the process when it serves plain HTTP, the fallback included, and
  for a moment after an HTTPS start: nobody has called `signal.Notify` for it
  (`Sighup` in `AsenaServer`), so the signal that renewal tooling sends, ADR-0006:12,
  stops the service instead of reloading;
- a write back that is cut short after the file was emptied leaves a file that
  loads, with the settings that were not written at their defaults, among them
  `enable_https` off (`EncodeFails`, `Die`; the word `intact` in `SettingsSurvive` and
  `PlainOnlyByFallback`);
- a flag that was given once is written back, so another value of it at a later
  start has no effect (`Normalized`).

### Fairness

`DCFairSpec` asks for weak fairness of each loader's `reload`, of the timer's
expiry, of the watch goroutine's steps and of the consumer's: goroutines that are
never blocked for good and that the Go scheduler runs in the end. Nothing is
asked of the file, the signal or the process's end. One reloader stands for
reloads that are shorter than the debounce interval of 500 ms; without
`"slow_build"` the same is said of builds.

`AsenaFairness` asks the same of the composition, and besides that the listening
goroutine listens or fails, that a request that was accepted is handled, that `main`
goes on after the signal, and that the five seconds of the shutdown pass. An
upstream need not answer: `"stalled"` is a possible outcome of `Answer`, and nothing
leads out of it. Whether a request or a signal comes is open.

`AsenaServerSpec` has weak fairness of `LoadOrReload`, the goroutine that loads
certificates; starts, kills, saves and renewals are the surroundings and may stop.

The other specifications need no fairness: their properties are safety properties.

## Proofs

All theorems hold for any values of the constants that satisfy the named
assumptions of the modules; those say no more than what the types of the code or
its validation say, that a response takes some time, in `LeastTime`, that
the bounds on edits and builds are numbers, the second above the first in `Asena`,
that saved files and flags give values to settings, among them the port and the ones
`Serve` looks at, in `AsenaServer`, that every url and every address has a hash, in
`ClientAffinity`, and in `Rules` that names are made of letters, that values can be quoted,
and that a stray text is a bare name or begins with a character no piece begins with.
What only some surroundings grant is an assumption of the theorem that needs it:
`SingleReloader` (reloads do not overlap), `OrderlyFile` (the file is changed in place,
once it is watched), `OwnHosts` and `NoHashCollision` (below).

- **`ReverseProxy_proof`.** First the balancer. `LCInv` is the type and "each counter
  is the number of requests that hold the server". A step moves one request in or out of
  one set, and the library's facts on cardinalities do the rest. From it:
  `CountersAreInFlight`, and that the scan over counters is a scan over loads,
  which is `LCImplementsLeastBusy`. Then the hooks. `BoxInv` ties `box`, `held` and `pc`
  together. It is needed because `reportDone` looks only at the box, which stays filled:
  that no slot is given back twice rests on `pc`. It also says which requests hold a
  server, so that `CountersAreUnanswered` follows from the exact counters. Each step is then a step of the balancer
  or leaves it alone (`HooksKeepBalancerProtocol`), and what was proved of the
  balancer is carried over without another induction.
- **`DynamicConfig_proof`.** `LoadInv` says which contents each stage of each loader
  can carry, and holds with any overlap. So does `AloneInv`, which follows the loader
  in `alone` through the stages: all others are idle, so nobody changes what it
  compares with before it stores. With the hash being that of the configuration this is
  `LoneReloadsSettle`. With a single reloader `OrderInv`
  says where versions can be at each stage; `ConfigsTravelInOrder` and
  `ReloadsAreNotRedundant` follow. `NoticeInv` is why no change is missed: one that no
  loader has read yet is announced by an event or the timer, and else no loader carries
  another state of the file than the present one; the timer fires only when nobody is
  at work. From it `NoChangeIsMissed`; that a configuration in force is in use,
  being built, in the channel or about to be sent is `HandedOn`, from which
  `NoUpdateIsLost`.
- **`WeightedRoundRobin_proof`.** The weights add up to the total and the current
  weights to zero, so the server that is picked is above zero after the raise and
  above minus the total after the dock. With the account (`current` is what was
  given less what the picks cost) this is `NoServerRunsAhead`; after a full round
  the current weights are multiples of the total that add up to zero with none
  below, hence all zero (`FullRoundsAreProportional`). Sums are recursive
  functions; `PrefixSumIs` shows that they are well defined, by `InductionUpTo`, which
  has a set in the place of the predicate. All this is for weights that satisfy `Fits`: none
  is then far enough above zero, with the others no lower than minus the total, for a
  sum to leave the `int` (`NextIsExact`).
- **`LeastTime_proof`.** Counters are cardinalities as in `ReverseProxy_proof`. An
  average moves between the old one and the new sample, and the samples so far
  bracket both, which is `AveragesStayWithin`. `AllServersAreTried` needs to know why
  a server that was chosen has a positive score for ever after: it is either still
  held, and counted, or has a sample, and samples are positive. A server never
  chosen has score zero, so the scan takes it before any other is taken twice.
- **`ClientAffinity_proof`.** `CAInv` has two halves. Every balancer, whatever
  was called on it, is one of those its constructor makes but for the counter, and
  `GoesRound` says how far the turns are: with m the remainder of the counter by the number
  of servers, the first m + 1 servers are one turn ahead of the others, but for the
  very first, which the counter may have passed over once. That is `TurnsAreAlwaysEven`,
  for any modulus; it rests on `NextRemainder`, what adding one does to a remainder. And every request that has its
  server has the one its balancer `Decided` for its address and cookie, a fact about
  the balancer's list and ring only, so it can be compared with what another balancer
  decided: by ip-hash it is the position, by consistent-hash the point of
  the ring that is next (`SamePoint`: if each of two rings has the point that the other one
  finds, they find the same), which gives `ClientsKeepTheirServer`. `CookieOfPinned`
  says that the cookie is the hash of the url that answered last; with `OwnHosts` (no
  two services behind one host, the case of the run `pins_to_server`) and
  `NoHashCollision` (FNV-64 tells the urls apart) it gives `ClientsStayPinned`.
- **`AsenaServer_proof`.** `SettingsInv` follows the settings from the file to `main` and
  back: what is about to be written has all that is intended, and a file that was
  emptied and not saved since is still empty, without which `Encode` could lose a
  setting. The port is excepted throughout: `Normalized` overwrites it. `CertInv` says
  that versions only grow from the manager over what `Load` has read to the files, so a key that fits what was read is never a step back.
  `ModeInv` joins the two. From them `SettingsAlwaysSurvive`, `PlainIsAFallback`,
  `CertificatesOnlyMoveForward`; and `AskedInv`, that a pair which was on disk at a SIGHUP
  is served, or a SIGHUP waits, or a load is under way that has read nothing else,
  gives `NoHangupIsLost`.
- **`Asena_proof`.** First the hot swap of `Manager`. `ManagerInv` relates generations in the holders, in the
  half-done build, in the requests and in `history`, for each state of the builder:
  in between the two stores the proxies are one ahead of the routes, never behind.
  `compileRoutes` sorts, and the model takes a list that is sorted; that there is one is
  `SortedIsSorted`: `Before` is a strict total order on names, so the number of names that
  do not come after a name is its place, and places are a bijection. Then `RoutesInv` says
  that the routes of each generation are those of its configuration in that order, and
  `FirstMatchWins` makes `MostSpecificAlwaysWins` of it.
  Then the program. A step of the program is a step of the configuration service and
  a step of the manager, or leaves them alone (`RunsTheService`, `RunsTheManager`), so
  all that was proved of them holds here too. `ProgramInv` adds what only the
  composition knows: `written` is the history of the file, what is in the channel and in
  the consumer's hands was read from it, and the generations' sources are in the order of
  their versions. `ProgramFollowsFile` is then a step simulation: the second store of a
  swap is `Apply` of a later version that loads, `MatchRouter` is `Route`, `ChangeFile` is
  `Edit`, and the rest stutters. It assumes `SingleReloader`; the run of
  `ChangesAreDetected` with two shows why it must. `RoutesAreThoseOfTheFile` carries
  `NoUpdateIsLost` over to the routes in force, and `ShutdownIsGraceful` is about the end.
- **`Rules_proof`.** Every recursion of the code is a recursive function on positions,
  and each fact about it an induction on a set of positions (`InductionUpTo`,
  `InductionOverRanges`), so induction over texts and trees is not needed.
  *The parser* reads from the left and splits a chain at its first operator, while
  `Meaning` splits at the last one that binds loosest. `AllSound` (what was read from a
  position on, at each of the three levels, means the tree made of it) goes
  back from the last token; `IsRead` (what has a meaning is read to its end) goes up with
  the length of ranges. Together they are `ParserReadsAsMeant`.
  *The lexer*: `PieceIsLexed` for operators and balanced calls; what the stray
  texts become has no meaning. `CallIsBuilt` finds the values again that were quoted.
  Both give `TreeIsMeaning`, and that `tree` is what the present text gives is an
  invariant, hence `RulesAreReadAsWritten`.
  *Scores*: two rules that differ in their last call have the same meaning at every range
  that ends before it, and at each range that ends with it the narrower one
  has the fewer matches and no lower score, going up with the length of ranges; the call itself is
  `NarrowerScoresHigher`, by the six matchers. *One more condition*: `LexWithin` says that
  the text before it is lexed as if it stood alone, and an unbalanced call at the end
  is either an error or no call that parses, so the new tokens are the old ones and two
  more, whatever the values. With `AND` only the part behind the last `OR` takes part.

Liveness (`ChangesAreDetected`, `AppliedUnlessDropped`, `RoutesCatchUp`,
`GracefulShutdown`, `RenewalIsServed`) is beyond the prover, but each of these has a safety
half that is not: that nothing has been missed, lost or cut short when all has come to
rest.

| Checked by TLC | Its safety half, proved | Left to TLC |
|---|---|---|
| `ChangesAreDetected` | `NoChangeIsMissed` | events, timer and reload get done |
| `AppliedUnlessDropped` | `NoUpdateIsLost` | and so do channel and builds |
| `RoutesCatchUp` | `RoutesAreThoseOfTheFile` | as above, in the whole program |
| `GracefulShutdown` | `ShutdownIsGraceful` | the process ends, requests go on |
| `RenewalIsServed` | `NoHangupIsLost` | the load gets done |

Every invariant and every action property of the passing runs is a theorem. Only
model-checked are the liveness properties above.

## Not modelled

- The transport's limits and connections: `max_idle_conn_per_host` is also
  `MaxConnsPerHost`, and a request that waits for a connection does so inside
  net/http. In `Asena` it is one of those that may stall.
- TLS handshakes: they read the certificate under the mutex that `Load` stores it
  under, so they see one of the values that `CertificatesMoveForward` is about.
- The redirect server on port 80 (no state), hijacked and idle connections during
  the shutdown (`http.Server.Shutdown` closes or ignores them).
- Headers but for the sticky cookie, the host header, the client address behind
  other proxies.
- How `flag` parses the command line. Note that the unit file starts the program with
  an argument that is no flag, and `flag.Parse` stops at the first of those.
- Logger, middleware, packaging and scripts: no state that the rest reads.
- Health of backends: the code has no checks.

## Plan

Written so far, in this order: least-connections and its abstraction, the hooks
on top of it, the dynamic configuration, the manager, weighted round-robin, the
rules; least-time; the four balancers without load and `ClientAffinity`;
certificates, static configuration and `AsenaServer`; `LiveConfig` and `Asena`. Next:

1. Proofs: the theorems cover every property of the runs but liveness. What may
   be added are more lemmas on how the parts fit, such as the balancers' promises
   across the swaps of `Asena`.
2. `Asena` with a second request, for what the shutdown does to one while the other
   stalls, and with the least-connections counters of each generation across a swap.
3. The transport's limit as a resource of the hooks: who waits while holding a slot.

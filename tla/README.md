# A TLA+ model of Pingoo

Pingoo is a reverse proxy, load balancer and web application firewall in one
process. These modules model the parts of it that carry state or run
concurrently. TLC checks them on small instances; TLAPS proves every safety
property the passing runs check for every instance, and that the static site service
implements its abstract specification, up to liveness. Four runs show where the code
and what the repository says of it disagree. Paths below are relative to the
repository root (`src/` in `PROJECT.json`); line numbers are those of the modelled
commit.

## 1. Inventory

| Component | State | Operations | Talks to |
|---|---|---|---|
| Rate limiter `pingoo/rate_limiter.rs` | two buckets (start, counter per address), limit, period | `can_resume` | its task only |
| Limiter task, same file | probe channel (1024), one oneshot per request | `limit_http_request`, the task's loop | every HTTP handler |
| Service registry `pingoo/service_discovery/` | `DashMap` service -> upstreams | `discover` every 2 s, `get_upstreams` | DNS, Docker, proxies |
| Docker client `docker/src/client.rs` | one HTTP/1 sender | `connect`, `send_request` | Docker daemon |
| HTTP and TCP proxy `pingoo/services/` | the session's attempt | `handle_http_request`, `serve_connection`, `retry` | registry, upstreams |
| Captcha `pingoo/captcha.rs`, `jwt/jwt.rs` | signing key, verifying keys, the JWKS file; the rest is in cookies | `new`, `api_init`, `api_verify`, `validate_captcha_verified_cookie` | browser, file system |
| Captcha page `captcha/src/` | checkbox, challenge | `onCheckboxClicked`, `proofOfWork`, `retry` | captcha API |
| HTTP pipeline `pingoo/listeners/http_listener.rs` | per request: verified flag, position in the rules | `serve_http_requests` | captcha, limiters, services |
| Listeners `pingoo/listeners/` | accept loops, open connections | `bind`, `listen`, `accept_tcp_connection`, `accept_tls_connection` | clients, kernel, services |
| Server and main `pingoo/server.rs`, `main.rs` | progress of the start, shutdown signal | `main`, `run`, `shutdown_signal` | everybody |
| TLS manager, ACME `pingoo/tls/` | certificates, challenge store, files | load, renew, answer challenges | CA, file system |
| Static site `pingoo/services/http_static_site_service.rs` | file cache | `handle_http_request`, `try_metadata` | file system, browser caches |
| Configuration `pingoo/config/` | the loaded `Config` | `load_and_validate`, `load_rules`, `parse_service`, ... | files, server |
| Lists, GeoIP, rule expressions | read at start | load, evaluate | HTTP pipeline |

What is hard about them, and therefore what the properties are for (the list
`hazards` in `PROJECT.json` has each at its line):

* the limiter's windows: boundaries, zero windows, `u16` saturation, two clock
  reads with a possible pause in between, a bucket at its capacity, which is what the
  map reports and not what was configured;
* replies of the limiter that arrive for requests that are gone, a full channel,
  a dropped task;
* a table that is rewritten one key at a time under its readers, from two
  discoverers that fail independently and a daemon that restarts;
* retries that race with that table, requests to `https` upstreams that do not use its
  addresses, and responses that nothing makes an upstream send;
* a stateless captcha: everything it knows is in cookies that several tabs
  overwrite, that outlive crashes, clock adjustments and key rotations, and that
  must be bound to the client that solved the challenge, across an `await`;
* rule actions that must apply in order, with early returns and failing
  expressions;
* accept loops that a stalled handshake blocks or that run out of descriptors,
  and a shutdown in which every listener has its own deadline;
* a start that is made of many steps, any of which may fail while listeners that
  were started earlier serve, and that unwraps what the validation has to have
  checked, and what the host has to provide;
* rules from several files that replace each other if a name is used twice,
  and a listing that ends silently on an error;
* a cache filled from files that change between the metadata and the content, by
  handlers that interleave at every `await`, with tags that browsers send back;
* certificates that are pairs of files, written one after the other by tasks that
  nobody waits for at exit, and read by a start that refuses any torn pair, also one an
  operator left; two certificates for one name, of which the last in the directory is
  served; a listing that ends early here too;
* a challenge store that outlives failed orders.

## 2. Modules and how they correspond to the code

`map` in `PROJECT.json` gives the lines of every definition. Definitions keep the
names of the functions they model. Each module that starts with `MC` instantiates
a module for TLC; the `.cfg` files named after it are the runs.

| Module | Models | Built on |
|---|---|---|
| `RateLimiter` | `RateLimiter::new`, `can_resume` | |
| `RateLimiterActor` | limiter task and `limit_http_request` | extends `RateLimiter` |
| `ServiceRegistry` | registry, DNS and Docker discovery, Docker client | |
| `ProxyServices` | both proxies reading the registry | extends `ServiceRegistry` |
| `Captcha` | captcha manager, tokens, JWKS file, captcha page | |
| `HttpListener` | `serve_http_requests` | takes the outcomes of `RateLimiterActor` and `Captcha` as inputs |
| `Listeners` | the four listeners, TLS handshakes, shutdown | |
| `Config` | `pingoo/config`: what is accepted and what becomes of it (operators only) | |
| `Server` | `main`, `Server::run`: the start, the exit | extends `Config` and `Listeners` |
| `FileServer` | abstract: what a static site promises | |
| `StaticSite` | `StaticSiteService` and its cache | implements `FileServer` |
| `TlsManager` | `TlsManager::new` and `resolve`, certificate files, default certificate, ACME account | |
| `Acme` | renewal loop, orders, challenge store, saving | extends `TlsManager` |
| `RateLimiterProofs`, `RateLimiterActorProofs`, `CaptchaProofs`, `HttpListenerProofs`, `AcmeProofs`, `ServerProofs`, `StaticSiteProofs` | theorems | extend their module |
| `ServiceRegistryProofs` | theorems about the registry and its proxies | extends `ProxyServices` |

**RateLimiter.** `bucket_green`, `bucket_blue` and `cfg` are the fields of the struct,
`clock` is the monotonic clock. `can_resume` is one of three actions: `RefuseAll` (limit 0,
line 117), `Overloaded` (`Err(())`, line 155) and `Count` (lines 144-169). All begin with
`Rotated`, lines 121-142. `Count` lets up to `MaxPause` ticks pass before the second clock
read of line 168. `TicksPerSec` ticks make a second so that `as_secs()` truncates.
`CapacityOf` is `HashMap::with_capacity` as `capacity()` reports it (3 for 1, 1792 for
1024), which is what `FullFor` compares with (line 154) and what a rotation allocates again.
`admitted` in a bucket and `history` are history variables; nothing depends on them.

**RateLimiterActor.** A channel and the senders blocked on it are one sequence,
because tokio wakes blocked senders in order. `SendProbe`, `SendFails` and
`ReceiveReply` are `limit_http_request` split at its two awaits, `ServeProbe` is
one iteration of the task's loop, `Abandon` is hyper dropping a handler,
`DropActor` the runtime dropping the task. The limiter is that of `RateLimiter`.

**ServiceRegistry.** A round is `StartRound`, one `LookupHost` per awaited lookup
in any order, interleaved with `DockerConnect` and `DockerRequest` (or
`DockerRefuses`), then `DiffUpstreams`, `UpdateService` and `DeleteService` per
key, `EndRound`. The environment changes DNS answers and containers and restarts
the daemon at any moment. `conn` is the client's `Mutex<Option<SendRequest>>`:
never connected, open, dead, or no client at all (no socket at start).

**ProxyServices.** A session takes a snapshot of its service's upstreams, chooses
one and connects (`Choose`, then `Connected` or `ConnectFails`); the TCP proxy tries
again up to three times, with a new snapshot each time. `Destination` is the branch of
`http_proxy_service.rs:122-128`: an HTTP request to an upstream given with `https` goes
to its host name, which the HTTP client looks up by itself, without the upstream's
port; every other attempt goes to the address from the table. `UpstreamAnswers` is the
end of the await at line 192, which has no timeout. Requests are what they go to;
header rewriting is left out.

**Captcha.** `jwks` is the file, `proc` the process, `jar` the browser's two
cookies, `tab` what each tab does. A token is a record of its claims; signatures
are ideal, so only Pingoo makes tokens. `api_verify` and `api_verify_body` are
the two halves of the function around `req.collect().await`. `Crash` can hit any
moment, also between the creation and the writing of the JWKS file. The site is
served over HTTPS: the cookies are `Secure` (`captcha.rs:461`, `:506`) and the page
computes its proof with WebCrypto (`captcha/src/index.tsx:142`), which browsers
offer in secure contexts only, so on a plain HTTP listener nobody gets past the
captcha and there is nothing to model.

**HttpListener.** One action per branch: `Screen` (user agent, captcha path,
verified cookie), `MatchRule`, `Block`, `ServeCaptcha`, `Limit`,
`limit_http_request`, `ActionsDone`, `Route`. An expression evaluates to true,
false or an error; the enumeration of requests covers all combinations.

`AnsweredAsConfigured` computes from the rules, without the loops, what has to
happen to a request, and compares.

**Listeners.** A connection is queued in the kernel, in a phase of its handshake,
in flight, detached (the TCP proxy's copying task) or over: closed, reset before
it was served, cut while its listener knew of it, or severed with its detached
task. The HTTPS listener handshakes inside its accept loop: the block passed to
`tokio::spawn` at `https_listener.rs:85` is evaluated, with its `await`, before the
task exists. `full` says that the process has no descriptor left; `accept()` fails
then, and the loop calls it again (`mod.rs:102`), so `Accept` is disabled and nothing
else happens; `AcceptFails` is a client that left the backlog. Time is discrete, and
what is due happens before the next tick (`Urgent`).

**Config.** A file is a record with the sections of `pingoo.yml` and the entries of
the rules folder; addresses, upstreams and expressions are given by what the
parsers tell apart (`host \in {"ip", "name"}`, `compiles`, ...), optional fields by
sets with at most one element. A section is what is written, repeated keys included;
`IndexMap` is what `serde_yaml` makes of it, with the first place and the last value of a
repeated key (`config_file.rs:22`). `Accepts` is the conjunction of every check that can
make `load_and_validate` return an error, in its order, and `Loaded` the result.
`Extend` is `IndexMap::extend`, which replaces, `Filter` the iterators' `filter`, and
`merged` in `load_rules` the map the loop builds, file by file: definitions by rank and
by a recursive function, which the proofs can reason about.

**Server.** `phase` is where the start is: the configuration, the child process, the
five parts of `Server::run`, the listeners one by one, `running`; `failed` is an error
returned from `main`, `panicked` an `unwrap`, `expect` or index. `host` is what the
process meets outside its files, a 29th of February (`certificate.rs:151`) or no usable
`/etc/resolv.conf` (`dns.rs:33`); `SetUpPanics` is what it makes of them. Listeners that were
started serve from then on, and are dropped with the runtime if a later step fails.

**StaticSite.** A handler is `Receive`, `RefuseRequest` or `Metadata`, possibly
`try_metadata`, then `CacheGet`, `CacheRemove`, `Read`, `ReadRest`, `CacheInsert` or, for
what is not cached, `Read` and `StreamRest`: one action per `await`. A file's content,
size and modification time are one version number per path; `copy` is what each
browser keeps, with the version its ETag stands for, and `Examine` answers 304 if the
browser sends it and it is still that of the file. A content is read in two parts,
between which the file may be edited in place or replaced. `Busy`, the clients whose
handler is running, is `pending` of `FileServer`; `oldest` and `changed` are history.

**FileServer.** A request is answered at some moment with 200, 304, 404 or an error:
200 with headers and two parts of a body from versions the file had since the
client asked, in this order; 304 only if the browser's copy is a whole version of
that kind; 404 only if the URL stood for no file, or the folder's structure changed
meanwhile; and every request is answered.

**TlsManager, Acme.** `folder` is what the first start finds: pairs of the operator or of
an earlier installation, usable or not, with the host names and patterns of their
certificates, perhaps a `default.pem` and an `acme.json`. `pems` and `keys` are the files
of each name by the serial of their key pair; they load if the serials agree. A start is
`LoadCertificates`, `WriteDefaultPem`, `WriteDefaultKey`, `LoadOrCreateAccount`.
`Load` indexes certificates by the names in them, in the order of the directory, which
is any: of several for one name the last stays (`tls_manager.rs:165-169`).
`LoadCutShort` is a listing that ends with an error of `next_entry()` (line 143),
`LoadFails` a pair that does not load or a `default.pem` that is not for `*` alone (lines
163, 227-232), `ReadFails` an error that may not come again (lines 56-63, 180-188);
`GenerateFails`, `StartFails` and `StopStart` end a start later. A task is `PlaceOrder`,
`Validate`, `Finalize`, `WriteKey`, `WritePem`, the awaits of `acme.rs:105-168`; `OrderFails`
and `WriteFails` are its error paths. `fs::write` truncates first, so a write that is cut
leaves the old content or a partial file; a partial file is taken not to parse (a
certificate chain cut exactly between two certificates would). `Stop` is any exit: an
orderly shutdown does not wait for ACME tasks either. `suspect` and `own` are history:
the pairs that may not load, and the domains for which this process has read their own
pair and no other certificate, or has had one issued. `Scan` waits for the tasks of
the scan before, which the code does not: its loop sleeps six hours, and the polls of a
task give up after half a minute and its save after five attempts five seconds apart.
Pingoo is configured with ACME.

## 3. Runs

| Run | Configuration | What it shows |
|---|---|---|
| `rate_limiter` | `MCRateLimiter.cfg` | no client gets more than the maximum into a window or more than twice the maximum into any period; no rejection without more than the maximum of requests in two periods; buckets stay in phase; a bucket never holds more clients than its map was allocated for, and 503 is only for clients it does not know |
| `rate_limiter_rotation` | `MCRateLimiterRotation.cfg` | finding: every second rotation forgets the window it leaves |
| `rate_limiter_task` | `MCRateLimiterActor.cfg` | handlers act on their own verdict and none waits for ever; a probe counts although its handler is gone |
| `service_registry_docker` | `MCServiceRegistryDocker.cfg` | finding: a restarted daemon is never asked again |
| `proxy_services` | `MCProxyServices.cfg` | between rounds the table is exact, gaps last one round and need a lost upstream, the table converges; attempts, retries included, follow the table of the moment; connecting comes to an end |
| `captcha` | `MCCaptcha.cfg` | who is accepted has solved, recently, as this client, its own challenge; live cookies are accepted and keys are durable |
| `http_listener` | `MCHttpListener.cfg` | requests are refused, challenged, counted and forwarded as the rules say |
| `server` | `MCServer.cfg` | what was read is in force once Pingoo runs, and the start panics on four known causes only; connections that are waited for get the whole timeout; shutdown is bounded and ends; queued clients are served |
| `server_shutdown` | `MCServerShutdown.cfg` | finding: proxied TCP connections are not waited for |
| `static_site` | `MCStaticSite.cfg` | the cache never serves an old content as current; the service implements `FileServer` |
| `acme` | `MCAcme.cfg` | starts fail for good only on a save that was cut or on what the operator left unusable; saved certificates are served from then on, with two exceptions; each order is validated with its own challenge; domains get and renew their certificates |
| `acme_wildcard` | `MCAcmeWildcard.cfg` | finding: the default certificate hides wildcard certificates |

`SavedIsServed` names its exceptions: a start whose listing was cut before the domain's
file, and one that has read another certificate with the same host name; the next order
for the domain ends both.

**Bounds.** The limiter runs with `U16Max = 3` (so that counters saturate), windows of 0, 1
and 2 seconds of two ticks each, eight ticks (the start window, a blue window, and a window
after a gap), five requests of the observed client and any number of another; `MaxPause = 2`
ticks is a whole one-second window. The tables are scaled down too (`MCCapacityOf`): the
smallest holds two clients, even if it is asked for one, where the standard library's holds
three, and a third client is one too many. It is let at a limiter with a map for one, a
window of a second and a maximum of 1, for two requests of the observed client and four
ticks, which are two windows and the rotation after them (`MCBound`); the other
configurations have two clients. The actor has a channel of one and two handlers with two
requests each: enough for a blocked sender, an abandoned probe in the channel, and a second
request behind it. The registry has a configured service with a static address and a host
name, a second service known by the label of a container only, two addresses (`127.0.0.1`,
which the first service and the container share, and `::1`), one change of the world at any
point of any round and one restart of the daemon, read by a TCP session and an HTTP request
for the first service, whose host name is given with `https`. The captcha has a drift and a
cookie margin of one tick and up to one tick of skew: as in the code the drift bounds the
skew and the cookie ends before its token. A challenge and a verification live for two
ticks; five ticks let a token be made, expire and be replaced. Two tabs work at once for
three ticks and without crashes, one at a time with them (`MCBound`): the tabs only meet in
the cookie jar, the crashes only in the keys. The request pipeline runs every pair of a
simple and any other rule with two services. The server has a web listener with two clients
(one stalls, one waits) and a raw one with one, with a handshake timeout of one tick and a
shutdown timeout of two. Its 29 configurations are a typical one (HTTPS and TCP+TLS), a
plain one (HTTP and TCP, defaults everywhere), an odd one (names written twice, a path in an
address, an IPv6 upstream, a rules folder that cannot be read to its end), three that make
the start panic, and 23 that differ from the typical one by one mistake each, one for every
check; each meets hosts with and without a resolver, on a 29th of February and not. The
static site has two visitors of `/page` and `/page.html`, so that one path is reached by
both, two changes of the folder at any moment (a file that is written twice under a handler,
a directory that appears with its index), one version too big for the cache and one with no
usable date. ACME has two domains and six folders: empty; with one domain's certificate and
a wildcard certificate for both; with a second certificate for a domain and all an earlier
installation leaves; with a certificate of another domain under a domain's name and an
edited `acme.json`; with a pair that does not load; with a `default.pem` for one host. One
exit, two failures (as many as attempts to save, or a cut listing and a failed order) and
one renewal may come at any step.

**Fairness.** The limiter task and handlers with a reply are polled again by tokio's
scheduler (weak fairness). Rounds of discovery go on, since the resolver has
a timeout of eight seconds and the daemon answers or closes its connection; a
stopped daemon is restarted eventually. Connecting to an upstream ends by its timeout;
no fairness makes an upstream answer, so an HTTP request may stay in `awaiting`. The
captcha has none: that a visitor gets through is not claimed. Two tabs that call
`api/init` in turn replace in the shared cookie (`captcha.rs:200`) what the other is
solving, and may do so for ever; nothing in the repository promises otherwise. In the
listeners timers fire and `tokio::select!` polls its branches in random order, so a branch
that is ready again and again is taken (strong fairness for `Accept` and the listener's
steps); clients get no fairness at all, and
`QueuedClientsAreServed` only speaks of processes that have a free descriptor again
and again. The start goes on because file system and network calls return; so do
the handlers of the static site.
The ACME loop's timer fires and its tasks are polled; nobody has to start Pingoo
again (`DomainsGetCertificates` speaks of a process that stays up), and failures are
bounded, as an order that always fails yields no certificate.

`CHECK_DEADLOCK FALSE` is set where the system may really stop: the server
exits or does not start, the bounded handlers of the limiter task run out of requests, a captcha
whose process failed to start and whose bounds are used up does nothing more, and
a Pingoo that cannot load its certificates stays down.

## 4. Findings

1. `rate_limiter.rs:129` tests for a gap with the start of the *green* bucket. When
   blue is current that start is a period old, so the end of every blue window
   looks like a gap and both buckets are reset: in the trace one request, counted in the
   blue window [2, 4), is in neither bucket at 4. The branch of lines 137-140 is dead
   (`BluePhase`, proved) and the window slides only every second time. The bounds
   that remain true are `AdmittedPerWindow` and `AdmittedInAnyPeriod`.
2. `docker/src/client.rs:74` reconnects only if there never was a connection.
3. `tcp_proxy_service.rs:74` detaches the copying task, so a graceful shutdown does not
   wait for a proxied TCP connection once its upstream is connected, whereas
   `docs/listeners.md:30` promises up to 20 seconds. `NoEarlyCut` is what holds for the other
   connections.
4. `tls_manager.rs:155` compares a file name that includes its extension with
   `default`: from the second start on the default certificate, whose pattern
   matches every name, is one of the wildcard certificates, and hides those that
   come after it in the directory.

Three more places contradict a document or a comment. They have no run of their own; a
property of a passing run says what does hold there, and names the line it falls short of:

* `rate_limiter.rs:154` compares a bucket's length with `HashMap::capacity()`, which is
  more than what `with_capacity` was asked for: 1792 for the 1024 of `docs/rules.md:127-129`
  ("can store no more than 1024 entries"), 14 for the 8 of the test's comment at line 273.
  `BucketsBounded`: the room a bucket has is what the map reports, and stays so.
* `service_registry.rs:164` marks a service as deleted when one of its upstreams is gone;
  the comment at line 50 says "services that no longer have upstreams". The loop of line
  138 runs after the updates, so the service has no upstream until the next round.
  `NoGapWithoutLoss` and `GapLastsOneRound`: only after a loss, and not longer.
* `config.rs:410` takes an error of `next_entry()` for the end of the rules folder, where
  `docs/rules.md:12` promises "all the `.yml` files". `RunsAsConfigured`: the rules that were
  read before the error are in force.

Further observations, which the model follows and no run contradicts:

* A listener that names a service of the other kind passes the validation and
  panics at `server.rs:90`, `:97`, `:109` or `:124`; so does an empty child command at
  `main.rs:63`.
* `config_file.rs:160` builds the error for a path in a listener's address but does
  not return it.
* An IPv6 address in brackets is refused for a listener (`config_file.rs:180`) and taken
  for a domain of an upstream (`config_file.rs:321`), since `host()` and `host_str()` keep
  the brackets.
* A name written twice in one section of a YAML file is replaced silently (the TODO at
  `config_file.rs:22`); `tls_manager.rs:143` ends the listing of certificates on an error, like
  `config.rs:410`.
* On a 29th of February the default certificate cannot be created: the start panics
  (`certificate.rs:151`).
* An exit between the two writes of a renewal, or of the default certificate, leaves a pair
  that keeps Pingoo from starting until somebody removes it, and so does an unusable pair or
  a `default.pem` for other names than `*` that an operator put there (`CompleteSavesLoad`:
  nothing else keeps every start from succeeding).
* An HTTP request to an `https` upstream drops the upstream's port, and a request that
  was accepted is awaited without a timeout (`http_proxy_service.rs:125`, `:192`).

## 5. Proofs

Every invariant and every action property of the passing runs is a theorem, for
every value of the constants that satisfies the assumptions below. Most are not
inductive; each proof module begins with an invariant that is, made of named parts,
which TLC was given first. A proof that it is preserved has one step per action and
one lemma per part an action can disturb.

**Assumptions.** Besides typing conditions and finiteness of the sets the model counts:

| Assumption | What it says | Why |
|---|---|---|
| `ConstantsAssumption` | `max` is at most `U16Max`; `MaxPause` does not exceed the clock's bound | the field is a `u16` |
| `CapacityAssumption` | a map reports at least what it was asked for, and what it reported if it is asked for that | the documented promise of `with_capacity`, and how hashbrown sizes its tables; otherwise a rotation, which asks for the reported capacity (lines 128-140), would enlarge a bucket |
| `ActorAssumption` | `MaxRequests` suffices for all requests of the observed client's handlers | otherwise the bound of the history, not the code, would refuse one |
| `RegistryAssumption` | a service outside the configuration has no static upstreams | they are written in the configuration |
| `ProxyAssumption` | a session is of one proxy, only upstreams have names with `https`, and the TCP proxy tries at least once | `retry` is called with 3 (`tcp_proxy_service.rs:62`) |
| `CaptchaAssumption` | the clock's skew is within the drift; challenges do not run out | the drift is what the code tolerates; a challenge is random in the code and a free number here |
| `TlsAssumption` | files contain something that parses or not; a folder without `default.pem` describes the one Pingoo makes; `*` matches every domain; no certificate is called `account` | the last is only a mark for `acme.json` |
| `ServerAssumption` | sections, files and lists of names are sequences, and the readable entries are the first of a folder | repeated names are allowed |
| `SiteAssumption`, `ListenerAssumption`, `AcmeAssumption` | types | |

*Rate limiter.* `AdmittedPerWindow` is not inductive: a bucket has to remember that what it
admitted was counted. `IInv` says of both buckets that their counters are `u16`, that they
do not start in the future, that each client's `admitted` is at most its counter and at most
the limit, and that they hold no more clients than their map was allocated for, which is
what `CapacityOf` makes of the configured number; together with `BluePhase`, which a
rotation needs to know which bucket it replaces. `ConfigFacts` supplies that the limit is
below `U16Max`: a saturated counter exceeds it, which is why line 98 lowers it.
`CountedIsGood` is the heart: a request is admitted only if its increment stays within the
limit. Theorems: `LimiterInvariant`, `TypeCorrect`, `AdmissionBound`, `BlueFollowsGreen`,
`CapacityBound`.

The properties about the past need more. `HInv` ties the history to the buckets: windows of
entries do not overlap and the current one is the last (`Windows`); the admitted
entries of each window are at most the limit, and those of the current window are
what its bucket has on record (`Admissions`); the counters of both buckets are
at most the entries of their windows, and not lost (`Counters`), so a rejected entry comes
after more than the limit of entries in two periods (`Rejections`); and whom a window
served once it does not answer with an error later (`Served`). An interval of one
period meets at most two windows, which gives `AdmissionsInAnyPeriod`; the last two parts are
`RejectionsAreJustified` and `CountedClientsAreServed`. No induction over the sequence is
needed: the sets of indices are finite, and a step adds one index to one of them.

*Limiter task.* `AInv` says that a probe in the channel is about a request that was made and
not yet decided, that no two are about the same request, that a probe whose reply is still
awaited is about its handler's last one (`ProbesAreFresh`, `OpenProbesAreAwaited`), and that
the reply a waiting handler finds belongs to the request it waits on (`RepliesAreCurrent`).
Without the numbers an abandoned probe could be taken for the request that followed it; with
them `VerdictsReachTheirRequest` is a consequence. Its last part counts the decided requests
of the observed client, so that the history has room: every step of the task is a step of
the limiter (the lemma `LimiterInTheTask`), and the sequential bounds carry over
(`ConcurrentAdmissionBound`).

*Service registry and proxies.* `RegistryInv` adds to the properties what a round in progress
guarantees: until the diff the table is as it was when the round began
(`Collecting`), and during the updates every difference between table and round is
still pending, services that were missing are not deleted, and a deletion means
a loss (`Applying`). Theorems: `RegistryInvariant`, `RegistryTypeCorrect`,
`TableIsExact`, `GapIsShort`, and the action property `GapMeansLoss`. Sessions only read, so
`ProxyInv` is `RegistryInv` and `SessionInv`, which bounds the attempts of each proxy; it gives
`ProxyInvariant`, `ProxiesReadAnExactTable` and the action property `AttemptsAreCurrent`, in
which an `https` upstream counts by its name only.

*Captcha.* Everything is in cookies, so `CInv` is about every token that exists, in
the jar or in a tab: it was signed with a key that is in the file or was retired,
a challenge token names the client its challenge is for, and a verified token is
the one its client was given when it last solved, with the times that follow from
that moment and the skew it had (`TokenInv`). `FileInv` says when the file holds a key;
it is why a crash during the first start cannot leave a process signing with a key
nobody will know. Theorems: `CaptchaInvariant`, `CaptchaTypeCorrect`, `KeysAreDurable`,
`ChallengesAreBound`, `AcceptanceIsEarned`, `SentCookiesAreAccepted`.

*Request pipeline.* `HandlerInv` is the loop invariant of the two nested loops: the
request passed the screening (`Screened`), the position is at an action of a rule that
matches (`InLoops`), nothing before it turns the request away, and exactly the limiters
before it have counted it (`Passed`). The lemmas are about the lexicographic order of
positions. Theorems: `HandlerInvariant`, `HandlerTypeCorrect`, `AnswersFollowConfiguration`, for
lists of rules of any length.

*Server.* `ShutdownHasABound` is an accounting argument. While a handshake holds an HTTPS
listener's loop, the time that passes is charged to that connection, which has two
timeouts to spend (`Used`) and is never accepted again; once it is past its handshake it
belongs to `Done`, whose `Allowance` is spent; after the loop has seen the signal
time is charged to the listener's `waited`. `TimeInv` is this sum, `HoldInv` that one connection
holds a loop, `WaitInv` that a listener which returned has waited for what it leaves
behind, `StartInv` that the bound listeners are the first ones of the configuration.
Theorems: `ServerInvariant`, `ServerTypeCorrect`, `ConnectionsAreNotCutEarly`,
`ShutdownHasABound`, and `StartPanicsAreKnown`, which follows the services from the file to the
two maps of `server.rs:88-124` and leaves four causes: a listener that names a service of the
other kind, an empty child command, no resolver, and a default certificate to be made on a
29th of February.

`ConfigurationIsInForce` needs what the loops of the configuration compute. It is about the
rules that were read (`RulesRead`), as the last entry of each name in a file has them;
rules behind an error of the listing are not among them. `Filter` is a
bijection from ranks to what passes the test (`FilterIsBijective`); `Extend` with other
names is concatenation (`ExtendAppends`); and the map after n files has exactly the
rules of these files, each once (`Merging`, `MergedRules`). The last is an induction on n,
done without an induction rule: the least n at which it fails (`LeastNumber`) is neither
0 nor the successor of one at which it holds. `StartedInv` adds that the listeners
started so far have their services and their protocol.

*TLS and ACME.* `AcmeInv` follows a certificate from the order to the disk: an order's
serial is newer than what is saved for its domain, once issued it is in memory and
once written in the key file (`OrdersAreNewer`); the disk has what was reported as saved
or something newer, unless the file is partial (`DiskHasSaved`), and so has memory from
the moment the files are loaded, for the domains in `own` (`MemoryHasSaved`); a pair that
does not load is being written or in `suspect` (`PairsLoad`), and so is what made a start
fail for good (`FailedIsSuspect`). A `default.pem` of another kind is never replaced and never
passed (`ForeignDefault`), without which a start might write the key of a certificate that is
not its own. No task of an earlier process is left (`TasksRunWhenUp`). `LastExists` says that
of the files with a certificate for a name one is the last in the directory: the least
distance from the directory's end exists (`NatLessThanWellFounded`). Theorems: `AcmeInvariant`,
`AcmeTypeCorrect`, `CompletePairsLoad`, `SavedCertificatesAreServed`, `ChallengesAreTheOrders`.

*Static site.* A step of `StaticSite` is a step of `FileServer`, or leaves its variables
alone, only in states in which what the handlers, the cache and the browsers hold is
in order. `SiteInv` says so: types; a path that is a file has had a version
(`FileHasVersion`); an entry of the cache, and a browser's copy, consist of a stamp, a
first part and a rest that are existing versions in this order (`CacheOrdered`,
`CopyOrdered`): a content is never older than the metadata it is kept with, so a
stamp that is still the file's version means that nothing changed since. A handler
holds versions its file has had since the request, in the same order, and the path
its URL stands for, unless the folder's structure changed (`HandlerKnows`); and
`oldest` is what the history claims (`OldestIsKnown`). Each is needed for another:
`CacheIsCurrent` alone is not inductive, because the next insertion may be of any
handler. Theorems: `SiteTypes`, `CacheCurrent` and `SiteImplementsFileServer`, the safety
part of the refinement.

**Only model-checked.** What must eventually happen, since fairness and `ENABLED` are out of
the prover's reach: `HandlersAreAnswered`, `SentProbesAreCounted`, `TableConverges`,
`SessionsEnd`, `ShutdownEnds`, `QueuedClientsAreServed`, `DomainsGetCertificates`, and the
part of `ImplementsFileServer` that says that every request is answered. The four findings
are counterexamples, which TLC finds.

## 6. Not modelled

GeoIP, lists and rule expressions only supply inputs whose outcomes are enumerated;
loading them is a step of the start that may fail. Cryptography, encodings, header
rewriting of the HTTP proxy, logging and the captcha's layout are left out, and the
type declarations of the Docker client have no behaviour. Two contents of a file
with the same size and modification time are not modelled (the code's own TODO at
`http_static_site_service.rs:147`), nor what becomes of the child process, whose exit
nobody looks at, nor where an `https` upstream's name leads the HTTP client,
nor connections in the backlog of a socket whose listener
has stopped accepting, beyond their reset.

## 7. Plan

Done, in this order: rate limiter; limiter task; registry, Docker client; proxies;
captcha; request pipeline; listeners and shutdown; TLS manager and ACME; static site
with its abstract specification; configuration and the start of the server, composed
with the listeners; the proofs of all their safety properties and of the refinement of
the static site.

Next: the steps under the liveness properties that are not themselves temporal, as
theorems (for instance that the shutdown's remaining time decreases with every tick, and
that a probe moves forward in the channel); that findings 1 and 2 follow from the
invariants, as theorems about every instance; shorter proofs where two modules prove
similar facts about finite sets.

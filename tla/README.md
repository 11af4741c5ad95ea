# alpaca-sdk: a verification project

TLA+ models of the parts of the Rust SDK for the Alpaca APIs whose behaviour is
hard to test: the retry loop that decides whether an order may be sent twice, the
two websocket streams that reconnect by themselves, the event streams a caller resumes,
the walks that collect a whole listing page by page, the packing of subscriptions
into frames, the table of what each client method sends, who is shown the
credentials, the blocking facade, and the checks a request passes before it is sent.
TLC checks the models on small instances; TLAPS proves the properties that matter most for
every value of the constants. All paths below are relative to the repository;
`rest.rs` and the like are in `src/`.

## 1. The system

| Component | State it keeps | Operations | Interacts through |
|---|---|---|---|
| REST transport (`rest.rs`, `config.rs`) | none between calls; within a call the attempt number and the pause | `get` ... `get_bytes`, `request`, `request_raw`, all through `execute_response` | HTTP with the server; the caller may drop the future |
| Backoff curve (`backoff.rs`) | none | `reconnect_delay`, the checks of the builders | called by the transport and both streams |
| Market data stream (`data/live/`) | failures in a row, session clocks, messages decoded and not handed out; `SubscriptionSet` | `run` with `connect`, `expect_control`, `decode`; `subscribe`, `unsubscribe`, `payloads` | websocket with the server; a generator polled by its consumer |
| Trade update stream (`trading/stream.rs`) | failures in a row, session clocks | `run` with `connect`, `decode` | websocket; a generator polled by its consumer |
| Whole-listing walks (`trading/client.rs`, `broker/client.rs`) | the filter's cursor, token or offset, what was collected and seen | `walk_orders` and the walks over transfers, activities, subscriptions, rebalancing runs | calls of the transport, while other users change the listing |
| Market data pagination (`data/pagination.rs`) | the token, the tokens seen, what was merged | `get_marketdata` | calls of the transport |
| Routes (`trading/client.rs`, `broker/client.rs`, `data/historical.rs`, `data/meta.rs`) | none | one call of the transport each, sometimes behind a validation | the transport |
| Validation (`*/requests.rs` and the smaller route families) | a request under construction | constructors, builders, public fields, `validate` | the routes, which call `validate` before they send |
| Event streams (`sse.rs`, `*/events.rs`) | the parser's pending event and last id; the caller's cursor | `subscribe`, the parser, `query` of a filter | one long response of the server, and the next one |
| Stream settings (`data/live/`, `trading/stream.rs`) | min and max backoff, `data_timeout`, `stable_session` | setters by value and in place, checked when they are called | `run`, which takes them as they are |
| Clients and credentials (`auth.rs`, `config.rs`, `rest.rs`, `sse.rs`) | the default headers of an HTTP client | constructors, `into_basic`, `apply`, the four builders of HTTP clients | servers that redirect |
| Document download (`broker/client.rs`) | none between calls | `download`, with a retry loop of its own that reads the body inside | a client that follows redirects |
| Blocking facade (`blocking.rs`) | a runtime of its own | `new`, `call`, `drop` | tokio, which panics where a worker would block |
| Errors, models, wire types, data frames | none | | |

The SDK has no shared mutable state and no background tasks, and crashes leave
nothing behind to recover. What is concurrent is the SDK and the world: the server acts on a request while the client waits,
gives up or sends it again; a consumer sits on an item while the network goes on;
a listing grows between two pages.

### What is hard here, and what makes each component correct

* **Transport.** An answer that says "retry" (a 504, a 500) may come from a
  gateway while the backend carries the request out, now or much later. A replay
  then acts twice, and a caller who is told "retries exhausted" may do it again.
  Correct is: an order, a PATCH or a DELETE that liquidates is carried out at most
  once by one call; `RetriesExhausted` and a final 429 for one of them mean that
  nothing was done *and nothing will be*; load and sleep are bounded by the
  caller's own configuration; a call with a deadline returns.
* **Streams.** The supervision loop must not give up except when trying again is
  useless, and then for good; must not hammer a server that accepts and hangs up,
  nor stay at its longest pause on a connection that works but is quiet; must
  notice a connection that is kept alive but silent; must hand over everything
  that arrived, what cannot be decoded included; and must come back.
* **Walks and pagination.** Against a server that pages by its rules the result is
  exact, although items arrive meanwhile; against any server there are no
  duplicates, the cap holds and the walk ends.
* **Subscriptions.** Every symbol is sent once, in frames that fit.
* **Event streams.** The SDK hands events over and reconnects nothing: the caller
  resumes by id. An event may bring no id, the cursor may be inclusive or not, it has
  another name on v1, the end does not say why, and the transport must not end a
  stream by itself. Correct is: resuming passes over nothing but what the server
  dropped, and comes to everything.
* **Credentials.** A key pair in headers of its own names is sent to whoever a
  redirect names, since `reqwest` strips `Authorization` only. Correct is: credentials
  are shown in the environment that was asked for and nowhere else, whatever a server
  answers.
* **Settings.** A setter that works in place and refuses leaves the stream with its
  caller, who may run it.
* **Facade.** It refuses what tokio would panic about, before anything is sent, hides
  no other panic, and can be dropped anywhere.
* **Routes.** A route that submits an order, liquidates, exercises or moves money
  must go through a method and replay class for which the transport does not
  repeat what may have happened.
* **Requests.** Builders can be chained in any order and fields are public, so only
  the check at submission stands between a caller's slip and an order. What
  contradicts itself must not be sent; what is built as documented must be.

`PROJECT.json` lists the hazards one by one, each at its line, with the properties
that would catch it going wrong.

## 2. The modules

| Module | Stands for | Variables and the code's state | Actions and the code's steps |
|---|---|---|---|
| `Backoff` | `backoff.rs`, `saturating_add` | – | pure operators; the jitter's draw is a set |
| `EffectOnce` | (abstract) what a caller is promised about a REST call | `effects`, `result` | `CarryOut`, `Return` |
| `RestRetry` | `execute_response` and `execute` | `pc`, `attempt`, `delay`, `outcome` are the loop's own; `wire`, `held`, `effects` the gateway and backend | one action per exit and branch of the loop; `Drop` is cancellation; the server rate-limits, accepts, breaks the connection, carries out or discards |
| `Routes` | the methods of all clients, and the wrappers of `RestClient` (`Request`, `SendVoid`, ...) | – | tables: each route with its method and replay class |
| `Clients` | the clients over the transport | those of `RestRetry` | those of `RestRetry`, for the calls the tables make |
| `Reconnect` | (abstract) what both streams promise about reconnecting | `mode`, `failures` | `ComeUp`, `FailToConnect`, `GoDown`, `GiveUp`, ... |
| `DataStream` | `DataStream::run` with all it calls | `retries`, `delivered`, `sinceData` (`last_data`), `age` (`session_start`), `batch` (decoded and not yielded), `inbox` the socket | each await point and branch of `run`; `Push` is the server, `Tick` the clock |
| `TradingStream` | `TradingStream::run` with all it calls | the same, with `reply` for the handshake | the same |
| `SubscriptionPayloads` | `SubscriptionSet` | `channels`; `todo`, `batch`, `current`, `payloads` are the locals of `payloads()` | `Add`, `Remove`, `Pack`, one `PackSymbol` per pass of the inner loop, `Finish` |
| `StreamSettings` | `StreamConfig`, the setters of `StockDataStream` and its like and of `TradingStream` | `settings`; `owner` is what they are set on, `holding` whether the caller still has it | one action per setter, `RunStream` |
| `Endpoints` | `BaseUrl`, `known_feed`, `Credentials`, the builders of HTTP clients, the constructors | – | pure operators: product, environment and credential to a host, headers and what the client follows |
| `Exchanges` | one use of a client or stream, from its construction to what the caller is told | `use`; `stage`; `at`, `carried`, `hops`, `attempt` of the request at hand; `requests` is who was shown what; `facade` | `Refuse` and `Construct`; `CallRefused`, `DropFacade` of `Blocking`; `Begin`, `FollowRedirect`, `Retry`, `Accept`, `ReadBody`, `Open`, ...: the server chooses |
| `LogReader` | (abstract) what a reader of an event stream may rely on | `log`, `taken`, `lost`, `anchor` | `Take`, `Lose`, `Append1` |
| `EventStreams` | the routes and filters of `sse.rs`, `broker/events.rs`, `data/events.rs`, the parser, and a caller who resumes | `route`; `conn` with the parser's `lastId`; `cursor`, `taken`, `finished` are the caller's; `log`, `lost` the server's | `Subscribe`, `Deliver`, `Disconnect`, `Close`; `Emit` and `DropMessage` are the server |
| `Connections` | `Exchanges`, `EventStreams`, `StreamSettings` and `SubscriptionPayloads` side by side | `subject`: which of them a behaviour is about | those of the subject |
| `Walks` | the five walks | `size` and `position` are the filter, `collected` also the set of ids seen | `Fetch` is one request, `File` one item, then the exits in the order the code tests them; `Arrive` is somebody else |
| `MarketDataPages` | `get_marketdata`, the routes of `data/historical.rs` that go through it | `token`, `seen` (`seen_tokens`), `lists` and `merged` (the result map) | `Fetch` is one pass of the loop; what becomes of a symbol answered with null depends on the route |
| `RequestChecks` | constructors, builders and `validate` of 20 kinds of request, and batch journals, which have none | – | pure operators over a request: its kind, what each field holds, its list of parts |
| `Submissions` | a caller, and a client method up to the point where it sends | `request`; `stage`; `exits` and `edits` are what the caller did | `Build` a class builder, `Assign` a public field, `Submit` |

`MC*` modules only give instances to the constants. `*Proofs` modules hold theorems,
`ConnectionsProofs` those about all four parts of `Connections`, `RestRetryProofs` also
those about `Clients`; `DataLemmas` holds the lemmas they share, about the backoff curve,
sums and queues. Definitions called `X_SomeBug`, next to `X`, are the
ways in which `X` could plausibly be wrong; nothing uses them, and replacing `X` by
one of them must violate the property that `PROJECT.json` pairs with it.

How they compose: `RestRetry`, `DataStream` and `TradingStream` draw their pauses
from `Backoff`; `RestRetry` implements `EffectOnce`, both streams implement
`Reconnect`; `Clients` is `RestRetry` with the calls of `Routes`; `Submissions` says
which requests get as far as the transport. `Exchanges` and `EventStreams` share the HTTP
clients of `Endpoints`: the client that streams use has no deadline, which is what lets
a stream go on, and the one that downloads use has one, which is what makes a download
end. The settings that `StreamSettings` lets through are what `DataStream` and
`TradingStream` assume of theirs (`StreamAssumption`). The walks and the pagination use from the transport only that a call
returns with a page or an error, which `EveryCallReturns` of `RestRetry` says.

### Abstractions

* Time is counted in units; what the code calls now, later or a deadline keeps its
  order. Timers that are due are served before time goes on, which makes the
  staleness properties exact. A clock stops counting once it has passed the
  threshold it is compared with.
* A message is its kind. The kinds are those the code branches on: market data, an
  acknowledgement, an error, a fatal error, a frame that does not decode.
* Of an amount the sign is kept, of a field without a rule of its own whether it is
  set. Fields that no check and no builder looks at are left out, except the amounts
  and documents among them: the quantity of a redeem callback, the amounts of batch
  journals, the documents of an application.
* In `Exchanges` a retry is a step that a server may cause up to `attempts` times;
  which answers are retried, and after which pause, is `RestRetry`. A URL is its host.
* The id of an event is its place in the log. The caller of an event stream is not in
  the repository: it does what the documentation of `Event` and
  `EventStreamRequest` tells it to (resume from the last id it has handled, and take
  the first event after a resume for a duplicate if it has that id).
* An item of a listing is its number in the order of creation.
* u32 counters have a width `MaxU32` of a few values, with saturation where the
  code saturates.

## 3. The runs

| Run | Question | Result |
|---|---|---|
| `rest_calls` | All of the transport's promises, for every kind of request the routes send, under an exponential policy and under the largest number of attempts; no route that acts is done twice; the retry policy is neither exceeded nor withheld; the doubling loop is the capped power of two it is documented to be and a checked window never spins | hold |
| `connect_error` | Does a failure to connect mean that nothing was done? | **no** |
| `data_session` | With prompt and slow consumers and a read interval that is no divisor of `data_timeout`: silence is noticed in time, no read oversleeps, nothing that arrived is lost, fatal is final, supervision as in `Reconnect`, silent sessions end, the stream comes back | hold |
| `data_stale_backlog` | Is a connection called stale only for want of market data? | **no** |
| `data_handshake` | Does every handshake end? | **no** |
| `trading_session` | The trade update stream's supervision, delivery, forgiveness and return | hold |
| `trading_refusal` | Does the stream end only for refused credentials? | **no** |
| `walks` | Exactness against orderly servers, safety and termination against all | hold |
| `walks_transfers` | Does the walk by offset return all transfers while new ones come in? | **no** |
| `pages` | Exactness of the merged result, for every kind of route and with symbols answered null, and no token followed twice | hold |
| `connections` | Four questions about independent parts. Exchanges: credentials stay in their environment, calls and downloads with a timeout end, the facade adds one refusal. Event streams: resuming implements `LogReader` and comes to everything. Settings: what runs has passed its checks. Subscriptions: complete, without repetition, in frames that fit | hold |
| `requests` | The last class builder decides the exits; orders, banks, journals and blank requests are accepted as built exactly when they should be; assignments by hand get past no check, each kind as far as it has one | hold |

The five that fail show where the code does something else than its documentation
says; `findings` in `PROJECT.json` quotes the lines:

* `data_timeout` is measured from the last data *handed to the consumer* and is
  tested before the socket is read, so a consumer that sits on one item long
  enough makes the stream drop a connection with unread market data on it.
* The reads of the handshake have no timeout, so a server that accepts and says
  nothing holds the stream for ever.
* On the trade update stream every JSON reply but "authorized" ends the stream.
* A transfer created between two pages can make the walk by offset stop early.
* The failure to connect that a caller is shown may be that of a retry after a 504,
  so it does not guarantee that the request was not processed.

Three disagreements of words and code have no run, since no state of the program
tells them apart:

* `Blocking::call` says that any panic but tokio's own is raised again untouched
  (`src/blocking.rs:177`); one that tokio raises inside the caller's own future,
  which starts a runtime there, is reported as a misuse of the facade. The property
  `FacadeIsTransparent` excepts that case.
* `Error::is_transient` (`src/error.rs:142`) tells a caller who re-issues a call to go by the
  method; by that rule the DELETEs that liquidate may be sent again, which the
  client itself never does.
* `get_non_trading_activity_events` (`src/broker/client.rs:629`) says that two filters are
  not exposed which `GetEventsRequest` has.

### Bounds, and why they are enough

* `rest_calls`: one call, since the client keeps no state between calls and the
  proofs cover any number. Three retries reach the first, a middle and the last
  attempt and the ceiling of the curve; `attempts = MaxU32 = 4` reaches the
  saturation of `attempts + 1`. Four statuses: a success, 429, a gateway's 504, a
  plain refusal. Retry-After is absent, 0, or beyond every cap.
* Streams: `InboxCap`, `SessionCap` and `Patience` (`MaxHold` for trade updates) bound the frames on the socket,
  the messages of one session and the ticks a consumer sits on an item. They let
  an item be read before, at and after each deadline, a batch be cut by a fatal
  error, and frames wait behind an item that is held. `MaxU32 = 3` lets the count
  of failures stick.
* `walks`: four items and pages of two, with server caps of one, two and three, so
  that pages are short, full and cut, and the cap falls inside and between pages.
* `pages`: listings of up to five items over two symbols with pages of two, every
  limit around the boundaries; a server that makes things up has two items and
  three tokens, enough for a token to repeat at once and for a cycle.
* `rest_calls` also checks the curve, after as many failures as a call has behind it, for
  bases and ceilings up to 9 (`Durations`): with four failures every case of the jump
  to the ceiling, and of a ceiling that is not reached.
* `connections`, exchanges: every product with every operation it has, in every
  environment, with every credential; every context of a call, for one client with and
  one without redirects. `Targets` are a host of no environment, and two of the live
  one, so that a redirect may lead out of the test environment. `RedirectLimit = 2`
  stands for the 10 of `download_client` and `Retries = 1` for the configured attempts:
  a redirect away, one back, one too many, and all that again on a second attempt.
* `connections`, event streams: `MaxLog = 3` events, of which any may lack an id, and
  `MaxFaults = 2` broken connections or dropped events: an event handled before, at and
  after the cursor, with a break on either side. Every stream, inclusive or not.
* `connections`, settings: `Durations` of zero to three contain the defaults, values
  below and above each, and what is refused. Subscriptions: four symbols on three
  channels, one symbol alone larger than a frame, one channel that may not be named.
* `requests`: `MaxEdits = 2` fields assigned by hand, since every rule relates two
  fields at most; builders are not bounded. Legs from none to five, with a
  repeated contract next to and away from its double; agreements, documents,
  weights, settlements and batches up to two, so that a bad one is alone, first or last.

Deadlock checking is off where a system may really stop: a call that returned, a
stream that is over, a walk that ended.

### Fairness

Nothing is assumed of a server unless a property says so. `FairSpec` always says
that the executor polls a task that can go on and that timers fire. For the
streams it adds that the consumer comes back for the next item and that the
operating system settles a TCP connect; time needs strong fairness because the
server may interrupt a wait again and again. `ComesBack` in addition has the
premise `ServerLetsIn`: a server that is tried again and again lets the client in
at some point. `EveryCallReturns` holds for configurations with a deadline, as
`HasTimeout` says; without one `send().await` may wait for ever by design.

In `Connections` the steps of an exchange that belong to the SDK, its runtime and its
timers are fair (`Own`), those of the server are not: `CallsEnd` rests on the deadline
alone. Of an event stream, the caller subscribes again when it is over
(`Subscribe`), as the documentation tells it to, and a connected server sends what is due (`Deliver`)
and closes after the last event asked for (`Close`). Nothing makes it emit, and it may break
connections and drop events up to the bound.

## 4. What is proved

The theorems hold for every value of the constants that satisfies the assumption
named in the module (`RestAssumption`, `StreamAssumption`, `TradingAssumption`, `WalkAssumption`,
`PagesAssumption`, `SubmissionAssumption`, `ExchangeAssumption`, `PayloadAssumption`,
`SettingsAssumption`, `EventAssumption`), which TLC evaluates in the runs. Every
invariant, action property and refinement that a passing run checks is the statement
of a theorem; what is model-checked only is named at the end of this section. The
inductive invariants that are not properties of a run were checked by TLC on the
instances of the runs before they were proved.

* `RestRetryProofs`: `TypeCorrect`, `OrdersPlacedOnce`, `RefusalIsFinal`,
  `PolicyIsKept` and `Refinement` (to `EffectOnce`), for any
  number of interleaved calls, any statuses and any policy. The properties are not
  inductive: an order could be carried out twice from a state in which a copy is
  held and a second request is on the wire. The invariant `IInv` therefore says
  where the exchange stands at each place of the loop (`Exchange`), how many copies
  can be about for the attempts made (`Load`), that a call which acts only goes on
  after a 429, with no copy about (`Once`), and how much has been slept for the
  attempts made (`Pausing`). Each is local to a call; `OthersUnchanged` and `Frame`
  carry it over the steps of other calls.
  `PolicyIsKept` joins what a policy bounds (executions, sleep) with what it grants (a
  call that may be repeated does not end early). `ActingRoutesAreDoneOnce` follows
  from `OrdersPlacedOnce`: every route that acts is in the tables with a method and
  class that count as acting. `CurveIsDoubling` is the documented shape of the backoff
  curve, from `CappedDoubling` of `DataLemmas`.
* `DataStreamProofs`: all safety of the market data stream, for every window, timeout,
  poll interval, batch and bound. `StreamTypes` rests on `Sound`: the flags, the clocks
  and the queues by themselves, and how they hang together (`Coherent`).
  `StreamLosesNothing` counts: what was sent is what was handed out, what is decoded and
  not yet yielded, without the item in the consumer's hands (`InHand`), and what is
  unread on the socket, a sum over the frames of the inbox. `ReadsMeetDeadline` is
  inductive with the types: the poll is cut to what `data_timeout` leaves, and time takes
  from both alike. `SilenceIsNoticed` needs
  that, while the consumer is prompt, the silence of the server is never longer than
  what the clock of the code says, and is nil with market data unread (`SilenceTracked`). `StreamSupervises` maps every step to one of `Reconnect` or to a
  stutter.
* `TradingStreamProofs`: `UpdatesAreNotLost`, the same account, where a frame holds at
  most one item, so that the places of the inbox are counted (`Counted`);
  `LongSessionsAreForgiven`, an action property, since the count starts again after a
  session that lasted and the first pause of a row is the shortest (`FirstWaitIsShort`); `TradingSupervises`, the same `Reconnect`.
* `WalksProofs`: `EveryItemOnce`, `CapIsKept`, `RequestsAreBounded`, `WalksAreTyped`,
  for every page size, cap and listing and every server, the lawless one included. The
  invariant adds that a walk only asks again after a page that brought something new
  (`Learning`) and while the cap is not reached (`Wanting`); that distinct items are
  no more than there are items is an injection into a finite set.
  `NothingIsPassedOver`, `NoRowIsWasted` and `WalksAreComplete` are about servers that
  page as documented. Their invariant (`Gapless`) has a low-water mark, the place the next
  page begins after: everything above it that was listed at first has come (`Covering`),
  and has come newest first, in the result (`InOrder`) and in the page at hand
  (`PageInOrder`), without which a cap reached in the middle of a page could cut a gap. A
  page holds nothing known unless items arrived under a walk by offset (`Fresh`).
* `MarketDataPagesProofs`: `NoTokenIsFollowedTwice`, from the invariant that every
  token asked with is remembered and the next one is new (`Fresh`). `PagesAddUp`, the
  exactness of the merged result, from `Faithful`: between two pages the lists are the
  items from the caller's token to the next one (`Holding`), which is further than
  every token seen and not past the limit (`Advancing`); at the end they reach where the
  request ends (`Ended`). What the lists hold over all keys is then the distance covered
  (`CountedSoFar`), since the keys share a stretch of the listing out (`UnderShares`),
  and appending a page keeps a list the sorted sequence of its items (`AscendingJoins`).
  `PagesAreTyped` includes that the limit sent is between one and a page.
* `ConnectionsProofs`, for the four parts of `Connections`:
  - `CredentialsStayHome` and `FacadeAddsNothing`, for all uses,
    redirect targets and limits. The first needs where the request at hand is and what it
    carries (`KeptHome`): only a download leaves the host it was sent to, it carries
    `Authorization` only, which it loses there, and every product's origin is a host of its
    environment (`OriginTrusted`). The second needs that an exchange takes its stages in
    order (`InOrder`) and that one from a worker never gets past its construction
    (`WorkersWait`).
  - `StreamsRunSoundly`; the settings are sound all along, whoever
    holds the stream (`SoundAllAlong`).
  - `ResumingSkipsNothing`, the refinement of `LogReader`, for logs of
    any length and any number of faults. That a resumed stream begins where the caller
    means it to is a lemma about queries (`QueryIsUnderstood`); the invariant (`Resumable`)
    says that nothing promised is missing up to the caller's cursor, nor before the event
    to be sent next, and that the id the parser holds is the cursor or none. Without the
    last part, an event without an id of its own could take an older one for its own and
    be dropped as a duplicate.
  - `SymbolsArePackedOnce`, `MessagesFitFrames` and `SocketsOpenForSomething`, for any
    channels, symbols and sizes. The invariant (`PackingSound`) accounts for every symbol:
    it is still to do, in the message being built, the batch at hand included, or in exactly
    one message that is finished (`Accounting`); and the message being built is empty, fits
    a frame or is a single symbol. That the check before a symbol joins is enough is a fact about
    sums: a symbol more is its size more.
  - `ConnectionsKeepTheirPromises` carries all this over to the composition that the run
    checks, by a lemma (`PartsAreThemselves`) that only unfolds it.
* `SubmissionsProofs`: `ExitsOfLastBuilder`, `ChecksAreKept` and
  `BuiltIsAccepted`, for all lists of parts and any number of assignments. The first
  is inductive; the second follows from what `Valid` excludes for each kind, and says
  nothing of what it does not look at (section 5); the third, which is about orders,
  banks, journals, callbacks and blank requests, needs that a request nobody has assigned to is a single-leg order, a
  multi-leg order without a builder, or one a builder has reclassed (`AsBuilt`).
* `DataLemmas`: what the recursive definitions compute, for every input. The induction
  rules of the library take a predicate as a parameter, which the provers cannot
  instantiate; here each induction is a first-order argument instead. The curve
  (`CappedDoubling`): a least index where the recursive function and the power of two
  differ has a predecessor where they agree. Sums (the lemma `SumCounts`): a sum of naturals over a
  finite set is the number of cells in a bar chart, by a minimal subset where they differ,
  and every other fact about sums is then one about cardinalities.

Three definitions have a form that can be reasoned about rather than the library's
shortest: sums are `SumFunctionOnSet` and not a fold with an operator, which no prover
takes; the size of a message in `SubscriptionPayloads` is such a sum; and what a page
holds for a key, in `MarketDataPages`, is the sequence whose j-th item has j - 1 before
it (`Ascending`), not a `SelectSeq`.

Only model-checked: what holds under fairness (`EveryCallReturns`,
`SilentSessionsEnd`, `ComesBack`, `PagesEnd`, `CallsEnd`, `CatchesUp`), which is out of
the prover's reach, and the five runs that find a violation. The safety under some of
these is proved: `RequestsAreBounded` for the walks, and for `PagesEnd` that no token of
a finite supply is followed twice.

## 5. What is not modelled

* Of the routes, paths, queries, bodies and the decoding of answers, except the
  queries of event streams, whose names and forms depend on the version; of the
  requests, the fields that no check looks at, and the kinds that have none, batch
  journals excepted.
* Models, enums, wire types, codecs and data frames are conversions of single values
  without state, which unit tests reach; so is reading an error out of a response
  body. Of the queries of market data the limits and page sizes are modelled; time
  frames, and the type and region filters of corporate actions, are text.
* The failure of the facade to start its runtime, and of a constructor to build an HTTP
  client for any reason but its credentials.
* The time a write to a full socket takes is behaviour of the operating system: a
  close or a subscribe is one step.

What the SDK leaves to Alpaca, and `ChecksHold` therefore does not promise: the sign of
what an order, a journal (`CreateJournalRequest::validate` looks at which fields are set
only), a batch journal or a redeem callback moves; and the documents of an application,
which `create_account` sends without the check that the upload route makes of each, so
that a W-8BEN may go out in two forms. The model lets all of these be sent
(`AmountsUnchecked`, the field `documents` of an account).

## 6. Plan

1. Done: `Backoff`, `RestRetry` over `EffectOnce`, both streams over `Reconnect`, their
   settings, walks, pagination, subscriptions, the tables of routes, validation, the
   exchanges with endpoints, credentials, downloads and the facade, and the event
   streams over `LogReader`; proofs of all safety properties and refinements the runs
   check.
2. Open: the measures under the liveness properties, stated as action properties that
   can be proved (what every step of a session that goes silent brings nearer); that a
   walk by offset misses transfers only when some arrive meanwhile.

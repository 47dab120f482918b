# Formal models of go-moex

go-moex is a Go client for the Moscow Exchange derivatives market (FORTS). This
directory holds TLA+ models of its stateful core, the TLC configurations that
check them, and proofs of the results that should hold for any size of the
system.

## 1. The system

| Component | Source | State | Operations |
|---|---|---|---|
| Order book engine | `orderbook/engine.go` | resting orders, aggregated levels, cached best prices, last sequence number | `ApplyDelta`, `LoadSnapshot`, `Clear`; readers `BestBid`, `BestAsk`, `Levels` |
| Order book feed | `forts/stream.go`, `internal/simba/listener.go` | one engine and one output channel per subscription, one socket | `WatchOrderBook`, the packet handler, `Listener.Run`, `ResolveSecurityID` |
| Order entry | `forts/trading.go`, `forts/id-mapping.go` | ClOrdID counter, three correlators (ClOrdID to channel), cache of orders, subscribers | `CreateOrder`, `ModifyOrder`, `CancelOrder`, `CancelAllOrders`, `GetOpenOrders`, `WatchOpenOrders`, the handler of FIX messages |
| FIX session | `internal/fix/session.go` | connection, `outSeq`, `inSeq`, `closedCh`, `logonAckCh`, `lastErr` | `SeedSeqNums`, `Logon`, `SendApp`, `Close`, reader and heartbeat goroutines |
| Position tracker | `forts/account.go` | position per symbol, subscribers | `ApplyFill`, `Seed`, `Get`, `Watch` |
| ISS client | `internal/iss/client.go`, `auth.go`, `limiter.go` | token bucket, time of the last authentication | `Get` |
| ISS tables, market reference data | `internal/iss/table.go`, `forts/market.go` | cache of security ids | `GetSymbols`, `GetSymbolInfo`, `GetHistoricalCandles`; `ResolveSecurityID` of `forts/stream.go` |
| FORTS client, root client | `forts/client.go`, `client.go` | the session, the list of closers | `Connect`, `Close`, `RegisterCloser`, `Forts` |
| Codecs | `internal/fix/message.go`, `conn.go`; `internal/simba/decode.go` | none | encode, decode |
| Configuration, types, errors, logging, metrics | `config.go`, `types/`, `forts/types/`, `internal/moexerr`, ... | none | constants, defaults, interfaces |

How they interact:

- The listener's goroutine reads a datagram, decodes it and calls the packet
  handler, which changes the engine and offers the new book to the caller's
  channel. Nothing else touches the engine, so it has no lock.
- A caller of order entry registers a channel under its ClOrdID, sends the
  request through the session and waits for the channel or its context. The
  session's reader goroutine hands each application message to order entry's
  handler, which updates the cache, feeds fills to the position tracker,
  resolves the ClOrdID and fans the order out.
- The session's reader, its heartbeat, the callers of `SendApp` and whoever
  closes it share one connection; writes are serialised by `writeMu`.
- Users of the market data client send their requests through one ISS client, one
  token bucket and one cookie; `ResolveSecurityID` listens to another multicast
  group and writes what it hears into a cache that all of them read.
- `Connect` creates the session, installs the handler and registers its own
  `Close` with the root client.

What is hard about it:

- concurrency: a reply, the end of a context and a failed send race for one
  registration; two goroutines close one channel; positions are copied under one
  mutex and delivered under another;
- delivery: datagrams are lost, repeated and overtaken; FIX messages are resent;
- order: registration before sending, cache before answer, sequence numbers in
  the order of writing;
- failure: a connection that breaks under waiting calls, a frame that cannot be
  read, a Logon that is given up just as it is answered;
- liveness: a gap that is never resynchronised, a goroutine that never ends;
- data: names that do not mean what they say, tables whose columns come in any
  order, durations that overflow.

`PROJECT.json` lists these as hazards, each at its line, with the property that
would catch it.

What makes each component correct:

- engine: levels and best prices are what the resting orders say;
- feed: a synchronised book is the exchange's book at its number; a gap is
  recovered from (it is not, as the feed is configured);
- order entry: a call returns the answer to its own request; nothing blocks the
  reader; nothing leaks; the cache is current;
- session: numbers reach the Gate in order; no message is skipped; no number is
  taken for an error that is none; a closed session ends;
- positions: the books balance; every update arrives in order where there is
  room;
- ISS client: the rate is kept however requests compete, as far as the limiter
  keeps it; the cookie is renewed only when it is old; every request returns;
- market data: an answer is about the instrument that was asked for, and comes;
- clients: no session is left behind, none is handed out that was closed, a root
  `Close` ends every FIX session, the two mutexes do not lock each other out;
- codecs: what is decoded is what was encoded, wherever the bytes are cut off, and
  nothing outside of them is read (but for one case, section 3).

## 2. The modules

| Module | Models | Kind |
|---|---|---|
| `Engine` | `orderbook/engine.go`: a book is a record with the fields of the Go struct, each method an operator from book to book | operators |
| `OrderBook` | any caller making any sequence of calls of the engine | state machine, extends `Engine` |
| `RestingOrders` | what a caller relies on: a map of resting orders, a number, and quotes that list the totals of the map at each price, best first | abstract specification |
| `BookFeed` | the packet handler driving the engine; exchange and socket as environment | state machine, extends `Engine` |
| `BookWatch` | start and stop of a subscription: listener, `sync.Once`, channel | state machine |
| `Rendezvous` | what a call relies on: a mailbox of its own, one party at most with the right to leave a result there | abstract specification |
| `OrderEntry` | the calls, the correlators, the reader's handler, cache and fan-out; exchange as environment | state machine |
| `FixSession` | Logon, reader, heartbeat, writers, `Close`; Gate and connection as environment | state machine |
| `Positions` | fills, seeds, copies, fan-out and subscriptions | state machine |
| `IssClient` | the token bucket, the shared authentication and the round trip of `Get` | state machine |
| `IssTables` | `internal/iss/table.go`: the columnar tables and their decoding | operators |
| `MarketData` | calls of `forts/market.go` made of one and two requests, `ResolveSecurityID` and its cache | state machine, extends `IssClient` and `IssTables` |
| `ClientLifecycle` | `Forts`, `Connect`, `Close`, `session`, `RegisterCloser` and the root `Close`, called by several goroutines | state machine |
| `Config` | `withDefaults`, `validate` and `JitteredBackoff` | operators |
| `FixCodec` | encoding, framing, decoding and checksum of FIX messages | operators |
| `SimbaDecoder` | the way of `DecodePacket` through a datagram | operators |
| `EngineProofs`, `OrderBookProofs`, `BookFeedProofs`, `OrderEntryProofs`, `FixSessionProofs`, `PositionsProofs`, `MarketDataProofs`, `ClientLifecycleProofs` | theorems and their proofs; `EngineProofs` has the lemmas about the engine's methods that two others rest on | proofs |
| `MC...` | instances for TLC | |

Correspondence of state and actions:

- **Engine / OrderBook.** `book` is the `Engine`; `orders`, `best`, `haveBest`,
  `lastSeq`, `haveLastSeq` have the names of the fields, with the two sides as
  one function. A price without a level reads as 0 in Go, so `levels` is total
  and 0 means "no level". `AddToLevel` includes the maintenance of the best
  price, as `addToLevel` does. `LoadSnapshot`'s loop is a recursive function.
- **BookFeed.** `Handle` is `handleSIMBAPacket`: order updates and executions
  with a price both become a delta, an error clears, a technical trade returns,
  an EmptyBook clears, a message about another instrument is let pass. That check
  comes before the one on the type, as in the code: as one of several cases it
  left open what becomes of such a message, which the proof of `FeedTypeCorrect`
  showed.
  A packet is a sequence of messages, of which `Decoded` keeps the first, as
  `DecodePacket` does. `truth[n + 1]` is the exchange's book after number n. A
  snapshot is sent in as many packets as `PerPacket` asks for, and without orders
  it may have one entry that says so, which `Kept` leaves out. `SnapshotGroup` is the
  group it is sent to: "snapshot" as the configuration has it, which is not in
  `Joined`, or "incremental". `synced` and `awaiting` are history variables.
- **OrderEntry.** `pc` follows each call: registered (`send`), `wait`, after a
  failed write (`unsent`, `give`), after its context (`expired`), `done`. `Take`
  and `Give` are the two halves of `Resolve`, before and after the mutex is
  released; `reader` says which correlators are still to be tried and whom a
  result is given to. A channel of capacity 1 is a sequence, and giving waits
  while it is not empty. As a `Rendezvous`, a call's right is "free" while a
  registration leads to its channel, "claimed" while somebody has taken that and
  not yet given, "gone" after; the mailbox is the channel.
- **FixSession.** One step per write (under `writeMu`); the reader's steps are
  the check of the contexts, the read with the tracking of the number, the
  dispatch and the reply, so that other writers come in between. `closing`
  separates `close(closedCh)` from `conn.Close()`. `Init` is a fresh session or one
  seeded with numbers from before; `failed` is `lastErr`. A frame without MsgSeqNum has
  the number 0. `strayed` is set where the Gate sends a message again without
  PossDupFlag, not where the client notices. The connection is "stalled" once the Gate
  has stopped reading: `conn.Write` has no deadline, so no write ends, nor does any that
  waits for `writeMu` behind it.
- **Positions.** A change under `mu` and its fan-out under `watchMu` are separate
  steps; `copy` holds what has still to be fanned out. An average is an exact
  fraction.
- **BookWatch.** `once` is the `sync.Once`: entered by one goroutine, waited for
  by the other.
- **IssClient.** Time is counted in ticks, the nanoseconds of the code; `tokens` is
  the bucket in units of which `Refill` come with a tick and `Token` make a token, so
  that a rate need not be whole. `Deficit` is cut down to full ticks as `tryAcquire`
  cuts it down to nanoseconds, and where it becomes 0, `TryAcquire` lets the request
  through without a token, as `Wait` does. `throttled` and `paid` are the two settings
  that decide whether the limiter and the authentication do anything. `meter` and
  `slip` are history variables: `meter` rises with each token taken and sinks by the
  rate, so that it is the largest excess of any window that ends now, and a bound on
  it is a bound on all windows; `slip` says when requests passed without a token since
  the last one was taken.
- **IssTables.** A block is a record with columns and rows of cells; a cell says in
  which JSON form its value is written, and `Accepted` from which forms `setField`
  takes a value for a field of each kind.
- **MarketData.** A user makes one call; its requests are calls of `IssClient`.
  `stage` follows the call, `asked` is the symbol, `answer` what it returned or has
  found so far, `ids` the map `symbolToSecurityID`. ISS answers with any of the
  `Listings` and with the candles of the SECID in the path; the feed repeats any
  definition at any time.
- **ClientLifecycle.** `once` is the `sync.Once` of `Forts`; `held` the session that
  `session()` gave to a caller that has not sent yet. `fixMu` and `closersMu` are the mutexes; a step that holds
  one leaves `pc` at a place of its own. Every closer is the same method, so
  `closers` is their number; `todo` are those a root `Close` took and has yet to
  run, outside of `closersMu`, as in the code. A session is an index into
  `sessions`, the history of what was dialled. `Connect`'s dialling and Logon are
  steps during which `fixMu` is held.
- **FixCodec.** A byte is an integer: the delimiter, the equals sign, text, or a
  number whose digits are not told apart. `ReadAll` is the read loop up to its
  first error, or to the panic that a negative length leads to. Header fields without
  influence on the framing are left out.
- **SimbaDecoder.** A datagram is decoded in pieces; for each the code checks a
  number of bytes and reads fields at fixed offsets, and the two numbers differ
  where a message gives the length of its root or its entries itself. `Overruns` is
  the one case in which the first does not cover the second.
- **Config.** A field is empty, given or the default; durations are integers of
  `Width` bits that overflow as Go's do.

## 3. The runs

| Run | Question | Bounds |
|---|---|---|
| `order_book` | Do levels, best prices and readers agree with the resting orders after any calls? Does the engine implement `RestingOrders`? | 3 orders, 3 prices, sizes 0 and 1, numbers 0..2, three snapshots |
| `book_feed` | Is a synchronised book the exchange's, if snapshots arrive? | 2 orders, 3 numbered changes, 3 packets under way, 3 disturbances out of 2 lost, repeated or overtaken packets, EmptyBooks, technical trades and messages about another instrument, and one packet with two changes; snapshots in one packet, on the group that is joined |
| `book_feed_empty_book` | Is clearing on every EmptyBook safe? (no) | 1 EmptyBook, nothing lost; the groups as configured |
| `book_feed_gap` | Is a gap recovered from? (no) | 1 packet lost, repeated or overtaken; the groups as configured |
| `order_entry` | Answers, leaks, blocking and cache under every race of replies, contexts and failed sends. Do the correlators implement `Rendezvous`? | 2 calls of any kind, 1 ClOrdID both may use, 2 orders, 1 fill, cancel or repetition nobody asked for |
| `fix_session` | Order of numbers, gap recovery, false alarms, end of the goroutines | 3 numbers of the Gate, up to 1 from a session before, 1 fault (a frame that is unreadable, repeated without PossDupFlag or without a number), 1 message sent; the Gate may stop reading or break the connection at any point |
| `fix_session_resent` | Are messages that were processed ignored when resent? (no) | 4 numbers, 1 unreadable frame |
| `fix_session_exit` | Do both goroutines exit with the context or a failed read? (no) | 2 numbers |
| `positions` | Do the books balance, do updates arrive? | 2 fills of quantities 1 and 3 at two prices, a seed of -3, 2 subscribers of capacity 1 |
| `book_watch_cancel` | Can the offer of an update fail? (yes) | channel of 1, 2 packets |
| `market_data` | Rate, authentication and progress of ISS requests; are answers about what was asked for, and do they come? | 2 users, so up to 4 requests, with and without throttle and login; 2 ticks in a second, a bucket of 4 units, 3 to a request (a rate of 4/3 per second); the cookie lasts 2 ticks; 3 symbols (a long name, a short one, one that is not listed), 3 layouts of the listing, 2 definitions on the feed |
| `client_lifecycle` | Do `Forts`, `Connect`, `Close` and the root `Close` leave sessions behind, hand out closed ones or lock each other out? | 3 goroutines, 2 calls each, 3 sessions |

Why the bounds are enough for the questions asked: three orders let two share a
level while a third is the next best; three numbers allow a gap, a late packet
and a snapshot in between; two calls are what a race needs, and the proofs in
section 5 lift the results that matter most to any number of calls; three
numbers of the Gate allow a Logon, an unreadable message and the one that shows
the gap, four add what is resent twice; two fills around a seed open, add,
reduce, end flat and flip; of four requests two compete for
a token that is not whole while calls of two requests come in between; the three
layouts of the listing have every column in more than one place, one row cut short
and one cell that is refused; two changes in a packet are the least of which one is
not seen; three goroutines let one connect while
another runs closers and a third closes, and with three sessions one is lost, one
replaced and one left. The bounds (`MaxFaults`, `MaxWire`, `MaxUnasked`,
...) limit the environment only; the code's own actions have none, except that
`beats` bounds how often the heartbeat and `SendApp` write, and `MaxCalls` how
often a goroutine uses the clients.

The codecs have no states. TLC evaluates what is claimed of them as an assumption
of the MC module of the run beside which they stand: `DecoderReads` in
`MCBookFeed`, for datagrams of each length up to two entries of a snapshot, some of
which state less than the fields take up;
`CodecRoundTrip` in `MCFixSession`, for all messages of two fields with values
that look like parts of a frame, followed by a second message and cut off after
each byte; `LayoutDoesNotMatter` in `MCMarketData`, for every row of three cells in
every order of its columns. `MCFixSession` also evaluates `ConfigIsFilled`, for all
configurations that set two fields, and `BackoffHasFloor`, for durations of eight
bits with limits on both sides of the floor and shifts that overflow.

`CHECK_DEADLOCK FALSE` stands where the system may stop: every call has returned,
the session is closed, the fills or the calls of the clients are used up.

What the failing runs show is listed under `findings` in `PROJECT.json`, with the
lines that say otherwise. In short:

1. EmptyBook clears the orders and keeps the number, so the book goes on from
   empty as if nothing had happened.
2. A gap is never recovered from: the snapshots have groups of their own in the
   configuration (`config.go:144-145`), and `WatchOrderBook` joins the incremental
   group only.
3. Resent messages that were processed are handed over again.
4. The reader does not notice the end of its context, and its failure stops
   neither the heartbeat nor the connection.
5. The book channel can be closed while an update is offered to it: a panic.

Some more observations have no run of their own.

Of the book feed:

- A snapshot in several packets replaces the whole book once per packet
  (`stream.go:212`), so that only the orders of the last one remain, at the number of
  the snapshot; the flags that would tell (`simba/types.go:73-77`) are not looked at.
  The passing run has `PerPacket = 2` and two orders; with `PerPacket = 1` TLC finds
  `SyncedBookIsTrue` violated.
- A trade without a price is skipped together with its number, so the next update
  looks like a gap and clears a book that was right; and a delete of an unknown order
  clears the book too, though `orderbook/errors.go:73-77` calls it not fatal.
  `SyncedBookIsTrue` claims nothing of a book that was cleared, so it does not object
  to these needless clears, nor to a late packet that is applied after one.
- A snapshot is loaded whatever its number, so a repeated or overtaken one takes the
  book back; the book is true at that number, which is all that `SyncedBookIsTrue` says.
- Sizes are positive in all instances. A feed with negative ones is not examined: the
  remainder that a deleted level forgets (`engine.go:134`) would then count.
- The decoder compares what is left of a datagram with the length of an entry that the
  message states, and reads the fields it knows. If a message states less and the
  datagram ends in between, the slice expressions read what an earlier datagram left in
  the listener's buffer, and in a snapshot the index expression for the type
  (`decode.go:322`) panics. Nothing else reads outside (`ReadsLeaveOnlyInShortEntries`).

Of order entry: a generated ClOrdID is the prefix "GM" and a counter, and nothing keeps
a caller from choosing such an id itself (`OwnIdsApart` assumes that none does, and
`OwnAnswer` rests on it). `trading.go:237-238` says that a subscriber of
`WatchOpenOrders` who does not drain its channel blocks the FIX read loop; it does not,
`fanOutOrder` drops the update, which is what `AnswerReturns` needs.

Of the session:

- A number that is too low without PossDupFlag is "unrecoverable, per spec must be
  terminated" (`session.go:276`), and the comment of `trackIncomingSeq` says that it
  "fails" the session (`session.go:247-250`); but it is only recorded: the session goes
  on and the message is dispatched. A message without MsgSeqNum, or with 0, is
  dispatched without being tracked.
- `Close` writes a Logout before it closes anything, and no write has a deadline. If the
  peer stops reading and the buffers fill up, `Close` waits, with `closeOnce` and the
  FORTS client's `fixMu`, and so does everybody who writes. `ClosedSessionStops` excepts
  this; `ClientLifecycle` has a `Close` that ends.
- The NewSeqNo of a SequenceReset is read from `outSeq` without `writeMu` (line 307) and
  may be old when it is written. `NumberedInOrder` is about the messages' own numbers
  and does not see it.
- A negative BodyLength reaches `make([]byte, bodyLen)` (`conn.go:62`) and ends the
  program with a panic, where other bad lengths are errors; a large one is allocated
  before a byte of the body has come, and one beyond what can be allocated panics too
  (the model's lengths are none of these).
- `config.go:125-129` says that `internal/fix` enforces the floor of 30 seconds between
  sessions; `JitteredBackoff` computes it, nothing calls `JitteredBackoff`, and
  `Connect` dials at once. With the defaults of 200 ms and 10 s the delay would always
  be the floor.

Of the clients: the root `Close` "gracefully shuts down every background transport
created by any section sub-client (FIX sessions, SIMBA listeners, idle HTTP
connections)" (`client.go:80-82`; 71-73 and 23-24 name the listeners too). Of these it
shuts down the FIX sessions, which is what `CloseEndsSessions` states. The only closer
that is ever registered is `forts.Client.Close` (`forts/client.go:174`), whose own
comment says that listeners are stopped by their contexts, "not here" (line 177), and no
code closes idle connections. The same `Close` is "Non-blocking" (`client.go:23-24`), but
it takes `fixMu`, and `Connect` holds that while it dials and logs on. `Connect` returns
nil for a session whose connection was lost, until somebody calls `Close`.

Of the limiter: "Wait blocks until a token is available" (`limiter.go:37` and its
surroundings) is not quite so. The wait for the missing part of a token is cut down to
whole nanoseconds (line 68), and a wait of 0 counts as a token that was taken (39-41), so
a request that finds the bucket just short of a token passes and takes none.
`RateRespected` says what is left of the promise: the requests that take a token keep
the rate, and between two tokens the others come at one instant of the clock at most,
though any number of them may. With rates below one a second the bucket, which is
capped at the rate, never holds a token, and `Wait` ends only with its context.

Of the configuration: `ISSConfig.RequestsPerSecond` says "0 disables throttling"
(`config.go:97`), but `withDefaults` replaces 0 by the default (`config.go:230-232`):
only a negative value disables it. `GapResyncEnabled` has "Default: true"
(`config.go:171-173`), which `withDefaults` does not apply, and nothing reads it.
After `withDefaults`, `validate` cannot fail.

Of the listing: one cell that cannot be converted fails the whole of it; a listing
without the block `securities` reads as one without the symbol; and a row whose name
is null matches the symbol "", which the instance does not ask for. Rows without a SECID
are left out of the instances (`ListingsNameIssues`). With a limit of 0 or less,
`GetHistoricalCandles` returns the candles of one response, which ISS may have cut off
at a page (`market.go:150-152`), so the "every candle" of its comment, and of
`AnswersAskedFor`, is every candle of that page.

Every property of a passing run has a mutant in `PROJECT.json`: a plausible slip
in the code, defined in the module just before the definition it replaces, under
which TLC finds the property violated.

## 4. Fairness

- `BookFeed`: weak fairness of `Deliver`, since the reader goroutine loops;
  strong fairness of `XSnapshot`, since the exchange broadcasts snapshots
  periodically, and only the bound on packets under way interrupts it. None for
  updates and faults. It matters to `GapIsRecovered` only, whose violation therefore is
  not that of an exchange that falls silent: on the configured group `XSnapshot` can
  never reach the client.
- `OrderEntry`: weak fairness of the reader's steps and of each call's own steps,
  which the Go scheduler gives. None for contexts, which need not end; none for
  the subscriber, who need not read; none for the exchange.
- `FixSession`: weak fairness of the caller of Logon (it has a timeout), of
  `Close`, of the reader and of the heartbeat. None for the Gate, the connection
  and the context: a Gate that has stopped reading need never read again. A stall
  begins only before Close has signalled; after that it makes no difference, since
  `conn.Close()` is next and lets blocked writes fail.
- `IssClient`: weak fairness of time and of each request's own steps. Nothing
  queues for the tokens, so a request could be overtaken for ever by others that
  keep arriving; there are finitely many, and that is enough.
- `MarketData`: as `IssClient`, and weak fairness of what a call does once its
  requests are answered. Listening for a definition ends with its timeout of thirty
  seconds, so `StopListening` is fair; the feed need not publish anything.
- `ClientLifecycle`: weak fairness of each goroutine's steps once it has called:
  dialling and Logon have timeouts, and a free Go mutex is given to somebody who
  waits for it. None for calling at all, none for the loss of a connection.

## 5. The proofs

Assumed are only the named assumptions on the constants, which TLC evaluates on every
run: prices are integers, sizes and numbers are natural, the numbers of the feed are
numbers the engine takes, a snapshot lists an order once, capacities and bounds are
natural, ClOrdIDs of the caller's own are no numbers; every row of a listing names an
instrument that ISS has candles for, a null is no name, nobody asks for the empty
symbol, and a candle says whose it is; values of FIX fields are bytes without the
delimiter. Every invariant, action property and refinement that a passing run checks
is the statement of a theorem, for any value of the constants, with one hypothesis
more where the code needs it (`SyncedBookIsTrue`, below).

**`EngineProofs`** has the lemmas about the methods of the engine. Each is a chain of
`AddToLevel`, so they are about `AddToLevel`: it keeps the types and the best price,
whichever side and price it is given. The one difficult fact is that the cached best
needs recomputing only when its own level goes away. The existence of a best price on
a non-empty side comes from the well-ordering of the integers between the bounds.
`LoadSnapshot` needs an induction over its entries. The library's induction theorems
take an operator as a parameter, which the provers cannot instantiate; the lemma
`SetInduction` states induction for a set of numbers instead and is proved from the
least element of its complement. The same lemma shows that a recursive function is what
its definition says (`AfterEntriesIsLoop`), and `LoadSnapshotOrders` that a snapshot
leaves exactly the orders it lists.

**`OrderBookProofs`**: `TypeCorrect` (`Spec => []TypeOK`), `BestPricesCorrect`
(`Spec => []BestIsTop`) and the refinement `KeepsRestingOrders`
(`Spec => ImplementsRestingOrders`). For the last, `FullInv` adds to the types and best
prices that each level is the total of the orders resting at its price (`TrueLevels`).
The totals are folds over sets in an order that nobody fixes; that a sum does not depend
on it, and so gains or loses exactly the size of an order that comes or goes, is what
`SumsAgree`, `LevelsGainOrder` and `LevelsLoseOrder` prove. Given true levels, `Levels` lists every
occupied price once and best first, since rank is a bijection between the occupied
prices of a side and the places of the list, and the cached best is its first entry.

**`BookFeedProofs`**: `FeedTypeCorrect` (`FeedSpec => []FeedTypeOK`), `FeedBestPrices`,
and `SyncedBookIsTrueWhileItFits` (`FeedSpec /\ []Fits => []SyncedBookIsTrue`): from a
snapshot to the next Clear the book is the exchange's at its number, whatever is lost,
repeated or overtaken. Every message under way is faithful to the truth (`Faithful`): an
update is the step between the orders before its number and those after it, a snapshot
the list of the orders at its number; the exchange only adds to the truth, so that this
stays so. A book that shows the truth is taken to the next truth by the only update
whose number it accepts, and any snapshot makes it show the truth again. `Fits` says
that the resting orders fit into one packet of a snapshot. Without it the statement is
false of the code (section 3); nothing else is assumed, and there is
no bound on orders, numbers or disturbances. `SyncedBookIsTrueOfFew` is the
special case of an instrument with no more order ids than fit into a packet, where no
temporal hypothesis is needed.

Of the decoder, `ReadsLeaveOnlyInShortEntries`, for every datagram and without a
hypothesis: a read leaves the datagram if and only if `Overruns` holds, which needs an
entry stated to be shorter than its fields and a datagram that ends in between. One
direction follows the pieces in the order of their offsets; for the other, the last
entry that its stated length still fits is the witness. `AllOrNothing` is for datagrams
whose roots and entries are as long as the fields the client knows (`Known`), as in a
schema that only grows.

**`OrderEntryProofs`**: `Invariance` (`Spec => []IInv`), and from it
`NobodyBlocks` (`Spec => []ResolveNeverBlocks`) and `NoRegistrationLeaks`
(`Spec => []NothingLeaks`), for any number of calls and any use of ClOrdIDs.
Neither result is inductive: that the channel the reader gives to is empty
depends on nobody else having the right to it. `IInv` says that a registration
is the only right to its call's channel: it is filed under the call's correlator
and ClOrdID, the call is still waiting, the channel is empty, and neither the
reader nor a failed sender is about to give to it. Taking the registration out of
the map, under the mutex, moves that right to exactly one goroutine; overwriting
it or giving up destroys it. `Take` and `TakeBack` are the cases with content.

`KeepsThePromise` (`Spec => ImplementsRendezvous`) is the refinement: with `IInv`,
every step maps to a step of `Rendezvous` or a stutter. The rights are not a variable
of the program; they are computed from the correlators, the reader and the failed
senders (`RightTo`), and `IInv` is what makes that a function: nobody is both
registered and being given to. One registration may take the right away from several
calls at once (a ClOrdID used again), which is why `Rendezvous` lets calls lose theirs
with any step.

`AnswersAreOwn` (`Spec => []OwnAnswer`), `CacheIsTheExchanges`
(`Spec => []CacheIsCurrent`) and `ReturnedWasCached` (`Spec => []ReturnedIsCached`) need
the messages under way in the invariant, and with them the types (`EntryTypes`).
A message carries the ClOrdID of the call it is about (`Mail`) and a generated ClOrdID
belongs to one call (`Generated`), so whoever registers under it is the one addressed.
What is left is that the first message that finds the registration be the answer and not
a trade of the new order: `AnswerFirst` says that while a call is registered the answer
comes before any trade, and reading the answer takes the registration. It does not say
so of a ClOrdID that callers use again, and there the property is false. For the cache,
the last report under way about an order has the order's status, or the cache has it
when none is under way (`Shown`), nothing is reported about a closed order after it
closed (`ClosedIsLast`), and the fills booked and under way are those that happened
(`Booked`, a cardinality: the queue that loses its head is in bijection with what is
left of it). A message that is handed over again breaks all three, and the properties
allow for it.

**`FixSessionProofs`**: `SessionInvariance`, and from it `NumbersInOrder`
(`Spec => []NumberedInOrder`), for any numbers of messages and faults and any session
before. While the connection is up, what is under way continues what the Gate has read
and is continued by `outSeq`; a number used for nothing happens only on a connection
that is lost, and that never comes back.

`GapInvariance`, and from it `SessionTypes` (`Spec => []TypeOK`), `GapsAreAskedFor`
(`Spec => []NothingSkipped`) and `GapsAreMadeGood` (`Spec => []GapIsMadeGood`), are about
the other direction. `GapIsMadeGood` speaks only of moments at which nothing is under
way; `GapInv` follows a message through the queues to such a moment. Every frame says
what the Gate has logged under its number (`Faithful`), also when a SequenceReset stands
for it; before the first fault the frames under way are the rest of the log in order
(`InOrder`), so that whatever a fault loses is at or above the counter; and after it each
application message below the counter was handed over, is being dispatched, is in a
frame or in a ResendRequest under way (`Coming`). What the Gate answers to a
ResendRequest is a recursive function, and `AgainAnswers` shows by induction that its
frames are for exactly the numbers asked for.

`NoAlarmIsFalse` (`Spec => []NoFalseAlarm`) uses the same invariant. A number that is too
low can only be that of a message the Gate sends for the first time, since what it sends
again has PossDupFlag. Such messages come in the order of their numbers (`Ahead`), and
`NoneOvertaken` says that the counter is at or below the number of each that is under
way: a gap moves it just past the message that was read, and a GapFill to a number that
the log has. A message without a number moves nothing.

`FramesAreCutRight` is about the codec below: of two messages with any number of fields
and any values, on a connection cut off behind any byte, `ReadAll` gives exactly those
that came through as a whole. `FramesAlwaysComeBack` (`FramesComeBack`) is its case that
TLC enumerates. A message becomes one frame (`FramedIsFrame`), whose length is where
`ReadMessage` looks for it and counts the bytes up to the checksum, so the body is
skipped unread and its values do not matter; the checksum is a number whatever the bytes
are (`CheckSumIsNumber`); a frame that is not there as a whole is none
(`CutFrameIsNoFrame`).

**`PositionsProofs`**: `SubscribersInvariance`, and from it `UpdatesArrive`
(`Spec => []EveryUpdateArrives`) and `NothingAfterClose` (`Spec => NeverOnClosed`), for
any number of subscribers and any capacity. `Delivered` says that a version that a
subscriber should have is in its channel or still the copy of a mutator; `InOrder`,
that without an overlap there is one copy, newer than everything queued.

`BooksStayBalanced` (`Spec => []BooksBalance`) and `TrackerTypes` (`Spec => []TypeOK`)
are about prices and quantities of any size. Average and profit are fractions; brought
to one denominator, the balance of the books is an equation of integers (`Balance`),
which opening, adding, reducing, ending flat and flipping each keep. Back from the
equation to the fractions, `LowestIsOne` shows that equal numbers have equal fractions
in lowest terms, from the least denominator a number has.

**`MarketDataProofs`** begins with the client on its own: `ThrottleHolds`
(`Spec => []RateRespected`) and `CookieRenewedOnce` (`Spec => CookieKept`), beside
`IssTypes`, for any rate, any length of a second and any number of requests.
`RateRespected` is not inductive: what is still in the bucket counts too. The
strengthening `Metered` bounds the excess together with the tokens that the bucket would
hold after a refill now; the two move in opposite directions, except when the bucket is
full and time is not credited. For the requests that take no token, `Slipped` says that
after one of them the next tick completes the token, so that the next one, if it is not at the
same instant, takes it. For the cookie, `Exclusive` says that whoever is at the
passport server holds `authMu`, and that the cookie is old for as long as somebody is
there.

`MarketUsesIss` (`MarketSpec => Spec`, with `Spec` that of `IssClient`): every step of a
user is a step of one of its requests or leaves the client alone. `MarketKeepsTheRate`
and `MarketKeepsTheCookie` follow from it and the theorems about the client, and are
what the run checks.

`AnswersAreAskedFor` (`MarketSpec => []AnswersAskedFor`) and `MarketTypeCorrect`
(`MarketSpec => []MarketTypeOK`): an answer is about the instrument that was asked for,
for any listing in any layout. `AnswerOf` says stage by stage what the answer so far is
worth: which row of which listing a symbol was found in, and that the candles are those
of its SECID. It rests on `ScanIntoReads`: unless the table is refused, a field of a row
gets what the table holds there under the column's name, wherever that column is, or is
zero.

**`ClientLifecycleProofs`**: `LifecycleInvariance`, and from it `LifecycleTypes`,
`HandedOutIsOpen` (`Spec => HandedOutOpen`), `NoSessionLeftBehind`
(`Spec => []NoneLeftBehind`) and `RootCloseEndsSessions` (`Spec => []CloseEndsSessions`),
for any number of goroutines, calls and sessions. The invariant has three parts beside
the types: `Holding`, that whoever is between the check of `fixSession` and the
unlocking is alone there; `SessionHasCloser`, that the client's session has a closer
that is registered, about to be registered by the `Connect` that still holds `fixMu`,
or among those a root `Close` has yet to run; and `Alive`, that the client's session is
not closed. The second is what makes a `Connect` that overlaps a root `Close` safe.

Model-checked only, and why:

- liveness under fairness, which is out of the prover's reach:
  `AnswerReturns`, `ClosedSessionStops`, `GetReturns`, `MarketReturns`, `CallsReturn`;
- `DecodedAsSent`, the decoding of FIX messages (splitting and filtering of sequences,
  an induction over data for each), and `LayoutDoesNotMatter` as a statement about
  single rows, evaluated over bounded inputs;
- `ConfigIsFilled`, evaluated over bounded inputs, and `BackoffHasFloor`, whose shifts
  are powers of two, of which the provers know nothing.

## 6. Not modelled, and why

- The conversion of single fields (`decode.go`, `mapping.go`, dates and decimals in
  `market.go`): stateless, by offset or by table.
- Rounding of decimal quotients; wording of errors, logs and metrics; headers of the
  HTTP requests and the size of connection pools.
- `clOrdToOrder`, which is written and never read. The subscriptions of
  `WatchOpenOrders` are one, always there, in `OrderEntry`; how subscribers come and go
  is modelled in `Positions`, whose code is the same.
- The groups B and the replay service of the configuration: nothing joins or calls them.
  `SnapshotGroupA` is in `BookFeed` as the group that is not joined.
- Value types, error types, loggers and metrics, examples: plain data and interfaces.

## 7. Plan

Done, in this order: engine and its abstraction, feed, order entry, session,
positions, subscription of the book, ISS client, life cycle of the clients, codecs;
packets of several messages, stray and seeded numbers, construction of the client and
sessions that are closed while somebody holds them; ISS tables, market data and
`ResolveSecurityID`; the configuration; `Rendezvous`; the proofs of section 5: first of
the invariants about one component each, then of those that follow messages through the
queues, of the refinements and of the frames.

Next:

1. The composition of session and order entry: a session that dies, or is closed,
   under waiting calls.
2. `DecodedAsSent` for messages of any number of fields.

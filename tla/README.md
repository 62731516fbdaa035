# A TLA+ verification project for arc-rs

arc-rs sells media over HTTP. A buyer is answered `402 Payment Required`, signs
an EIP-3009 authorization, and repeats the request with it; the seller has
Circle Gateway settle the authorization and delivers. The repository holds the
x402 library (`arc-x402`), a server that sells items for good or by the chunk
(`crates/access-gated-server`), the client of the contract that records who
owns what (`crates/media-access`, `contracts/MediaAccess.sol`), and examples.

Money and content change hands between four parties that fail independently:
the client, the server with its SQLite file, Gateway, and the Arc chain. The
questions here are the ones that follow from that. Who is charged, for what,
how often; who gets content, and on what ground; what is left when a step of
several fails, an answer is lost, the process stops or two requests interleave.

## 1. Inventory

| Part | State | Operations | Modelled by |
|---|---|---|---|
| `AccessManager` (`access.rs`) | tables `access_cache`, `payments`, `streaming_sessions_log`, `items` | `check_access`, `grant_and_record`, `write_cache`; `log_payment`, `log_streaming_session`, `get_item`; `get_stats`, `upsert_item`, `get_items` | AccessManager, BuyAccess, Streaming |
| `MediaAccessClient` (`media-access/src/lib.rs`) | none: a provider per call | `has_access`, `grant_access` | AccessManager |
| `MediaAccess.sol` | mapping `_access`, immutable `owner` | `grantAccess` (onlyOwner), `hasAccess` | AccessManager |
| Buy route (`buy_handler`, `main.rs`) | the locals of running handlers | one HTTP request, and a background task | BuyAccess |
| Streaming (`create_session`, `chunk_handler`, `streaming.rs`) | `DashMap` of sessions | open, chunk, hourly collection | Streaming |
| Seller side of x402 (`server.rs`, `validate.rs`, `gateway.rs`) | none | `handle_payment`, validation, `settle` | Payment |
| axum middleware and `examples/seller` | the gate of each route | `payment_middleware` behind a route's layers | PaidRoute |
| Buyer (`client.rs`, `signer.rs`, `examples/buyer`) | `total_spent`, `request_count`; `total_atomic` | `pay`, `build_payment_payload`, `cmd_pay`; `create_stream_session`, `sign_chunk`, `stream_chunk`, `cmd_stream`; `buy_access` (one `pay`) | PaidRoute, Money; StreamClient; requests of BuyAccess |
| Catalogue and startup (`main.rs`, `config.rs`) | table `items` | a start, `seed_from_json`, `upsert_item`, `get_items`, `get_item` | Catalog |
| Statistics (`get_stats`, `html.rs`) | none | five queries, one after another | Catalog |
| Price strings (`price_to_atomic`) | none | decimal text to atomic units | Money |
| EIP-712, ECDSA | none | hashing and signing | not modelled |
| Key generation, `Deploy.s.sol` | none | one-shot scripts | not modelled |

How they interact. Handlers are futures on a multi-threaded tokio runtime: each
runs to its next `.await` without a stop, and the steps of all of them
interleave. `buy_handler` awaits `check_access` (SQLite, then the node),
`get_item`, `settle` (Gateway) and `log_payment`, then spawns
`grant_and_record`, which outlives the request. hyper drops a handler whose
client has gone at whatever await it stands; nothing drops the spawned task but
the end of the process. Sessions live in memory and are shared by the chunk
handlers and the collection task. Nothing has a timeout of its own.

What is hard, and what makes each part correct:

* **AccessManager.** Two writers (a check, a grant) put rows into one cache,
  each with a time read earlier; a row admits its key for a whole TTL without
  another look. *Correct*: a row is a fact of the chain; an answer agrees with
  the chain at a moment of the call; a grant that reports success is mined.
* **Grants.** Each reads the account nonce for itself, so concurrent ones may
  collide; nothing retries. *Correct*: nothing appears on chain that was not
  asked for; without failures a grant is lost only to such a collision.
* **Buy route.** Settlement, booking, delivery and grant are four steps; any may
  be the last. *Correct*: nothing is granted that is not paid for; content is
  served for money only against its own charge, and for nothing only to a request
  that names an owner's wallet (anybody may name it: the header and the query
  parameter are not authenticated); owners are not charged, the charged are
  served, the books match Gateway's.
* **Streaming.** A session may be collected while its chunk waits for Gateway.
  *Correct*: labels are distinct, a chunk costs what was quoted, a charged chunk
  is delivered, sessions last their age and then go.
* **The two buyers' loops.** `cmd_pay` goes on after an error, `cmd_stream` stops;
  both add up money, the first in floating point. *Correct*: the total printed is
  what was charged for what was answered; the viewer is at most one chunk out of
  pocket; no call begins once the calls that were answered cost more than the
  limit.
* **Catalogue.** A start may stop or fail at any row, and the next one find
  other files and defaults. *Correct*: a row is of one start and lasts; an item
  has one price while the process runs.
* **Statistics.** Five queries at five moments. *Correct*: they disagree in one
  direction only.
* **Prices.** Text to atomic units to text to a double. *Correct*: no amount
  changes on the way.
* **x402 on both sides.** The clock moves between signing and judging; an answer
  may be lost after the charge; the middleware works only inside its gate.
  *Correct*: one charge per call, 402 means not charged, routes fail closed.

The hazards, each at its line and with the properties that watch it, are in
`PROJECT.json`.

## 2. The modules

```
Environment            clock, strings and addresses, kinds of failure
  |-- AccessManager    check_access, grant_and_record, node, contract
  |     `-- AccessOracle   (INSTANCE) what check_access promises
  `-- Payment          handle_payment and Gateway's settle
        |-- BuyAccess      = AccessManager + Payment + buy_handler
        |-- Streaming      = Payment + sessions + chunk_handler
        |     `-- StreamClient = Streaming + cmd_stream + other clients
        |-- PaidRoute      = Payment + Money + middleware + pay + cmd_pay
        `-- Sale           (INSTANCE, by each of the three) what a route that sells promises
Money                  price texts, amounts, doubles
Catalog                startup and seeding, quotes, bookings, get_stats

AccessManager_proofs, BuyAccess_proofs, Streaming_proofs, StreamClient_proofs,
PaidRoute_proofs, Catalog_proofs                theorems about those modules
Money_proofs                                    what Money computes, for all widths
Sums_proofs                                     lemmas about sums
MCAccess, MCBuy, MCStreaming, MCPaidRoute, MCCatalog    instances for TLC
```

A call or handler is a record with a program counter: one value per await, plus
one per way it can end. It is identified by its HTTP request, an element of
`Requests`. A step of the model is what the code does between two awaits,
with everything it writes.

**Environment.** `now` counts ticks. `AddrOf` says to which address a string
parses, so that several spellings of one wallet are several cache keys and one
pair on chain, as in the code. `Faults` names the failures a run produces:
failing SQLite statements, RPC and Gateway calls whose request or answer is
lost, a Gateway that does not name the payer, clients that go away, restarts,
a clock that is set back.

**AccessManager.** `cache` is the table `access_cache`, from its key to
`verified_at`. `access`, `owner` are the contract, `txs` the seller's
transactions the node has accepted, in nonce order, `mined` how many are in a
block. `CheckAccess` is the start of `check_access` with its early read of the
clock; `ReadCache`, `AskChain`, `RecordCheck` are its three awaits.
`SpawnGrant` starts `grant_and_record`; `GrantPrepare` is the fillers' gas
estimate and nonce, `GrantSend`, `GrantReceipt` the two awaits of
`grant_access`, `GrantRecord` the cache row. A node may count the mined or all
accepted transactions when asked for a nonce, and accepts the one nonce that
comes next.

**Payment.** A header is absent, malformed, or a record of the fields somebody
looks at. `WellFormed` and `Compatible` are the two validators. `exchange[r]`
is the POST to `/v1/payments/settle`, `ledger` what Gateway has settled, by
authorization nonce at most once. The ledger is the ground truth the properties
compare the server's doing with.

**BuyAccess.** `Arrive`, `FastPath` or `FallThrough`, `Price`, `Settled` or
`NotSettled`, `LogPayment`, `GrantSale`, `Deliver` are the pieces of `buy_handler`
between its awaits: the insert into `payments`, whose error is dropped, the spawn
of the grant, and the answer, which is behind one more query for a title. A
handler that is dropped in between leaves a row without a grant, or a grant
without an answer. `AccessStep` splits into what the server does by itself
(`TableStep`, `TaskStep`) and the question to the node.
`owned` and `bought`, recorded on arrival, are for the properties only.

**Streaming.** `GetChunk` is all `chunk_handler` does before it asks Gateway: it
copies the requirements, numbers the chunk and judges the header in one step,
because there is no await in between. The item in the URL of a chunk is a
parameter of its own: the code charges the session's price (`Demand`) and books
the URL's item (`BookChunk`). `Collect` is `cleanup_expired`.

**StreamClient.** `cmd` holds the locals of `cmd_stream` and the header it has
signed. `OpenSession`, `SessionOpened` are `create_stream_session` and the
requirements built from its answer, `SignChunk`, `ChunkArrives`, `ReadChunk` one
round of the loop. `OthersNext` lets other clients open sessions and ask for
chunks, of the command's session too: a session id is not tied to a wallet.

**PaidRoute.** `Probe`, `ReadProbe`, `ReadPaid` are `pay` up to, between and
after its two requests; `buyer` holds the locals of `cmd_pay`, its total as a
double. `Serve`, `ServeSettled`, `ServeUnsettled` are `payment_middleware`; `LayerCalls` gives
the order in which a route's layers were added, and `GateSeen` says whether the
middleware finds its gate. After `Break` the buyer goes on while the old handler
may still be running.

**Money.** `PriceToAtomic` is `price_to_atomic` step by step: trim, strip dollar
signs, cut at the first point, pad or cut the decimals, parse both halves (as
u64's parser does, which takes a plus sign in front of digits), compare with the
limits. `AmountPaidUsdc` writes an amount as `pay` does, division by a dollar in
doubles and `{:.6}` included,
`ReadF64`, `AddF64` and `Shown` are parsing, adding and printing doubles: an
integer number of units of `2^-Scale`, rounded to `Precision` bits, ties to even.
Powers of ten and two are functions by recursion (`TenTo`, `TwoTo`), because the
provers know nothing of `^`. `MoneyAssumption` says what the widths must be to each
other, and holds of the code's (6 decimals, a greatest price of 10^9, 53 bits,
u64): a price has fewer bits than a double, a double tells millionths apart as
finely as its precision allows, a number of dollars has few enough digits, and an
atomic unit has at least two decimals.

**Catalog.** `Boot` is a start, with whatever environment and items.json it
finds; `OpenDatabase`, `CountItems`, `SeedItem`, `Listen` are what `main` does
before it serves. `Quote` is `get_item` asked for a price, `Book` is
`log_payment`; what happens between them is the subject of BuyAccess and
Streaming, where prices are constants, which `QuotesAgree` justifies. `AskStats`
and `Fetch` are `get_stats`, a step for each query. `Stop` may come anywhere.

**AccessOracle** is the specification `check_access` is measured by: a registry
that only grows and calls that are each answered from it as it is at one moment.
It knows of no cache, database, node or clock.

**Sale** is the specification the three routes that sell are measured by. An order
is open, submitted, fulfilled, closed or lost: put to Gateway once, charged at most
once, fulfilled only after the charge, never charged once it is closed. It knows
of no header, price, catalogue, book, chain or clock. `SaleState` in `BuyAccess`,
`Streaming` and `PaidRoute` says which of the five a request is in, and its payment
is the one of its exchange. Two differences between the routes show there. What
costs nothing, an owner's copy or a free route, is a closed order. And a 402 that
follows a failed settle loses the order in the first two, where it may hide a lost
answer after the charge, but closes it in the third, where it does not.

## 3. What TLC checks

| Run | Checks | Instance |
|---|---|---|
| `access` | `AccessTypeOK`, `CacheSound`, `ConfirmedOnChain`, `NothingUngranted`, `CheckIsLinearizable` | 2 requests, each with a check and a grant; a wallet and a string that is none; all failures of this part; TTL 1 in times 0..1; a key that owns the contract or not |
| `buy_faults` | `BuyTypeOK`, `GrantsArePaidFor`, `ServedIsPaidOrNamesAnOwner`, `BooksMatchLedger`, `OwnersAreNotCharged`, `UsesAccessManager`, `SellsContent` | 2 requests, a buyer who names the own wallet, somebody else's or none, payments at the item's price and at the default price, all failures but the clock, which stands still; a seller address that is good or not |
| `buy_served` | `ChargedIsServed`, `LostOnlyToARace`, `OwnersAreNotCharged`, `RequestAnswered`, `PaidGrantedUnlessRaced` | 2 requests, good and six kinds of bad headers, an item with and one without a price row, one of them owned by the buyer from the start, a key that owns the contract or not, no failures, fairness |
| `buy_two` | finds `PaidEventuallyGranted` violated | two purchases at once, no failures |
| `buy_again` | finds `SecondBuyIsFree` violated | two purchases by one wallet |
| `buy_yes` | finds `YesIsFree` violated | a buyer who owns the item, failing statements |
| `stream_faults` | `StreamTypeOK`, `LabelsAreDistinct`, `ChunksCostTheQuote`, `ChunkBooksMatchLedger`, `PaysOneAhead` | `cmd_stream` with two chunks, another client asking for chunks of another item on its session, age 1 in times 0..1, all failures but the clock; a seller address that is good or not |
| `stream_live` | `ChargedChunkIsServed`, `SessionsLastTheirAge`, `ExpiredIsCollected`, `StreamEnds` | `cmd_stream` with two chunks, one request of another client (a session or a chunk), no failures, age 1 in times 0..2, fairness |
| `paid_route` | `PaidTypeOK`, `OneChargePerCall`, `SpentWasCharged`, `LimitHoldsForAnswered`, `RefusedIsNotCharged`, `PaidRoutesFailClosed`, `PricesAreExact`, `AmountsReadBack` | 5 calls of `pay` over a free route, a wrongly layered one and two good ones; lost connections, failing Gateway, restarts; price texts of up to 3 decimals, all amounts up to the maximum |
| `paid_window` | finds `SignedIsAccepted` violated | 2 calls, no failures, a clock that ticks |
| `paid_limit` | finds `StopsAtLimit` violated | 3 calls, no failures, a limit of 3 cents, prices of 1 and 2 |
| `catalog` | `CatalogTypeOK`, `RowsFromOneStart`, `QuotesAgree`, `StatsAddUp`, `RowsSurvive` | 2 items, 2 starts out of 3 environments (two files, or none; two sets of defaults; two sellers), 2 sales and 2 rows, one call of `get_stats`, failing statements, stops |

Each property's comment in its module says what it means for the code.
`CheckIsLinearizable`, `UsesAccessManager` and `SellsContent` are refinements:
`AccessManager` implements `AccessOracle`, every step of `BuyAccess` is a
step of `AccessManager` or leaves it alone, and `BuyAccess` implements `Sale`.

**Bounds, and why they are enough.** *Requests.* The interactions in question are
between two calls: two writers of one row, two grants with one nonce, a purchase
and the next one, a chunk and the collection of its session (which takes a third
request, the one that opened it), two chunks of one session, one of them a
stranger's (a fourth). All requests of `access` and `buy_faults` run the same
code, so that these runs use symmetry; the runs with liveness do not. *Time.* The
code compares ages with a TTL, `MaxAge` and `MinValid`; in ticks these are 0, 1
or 2, and the clock passes them. A tick is any duration: what matters is on
which side of a comparison a step falls. *Wallets and headers.* One of each kind
the code tells apart. *`pay` calls.* Five, so that the limit is reached by the
second and could be passed by the third paid call; prices are 1 and 2.
*Money.* A cent in place of a millionth of a dollar, a maximum price of 120
cents, 10 bits in place of 53: one decimal more than counts, amounts on both
sides of a dollar and of the maximum, and doubles on which sums of cents go wrong
as sums of millionths do with 53. *Starts.* Two: what one leaves and the next
finds is all there is to a row, because nothing but the tables survives.
*Counters* are bounded by the requests, so nothing needs a state constraint.
Runs end when the requests, calls or starts are used up, therefore no run checks for deadlock;
that nobody waits for ever is what the liveness properties say.

**Fairness.** Weak fairness of a handler's steps, of what a check does with the
database, of the steps of a grant, and of collection: tokio polls every future
that can make progress, and SQLite answers. Of `CmdStep`: the command that streams
runs on. Of a grant's questions to the node, and of `MineTx`: the chain makes
blocks, without which no purchase could reach it. Nothing is assumed of Gateway
or of the node when it is asked for `hasAccess`: neither client is built with a
timeout, so a request whose call is never answered waits for ever, and
`RequestAnswered` and `StreamEnds` say exactly that it waits for nothing else. The
clock, faults and clients are not fair: nobody must tick, fail or send. Both
properties are of runs without failures; what the failures lose besides is in
section 4.

**Mutants.** Each checked property comes with a plausible bug in a definition
that models code, under the comment "Mutant:" beside that definition, listed in
`PROJECT.json`. Put in the definition's place, it makes TLC report that property.

## 4. What the runs found

Where code and documents disagree; in each case the trace is what the code does.

1. **Two grants, one nonce** (`buy_two`, `media-access/src/lib.rs:76`). Each grant
   has a provider of its own, so two at once may read the same nonce. The node
   rejects the second, `buy_handler` logs the error, and nothing retries: paid,
   never granted. README.md:222 promises permanent access for a payment.
2. **A second purchase before the first is mined** (`buy_again`,
   `main.rs:335`) is charged again; README.md:182 says it is not. The first
   purchase is in the payments table by then, but the fast path asks only the
   cache and the chain.
3. **No time to pay** (`paid_window`, `validate.rs:223`). The buyer signs
   `validBefore = now + MIN_VALID_DURATION_SECS`, and the seller demands the same
   duration from its own, later, now. If the second changes on the way the
   payment is refused. The 10-minute buffer of constants.rs:10 is in the constant
   both sides use, so it is no buffer between them.
4. **One payment past the limit** (`paid_limit`, `examples/buyer/src/main.rs:99`).
   The total is an `f64` sum. With working routes and `--limit 0.0413`, the four
   example prices add up to 0.041299999999999996, which is less, and a fifth
   request is paid; main.rs:25 says "Stop after spending this many USDC". What the
   limit does guarantee is `LimitHoldsForAnswered`: no call begins once *more* than
   the limit was charged for calls that were answered. `SpentWasCharged` shows
   that the error is never large enough to show in the total printed.

5. **A yes that is charged** (`buy_yes`, `access.rs:157`). `hasAccess` answers
   `true`, the cache row cannot be written, and `?` turns the yes into an error;
   `buy_handler` (main.rs:265) tests `if let Ok(true)` and goes on to the price, so
   that an owner who sends a payment along is charged. README.md:226 says "If either
   returns `true`, content is delivered immediately with no payment." It is one of
   the failed checks `OwnersAreNotCharged` excepts; `YesIsFree` is the document's
   sentence.

Known from the code, without a run of their own:

* `examples/seller/src/main.rs:48` layers its four paid routes
  `.layer(Extension(gate)).layer(from_fn(payment_middleware))`, so that the
  middleware runs first, its extractor finds no gate, and axum answers 500 to every
  request, where server.rs:225 promises a 402. `paid_route` has one route layered
  like this (`ExampleLayers`): it neither serves nor charges. Swapping the two calls
  gives the routes that the runs otherwise use.
* streaming.rs:56 says `.expect("... seller address validated at startup")`, and
  nothing validates `SELLER_ADDRESS` at startup: with one that is no address,
  opening a session panics and a purchase answers 500. `Buildable` is that test;
  `buy_faults` and `stream_faults` include such a seller.
* A `get_items` that fails reads as an empty catalogue, so a start seeds over rows
  in use, although main.rs:455 and config.rs:22 speak of the first startup: this is
  the exception in `RowsSurvive`. A start that stopped halfway, on the other hand,
  is never completed: the table is not empty at the next.
* A crash before the grant is mined loses the grant, a settle answer that is lost
  leaves a charge without a row, and `--limit` counts no payment whose answer was
  lost. Nothing on disk or in the loop remembers them.

That failures lose something is as much a result as that they never gain
something: under all the failures of `buy_faults` no grant is unpaid for, what is
served for money has been paid for, and no book entry lacks its settlement.

## 5. What is proved

`AccessManager_proofs` proves, for every finite or infinite set of requests,
wallets and items, every TTL, every set of failures, with TLAPS:

| Theorem | Says |
|---|---|
| `AccessInvariance` | `AccessSpec => []AccessIInv` |
| `AccessTypeCorrect` | `AccessSpec => []AccessTypeOK` |
| `CacheIsSound` | `AccessSpec => []CacheSound` |
| `SuccessIsOnChain` | `AccessSpec => []ConfirmedOnChain` |
| `OnlyAskedIsGranted` | `AccessSpec => []NothingUngranted` |
| `CheckImplementsOracle` | `AccessSpec => CheckIsLinearizable` |
| `LostToARaceOnly` | `AccessSpec => []LostOnlyToARace`, if no statement or RPC call fails and nothing restarts |

*The inductive invariant.* `CacheSound` alone is not inductive. The row a check
writes is sound only because the call has seen the pair on chain: that is the
conjunct of `CallsConsistent` for `"record"`. The row a grant writes is sound
only because "pending" becomes "confirmed" when the transaction *of this grant*
is mined: this needs that the transaction under the grant's nonce is the
grant's own (`CallsConsistent`, "pending"), that what is mined is in `access`
(`ChainConsistent`), and that transactions are only appended. `NothingUngranted`
needs that every transaction is some grant's. `AccessIInv` is the
conjunction with the type invariant. The proof has one lemma per group of actions, and the refinement proof
maps each action to `Ask`, `Answer`, `GiveUp`, `Enter` or a stutter: an answer
maps to the moment the cache or the chain was read or, for a fresh cache row, to
the read itself, which `CacheSound` justifies.

`LostOnlyToARace` looks at a grant that failed and asks for a concurrent one to
blame. What makes it inductive is `NoncesOK`: *every* nonce the node has accepted
is held by a grant that has gone on with it, a nonce that was read is accepted or
the next one, and a grant that failed had read one that another holds. A restart
in the middle, or a lost answer, would leave a transaction without a grant, which
is why the theorem excludes them. The clock may do what it likes.

`BuyAccess_proofs` proves of the buy route, for any number of requests, any
wallets, items, prices and headers, and any mix of failures:

| Theorem | Says |
|---|---|
| `BuyInvariance` | `BuySpec => []BuyIInv` |
| `BuyTypeCorrect` | `BuySpec => []BuyTypeOK` |
| `BuyImplementsAccess` | `BuySpec => UsesAccessManager`: the route implements `AccessManager` |
| `NoAccessUnpaid` | `BuySpec => []GrantsArePaidFor` |
| `ServedPaidOrNamedAnOwner` | `BuySpec => []ServedIsPaidOrNamesAnOwner` |
| `BooksAreTrue` | `BuySpec => []BooksMatchLedger` |
| `OwnersKeepTheirMoney` | `BuySpec => []OwnersAreNotCharged` |
| `SaleLostToARaceOnly` | `BuySpec => []LostOnlyToARace`, assumed as for `LostToARaceOnly` |
| `ChargedBuyerIsServed` | `BuySpec => []ChargedIsServed`, if nothing but the node and the clock fails |
| `BuyIsASale` | `BuySpec => SellsContent`: the route implements `Sale` |

*The inductive invariant.* `GrantsArePaidFor` relates the chain to Gateway's
ledger, five hand-overs apart: price read, header accepted, exchange settled,
payer resolved, grant spawned, transaction mined. `SaleOK(r)` keeps the thread for
one request: what is posted has the price the handler read and the seller as
payee; a success is in the ledger and Gateway's payer is the signer; from the
settlement on the resolved payer is one the ledger backs; a grant carries the payer
and item of a sale whose settlement was read, and whose handler has gone on from
there or was dropped. `CheckOK(r)` says the same of
the fast path: the check a handler waits for is about its own wallet and item,
and its yes remains true, because the contract never takes access back. `BooksOK`
ties rows to such sales too: a row may be all that is left of one. `BuyIInv` is their conjunction with `AccessIInv` and
the types. `AccessIInv` is not proved again: under `BuyIInv` every step of
`BuyNext` is a step of `AccessNext` or leaves its variables alone
(`BuyStepIsAccessStep`), so `AccessStepIInv` preserves it; the remaining conjuncts
have one lemma per action, over three frame lemmas (`OneSaleMoves`, `BooksStay`,
`BooksGrow`). `NothingUngranted` of `AccessManager` then gives, for each pair on
chain, the grant that asked for it, and `SaleOK` the settlement behind it.

`OwnersAreNotCharged` needs one part more, `OwnerOK(r)`: a handler that has got
to the price has either no check or one that has answered; a "no" of the check
was true when it was given, and Gateway settles only what such a handler posted.
An owner at arrival stays one, so the "no" is impossible.

`SaleLostToARaceOnly` needs no invariant of its own: the refinement carries
`LostToARaceOnly` over. `ChargedIsServed` says nothing of the states between
settlement and answer, which is where it could be lost. `ServedOK(r)` follows the
money through them: while Gateway has not been read the handler waits for it, a
success names a payer with a wallet, and a settled sale is waiting, being booked,
or has its row in `payments` and goes on to the grant, the title and the answer. The theorem allows failures
of the node and the clock, because the code answers before it grants.

*Three refinements of `Sale`.* `BuyIsASale`, and `StreamIsASale` and `PaidIsASale`
below, have one shape. A handler's step moves one order or none (`OrderMoves`,
`OneOrderMoves`); Gateway's step charges an order or moves nothing (`GatewaySells`);
a restart loses a whole set of orders at once, which is why `Lose` takes a set.
The invariants say what the moves need: only a request that has not been put to
Gateway may be (the exchange is idle until the price is known), one that is to be
fulfilled has its own settlement in the ledger, and what Gateway can still settle is
submitted or lost, never fulfilled or closed. The last is where it could fail:
Gateway acts whether or not anybody still waits, so a request must not be able to
end as closed with a call on its way.

`Streaming_proofs` proves of the streaming route, for any number of sessions and
requests, whatever clients ask:

| Theorem | Says |
|---|---|
| `StreamInvariance` | `StreamSpec => []StreamInv` |
| `StreamTypeCorrect` | `StreamSpec => []StreamTypeOK` |
| `NumbersTellApart` | `StreamSpec => []LabelsAreDistinct` |
| `QuoteIsThePrice` | `StreamSpec => []ChunksCostTheQuote` |
| `ChunkBooksAreTrue` | `StreamSpec => []ChunkBooksMatchLedger` |
| `ChargedChunkIsSent` | `StreamSpec => []ChargedChunkIsServed`, if nothing but the node and the clock fails |
| `SessionsAreKept` | `StreamSpec => []SessionsLastTheirAge`, without restarts and with a clock that is not set back |
| `StreamIsASale` | `StreamSpec => SellsChunks`: each chunk is an order of `Sale` |

*The inductive invariant.* Labels stay distinct only because no label is beyond
the counter of its session (`ChunkOK`), which holds while the session is in the
map; once it is collected no chunk can begin on it, and its opener has passed the
state in which it could be created again (`SessionOK`, `ChunkOK`). The price
goes from the opener to the session, the chunk, the exchange and the ledger, and
`SessionOK`, `ChunkOK` and `LedgerOK` each keep one of these hand-overs.
`PayeeOK` says that an address that cannot be paid stops all of it at the opener,
which the cases of the chunk handler need.
`ServedOK(r)` follows a charged chunk as it follows a charged sale; that it never
mentions the session is the point, for the session may be collected meanwhile.
`AgeOK(r)` says that a session which is gone was old when it went.

`StreamClient_proofs` proves of `cmd_stream`, for any number of chunks it pays for
and any other clients:

| Theorem | Says |
|---|---|
| `ClientsUseStreaming` | `ClientSpec => StreamSpec` |
| `ViewerPaysOneAhead` | `ClientSpec => []PaysOneAhead` |

The first carries the results about `StreamSpec` over to `ClientSpec`, which
`stream_faults` and `stream_live` run: its proof shows that what `cmd_stream` signs
is something `GetChunk` admits. The second is about money, a sum over the ledger.
`ClientInv` makes it a matter of counting: the requests of the command are used
one after the other (`RoundOK`), all for chunks of its own session, whose price it
knows (`PriceOK`), and its total is the number of chunks it has read times that
price (`CountOK`). With `StreamInv`, by which a charge is the quoted price and
there is at most one for a request, what the ledger holds against it is the price
of the chunks read, or that and one more.

`PaidRoute_proofs` proves of the pay-per-request demo, for any routes, layers,
price texts, limit and number of calls:

| Theorem | Says |
|---|---|
| `PaidInvariance` | `PaidSpec => []PaidInv` |
| `ChargedOnce` | `PaidSpec => []OneChargePerCall` |
| `NotChargedIf402` | `PaidSpec => []RefusedIsNotCharged` |
| `FailsClosed` | `PaidSpec => []PaidRoutesFailClosed` |
| `SpentInvariance` | `FewCalls(calls, price)` implies `PaidSpec => []SpentInv(Totals(calls, price))` |
| `TotalIsCharged` | `FewCalls(calls, price)` implies `PaidSpec => []SpentWasCharged` |
| `LimitIsKept` | `FewCalls(calls, price)` implies `PaidSpec => []LimitHoldsForAnswered` |
| `PaidTypes` | `FewCalls(calls, price)` implies `PaidSpec => []PaidTypeOK` |
| `PaidIsASale` | `PaidSpec => SellsAccess`: each call is an order of `Sale` |
| `PricesExact` | `PaidSpec => []PricesAreExact` |
| `AmountsRead` | `PaidSpec => []AmountsReadBack` |

*The inductive invariant.* `OrderOK(r)` says that the two requests of a call come
one after the other: before the second there is no header, and before the route
has judged it no exchange. `MoneyOK(r)` says that what is posted has the route's
price and passed a gate, and that a 402 is sent when the exchange never began or
was declined; after that nothing can settle it. What the loop adds up is left open
(`BuyerOK`), so the first four results and the refinement do not depend on its
arithmetic.

The results about the total and the type depend on it. The addition of doubles is not exact (section 4, point
4), and with enough calls its errors do show. How many is enough is `FewCalls(calls,
price)`: no more than `calls` calls at no more than `price` each, and
`calls * (calls + 2) * price` within the bits of a double. With 53 bits that is
2000 calls at $1000 or 600000 at a cent. It mentions no state and nothing about
rounding, and TLC evaluates it for the instances of the `paid_*` runs
(`CallsAreFew`), where the limit is one that doubles do miss.

That it suffices is an error budget. Call `1 / 2^Precision` of an atomic unit a
part. The price a buyer is told is the double nearest to it, off by at most as many
parts as it is atomic units (`ReadIsNear`, `ToldIsNear`). An addition adds the
errors of both numbers and a rounding of at most one part for each atomic unit of
the sum and one more (`SumIsNear`). Over `n` calls at most `n * (n + 2) * price`
parts come together; below half an atomic unit nothing of it shows (`ShownIs`).
`Totals(calls, price)` is the set of totals within that budget, and `TotalsHold`
that it is closed under every step of the loop: each addition shows as exactly the
price added, and a total below the limit *as a double* shows as at most the limit,
because showing and reading are monotone (`ShownGrows`, `LimitIsNear`).

`SpentInv` then ties the total to the ledger: it is one
of those totals, made before the call in progress (`LoopOK`), a call that paid was
settled and one that was free was not (`PhaseOK`), and the total shows as what was
charged for the calls that paid. The step that needs care is the return of a paid
call, where total and sum over the ledger grow by the same price, because there is
exactly one charge for it.

`Money_proofs` proves what the algorithms on texts compute, for any decimals,
greatest price, widths and numbers of digits that `MoneyAssumption` allows; run
`paid_route` evaluates the same formulas on small ones:

| Theorem | Says |
|---|---|
| `PriceTexts` | `PriceIsExact`: a price text with any number of decimals is read as the atomic units it says, and refused when these are none or too many. With a minus sign or a letter among the digits that count it is refused. With a plus sign there it is refused too, except in front of the dollars, where the sign changes nothing, and right behind the point, where it counts as a decimal 0: "$1.+5" is 1.05 |
| `AmountTexts` | `AmountRoundTrips`: the text of any amount up to the greatest price reads as that amount, as a price and as a double |

*The argument.* `ValueOf` is a recursion along a text, and induction over data is
out of the provers' reach as a rule; over numbers it is not, with the sets of
`Sums_proofs`. Numbers that satisfy the recurrence of `ValueOf` at each place of a
text are the values of its beginnings (`Counts`, `ValueIs`), and quotients by
powers of ten satisfy it for the digits `LastDigits` writes; so writing and reading
a number are inverse, cutting digits is dividing and padding is multiplying. The
rest is where the point is and what the trims leave: neither touches a digit that
counts. A sign is followed by place: behind the first digit of a half no parser
takes it (`SignInDigits`, `StrayRefused`), in front of the decimals the text is cut or
padded with the sign in it, so that one digit less counts (`PlusIsZero`). For
doubles, a quotient by a dollar shows as the amount it came from (`QuotientShown`), a
number that fits `Precision` bits is exact, and one that
does not is off by half of its last bit (`NearestIs`).

`Catalog_proofs` proves of startup and catalogue, for any files, defaults,
number of starts, sales and readers:

| Theorem | Says |
|---|---|
| `CatalogInvariance` | `CatalogSpec => []CatalogInv` |
| `RowsOfOneMind` | `CatalogSpec => []RowsFromOneStart` |
| `OnePriceWhileUp` | `CatalogSpec => []QuotesAgree` |
| `RowsLast` | `CatalogSpec => RowsSurvive` |
| `StatsInvariance` | `CatalogSpec => []StatsInv` |
| `CatalogTypes` | `CatalogSpec => []CatalogTypeOK` |
| `StatsParts` | `CatalogSpec => []StatsAddUp` |

*The inductive invariant.* What is left to seed is in this start's file and, unless
the table could not be read, not in the table (`StartOK`): so a seeded row
replaces none. Nothing is left to seed once the process listens, so every
answered quote remains what `get_item` would answer now (`SaleOK`).

`StatsAddUp` compares what the queries of a call have read with each other and
with the table, which grows meanwhile. `CallOK(c)` states it for a call at any
point: nothing read is ahead of the table, and the query by item, which comes
last, is not behind anything read before it. That rests on a fact about the query
itself (`PerItemAddsUp`): grouping the rows by their item and adding up counts and
amounts of the groups gives the number of rows and their volume, so that no row is
lost or counted twice. TLC checked `StatsInv` on the instance of run `catalog`
before it was proved.

`Sums_proofs` has what these proofs need of sums. A sum over a finite set is
defined by recursion, and the library's induction theorems take a predicate,
which the provers here cannot instantiate. They can use a *set*: `LeastNumber`
follows from the well-foundedness of `<`, which the library states about a
relation; `NumberInduction` and `FiniteInduction` follow for membership in a set,
and the recursion is unrolled along them (`SumIsASum`, `SumsAddUp`). The rest are
the rules one expects: an element splits off (`SumSplits`), sums are monotone
(`SumGrows`), disjoint unions add (`SumOfUnion`), groups add up (`SumByGroup`).

*Assumptions.* The named ones of the modules (`EnvironmentAssumption`,
`AccessAssumption`, `PaidRouteAssumption`, ...): constants have the types they must
have, markers such as `NoRow` are not values and differ from each other, what the
buyer may sign is among the payloads, and, for a payment, `validate_address` does
not depend on the case of letters. TLC evaluates each of them in the runs. Five
theorems exclude failures, and say which in their own `ASSUME`: those of
`ChargedIsServed`, `ChargedChunkIsServed`, `LostOnlyToARace` (two) and
`SessionsLastTheirAge`, which the code does not promise when an answer is lost,
the process stops or, for a session, the clock is set. Three rest on
`FewCalls`, and with them `SpentInvariance`.

*Left to TLC.* Liveness (`RequestAnswered`, `PaidGrantedUnlessRaced`,
`ExpiredIsCollected`, `StreamEnds`): it needs fairness and ENABLED, which the
prover cannot treat. The properties of the runs that find a violation are
false. Every other checked property, 35 of the 39 in passing runs (one of them in
two runs) and the three refinements among them, is a theorem. `SellsChunks` and `SellsAccess` are theorems
only: the runs of those models are as long as they should be without them, and
TLC agreed on instances with three requests.

## 6. What is not modelled, and why

* Cryptography: whether a signature is good is Gateway's judgement, in the model
  its free choice to decline. EIP-712 hashing is computation on bytes.
* HTML pages, logging, serialisation, CLI output other than its totals: no
  property is about them.
* Gas, reorganisations and replaced transactions of the chain: the code treats a
  receipt as final.
* Doubles are scaled down (section 3), and a limit is a whole number of atomic
  units. Price texts are ASCII.
* `verify`, `supports`, `get_balances`, `get_gateway_balance`: they read only, and
  nothing the models do depends on what they return.
* The period of the collection task: it may run at any time, which includes the
  hourly schedule.
* SQLite's locking: each statement of the code is one atomic step or fails.

## 7. Plan

What would come next, most useful first.

1. `buy_access` as a command against `BuyAccess`, as `cmd_stream` is against
   `Streaming`: what a buyer who repeats a failed purchase has paid at most.
2. The prices of `BuyAccess` and `Streaming` taken from `Catalog` instead of being
   constants, in one composed specification.

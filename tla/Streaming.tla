----------------------------- MODULE Streaming -----------------------------
(***************************************************************************)
(* Per-chunk billing: create_session and chunk_handler (main.rs) over the  *)
(* in-memory StreamingManager (streaming.rs), its hourly collection, and   *)
(* Payment.  A session is identified by the request that opened it: ids    *)
(* are fresh UUIDs.  Sessions live in memory, the two tables outlive them. *)
(***************************************************************************)
EXTENDS Payment, Sequences

CONSTANTS
    Items,          \* item ids that occur in bodies and URLs
    ChunkPrice,     \* chunk_price_atomic of the item's row, or NoPrice
    NoPrice,
    DefaultPrice,   \* CHUNK_PRICE_ATOMIC
    MaxAge,         \* the 86400 s given to cleanup_expired, in ticks
    NoSession,
    NoItem

ASSUME StreamAssumption ==
    /\ ChunkPrice \in [Items -> Nat \cup {NoPrice}]
    /\ NoPrice \notin Nat
    /\ {DefaultPrice, MaxAge} \subseteq Nat
    /\ NoSession \notin Requests \cup [price : Nat, chunks : Nat, created : Nat]
    /\ NoItem \notin Items

\* What GET /content/{item}?session_id=... may ask, and bring along.
ChunkAsks == [session : Requests, item : Items, header : Headers]

VARIABLES
    sessions,     \* the DashMap: [Requests -> session or NoSession]
    opener,       \* [Requests -> its run of create_session]
    chunk,        \* [Requests -> its run of chunk_handler]
    sessionLog,   \* streaming_sessions_log, by primary key
    payments      \* the payments table, in insertion order

streamVars == <<sessions, opener, chunk, sessionLog, payments>>
vars == <<now, paymentVars, streamVars>>

\* at, the time a session was opened, is for the properties.
NoOpener == [pc |-> "idle", price |-> 0, at |-> 0]
NoChunk == [pc |-> "idle", session |-> NoSession, item |-> NoItem, label |-> 0, price |-> 0,
            payer |-> NoWallet]

StreamInit ==
    /\ now = 0
    /\ PaymentInit
    /\ sessions = [r \in Requests |-> NoSession]
    /\ opener = [r \in Requests |-> NoOpener]
    /\ chunk = [r \in Requests |-> NoChunk]
    /\ sessionLog = {}
    /\ payments = <<>>

Unused(r) == opener[r].pc = "idle" /\ chunk[r].pc = "idle"

----------------------------------------------------------------------------
\* POST /api/session

\* The price: the item's, or the default when there is no row or no answer.
Prices(i) ==
    (IF ChunkPrice[i] = NoPrice THEN {DefaultPrice} ELSE {ChunkPrice[i]})
        \cup (IF "db" \in Faults THEN {DefaultPrice} ELSE {})

AskSession(r, i) ==
    /\ Unused(r)
    /\ \E p \in Prices(i) : 
          opener' = [opener EXCEPT ![r] = [NoOpener EXCEPT !.pc = "priced", !.price = p]]
    /\ UNCHANGED <<now, paymentVars, sessions, chunk, sessionLog, payments>>

\* The requirements are built once, for every chunk of the session.  expect()
\* takes SELLER_ADDRESS for validated at startup, which it is not: one that
\* validate_address rejects makes it panic.
CreateSession(r) ==
    /\ opener[r].pc = "priced"
    /\ \/ /\ Buildable
          /\ sessions' = [sessions EXCEPT ![r] =
                            [price |-> opener[r].price, chunks |-> 0, created |-> now]]
          /\ opener' = [opener EXCEPT ![r] = [@ EXCEPT !.pc = "logging", !.at = now]]
       \/ /\ ~Buildable
          /\ opener' = [opener EXCEPT ![r].pc = "panic"]
          /\ UNCHANGED sessions
    /\ UNCHANGED <<now, paymentVars, chunk, sessionLog, payments>>

\* log_streaming_session (INSERT OR IGNORE); its error is ignored.
LogSession(r) ==
    /\ opener[r].pc = "logging"
    /\ \/ sessionLog' = sessionLog \cup {r}
       \/ "db" \in Faults /\ UNCHANGED sessionLog
    /\ opener' = [opener EXCEPT ![r].pc = "open"]
    /\ UNCHANGED <<now, paymentVars, sessions, chunk, payments>>

----------------------------------------------------------------------------
\* GET /content/{item}?session_id=...

\* next_chunk: fetch_add on the session's counter, under a read guard of the
\* map, so concurrent requests each get a number of their own.
NextLabel(s) == sessions[s].chunks + 1
\* Mutants: store(1) for fetch_add(1), and fetch_sub(1).
CountChunkStores(s) == sessions' = [sessions EXCEPT ![s].chunks = 1]
CountChunkDown(s) == sessions' = [sessions EXCEPT ![s].chunks = @ - 1]
CountChunk(s) == sessions' = [sessions EXCEPT ![s].chunks = @ + 1]

\* Mutant: the price of the item that is asked for.
DemandByUrl(c) ==
    IF ChunkPrice[c.item] = NoPrice THEN DefaultPrice ELSE ChunkPrice[c.item]

\* The session's requirements.  The item of the URL is not compared with the
\* item the session was opened for; it is only what gets booked and sent.
Demand(c) == sessions[c.session].price

\* Everything up to the call to Gateway happens before the first await: the
\* requirements are copied, the chunk is numbered, the guard dropped, and the
\* header judged against the copy.  The number is used up whatever follows.
GetChunk(r, c) ==
    LET s == c.session
        Begin(pc) == chunk' = [chunk EXCEPT ![r] =
                        [pc |-> pc, session |-> s, item |-> c.item, label |-> NextLabel(s),
                         price |-> Demand(c), payer |-> NoWallet]]
    IN
    /\ Unused(r)
    /\ \/ /\ sessions[s] = NoSession
          /\ chunk' = [chunk EXCEPT ![r] = [NoChunk EXCEPT !.pc = "not_found"]]
          /\ UNCHANGED <<sessions, exchange>>
       \/ /\ sessions[s] # NoSession
          /\ CountChunk(s)
          /\ \/ c.header = NoHeader /\ Begin("challenge") /\ UNCHANGED exchange
             \/ /\ c.header # NoHeader
                /\ ~Acceptable(c.header, Demand(c))
                /\ Begin("rejected")
                /\ UNCHANGED exchange
             \/ /\ Acceptable(c.header, Demand(c))
                /\ Begin("settling")
                /\ PostSettle(r, c.header)
    /\ UNCHANGED <<now, ledger, payTo, opener, sessionLog, payments>>

\* Mutant: the session is looked up again once Gateway has answered.
ChunkSettledLooksAgain(r) ==
    /\ chunk[r].pc = "settling"
    /\ Resume(r, {"success"})
    /\ chunk' = [chunk EXCEPT ![r] =
                    [@ EXCEPT !.pc = IF sessions[chunk[r].session] = NoSession
                                     THEN "not_found" ELSE "logging",
                              !.payer = exchange[r].payer]]
    /\ UNCHANGED <<now, sessions, opener, sessionLog, payments>>

ChunkSettled(r) ==
    /\ chunk[r].pc = "settling"
    /\ Resume(r, {"success"})
    /\ chunk' = [chunk EXCEPT ![r] = [@ EXCEPT !.pc = "logging", !.payer = exchange[r].payer]]
    /\ UNCHANGED <<now, sessions, opener, sessionLog, payments>>

ChunkNotSettled(r) ==
    /\ chunk[r].pc = "settling"
    /\ Resume(r, {"declined", "error"})
    /\ chunk' = [chunk EXCEPT ![r].pc = "rejected"]
    /\ UNCHANGED <<now, sessions, opener, sessionLog, payments>>

BookRow(r, amount) ==
    payments' = Append(payments, [item |-> chunk[r].item, amount |-> amount, gateway_ref |-> r])

\* Mutant: the default price is booked, not the session's.
BookChunkAtDefault(r) ==
    /\ chunk[r].pc = "logging"
    /\ BookRow(r, DefaultPrice)
    /\ chunk' = [chunk EXCEPT ![r].pc = "titling"]
    /\ UNCHANGED <<now, paymentVars, sessions, opener, sessionLog>>

\* log_payment.  A payment without a payer is not logged; a failed insert is
\* ignored.
BookChunk(r) ==
    /\ chunk[r].pc = "logging"
    /\ \/ chunk[r].payer # NoWallet /\ BookRow(r, chunk[r].price)
       \/ /\ chunk[r].payer = NoWallet \/ "db" \in Faults
          /\ UNCHANGED payments
    /\ chunk' = [chunk EXCEPT ![r].pc = "titling"]
    /\ UNCHANGED <<now, paymentVars, sessions, opener, sessionLog>>

\* get_item for a title: whatever it answers the chunk is sent, and whether or
\* not the session still exists.
DeliverChunk(r) ==
    /\ chunk[r].pc = "titling"
    /\ chunk' = [chunk EXCEPT ![r].pc = "chunk"]
    /\ UNCHANGED <<now, paymentVars, sessions, opener, sessionLog, payments>>

----------------------------------------------------------------------------
\* Collection, restarts, clients that go away

\* Mutants: an off-by-one in the age, and the operands swapped.
ExpiredEarly(s) == SaturatingSub(now, sessions[s].created) + 1 >= MaxAge
ExpiredSwapped(s) == SaturatingSub(sessions[s].created, now) >= MaxAge

Expired(s) == SaturatingSub(now, sessions[s].created) >= MaxAge

\* cleanup_expired: retain holds each shard's write lock, so it waits for the
\* guards of running requests, not for the requests.  Its period is not
\* modelled: it runs again and again, at any time.
Collect ==
    /\ \E s \in Requests : sessions[s] # NoSession /\ Expired(s)
    /\ sessions' = [s \in Requests |->
                      IF sessions[s] # NoSession /\ Expired(s) THEN NoSession ELSE sessions[s]]
    /\ UNCHANGED <<now, paymentVars, opener, chunk, sessionLog, payments>>

OpenerRunning == {"priced", "logging"}
ChunkRunning == {"settling", "logging", "titling"}

Disconnect(r) ==
    /\ "disconnect" \in Faults
    /\ \/ /\ opener[r].pc \in OpenerRunning
          /\ opener' = [opener EXCEPT ![r].pc = "gone"]
          /\ UNCHANGED chunk
       \/ /\ chunk[r].pc \in ChunkRunning
          /\ chunk' = [chunk EXCEPT ![r].pc = "gone"]
          /\ UNCHANGED opener
    /\ UNCHANGED <<now, paymentVars, sessions, sessionLog, payments>>

Restart ==
    /\ "crash" \in Faults
    /\ sessions' = [s \in Requests |-> NoSession]
    /\ opener' = [r \in Requests |-> IF opener[r].pc \in OpenerRunning
                                     THEN [opener[r] EXCEPT !.pc = "gone"] ELSE opener[r]]
    /\ chunk' = [r \in Requests |-> IF chunk[r].pc \in ChunkRunning
                                    THEN [chunk[r] EXCEPT !.pc = "gone"] ELSE chunk[r]]
    /\ UNCHANGED <<now, paymentVars, sessionLog, payments>>

HandlerStep(r) ==
    \/ CreateSession(r) \/ LogSession(r)
    \/ ChunkSettled(r) \/ ChunkNotSettled(r) \/ BookChunk(r) \/ DeliverChunk(r)

SettleStep(r) == GatewayStep(r) /\ UNCHANGED <<now, streamVars>>
ClockStep == (Tick \/ ClockSetBack) /\ UNCHANGED <<paymentVars, streamVars>>

\* What goes on without new requests.
ServerNext ==
    \/ \E r \in Requests : HandlerStep(r) \/ SettleStep(r) \/ Disconnect(r)
    \/ Collect
    \/ ClockStep
    \/ Restart

StreamNext ==
    \/ \E r \in Requests : \/ \E i \in Items : AskSession(r, i)
                           \/ \E c \in ChunkAsks : GetChunk(r, c)
    \/ ServerNext

StreamSpec == StreamInit /\ [][StreamNext]_vars

\* tokio polls what can run, the collection task included, and SQLite answers;
\* nothing is assumed of Gateway.
StreamFairness ==
    /\ \A r \in Requests : WF_vars(HandlerStep(r))
    /\ WF_vars(Collect)

----------------------------------------------------------------------------
\* Properties.

ChunkFinished == {"not_found", "challenge", "rejected", "chunk", "gone"}

Sessions == [price : Nat, chunks : Nat, created : Nat]
Openers == [pc : {"idle", "panic", "open", "gone"} \cup OpenerRunning, price : Nat, at : Nat]
ChunkRuns == [pc : {"idle"} \cup ChunkRunning \cup ChunkFinished,
              session : Requests \cup {NoSession}, item : Items \cup {NoItem},
              label : Nat, price : Nat, payer : Wallets \cup {NoWallet, Empty}]
Rows == [item : Items, amount : Nat, gateway_ref : Requests]

\* The shape of every variable.
StreamTypeOK ==
    /\ ClockTypeOK
    /\ PaymentTypeOK
    /\ sessions \in [Requests -> Sessions \cup {NoSession}]
    /\ opener \in [Requests -> Openers]
    /\ chunk \in [Requests -> ChunkRuns]
    /\ sessionLog \subseteq Requests
    /\ payments \in Seq(Rows)

\* Labels tell pages apart: no two chunks of a session carry the same number,
\* however the requests interleave, and none is beyond the counter.
LabelsAreDistinct ==
    \A r \in Requests : chunk[r].session # NoSession =>
        /\ \A q \in Requests \ {r} :
              chunk[q].session = chunk[r].session => chunk[q].label # chunk[r].label
        /\ sessions[chunk[r].session] # NoSession
              => chunk[r].label <= sessions[chunk[r].session].chunks

\* A chunk costs what create_session quoted, even if the catalogue answers
\* differently later, the URL names another item or the session is collected
\* meanwhile; and it is delivered only against its own settlement.
ChunksCostTheQuote ==
    /\ \A s \in ledger :
          /\ chunk[s.req].session # NoSession
          /\ s.auth.value = opener[chunk[s.req].session].price
    /\ \A r \in Requests : chunk[r].pc = "chunk" => SettledFor(r)

\* Each row of the payments table is one settlement of that amount for that
\* item, entered once.
ChunkBooksMatchLedger ==
    /\ \A i \in DOMAIN payments :
          \E s \in ledger : /\ s.req = payments[i].gateway_ref
                            /\ s.auth.value = payments[i].amount
                            /\ chunk[s.req].item = payments[i].item
    /\ \A i, j \in DOMAIN payments :
          payments[i].gateway_ref = payments[j].gateway_ref => i = j

\* Without failures, a chunk that is charged is delivered and booked, even if
\* the session is collected between the request and Gateway's answer.
ChargedChunkIsServed ==
    \A r \in Requests :
        SettledFor(r) /\ chunk[r].pc \in ChunkFinished
            => /\ chunk[r].pc = "chunk"
               /\ \E i \in DOMAIN payments : payments[i].gateway_ref = r

\* A session a client was told about serves it until it is MaxAge old: until
\* then only a restart takes it away.
SessionsLastTheirAge ==
    \A r \in Requests :
        opener[r].pc = "open" /\ sessions[r] = NoSession => now >= opener[r].at + MaxAge

\* Sessions do not pile up: one that is too old goes.
ExpiredIsCollected ==
    \A s \in Requests :
        (sessions[s] # NoSession /\ now >= opener[s].at + MaxAge)
            ~> sessions[s] = NoSession

\* A run of chunk_handler as an order: see Sale.  Its 402 after settle does not
\* tell a decline from a failed exchange, so that an order refused then is lost.
SaleState(r) ==
    LET posted == exchange[r].pc # "idle"
    IN CASE chunk[r].pc = "chunk" -> "fulfilled"
         [] chunk[r].pc \in ChunkFinished \ {"chunk"} -> IF posted THEN "lost" ELSE "closed"
         [] OTHER -> IF posted THEN "submitted" ELSE "open"

SaleOrder == [r \in Requests |-> [state |-> SaleState(r), auth |-> exchange[r].auth]]

Sales == INSTANCE Sale WITH
    Orders <- Requests, Payments <- Payloads, NoPayment <- NoHeader,
    order <- SaleOrder, charged <- ledger

\* The streaming route sells: a chunk is delivered only against a charge, its
\* request is charged once at most, and never once it ended without having been
\* put to Gateway, whatever becomes of the session.
SellsChunks == Sales!SaleSpec
=============================================================================

----------------------------- MODULE BuyAccess -----------------------------
(***************************************************************************)
(* buy_handler (main.rs): GET /content/{item} in buy-to-access mode, from  *)
(* the request to the answer and the grant in the background.  It composes *)
(* AccessManager (check_access, grant_and_record, log_payment) and Payment *)
(* (handle_payment).  A handler runs to its next .await in one step.       *)
(***************************************************************************)
EXTENDS AccessManager, Payment

CONSTANTS
    Items,          \* item ids that occur in URLs
    ContentOf,      \* item_id_to_content_id
    ItemPrice,      \* buy_price_atomic of the item's row, or NoPrice
    NoPrice,
    DefaultPrice,   \* BUY_PRICE_ATOMIC
    HttpRequests,   \* the [wallet, item, header] requests clients make
    NoRequest       \* of a handler that has not started

ASSUME BuyAssumption ==
    /\ ContentOf \in [Items -> Contents]
    /\ \A i, j \in Items : ContentOf[i] = ContentOf[j] => i = j
    /\ ItemPrice \in [Items -> Nat \cup {NoPrice}]
    /\ NoPrice \notin Nat
    /\ DefaultPrice \in Nat
    /\ HttpRequests \subseteq [wallet : Wallets \cup {NoWallet}, item : Items, header : Headers]
    /\ NoRequest \notin HttpRequests

VARIABLES
    handler,        \* [Requests -> its run of buy_handler]
    payments        \* the payments table, in insertion order

\* http is the request, price the local buy_price, payer the resolved payer;
\* owned and bought are for the properties: on arrival the wallet owned the
\* content on chain, had been sold it by an answered request.
NoHandler == [pc |-> "idle", http |-> NoRequest, price |-> 0, payer |-> NoWallet,
              owned |-> FALSE, bought |-> FALSE]

buyVars == <<handler, payments>>
vars == <<accessVars, paymentVars, buyVars>>

BuyInit ==
    /\ AccessInit
    /\ PaymentInit
    /\ handler = [r \in Requests |-> NoHandler]
    /\ payments = <<>>

Wallet(r) == handler[r].http.wallet
Item(r) == handler[r].http.item
Header(r) == handler[r].http.header
At(r, pc) == handler' = [handler EXCEPT ![r].pc = pc]

SameOwner(v, w) == v # NoWallet /\ w # NoWallet /\ AddrOf[v] = AddrOf[w]

\* Some request of this wallet for this item has been answered with the
\* content against payment.
BoughtBefore(h) ==
    \E q \in Requests : /\ handler[q].pc = "content"
                        /\ Item(q) = h.item
                        /\ SameOwner(handler[q].payer, h.wallet)

\* The request is parsed; with a wallet, check_access is called.
Arrive(r, h) ==
    LET key == <<h.wallet, ContentOf[h.item]>>
        Begin(pc) == handler' = [handler EXCEPT ![r] =
                        [NoHandler EXCEPT !.pc = pc, !.http = h,
                            !.owned = h.wallet # NoWallet /\ Parses(h.wallet) /\ Owns(key),
                            !.bought = BoughtBefore(h)]]
    IN
    /\ handler[r] = NoHandler
    /\ \/ h.wallet = NoWallet /\ Begin("pricing") /\ UNCHANGED check
       \/ h.wallet # NoWallet /\ ~Parses(h.wallet) /\ Begin("bad_request") /\ UNCHANGED check
       \/ h.wallet # NoWallet /\ Parses(h.wallet) /\ Begin("checking") /\ CheckAccess(r, key)
    /\ UNCHANGED <<now, cache, chainVars, grant, paymentVars, payments>>

\* Mutant: an error of check_access counts as access.
FastPathFailsOpen(r) ==
    /\ handler[r].pc = "checking"
    /\ check[r].pc \in {"true"} \cup CheckFailed
    /\ At(r, "fast")
    /\ UNCHANGED <<accessVars, paymentVars, payments>>

\* The yes is taken.  The get_item that reads a title before the answer touches
\* nothing else: a client that goes away there is one that went away before.
FastPath(r) ==
    /\ handler[r].pc = "checking"
    /\ check[r].pc = "true"
    /\ At(r, "fast")
    /\ UNCHANGED <<accessVars, paymentVars, payments>>

\* Mutant: on to the price whatever check_access said.
FallThroughAlways(r) ==
    /\ handler[r].pc = "checking"
    /\ check[r].pc \in {"true", "false"} \cup CheckFailed
    /\ At(r, "pricing")
    /\ UNCHANGED <<accessVars, paymentVars, payments>>

\* `if let Ok(true)`: an error of check_access counts as no access.
FallThrough(r) ==
    /\ handler[r].pc = "checking"
    /\ check[r].pc \in {"false"} \cup CheckFailed
    /\ At(r, "pricing")
    /\ UNCHANGED <<accessVars, paymentVars, payments>>

\* get_item: a missing item and a failed query both mean the default price.
Prices(i) ==
    (IF ItemPrice[i] = NoPrice THEN {DefaultPrice} ELSE {ItemPrice[i]})
        \cup (IF "db" \in Faults THEN {DefaultPrice} ELSE {})

\* Mutant: Gateway is asked before the payment is compared with the price.
PriceJudgesLate(r) ==
    /\ handler[r].pc = "pricing"
    /\ \E p \in Prices(Item(r)) :
          LET Priced(pc) == handler' = [handler EXCEPT ![r] = [@ EXCEPT !.pc = pc, !.price = p]]
          IN  \/ ~Buildable /\ Priced("error500") /\ UNCHANGED exchange
              \/ /\ Buildable
                 /\ \/ Header(r) = NoHeader /\ Priced("challenge") /\ UNCHANGED exchange
                    \/ /\ WellFormed(Header(r))
                       /\ Priced(IF Compatible(Header(r), p) THEN "settling" ELSE "rejected")
                       /\ PostSettle(r, Header(r))
    /\ UNCHANGED <<accessVars, ledger, payTo, payments>>

\* The price is read, the requirements are built and the header is judged;
\* an acceptable one goes to Gateway.
Price(r) ==
    /\ handler[r].pc = "pricing"
    /\ \E p \in Prices(Item(r)) :
          LET Priced(pc) == handler' = [handler EXCEPT ![r] = [@ EXCEPT !.pc = pc, !.price = p]]
          IN  \/ ~Buildable /\ Priced("error500") /\ UNCHANGED exchange
              \/ /\ Buildable
                 /\ \/ Header(r) = NoHeader /\ Priced("challenge") /\ UNCHANGED exchange
                    \/ /\ Header(r) # NoHeader
                       /\ ~Acceptable(Header(r), p)
                       /\ Priced("rejected")
                       /\ UNCHANGED exchange
                    \/ /\ Acceptable(Header(r), p)
                       /\ Priced("settling")
                       /\ PostSettle(r, Header(r))
    /\ UNCHANGED <<accessVars, ledger, payTo, payments>>

\* Mutants: the wallet of the request before Gateway's payer; nothing but it.
PayerFromRequest(r) == IF Wallet(r) # NoWallet THEN Wallet(r) ELSE exchange[r].payer
PayerOnlyFromRequest(r) == Wallet(r)

\* Gateway's payer, or else the wallet of the request; not the empty string.
Payer(r) == IF exchange[r].payer = NoWallet THEN Wallet(r) ELSE exchange[r].payer

\* Mutant: the empty string is not filtered out.
SettledWithEmptyPayer(r) ==
    /\ handler[r].pc = "settling"
    /\ Resume(r, {"success"})
    /\ handler' = [handler EXCEPT ![r] = [@ EXCEPT !.pc = "logging", !.payer = Payer(r)]]
    /\ UNCHANGED <<accessVars, payments>>

Settled(r) ==
    /\ handler[r].pc = "settling"
    /\ Resume(r, {"success"})
    /\ \/ /\ Payer(r) \in {NoWallet, Empty}
          /\ At(r, "error500")
       \/ /\ Payer(r) \in Wallets
          /\ handler' = [handler EXCEPT ![r] = [@ EXCEPT !.pc = "logging", !.payer = Payer(r)]]
    /\ UNCHANGED <<accessVars, payments>>

\* Mutant: a declined payment is sent to Gateway again.
NotSettledRetries(r) ==
    /\ handler[r].pc = "settling"
    /\ exchange[r].pc \in {"declined", "error"}
    /\ PostSettle(r, Header(r))
    /\ UNCHANGED <<accessVars, ledger, payTo, buyVars>>

NotSettled(r) ==
    /\ handler[r].pc = "settling"
    /\ Resume(r, {"declined", "error"})
    /\ At(r, "rejected")
    /\ UNCHANGED <<accessVars, payments>>

\* Mutant: the default price is booked, not the item's.
RowAtDefault(r) == [item |-> Item(r), buyer |-> handler[r].payer,
                    amount |-> DefaultPrice, gateway_ref |-> r]

Row(r) == [item |-> Item(r), buyer |-> handler[r].payer,
           amount |-> handler[r].price, gateway_ref |-> r]

\* The insert of log_payment, whose error is ignored.
LogPayment(r) ==
    /\ handler[r].pc = "logging"
    /\ \/ payments' = Append(payments, Row(r))
       \/ "db" \in Faults /\ UNCHANGED payments
    /\ At(r, "logged")
    /\ UNCHANGED <<accessVars, paymentVars>>

SoldKey(r) == <<handler[r].payer, ContentOf[Item(r)]>>

\* Mutant: the buyer is put into the cache before the grant is mined.
GrantSaleCached(r) ==
    /\ handler[r].pc = "logged"
    /\ SpawnGrant(r, SoldKey(r))
    /\ WriteCache(SoldKey(r), now)
    /\ At(r, "titling")
    /\ UNCHANGED <<now, chainVars, check, paymentVars, payments>>

\* Mutant: no grant if the wallet of the request is not the payer's spelling.
GrantSaleToRequester(r) ==
    /\ handler[r].pc = "logged"
    /\ IF Wallet(r) = handler[r].payer THEN SpawnGrant(r, SoldKey(r)) ELSE UNCHANGED grant
    /\ At(r, "titling")
    /\ UNCHANGED <<now, cache, chainVars, check, paymentVars, payments>>

\* The handler resumes and spawns the grant, which nobody waits for.
GrantSale(r) ==
    /\ handler[r].pc = "logged"
    /\ SpawnGrant(r, SoldKey(r))
    /\ At(r, "titling")
    /\ UNCHANGED <<now, cache, chainVars, check, paymentVars, payments>>

\* get_item for a title: whatever it answers the content is sent.
Deliver(r) ==
    /\ handler[r].pc = "titling"
    /\ At(r, "content")
    /\ UNCHANGED <<accessVars, paymentVars, payments>>

HandlerRunning == {"checking", "pricing", "settling", "logging", "logged", "titling"}

\* The client goes away: the handler is dropped where it waits, with the check
\* it waits for.  A settle call already sent may still reach Gateway, and a
\* spawned grant goes on.
Disconnect(r) ==
    /\ "disconnect" \in Faults
    /\ handler[r].pc \in HandlerRunning
    /\ At(r, "gone")
    /\ \/ check[r].pc \in CheckRunning /\ CheckAt(r, "gone")
       \/ check[r].pc \notin CheckRunning /\ UNCHANGED check
    /\ UNCHANGED <<now, cache, chainVars, grant, paymentVars, payments>>

\* The process is restarted: the tables, Gateway and the chain remain.
RestartServer ==
    /\ "crash" \in Faults
    /\ LoseCalls
    /\ handler' = [r \in Requests |-> IF handler[r].pc \in HandlerRunning
                                      THEN [handler[r] EXCEPT !.pc = "gone"]
                                      ELSE handler[r]]
    /\ UNCHANGED <<now, cache, chainVars, paymentVars, payments>>

HandlerStep(r) ==
    \/ FastPath(r) \/ FallThrough(r) \/ Price(r) \/ Settled(r) \/ NotSettled(r)
    \/ LogPayment(r) \/ GrantSale(r) \/ Deliver(r)

AccessStep(r) == (CheckStep(r) \/ GrantStep(r)) /\ UNCHANGED <<paymentVars, buyVars>>
TableStep(r) == (ReadCache(r) \/ RecordCheck(r)) /\ UNCHANGED <<paymentVars, buyVars>>
TaskStep(r) == GrantStep(r) /\ UNCHANGED <<paymentVars, buyVars>>
ChainStep == MineTx /\ UNCHANGED <<paymentVars, buyVars>>
ClockStep == PassTime /\ UNCHANGED <<paymentVars, buyVars>>
SettleStep(r) == GatewayStep(r) /\ UNCHANGED <<accessVars, buyVars>>

BuyNext ==
    \/ \E r \in Requests :
          \/ \E h \in HttpRequests : Arrive(r, h)
          \/ HandlerStep(r)
          \/ AccessStep(r)
          \/ SettleStep(r)
          \/ Disconnect(r)
    \/ ChainStep
    \/ ClockStep
    \/ RestartServer

BuySpec == BuyInit /\ [][BuyNext]_vars

\* tokio polls what can run and SQLite answers.  A grant gets its answers from
\* the node and the chain makes blocks; nothing is assumed of Gateway, nor of the
\* node when it is asked for hasAccess.
BuyFairness ==
    /\ \A r \in Requests :
          /\ WF_vars(HandlerStep(r))
          /\ WF_vars(TableStep(r))
          /\ WF_vars(TaskStep(r))
    /\ WF_vars(ChainStep)

FairBuySpec == BuySpec /\ BuyFairness

----------------------------------------------------------------------------
\* Properties.

Finished == {"bad_request", "fast", "challenge", "rejected", "error500", "content", "gone"}

Handlers == [pc : {"idle"} \cup HandlerRunning \cup Finished,
             http : HttpRequests \cup {NoRequest},
             price : Nat,
             payer : Wallets \cup {NoWallet},
             owned : BOOLEAN, bought : BOOLEAN]
Rows == [item : Items, buyer : Wallets, amount : Nat, gateway_ref : Requests]

\* The shape of every variable.
BuyTypeOK ==
    /\ AccessTypeOK
    /\ PaymentTypeOK
    /\ handler \in [Requests -> Handlers]
    /\ payments \in Seq(Rows)

AcceptedPrices(i) ==
    IF "db" \in Faults \/ ItemPrice[i] = NoPrice THEN {ItemPrice[i], DefaultPrice}
                                                  ELSE {ItemPrice[i]}

\* s is a settlement that buys item content c for address a: signed by a
\* (or, when Gateway withholds the payer, made for a's wallet by a request),
\* to the seller, at the price of the item.
Buys(s, a, c) ==
    /\ ContentOf[Item(s.req)] = c
    /\ s.auth.value \in AcceptedPrices(Item(s.req))
    /\ LowerCase[s.auth.to] = LowerCase[payTo]
    /\ \/ AddrOf[s.auth.from] = a
       \/ /\ exchange[s.req].payer = NoWallet
          /\ Wallet(s.req) # NoWallet /\ AddrOf[Wallet(s.req)] = a

\* No access without payment: everything granted since the start was settled
\* by Gateway, to the seller, at the item's price, for that very owner and
\* item, whatever fails or restarts in between.
GrantsArePaidFor ==
    \A p \in access \ Genesis : \E s \in ledger : Buys(s, p[1], p[2])

\* Nothing is given away but to a name: a request that is served for money has
\* been charged itself, to the seller and at the price it was asked, and nobody
\* else with the same authorization; one that is served for nothing names a
\* wallet that owns the content on chain.  Whose wallet it is nobody asks.
ServedIsPaidOrNamesAnOwner ==
    \A r \in Requests :
        /\ handler[r].pc = "content" =>
              \E s \in ledger :
                  /\ s.req = r
                  /\ s.auth.value = handler[r].price
                  /\ LowerCase[s.auth.to] = LowerCase[payTo]
                  /\ \A t \in ledger : t.auth.nonce = s.auth.nonce => t = s
        /\ handler[r].pc = "fast" => Owns(<<Wallet(r), ContentOf[Item(r)]>>)

\* The payments table is the seller's book: each row is one settlement, none
\* is entered twice, and the amount booked is the amount settled.
BooksMatchLedger ==
    /\ \A i \in DOMAIN payments :
          \E s \in ledger : /\ s.req = payments[i].gateway_ref
                            /\ s.auth.value = payments[i].amount
    /\ \A i, j \in DOMAIN payments :
          payments[i].gateway_ref = payments[j].gateway_ref => i = j

\* r's settlement pays for wallet w: w is Gateway's name for the signer, or the
\* wallet of the request when Gateway gives none.
Settlement(r) == [req |-> r, auth |-> exchange[r].auth]
Backs(r, w) ==
    /\ Settlement(r) \in ledger
    /\ \/ AddrOf[exchange[r].auth.from] = AddrOf[w]
       \/ exchange[r].payer = NoWallet /\ Wallet(r) = w

\* The handler has read that its sale is settled, and for whom.
Paid(r) ==
    /\ exchange[r].pc = "read"
    /\ handler[r].payer \in Wallets
    /\ Backs(r, handler[r].payer)

\* What has been posted is what the handler asked for, what goes on after the
\* settlement is backed by it, and the grant is the one of this sale, whether
\* its handler has answered, still waits for a title or was dropped there.
SaleOK(r) ==
    /\ handler[r].pc # "idle" => handler[r].http \in HttpRequests
    /\ handler[r].pc \in {"idle", "checking", "pricing"} => exchange[r].pc = "idle"
    /\ exchange[r].pc # "idle" =>
          /\ exchange[r].auth \in Payloads
          /\ exchange[r].auth.value = handler[r].price
          /\ LowerCase[exchange[r].auth.to] = LowerCase[payTo]
          /\ handler[r].price \in AcceptedPrices(Item(r))
    /\ exchange[r].pc = "success" =>
          /\ Settlement(r) \in ledger
          /\ exchange[r].payer \in Wallets
                => AddrOf[exchange[r].auth.from] = AddrOf[exchange[r].payer]
    /\ handler[r].pc \in {"logging", "logged", "titling", "content"} => Paid(r)
    /\ grant[r].pc # "idle" =>
          /\ handler[r].pc \in {"titling", "content", "gone"}
          /\ Paid(r)
          /\ grant[r].key = SoldKey(r)

\* The check a handler waits for is about its own request, and its yes stays
\* true.
CheckOK(r) ==
    /\ handler[r].pc = "checking" =>
          /\ Wallet(r) \in Wallets
          /\ check[r].key = <<Wallet(r), ContentOf[Item(r)]>>
          /\ check[r].pc = "true" => Owns(check[r].key)
    /\ handler[r].pc = "fast" => Owns(<<Wallet(r), ContentOf[Item(r)]>>)

\* A row is that of one paid sale, whose handler went on from there or was
\* dropped: a row may be all that is left of it.
BooksOK ==
    /\ \A i \in DOMAIN payments :
          LET q == payments[i].gateway_ref
          IN  /\ handler[q].pc \in {"logged", "titling", "content", "gone"}
              /\ Paid(q)
              /\ payments[i].amount = handler[q].price
    /\ \A i, j \in DOMAIN payments :
          payments[i].gateway_ref = payments[j].gateway_ref => i = j

\* The inductive strengthening of the properties above.
BuyIInv ==
    /\ AccessIInv
    /\ BuyTypeOK
    /\ \A r \in Requests : SaleOK(r) /\ CheckOK(r)
    /\ BooksOK

\* Nobody who owned the content on chain when the request came, and names the
\* wallet, is charged for it again, whatever the cache holds and however the
\* chain, the clock and restarts move meanwhile, unless check_access failed: it
\* found no answer, or it could not write its yes down (see YesIsFree).
OwnersAreNotCharged ==
    \A r \in Requests : handler[r].owned /\ SettledFor(r) => check[r].pc \in CheckFailed

\* "If either returns `true`, content is delivered immediately with no payment"
\* (README.md:226): a request for which the cache or hasAccess said yes is not
\* charged.
YesIsFree == \A r \in Requests : check[r].pc \in {"true", "unwritten"} => ~SettledFor(r)

\* Without failures, whoever is charged gets the content, and the payment is
\* on the books.
ChargedIsServed ==
    \A r \in Requests :
        SettledFor(r) /\ handler[r].pc \in Finished
            => /\ handler[r].pc = "content"
               /\ \E i \in DOMAIN payments : payments[i].gateway_ref = r

\* The buy route only uses AccessManager, it does not get in its way: seen
\* from the cache, the chain and the calls, each of its steps is one of
\* AccessManager's own.
UsesAccessManager == AccessSpec

\* A request hangs on the outside only: without failures every handler answers,
\* unless Gateway never answers its settle call or the node its hasAccess, for
\* which neither client has a timeout.
RequestAnswered ==
    \A r \in Requests :
        handler[r].pc \in HandlerRunning
            ~> \/ handler[r].pc \in Finished
               \/ [](exchange[r].pc = "posted")
               \/ [](check[r].pc = "chain")

Sold(r, p) ==
    /\ handler[r].pc = "content"
    /\ p = <<AddrOf[handler[r].payer], ContentOf[Item(r)]>>

\* "A single x402 payment of `BUY_PRICE_ATOMIC` grants permanent access."
\* (README.md:222)
PaidEventuallyGranted ==
    \A r \in Requests, p \in Pairs : Sold(r, p) ~> p \in access

\* Without failures, and if the chain goes on, a purchase is on chain in the
\* end in all cases but two: a concurrent grant got the nonce it had read, or the
\* server's key does not own the contract, when no purchase ever is.
PaidGrantedUnlessRaced ==
    \A r \in Requests, p \in Pairs :
        Sold(r, p) ~> \/ p \in access
                      \/ Reverts
                      \/ /\ grant[r].pc = "failed"
                         /\ \E q \in Requests \ {r} :
                               /\ grant[q].pc \in {"pending", "confirmed", "done"}
                               /\ grant[q].nonce = grant[r].nonce

\* "Second buy request -- fast-path fires immediately, no payment charged"
\* (README.md:182): whoever has been sold an item is not charged again for it.
SecondBuyIsFree ==
    \A r \in Requests : handler[r].bought => ~SettledFor(r)

\* A run of buy_handler as an order: see Sale.  Its 402 after settle does not tell
\* a decline from a failed exchange, so that an order refused then is lost.
SaleState(r) ==
    LET posted == exchange[r].pc # "idle"
    IN CASE handler[r].pc = "content" -> "fulfilled"
         [] handler[r].pc \in Finished \ {"content"} -> IF posted THEN "lost" ELSE "closed"
         [] OTHER -> IF posted THEN "submitted" ELSE "open"

SaleOrder == [r \in Requests |-> [state |-> SaleState(r), auth |-> exchange[r].auth]]

Sales == INSTANCE Sale WITH
    Orders <- Requests, Payments <- Payloads, NoPayment <- NoHeader,
    order <- SaleOrder, charged <- ledger

\* The buy route sells: whatever fails, the content is sold only against a
\* charge, a request is charged once at most, and never after it ended without
\* having been put to Gateway (an owner's, for one).
SellsContent == Sales!SaleSpec
=============================================================================

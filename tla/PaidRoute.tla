----------------------------- MODULE PaidRoute -----------------------------
(***************************************************************************)
(* The pay-per-request demo: the buyer's loop cmd_pay (examples/buyer) and *)
(* BuyerClient::pay against the routes of examples/seller, each behind     *)
(* payment_middleware (arc-x402/src/server.rs) and its handle_payment      *)
(* (module Payment).  Prices are texts until require_payment reads them,   *)
(* and dollars in floating point in the buyer's loop (module Money).       *)
(*                                                                         *)
(* The buyer makes one call of pay at a time, numbered from 1; a call is   *)
(* one or two HTTP requests, a probe and the paid retry.  A handler whose  *)
(* client is gone may run on beside the next call.  One clock stands for   *)
(* both machines.                                                          *)
(***************************************************************************)
EXTENDS Payment, Money

CONSTANTS
    Buyer,          \* the address of BUYER_PRIVATE_KEY
    Routes,
    PriceText,      \* the price given to require_payment
    LayerCalls,     \* [Routes -> the .layer(...) calls of the route, in order]
    Endpoints,      \* the routes cmd_pay cycles through
    Limit,          \* --limit, in atomic units, or NoLimit
    NoLimit,
    NoCall,         \* between two calls of pay
    Stopped         \* the loop has returned

ASSUME PaidRouteAssumption ==
    /\ Buyer \in Shaped
    /\ \A rt \in Routes : PriceToAtomic(PriceText[rt]) \in Nat \ {0}
    /\ LayerCalls \in [Routes -> Seq({"gate", "payment"})]
    /\ Endpoints \in Seq(Routes) /\ Endpoints # <<>>
    /\ Requests \subseteq Nat \ {0}
    /\ NoLimit \notin Nat /\ Limit \in Nat \cup {NoLimit}
    /\ {NoCall, Stopped} \cap Requests = {} /\ NoCall # Stopped
    /\ \A rt \in Routes, w \in PayTos, t \in 0..MaxTime, r \in Requests :
          [from |-> Buyer, to |-> w, value |-> PriceToAtomic(PriceText[rt]),
           network |-> Network, validBefore |-> t + MinValid, nonce |-> r] \in Payloads

\* require_payment returns an error for a text without a price.
RoutePrice == [rt \in Routes |-> PriceToAtomic(PriceText[rt])]

\* What cmd_pay makes of the amount_paid_usdc of a paid call.
Told == [rt \in Routes |-> ReadF64(AmountPaidUsdc(RoutePrice[rt]))]

VARIABLES
    buyer,     \* the locals of cmd_pay: request_count, total_spent, the call
    call,      \* [Requests -> how far its run of pay is]
    http       \* [Requests -> the HTTP request of that call now on its way]

routeVars == <<buyer, call, http>>
vars == <<now, paymentVars, routeVars>>

NoHttp == [pc |-> "idle", header |-> NoHeader, answer |-> "none"]

\* The seller does not come up with an address require_payment rejects.
PaidInit ==
    /\ now = 0
    /\ PaymentInit
    /\ Buildable
    /\ buyer = [count |-> 0, spent |-> 0, call |-> NoCall]
    /\ call = [r \in Requests |-> "idle"]
    /\ http = [r \in Requests |-> NoHttp]

\* The inner loop of cmd_pay, over and over.
Route(r) == Endpoints[((r - 1) % Len(Endpoints)) + 1]

\* Each .layer(...) wraps what the earlier ones made, so the last one runs
\* first: the middleware finds the gate if the gate was added after it.
Charges(route) == \E i \in DOMAIN LayerCalls[route] : LayerCalls[route][i] = "payment"
GateSeen(route) ==
    \E i, j \in DOMAIN LayerCalls[route] :
        i < j /\ LayerCalls[route][i] = "payment" /\ LayerCalls[route][j] = "gate"

----------------------------------------------------------------------------
\* cmd_pay and BuyerClient::pay

\* --limit is an f64 too.
LimitF64 == Nearest(Limit * Unit, One)

\* Mutant: the limit is looked at between two rounds of the endpoints.
LimitReachedByRound ==
    /\ Limit # NoLimit /\ buyer.spent >= LimitF64
    /\ buyer.count % Len(Endpoints) = 0

LimitReached == Limit # NoLimit /\ buyer.spent >= LimitF64

StopAtLimit ==
    /\ buyer.call = NoCall
    /\ LimitReached
    /\ buyer' = [buyer EXCEPT !.call = Stopped]
    /\ UNCHANGED <<now, paymentVars, call, http>>

Send(r, h) == http' = [http EXCEPT ![r] = [NoHttp EXCEPT !.pc = "sent", !.header = h]]

\* The next endpoint, first without a payment.
Probe(r) ==
    /\ buyer.call = NoCall
    /\ ~LimitReached
    /\ r = buyer.count + 1
    /\ buyer' = [buyer EXCEPT !.count = r, !.call = r]
    /\ call' = [call EXCEPT ![r] = "probing"]
    /\ Send(r, NoHeader)
    /\ UNCHANGED <<now, paymentVars>>

\* pay returns, with the loop's total then at spent.
Return(r, pc, spent) ==
    /\ call' = [call EXCEPT ![r] = pc]
    /\ buyer' = [buyer EXCEPT !.spent = spent, !.call = NoCall]

\* The loop adds what it is told was paid; a free call adds 0, an error nothing.
Total(r) == AddF64(buyer.spent, Told[Route(r)])

\* Mutant: the two addresses of the authorization swapped.
SignedSwapped(r) ==
    [from |-> payTo, to |-> Buyer, value |-> RoutePrice[Route(r)], network |-> Network,
     validBefore |-> now + MinValid, nonce |-> r]

\* build_payment_payload: what the quote asks for, a fresh nonce, and the
\* shortest validity the seller takes.
Signed(r) ==
    [from |-> Buyer, to |-> payTo, value |-> RoutePrice[Route(r)], network |-> Network,
     validBefore |-> now + MinValid, nonce |-> r]

\* A probe is answered with the resource itself, a quote, or an error.
ReadProbe(r) ==
    /\ call[r] = "probing"
    /\ http[r].pc = "answered"
    /\ \/ http[r].answer = "content" /\ Return(r, "free", buyer.spent) /\ UNCHANGED http
       \/ /\ http[r].answer = "quote"
          /\ Send(r, Signed(r))
          /\ call' = [call EXCEPT ![r] = "paying"]
          /\ UNCHANGED buyer
       \/ http[r].answer = "500" /\ Return(r, "refused", buyer.spent) /\ UNCHANGED http
    /\ UNCHANGED <<now, paymentVars>>

\* Mutants: a refused payment is counted; it is signed and sent again.
ReadPaidCountsAll(r) ==
    /\ call[r] = "paying"
    /\ http[r].pc = "answered"
    /\ \/ http[r].answer = "content" /\ Return(r, "paid", Total(r))
       \/ http[r].answer \in {"402", "500"} /\ Return(r, "refused", Total(r))
    /\ UNCHANGED <<now, paymentVars, http>>
ReadPaidRetries(r) ==
    /\ call[r] = "paying"
    /\ http[r].pc = "answered"
    /\ \/ http[r].answer = "content" /\ Return(r, "paid", Total(r)) /\ UNCHANGED http
       \/ /\ http[r].answer \in {"402", "500"}
          /\ Send(r, [Signed(r) EXCEPT !.nonce = CHOOSE n \in Requests \ {r} : TRUE])
          /\ UNCHANGED <<buyer, call>>
    /\ UNCHANGED <<now, paymentVars>>

\* Whatever is not a success counts as nothing paid.
ReadPaid(r) ==
    /\ call[r] = "paying"
    /\ http[r].pc = "answered"
    /\ \/ http[r].answer = "content" /\ Return(r, "paid", Total(r))
       \/ http[r].answer \in {"402", "500"} /\ Return(r, "refused", buyer.spent)
    /\ UNCHANGED <<now, paymentVars, http>>

----------------------------------------------------------------------------
\* The route: the layers, payment_middleware, the handler.

AnswerWith(r, a) ==
    http' = [http EXCEPT ![r] = [@ EXCEPT !.pc = "answered", !.answer = a]]

\* Mutant: without a gate the middleware lets the request pass.
ServeFailsOpen(r) ==
    /\ http[r].pc = "sent"
    /\ \/ ~GateSeen(Route(r)) /\ AnswerWith(r, "content") /\ UNCHANGED exchange
       \/ /\ GateSeen(Route(r))
          /\ \/ /\ ~Acceptable(http[r].header, RoutePrice[Route(r)])
                /\ AnswerWith(r, IF http[r].header = NoHeader THEN "quote" ELSE "402")
                /\ UNCHANGED exchange
             \/ /\ Acceptable(http[r].header, RoutePrice[Route(r)])
                /\ http' = [http EXCEPT ![r].pc = "settling"]
                /\ PostSettle(r, http[r].header)
    /\ UNCHANGED <<now, ledger, payTo, buyer, call>>

\* Without its gate the middleware cannot be called: axum answers 500.
Serve(r) ==
    /\ http[r].pc = "sent"
    /\ \/ ~Charges(Route(r)) /\ AnswerWith(r, "content") /\ UNCHANGED exchange
       \/ /\ Charges(Route(r)) /\ ~GateSeen(Route(r))
          /\ AnswerWith(r, "500")
          /\ UNCHANGED exchange
       \/ /\ GateSeen(Route(r))
          /\ \/ http[r].header = NoHeader /\ AnswerWith(r, "quote") /\ UNCHANGED exchange
             \/ /\ http[r].header # NoHeader
                /\ ~Acceptable(http[r].header, RoutePrice[Route(r)])
                /\ AnswerWith(r, "402")
                /\ UNCHANGED exchange
             \/ /\ Acceptable(http[r].header, RoutePrice[Route(r)])
                /\ http' = [http EXCEPT ![r].pc = "settling"]
                /\ PostSettle(r, http[r].header)
    /\ UNCHANGED <<now, ledger, payTo, buyer, call>>

ServeSettled(r) ==
    /\ http[r].pc = "settling"
    /\ Resume(r, {"success"})
    /\ AnswerWith(r, "content")
    /\ UNCHANGED <<now, buyer, call>>

\* Mutant: any failure of settle is a 402.
ServeUnsettledAs402(r) ==
    /\ http[r].pc = "settling"
    /\ Resume(r, {"declined", "error"})
    /\ AnswerWith(r, "402")
    /\ UNCHANGED <<now, buyer, call>>

\* Declined is 402; a failed exchange with Gateway is 500.
ServeUnsettled(r) ==
    /\ http[r].pc = "settling"
    /\ \/ Resume(r, {"declined"}) /\ AnswerWith(r, "402")
       \/ Resume(r, {"error"}) /\ AnswerWith(r, "500")
    /\ UNCHANGED <<now, buyer, call>>

----------------------------------------------------------------------------
\* Connections and processes.

CallRunning == {"probing", "paying"}
Serving == {"sent", "settling"}

\* The connection breaks: pay returns an error, and the handler does not know
\* it yet; hyper drops it later, or it finishes for nobody.
Break(r) ==
    /\ "disconnect" \in Faults
    /\ call[r] \in CallRunning
    /\ Return(r, "broken", buyer.spent)
    /\ UNCHANGED <<now, paymentVars, http>>

DropHandler(r) ==
    /\ call[r] = "broken"
    /\ http[r].pc \in Serving
    /\ http' = [http EXCEPT ![r].pc = "closed"]
    /\ UNCHANGED <<now, paymentVars, buyer, call>>

\* The seller is restarted; the buyer's connection breaks with it.
RestartSeller ==
    /\ "crash" \in Faults
    /\ http' = [r \in Requests |->
                  IF http[r].pc \in Serving THEN [http[r] EXCEPT !.pc = "closed"] ELSE http[r]]
    /\ \/ /\ buyer.call \in Requests /\ http[buyer.call].pc \in Serving
          /\ Return(buyer.call, "broken", buyer.spent)
       \/ /\ \A r \in Requests : buyer.call = r => http[r].pc \notin Serving
          /\ UNCHANGED <<buyer, call>>
    /\ UNCHANGED <<now, paymentVars>>

BuyerStep(r) == ReadProbe(r) \/ ReadPaid(r)
ServerStep(r) == Serve(r) \/ ServeSettled(r) \/ ServeUnsettled(r)
SettleStep(r) == GatewayStep(r) /\ UNCHANGED <<now, routeVars>>
ClockStep == (Tick \/ ClockSetBack) /\ UNCHANGED <<paymentVars, routeVars>>

PaidNext ==
    \/ \E r \in Requests : \/ Probe(r)
                           \/ BuyerStep(r)
                           \/ ServerStep(r)
                           \/ SettleStep(r)
                           \/ Break(r)
                           \/ DropHandler(r)
    \/ StopAtLimit
    \/ RestartSeller
    \/ ClockStep

PaidSpec == PaidInit /\ [][PaidNext]_vars

----------------------------------------------------------------------------
\* Properties.

\* The shape of every variable.
PaidTypeOK ==
    /\ ClockTypeOK
    /\ PaymentTypeOK
    /\ buyer \in [count : Nat, spent : Nat, call : Requests \cup {NoCall, Stopped}]
    /\ call \in [Requests -> {"idle", "free", "paid", "refused", "broken"} \cup CallRunning]
    /\ http \in [Requests -> [pc : {"idle", "answered", "closed"} \cup Serving,
                              header : Headers,
                              answer : {"none", "content", "quote", "402", "500"}]]

\* What Gateway has charged the buyer in the calls of C.
Charged(C) ==
    SumFunctionOnSet([s \in ledger |-> s.auth.value], {s \in ledger : s.req \in C})

\* A call of pay costs the buyer at most once, and then the price of the route
\* called, to the seller.
OneChargePerCall ==
    /\ \A s \in ledger : /\ s.auth.value = RoutePrice[Route(s.req)]
                         /\ LowerCase[s.auth.to] = LowerCase[payTo]
    /\ \A s, t \in ledger : s.req = t.req => s = t

\* So few calls, at such prices, that doubles still tell all of their totals
\* apart: with 53 bits, 2000 calls at $1000 or 600000 calls at a cent.
FewCalls(calls, price) ==
    /\ calls \in Nat \ {0} /\ price \in Nat
    /\ Requests \subseteq 1..calls
    /\ \A rt \in Routes : RoutePrice[rt] <= price
    /\ (calls * (calls + 2)) * price < TwoTo[Precision - 1]

\* The total the loop prints is money that was charged, for calls that
\* succeeded: no rounding error ever shows in it.
SpentWasCharged == Shown(buyer.spent) = Charged({r \in Requests : call[r] = "paid"})

\* What was charged before the call in progress, by calls that did not return an
\* error: whether those were charged the buyer never knows.
AnsweredBefore == {r \in Requests \ {buyer.call} : call[r] \notin {"refused", "broken"}}

\* No call begins once more than the limit has been charged.
LimitHoldsForAnswered ==
    Limit # NoLimit /\ buyer.call \in Requests => Charged(AnsweredBefore) <= Limit

\* "Stop after spending this many USDC" (examples/buyer/src/main.rs:25): no call
\* begins once the limit has been charged.
StopsAtLimit ==
    Limit # NoLimit /\ buyer.call \in Requests => Charged(AnsweredBefore) < Limit

\* At startup, when require_payment reads the prices: every price text is read
\* exactly, and every amount a buyer is told reads as the amount it is.
Starting == buyer.count = 0 /\ now = 0
PricesAreExact == Starting => PriceIsExact
AmountsReadBack == Starting => AmountRoundTrips

\* A buyer who is answered 402 has not been charged, whatever failed: then,
\* and only then, signing again is free of the risk of paying twice.
RefusedIsNotCharged ==
    \A r \in Requests : http[r].answer = "402" => ~SettledFor(r)

\* A paid route never serves without a settlement, and a route whose gate the
\* middleware cannot see neither serves nor charges.
PaidRoutesFailClosed ==
    \A r \in Requests :
        /\ http[r].answer = "content" /\ Charges(Route(r)) => SettledFor(r)
        /\ SettledFor(r) => GateSeen(Route(r))

\* "We add a 10-minute buffer to avoid edge cases." (constants.rs:10): what
\* BuyerClient signed for this seller is not refused, before Gateway is asked,
\* at any time within the buffer.
CONSTANT Buffer    \* the 10 minutes that are part of MIN_VALID_DURATION_SECS
SignedIsAccepted ==
    [][\A r \in Requests :
          http[r].pc = "sent" /\ http[r].header \in Payloads /\ http'[r].answer = "402"
              => now > http[r].header.validBefore - MinValid + Buffer]_vars

\* A call as an order, seen from the seller: see Sale.  A quote leaves it open.
SaleState(r) ==
    LET posted == exchange[r].pc # "idle"
        answer == http[r].answer
    IN CASE answer = "content" /\ Charges(Route(r)) -> "fulfilled"
         [] answer = "402" \/ (answer = "content" /\ ~Charges(Route(r))) -> "closed"
         [] answer = "500" \/ http[r].pc = "closed" -> IF posted THEN "lost" ELSE "closed"
         [] OTHER -> IF posted THEN "submitted" ELSE "open"

SaleOrder == [r \in Requests |-> [state |-> SaleState(r), auth |-> exchange[r].auth]]

Sales == INSTANCE Sale WITH
    Orders <- Requests, Payments <- Payloads, NoPayment <- NoHeader,
    order <- SaleOrder, charged <- ledger

\* A paid route sells: a call is served only against a charge, is charged once
\* at most, and a 402 closes it for good.
SellsAccess == Sales!SaleSpec
=============================================================================

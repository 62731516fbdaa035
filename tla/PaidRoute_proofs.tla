-------------------------- MODULE PaidRoute_proofs --------------------------
(***************************************************************************)
(* What the pay-per-request demo guarantees for any routes, layers, prices *)
(* and number of calls and any failures. Whatever arithmetic the buyer's   *)
(* loop does on what it spent, a call of pay is charged at most once, at   *)
(* the price of its route, never if it is answered 402 and never without   *)
(* the gate (PaidInv). For as few calls as a double has bits for           *)
(* (FewCalls) no rounding ever shows in its sums (TotalsHold): the total   *)
(* printed is what was charged, and the limit holds (SpentInv).  Seen from *)
(* the seller, the demo implements Sale.                                   *)
(***************************************************************************)
EXTENDS PaidRoute, Money_proofs

\* What a header may be: what others have signed, or what this buyer signs.
Signable == [from : Wallets, to : Wallets, value : Nat, network : {Network},
             validBefore : Nat, nonce : Requests]
HttpRequests == [pc : {"idle", "answered", "closed"} \cup Serving,
                 header : Headers \cup Signable,
                 answer : {"none", "content", "quote", "402", "500"}]
Exchanges == [pc : {"idle", "posted", "success", "declined", "error", "read"},
              auth : Headers, payer : Wallets \cup {NoWallet, Empty}]

\* cmd_pay's locals: only the number of calls matters here.
Locals(count, spent, c) == [count |-> count, spent |-> spent, call |-> c]
BuyerOK == \E count \in Nat : \E spent, c : buyer = Locals(count, spent, c)

ShapeOK ==
    /\ BuyerOK
    /\ now \in Nat
    /\ payTo \in PayTos
    /\ call \in [Requests -> {"idle", "free", "paid", "refused", "broken"} \cup CallRunning]
    /\ http \in [Requests -> HttpRequests]
    /\ exchange \in [Requests -> Exchanges]
    /\ ledger \subseteq [req : Requests, auth : Payloads]

\* A call beyond the count has not begun; before the payment there is no
\* header, and before the route has judged the header no exchange.
OrderOK(r) ==
    /\ call[r] # "idle" => r <= buyer.count
    /\ call[r] \in {"idle", "probing"} => http[r].header = NoHeader
    /\ call[r] = "idle" => http[r].pc = "idle"
    /\ http[r].header = NoHeader => exchange[r].pc = "idle"
    /\ http[r].pc \in {"idle", "sent"} => exchange[r].pc = "idle"
    /\ http[r].pc # "answered" => http[r].answer = "none"

\* What was posted is the price of the route, which has a gate; what is in the
\* ledger was posted; a payment is served when it is in the ledger, and answered
\* 402 when it is not.
MoneyOK(r) ==
    /\ exchange[r].pc # "idle" =>
          /\ exchange[r].auth \in Payloads
          /\ exchange[r].auth.value = RoutePrice[Route(r)]
          /\ LowerCase[exchange[r].auth.to] = LowerCase[payTo]
          /\ GateSeen(Route(r))
    /\ \A s \in ledger : s.req = r =>
          /\ exchange[r].pc \in {"success", "error", "read"}
          /\ s.auth = exchange[r].auth
    /\ exchange[r].pc = "success" => SettledFor(r)
    /\ http[r].answer = "content" /\ Charges(Route(r)) => SettledFor(r)
    /\ http[r].answer = "402" => /\ exchange[r].pc \in {"idle", "read"}
                                 /\ ~SettledFor(r)

PaidInv == ShapeOK /\ \A r \in Requests : OrderOK(r) /\ MoneyOK(r)

\* The initial state satisfies it.
LEMMA PaidInitInv == PaidInit => PaidInv
<1> SUFFICES ASSUME PaidInit PROVE PaidInv
  OBVIOUS
<1>1. BuyerOK
  BY DEF PaidInit, BuyerOK, Locals
<1>2. ShapeOK
  BY <1>1, PaymentAssumption
  DEF PaidInit, PaymentInit, ShapeOK, NoExchange, NoHttp, Headers, HttpRequests, Exchanges
<1>3. ASSUME NEW r \in Requests PROVE OrderOK(r) /\ MoneyOK(r)
  BY DEF PaidInit, PaymentInit, NoExchange, NoHttp, OrderOK, MoneyOK
<1> QED BY <1>2, <1>3 DEF PaidInv

----------------------------------------------------------------------------
\* What the parts of the invariant depend on.

\* The fields of a call.
LEMMA CallShape ==
  ASSUME PaidInv, NEW r \in Requests
  PROVE  /\ http[r] \in HttpRequests /\ exchange[r] \in Exchanges
         /\ r \in Nat /\ buyer.count \in Nat
         /\ OrderOK(r) /\ MoneyOK(r)
<1>1. r \in Nat
  BY PaidRouteAssumption
<1> QED BY <1>1 DEF PaidInv, ShapeOK, BuyerOK, Locals

\* A call stays as consistent as it was while it is not touched.
LEMMA Untouched ==
  ASSUME PaidInv, NEW q \in Requests,
         call'[q] = call[q], http'[q] = http[q], exchange'[q] = exchange[q], UNCHANGED payTo,
         ledger \subseteq ledger', \A s \in ledger' : s.req = q => s \in ledger,
         buyer'.count \in Nat, buyer.count <= buyer'.count
  PROVE  OrderOK(q)' /\ MoneyOK(q)'
<1>1. OrderOK(q)'
  BY CallShape DEF OrderOK
<1>2. SettledFor(q)' <=> SettledFor(q)
  BY DEF SettledFor
<1>3. MoneyOK(q)'
  BY <1>2, CallShape DEF MoneyOK
<1> QED BY <1>1, <1>3

\* A step that touches the call r.
LEMMA OneCallMoves ==
  ASSUME PaidInv, NEW r \in Requests, ShapeOK', UNCHANGED payTo,
         \A q \in Requests \ {r} : /\ call'[q] = call[q]
                                   /\ http'[q] = http[q]
                                   /\ exchange'[q] = exchange[q],
         ledger \subseteq ledger', \A s \in ledger' : s \in ledger \/ s.req = r,
         buyer.count <= buyer'.count,
         OrderOK(r)', MoneyOK(r)'
  PROVE  PaidInv'
<1>1. buyer'.count \in Nat
  BY DEF ShapeOK, BuyerOK, Locals
<1>2. \A q \in Requests \ {r} : OrderOK(q)' /\ MoneyOK(q)'
  BY <1>1, Untouched
<1> QED BY <1>2 DEF PaidInv

\* cmd_pay's loop counts only when it begins a call.
LEMMA CountKept ==
  ASSUME PaidInv, NEW spent, NEW c,
         buyer' = [buyer EXCEPT !.spent = spent, !.call = c]
  PROVE  BuyerOK' /\ buyer'.count = buyer.count /\ buyer.count <= buyer'.count
<1>1. PICK count \in Nat : \E sp, cl : buyer = Locals(count, sp, cl)
  BY DEF PaidInv, ShapeOK, BuyerOK
<1>2. PICK sp, cl : buyer = Locals(count, sp, cl)
  BY <1>1
<1>3. buyer' = Locals(count, spent, c)
  BY <1>2 DEF Locals
<1>4. BuyerOK'
  BY <1>3 DEF BuyerOK
<1>5. buyer'.count = count /\ buyer.count = count
  BY <1>2, <1>3 DEF Locals
<1> QED BY <1>4, <1>5

\* A call that returns is at pc.
LEMMA Returns ==
  ASSUME PaidInv, NEW r \in Requests, NEW spent,
         NEW pc \in {"free", "paid", "refused", "broken"}, Return(r, pc, spent)
  PROVE  /\ BuyerOK' /\ buyer'.count = buyer.count /\ buyer.count <= buyer'.count
         /\ call' \in [Requests -> {"idle", "free", "paid", "refused", "broken"} \cup CallRunning]
         /\ call'[r] = pc /\ \A q \in Requests \ {r} : call'[q] = call[q]
<1>1. buyer' = [buyer EXCEPT !.spent = spent, !.call = NoCall]
  <2>1. PICK count \in Nat : \E sp, cl : buyer = Locals(count, sp, cl)
    BY DEF PaidInv, ShapeOK, BuyerOK
  <2>2. PICK sp, cl : buyer = Locals(count, sp, cl)
    BY <2>1
  <2> QED BY <2>2 DEF Return, Locals
<1>2. BuyerOK' /\ buyer'.count = buyer.count /\ buyer.count <= buyer'.count
  BY <1>1, CountKept
<1> QED BY <1>2 DEF Return, PaidInv, ShapeOK

\* The request of r is answered with a, or closed, or under way; its header
\* stays.
LEMMA HttpMoves ==
  ASSUME PaidInv, NEW r \in Requests,
         NEW pc \in {"answered", "closed", "settling"},
         NEW a \in {"none", "content", "quote", "402", "500"},
         http' = [http EXCEPT ![r] = [http[r] EXCEPT !.pc = pc, !.answer = a]]
  PROVE  /\ http' \in [Requests -> HttpRequests]
         /\ http'[r].pc = pc /\ http'[r].answer = a /\ http'[r].header = http[r].header
         /\ \A q \in Requests \ {r} : http'[q] = http[q]
<1> DEFINE h == [http[r] EXCEPT !.pc = pc, !.answer = a]
<1>1. /\ h \in HttpRequests
      /\ h.pc = pc /\ h.answer = a /\ h.header = http[r].header
  BY CallShape DEF HttpRequests, Serving
<1>2. http' = [http EXCEPT ![r] = h]
  OBVIOUS
<1> HIDE DEF h
<1>3. http'[r] = h /\ http' \in [Requests -> HttpRequests]
      /\ \A q \in Requests \ {r} : http'[q] = http[q]
  BY <1>1, <1>2 DEF PaidInv, ShapeOK
<1> QED BY <1>1, <1>3

----------------------------------------------------------------------------
\* The buyer

\* The loop stops.
LEMMA StopInv ==
  ASSUME PaidInv, StopAtLimit
  PROVE  PaidInv'
<1>1. PICK count \in Nat : \E sp, cl : buyer = Locals(count, sp, cl)
  BY DEF PaidInv, ShapeOK, BuyerOK
<1>2. PICK sp, cl : buyer = Locals(count, sp, cl)
  BY <1>1
<1>3. buyer' = Locals(count, sp, Stopped)
  BY <1>2 DEF StopAtLimit, Locals
<1>4. BuyerOK' /\ buyer'.count = buyer.count /\ buyer'.count \in Nat
  <2>1. BuyerOK'
    BY <1>3 DEF BuyerOK
  <2>2. buyer'.count = count /\ buyer.count = count
    BY <1>2, <1>3 DEF Locals
  <2> QED BY <2>1, <2>2
<1>5. \A q \in Requests : OrderOK(q)' /\ MoneyOK(q)'
  BY <1>4, Untouched DEF StopAtLimit, paymentVars
<1> QED BY <1>4, <1>5 DEF PaidInv, ShapeOK, StopAtLimit, paymentVars

\* A call begins: it is the next one, so nothing has been done for it.
LEMMA ProbeInv ==
  ASSUME PaidInv, NEW r \in Requests, Probe(r)
  PROVE  PaidInv'
<1>1. /\ r \in Nat /\ buyer.count \in Nat /\ r = buyer.count + 1
      /\ call[r] = "idle" /\ exchange[r].pc = "idle" /\ http[r].answer = "none"
      /\ OrderOK(r) /\ MoneyOK(r) /\ UNCHANGED <<now, paymentVars>>
  <2>1. r \in Nat /\ buyer.count \in Nat /\ r = buyer.count + 1 /\ OrderOK(r) /\ MoneyOK(r)
    BY CallShape DEF Probe
  <2>2. ~(r <= buyer.count)
    BY <2>1
  <2>3. call[r] = "idle"
    BY <2>1, <2>2 DEF OrderOK
  <2> QED BY <2>1, <2>3 DEF Probe, OrderOK
<1>2. BuyerOK' /\ buyer'.count = r
  <2>1. PICK count \in Nat : \E sp, cl : buyer = Locals(count, sp, cl)
    BY DEF PaidInv, ShapeOK, BuyerOK
  <2>2. PICK sp, cl : buyer = Locals(count, sp, cl)
    BY <2>1
  <2>3. buyer' = Locals(r, sp, r)
    BY <2>2 DEF Probe, Locals
  <2>4. BuyerOK'
    BY <1>1, <2>3 DEF BuyerOK
  <2> QED BY <2>3, <2>4 DEF Locals
<1> DEFINE h == [NoHttp EXCEPT !.pc = "sent", !.header = NoHeader]
<1>3. h \in HttpRequests /\ h.pc = "sent" /\ h.header = NoHeader /\ h.answer = "none"
  BY DEF HttpRequests, Serving, NoHttp, Headers
<1>4. http' = [http EXCEPT ![r] = h]
  BY DEF Probe, Send
<1> HIDE DEF h
<1>5. /\ http' \in [Requests -> HttpRequests] /\ http'[r] = h
      /\ \A q \in Requests \ {r} : http'[q] = http[q]
  BY <1>3, <1>4 DEF PaidInv, ShapeOK
<1>6. /\ call' \in [Requests -> {"idle", "free", "paid", "refused", "broken"} \cup CallRunning]
      /\ call'[r] = "probing" /\ \A q \in Requests \ {r} : call'[q] = call[q]
  BY DEF PaidInv, ShapeOK, Probe, CallRunning
<1>7. ShapeOK'
  BY <1>1, <1>2, <1>5, <1>6 DEF PaidInv, ShapeOK, paymentVars
<1>8. OrderOK(r)'
  BY <1>1, <1>2, <1>3, <1>5, <1>6 DEF OrderOK, paymentVars
<1>9. MoneyOK(r)'
  BY <1>1, <1>3, <1>5 DEF MoneyOK, SettledFor, paymentVars
<1> QED
  BY <1>1, <1>2, <1>5, <1>6, <1>7, <1>8, <1>9, OneCallMoves DEF paymentVars

\* A call that is not at its beginning ends, whatever its request is doing.
LEMMA EndsInv ==
  ASSUME PaidInv, NEW r \in Requests, NEW spent,
         NEW pc \in {"free", "paid", "refused", "broken"}, Return(r, pc, spent),
         call[r] # "idle", UNCHANGED <<now, paymentVars, http>>
  PROVE  PaidInv'
<1>1. /\ BuyerOK' /\ buyer'.count = buyer.count /\ buyer.count <= buyer'.count
      /\ call' \in [Requests -> {"idle", "free", "paid", "refused", "broken"} \cup CallRunning]
      /\ call'[r] = pc /\ \A q \in Requests \ {r} : call'[q] = call[q]
  BY Returns
<1>2. ShapeOK'
  BY <1>1 DEF PaidInv, ShapeOK, paymentVars
<1>3. OrderOK(r)'
  BY <1>1, CallShape DEF OrderOK, paymentVars
<1>4. MoneyOK(r)'
  BY CallShape DEF MoneyOK, SettledFor, paymentVars
<1> QED BY <1>1, <1>2, <1>3, <1>4, OneCallMoves DEF paymentVars

\* The route of a call is one of the routes.
LEMMA RouteIsARoute ==
  ASSUME NEW r \in Requests
  PROVE  Route(r) \in Routes /\ RoutePrice[Route(r)] \in Nat
<1>1. Endpoints \in Seq(Routes) /\ Len(Endpoints) \in Nat \ {0} /\ r \in Nat \ {0}
  BY PaidRouteAssumption
<1>2. (r - 1) % Len(Endpoints) \in 0..(Len(Endpoints) - 1)
  BY <1>1
<1>3. ((r - 1) % Len(Endpoints)) + 1 \in 1..Len(Endpoints)
  BY <1>1, <1>2
<1>4. Route(r) \in Routes
  BY <1>1, <1>3 DEF Route
<1> QED BY <1>4, PaidRouteAssumption DEF RoutePrice

\* The probe was answered: with the resource, with an error, or with a quote
\* that is signed and sent.  Nothing had been posted for it.
LEMMA ReadProbeInv ==
  ASSUME PaidInv, NEW r \in Requests, ReadProbe(r)
  PROVE  PaidInv'
<1>1. /\ call[r] = "probing" /\ http[r].pc = "answered" /\ UNCHANGED <<now, paymentVars>>
      /\ OrderOK(r) /\ MoneyOK(r) /\ exchange[r].pc = "idle"
  BY CallShape DEF ReadProbe, OrderOK
<1>2. CASE (Return(r, "free", buyer.spent) \/ Return(r, "refused", buyer.spent)) /\ UNCHANGED http
  BY <1>1, <1>2, EndsInv
<1>3. CASE /\ Send(r, Signed(r)) /\ call' = [call EXCEPT ![r] = "paying"]
           /\ UNCHANGED buyer
  <2> DEFINE h == [NoHttp EXCEPT !.pc = "sent", !.header = Signed(r)]
  <2>1. Signed(r) \in Signable
    <3>1. Buyer \in Wallets /\ payTo \in Wallets /\ now + MinValid \in Nat
      BY PaidRouteAssumption, PaymentAssumption DEF PaidInv, ShapeOK
    <3> QED BY <3>1, RouteIsARoute DEF Signed, Signable
  <2>2. h \in HttpRequests /\ h.pc = "sent" /\ h.answer = "none"
    BY <2>1 DEF HttpRequests, Serving, NoHttp
  <2>3. http' = [http EXCEPT ![r] = h]
    BY <1>3 DEF Send
  <2> HIDE DEF h
  <2>4. /\ http' \in [Requests -> HttpRequests] /\ http'[r] = h
        /\ \A q \in Requests \ {r} : http'[q] = http[q]
    BY <2>2, <2>3 DEF PaidInv, ShapeOK
  <2>5. /\ call' \in [Requests -> {"idle", "free", "paid", "refused", "broken"} \cup CallRunning]
        /\ call'[r] = "paying" /\ \A q \in Requests \ {r} : call'[q] = call[q]
    BY <1>3 DEF PaidInv, ShapeOK, CallRunning
  <2>6. ShapeOK' /\ buyer.count <= buyer'.count
    BY <1>1, <1>3, <2>4, <2>5, CallShape DEF PaidInv, ShapeOK, BuyerOK, paymentVars
  <2>7. OrderOK(r)'
    BY <1>1, <1>3, <2>2, <2>4, <2>5 DEF OrderOK, paymentVars
  <2>8. MoneyOK(r)'
    BY <1>1, <2>2, <2>4 DEF MoneyOK, SettledFor, paymentVars
  <2> QED
    BY <1>1, <2>4, <2>5, <2>6, <2>7, <2>8, OneCallMoves DEF paymentVars
<1> QED BY <1>2, <1>3 DEF ReadProbe

\* The paid request was answered.
LEMMA ReadPaidInv ==
  ASSUME PaidInv, NEW r \in Requests, ReadPaid(r)
  PROVE  PaidInv'
  BY EndsInv DEF ReadPaid

\* The connection breaks.
LEMMA BreakInv ==
  ASSUME PaidInv, NEW r \in Requests, Break(r)
  PROVE  PaidInv'
  BY EndsInv DEF Break, CallRunning

----------------------------------------------------------------------------
\* The route

\* A request is judged: only what is acceptable at the price of the route, on a
\* route whose gate the middleware sees, is posted.
LEMMA ServeInv ==
  ASSUME PaidInv, NEW r \in Requests, Serve(r)
  PROVE  PaidInv'
<1>1. /\ http[r].pc = "sent" /\ http[r].answer = "none" /\ exchange[r].pc = "idle"
      /\ http[r] \in HttpRequests /\ exchange[r] \in Exchanges
      /\ OrderOK(r) /\ MoneyOK(r) /\ ~SettledFor(r)
      /\ UNCHANGED <<now, ledger, payTo, buyer, call>> /\ buyer.count <= buyer.count
  BY CallShape DEF Serve, OrderOK, MoneyOK, SettledFor
<1>2. CASE /\ UNCHANGED exchange
           /\ \E a \in {"content", "quote", "402", "500"} :
                 AnswerWith(r, a) /\ (a = "content" => ~Charges(Route(r)))
  <2>1. PICK a \in {"content", "quote", "402", "500"} :
           AnswerWith(r, a) /\ (a = "content" => ~Charges(Route(r)))
    BY <1>2
  <2>2. http' = [http EXCEPT ![r] = [http[r] EXCEPT !.pc = "answered", !.answer = a]]
    BY <2>1 DEF AnswerWith
  <2>3. /\ http' \in [Requests -> HttpRequests]
        /\ http'[r].pc = "answered" /\ http'[r].answer = a /\ http'[r].header = http[r].header
        /\ \A q \in Requests \ {r} : http'[q] = http[q]
    BY <2>2, HttpMoves
  <2>4. ShapeOK'
    BY <1>1, <1>2, <2>3 DEF PaidInv, ShapeOK, BuyerOK
  <2>5. OrderOK(r)'
    BY <1>1, <1>2, <2>3 DEF OrderOK
  <2>6. MoneyOK(r)'
    BY <1>1, <1>2, <2>1, <2>3 DEF MoneyOK, SettledFor
  <2> QED BY <1>1, <1>2, <2>3, <2>4, <2>5, <2>6, OneCallMoves
<1>3. CASE /\ GateSeen(Route(r)) /\ Acceptable(http[r].header, RoutePrice[Route(r)])
           /\ http' = [http EXCEPT ![r].pc = "settling"]
           /\ PostSettle(r, http[r].header)
  <2> DEFINE ex == [NoExchange EXCEPT !.pc = "posted", !.auth = http[r].header]
  <2>1. /\ http[r].header \in Payloads
        /\ http[r].header.value = RoutePrice[Route(r)]
        /\ LowerCase[http[r].header.to] = LowerCase[payTo]
        /\ http[r].header # NoHeader
    BY <1>3, PaymentAssumption DEF Acceptable, WellFormed, Compatible
  <2>2. ex \in Exchanges /\ ex.pc = "posted" /\ ex.auth = http[r].header
    BY <2>1 DEF Exchanges, NoExchange, Headers
  <2>3. exchange' = [exchange EXCEPT ![r] = ex]
    BY <1>3 DEF PostSettle
  <2> HIDE DEF ex
  <2>4. /\ exchange' \in [Requests -> Exchanges] /\ exchange'[r] = ex
        /\ \A q \in Requests \ {r} : exchange'[q] = exchange[q]
    BY <2>2, <2>3 DEF PaidInv, ShapeOK
  <2>5. http' = [http EXCEPT ![r] = [http[r] EXCEPT !.pc = "settling", !.answer = "none"]]
    BY <1>1, <1>3 DEF HttpRequests
  <2>6. /\ http' \in [Requests -> HttpRequests]
        /\ http'[r].pc = "settling" /\ http'[r].answer = "none"
        /\ http'[r].header = http[r].header
        /\ \A q \in Requests \ {r} : http'[q] = http[q]
    BY <2>5, HttpMoves
  <2>7. ShapeOK'
    BY <1>1, <2>4, <2>6 DEF PaidInv, ShapeOK, BuyerOK
  <2>8. OrderOK(r)'
    BY <1>1, <2>1, <2>6 DEF OrderOK
  <2>9. MoneyOK(r)'
    BY <1>1, <1>3, <2>1, <2>2, <2>4, <2>6 DEF MoneyOK, SettledFor
  <2> QED BY <1>1, <2>4, <2>6, <2>7, <2>8, <2>9, OneCallMoves
<1> QED BY <1>2, <1>3 DEF Serve

\* Gateway's answer is read: a success is served, and only when it declined is
\* the answer 402.
LEMMA AnswerReadInv ==
  ASSUME PaidInv, NEW r \in Requests, ServeSettled(r) \/ ServeUnsettled(r)
  PROVE  PaidInv'
<1>1. /\ http[r].pc = "settling" /\ http[r].header # NoHeader /\ exchange[r].pc # "idle"
      /\ exchange[r] \in Exchanges /\ OrderOK(r) /\ MoneyOK(r)
      /\ UNCHANGED <<now, ledger, payTo, buyer, call>> /\ buyer.count <= buyer.count
  BY CallShape DEF ServeSettled, ServeUnsettled, Resume, OrderOK
<1>2. PICK a \in {"content", "402", "500"} :
         /\ AnswerWith(r, a)
         /\ exchange' = [exchange EXCEPT ![r].pc = "read"]
         /\ a = "content" => exchange[r].pc = "success"
         /\ a = "402" => exchange[r].pc = "declined"
         /\ exchange[r].pc \in {"success", "declined", "error"}
  BY DEF ServeSettled, ServeUnsettled, Resume
<1> DEFINE ex == [exchange[r] EXCEPT !.pc = "read"]
<1>3. ex \in Exchanges /\ ex.pc = "read" /\ ex.auth = exchange[r].auth
  BY <1>1 DEF Exchanges
<1>4. exchange' = [exchange EXCEPT ![r] = ex]
  BY <1>2
<1> HIDE DEF ex
<1>5. /\ exchange' \in [Requests -> Exchanges] /\ exchange'[r] = ex
      /\ \A q \in Requests \ {r} : exchange'[q] = exchange[q]
  BY <1>3, <1>4 DEF PaidInv, ShapeOK
<1>6. http' = [http EXCEPT ![r] = [http[r] EXCEPT !.pc = "answered", !.answer = a]]
  BY <1>2 DEF AnswerWith
<1>7. /\ http' \in [Requests -> HttpRequests]
      /\ http'[r].pc = "answered" /\ http'[r].answer = a /\ http'[r].header = http[r].header
      /\ \A q \in Requests \ {r} : http'[q] = http[q]
  BY <1>6, HttpMoves
<1>8. ShapeOK'
  BY <1>1, <1>5, <1>7 DEF PaidInv, ShapeOK, BuyerOK
<1>9. OrderOK(r)'
  BY <1>1, <1>7 DEF OrderOK
<1>10. MoneyOK(r)'
  BY <1>1, <1>2, <1>3, <1>5, <1>7 DEF MoneyOK, SettledFor
<1> QED BY <1>1, <1>5, <1>7, <1>8, <1>9, <1>10, OneCallMoves

\* hyper drops a handler nobody waits for.
LEMMA DropHandlerInv ==
  ASSUME PaidInv, NEW r \in Requests, DropHandler(r)
  PROVE  PaidInv'
<1>1. /\ http[r].pc \in Serving /\ http[r].answer = "none" /\ http[r] \in HttpRequests
      /\ OrderOK(r) /\ MoneyOK(r)
      /\ call[r] = "broken" /\ UNCHANGED <<now, paymentVars, buyer, call>>
      /\ buyer.count <= buyer.count
  BY CallShape DEF DropHandler, OrderOK, Serving
<1>2. http' = [http EXCEPT ![r] = [http[r] EXCEPT !.pc = "closed", !.answer = "none"]]
  BY <1>1 DEF DropHandler, HttpRequests
<1>3. /\ http' \in [Requests -> HttpRequests]
      /\ http'[r].pc = "closed" /\ http'[r].answer = "none" /\ http'[r].header = http[r].header
      /\ \A q \in Requests \ {r} : http'[q] = http[q]
  BY <1>2, HttpMoves
<1>4. ShapeOK'
  BY <1>1, <1>3 DEF PaidInv, ShapeOK, BuyerOK, paymentVars
<1>5. OrderOK(r)'
  BY <1>1, <1>3 DEF OrderOK, paymentVars
<1>6. MoneyOK(r)'
  BY <1>1, <1>3 DEF MoneyOK, SettledFor, paymentVars
<1> QED BY <1>1, <1>3, <1>4, <1>5, <1>6, OneCallMoves DEF paymentVars

----------------------------------------------------------------------------
\* Gateway, time and restarts

\* Gateway settles what it was sent, declines it, or its answer is lost.
LEMMA SettleInv ==
  ASSUME PaidInv, NEW r \in Requests, SettleStep(r)
  PROVE  PaidInv'
<1>1. /\ exchange[r] \in Exchanges /\ exchange[r].pc \in {"posted", "success"}
      /\ exchange[r].auth \in Payloads /\ OrderOK(r) /\ MoneyOK(r)
      /\ UNCHANGED <<now, buyer, call, http, payTo>> /\ buyer.count <= buyer.count
  <2>1. exchange[r].pc \in {"posted", "success"} /\ UNCHANGED <<now, routeVars, payTo>>
    BY DEF SettleStep, GatewayStep, GatewayAnswers, GatewaySettles, GatewayDeclines, GatewayFails
  <2>2. exchange[r] \in Exchanges /\ OrderOK(r) /\ MoneyOK(r) /\ buyer.count <= buyer.count
    BY CallShape
  <2>3. exchange[r].auth \in Payloads
    BY <2>1, <2>2 DEF MoneyOK
  <2> QED BY <2>1, <2>2, <2>3 DEF routeVars
<1> DEFINE settlement == [req |-> r, auth |-> exchange[r].auth]
<1>2. PICK pc \in {"success", "declined", "error"}, w \in Wallets \cup {NoWallet, Empty} :
         /\ exchange' = [exchange EXCEPT ![r] = [exchange[r] EXCEPT !.pc = pc, !.payer = w]]
         /\ \/ pc = "declined" /\ exchange[r].pc = "posted" /\ UNCHANGED ledger
            \/ pc = "error" /\ UNCHANGED ledger
            \/ pc = "success" /\ ledger' = ledger \cup {settlement}
  <2>1. CASE GatewaySettles(r)
    <3>1. PICK w \in PayerNames(exchange[r].auth) :
             exchange' = [exchange EXCEPT ![r] = [exchange[r] EXCEPT !.pc = "success", !.payer = w]]
      BY <2>1 DEF GatewaySettles
    <3>2. w \in Wallets \cup {NoWallet, Empty}
      BY DEF PayerNames
    <3> QED BY <2>1, <3>1, <3>2 DEF GatewaySettles
  <2>2. CASE GatewayDeclines(r) \/ GatewayFails(r)
    <3>1. PICK pc \in {"declined", "error"} :
             /\ exchange' = [exchange EXCEPT ![r] = [exchange[r] EXCEPT !.pc = pc]]
             /\ pc = "declined" => exchange[r].pc = "posted"
      BY <2>2 DEF GatewayDeclines, GatewayFails
    <3>2. [exchange[r] EXCEPT !.pc = pc]
             = [exchange[r] EXCEPT !.pc = pc, !.payer = exchange[r].payer]
      BY <1>1 DEF Exchanges
    <3>3. exchange[r].payer \in Wallets \cup {NoWallet, Empty} /\ UNCHANGED ledger
      BY <1>1, <2>2 DEF GatewayDeclines, GatewayFails, Exchanges
    <3> QED BY <3>1, <3>2, <3>3
  <2> QED BY <2>1, <2>2 DEF SettleStep, GatewayStep, GatewayAnswers
<1> DEFINE ex == [exchange[r] EXCEPT !.pc = pc, !.payer = w]
<1>3. ex \in Exchanges /\ ex.pc = pc /\ ex.auth = exchange[r].auth
  BY <1>1 DEF Exchanges
<1>4. exchange' = [exchange EXCEPT ![r] = ex]
  BY <1>2
<1>5. settlement.req = r /\ settlement.auth = exchange[r].auth
      /\ settlement \in [req : Requests, auth : Payloads]
  BY <1>1
<1> HIDE DEF ex, settlement
<1>6. /\ exchange' \in [Requests -> Exchanges] /\ exchange'[r] = ex
      /\ \A q \in Requests \ {r} : exchange'[q] = exchange[q]
  BY <1>3, <1>4 DEF PaidInv, ShapeOK
<1>7. /\ ledger \subseteq ledger' /\ ledger' \subseteq [req : Requests, auth : Payloads]
      /\ \A s \in ledger' : s \in ledger \/ s = settlement
      /\ pc = "success" => settlement \in ledger'
      /\ pc # "success" => ledger' = ledger
  BY <1>2, <1>5 DEF PaidInv, ShapeOK
<1>8. ShapeOK'
  BY <1>1, <1>6, <1>7 DEF PaidInv, ShapeOK, BuyerOK
<1>9. OrderOK(r)'
  BY <1>1 DEF OrderOK
<1>10. MoneyOK(r)'
  <2>1. http[r].answer # "402"
    BY <1>1 DEF MoneyOK
  <2>2. pc = "success" => SettledFor(r)'
    BY <1>5, <1>7 DEF SettledFor
  <2>3. SettledFor(r) => SettledFor(r)'
    BY <1>7 DEF SettledFor
  <2>4. ASSUME NEW s \in ledger', s.req = r
        PROVE  pc \in {"success", "error"} /\ s.auth = exchange[r].auth
    BY <1>1, <1>2, <1>5, <1>7, <2>4 DEF MoneyOK
  <2> QED BY <1>1, <1>3, <1>6, <2>1, <2>2, <2>3, <2>4 DEF MoneyOK
<1> QED BY <1>1, <1>5, <1>6, <1>7, <1>8, <1>9, <1>10, OneCallMoves

\* The seller stops: requests under way are closed, exchanges go on without.
LEMMA RestartInv ==
  ASSUME PaidInv, RestartSeller
  PROVE  PaidInv'
<1>1. UNCHANGED <<now, paymentVars>>
  BY DEF RestartSeller
<1>2. ASSUME NEW q \in Requests
      PROVE  /\ http'[q] \in HttpRequests /\ http'[q].header = http[q].header
             /\ http'[q].answer = http[q].answer
             /\ \/ http'[q].pc = http[q].pc
                \/ http[q].pc \in Serving /\ http'[q].pc = "closed"
  <2> DEFINE h == [http[q] EXCEPT !.pc = "closed"]
  <2>1. /\ h \in HttpRequests /\ h.pc = "closed"
        /\ h.header = http[q].header /\ h.answer = http[q].answer
    BY CallShape DEF HttpRequests
  <2>2. http'[q] = IF http[q].pc \in Serving THEN h ELSE http[q]
    BY DEF RestartSeller
  <2> HIDE DEF h
  <2> QED BY <2>1, <2>2, CallShape
<1>3. http' \in [Requests -> HttpRequests]
  <2>1. http' = [q \in Requests |-> http'[q]]
    BY DEF RestartSeller
  <2> QED BY <1>2, <2>1
<1>4. /\ BuyerOK' /\ buyer'.count = buyer.count
      /\ call' \in [Requests -> {"idle", "free", "paid", "refused", "broken"} \cup CallRunning]
      /\ \A q \in Requests : \/ call'[q] = call[q]
                             \/ http[q].pc \in Serving /\ call'[q] = "broken"
  <2>1. CASE UNCHANGED <<buyer, call>>
    BY <2>1 DEF PaidInv, ShapeOK, BuyerOK
  <2>2. CASE /\ buyer.call \in Requests /\ http[buyer.call].pc \in Serving
             /\ Return(buyer.call, "broken", buyer.spent)
    BY <2>2, Returns
  <2> QED BY <2>1, <2>2 DEF RestartSeller
<1>5. ShapeOK'
  BY <1>1, <1>3, <1>4 DEF PaidInv, ShapeOK, paymentVars
<1>6. ASSUME NEW q \in Requests PROVE OrderOK(q)' /\ MoneyOK(q)'
  <2>1. OrderOK(q) /\ MoneyOK(q)
    BY CallShape
  <2>2. OrderOK(q)'
    BY <1>1, <1>2, <1>4, <2>1 DEF OrderOK, Serving, paymentVars
  <2>3. MoneyOK(q)'
    BY <1>1, <1>2, <2>1 DEF MoneyOK, SettledFor, paymentVars
  <2> QED BY <2>2, <2>3
<1> QED BY <1>5, <1>6 DEF PaidInv

\* Time passes, or nothing happens.
LEMMA NothingMoves ==
  ASSUME PaidInv, now' \in Nat, UNCHANGED <<paymentVars, routeVars>>
  PROVE  PaidInv'
<1>1. ShapeOK'
  BY DEF PaidInv, ShapeOK, BuyerOK, paymentVars, routeVars
<1>2. \A q \in Requests : OrderOK(q)' /\ MoneyOK(q)'
  BY CallShape, Untouched DEF paymentVars, routeVars
<1> QED BY <1>1, <1>2 DEF PaidInv

----------------------------------------------------------------------------
\* The theorems

\* PaidInv is inductive, with one lemma per action.
LEMMA PaidStepInv ==
  ASSUME PaidInv, [PaidNext]_vars
  PROVE  PaidInv'
<1>1. CASE UNCHANGED vars
  BY <1>1, NothingMoves DEF vars, PaidInv, ShapeOK
<1>2. CASE ClockStep
  <2>1. now' \in Nat
    BY <1>2 DEF ClockStep, Tick, ClockSetBack, PaidInv, ShapeOK
  <2> QED BY <1>2, <2>1, NothingMoves DEF ClockStep
<1>3. ASSUME NEW r \in Requests, BuyerStep(r) \/ ServerStep(r) PROVE PaidInv'
  BY <1>3, ReadProbeInv, ReadPaidInv, ServeInv, AnswerReadInv DEF BuyerStep, ServerStep
<1> QED
  BY <1>1, <1>2, <1>3, ProbeInv, SettleInv, BreakInv, DropHandlerInv, StopInv, RestartInv
  DEF PaidNext

\* The invariant holds in every state, however calls, handlers, Gateway, broken
\* connections and restarts interleave.
THEOREM PaidInvariance == PaidSpec => []PaidInv
<1> QED BY PaidInitInv, PaidStepInv, PTL DEF PaidSpec

\* A call of pay costs the price of its route, to the seller, and at most once.
THEOREM ChargedOnce == PaidSpec => []OneChargePerCall
<1>1. PaidInv => OneChargePerCall
  <2> SUFFICES ASSUME PaidInv PROVE OneChargePerCall
    OBVIOUS
  <2>1. ledger \subseteq [req : Requests, auth : Payloads]
    BY DEF PaidInv, ShapeOK
  <2>2. ASSUME NEW s \in ledger
        PROVE  /\ s.req \in Requests
               /\ exchange[s.req].pc # "idle" /\ s.auth = exchange[s.req].auth
               /\ s.auth.value = RoutePrice[Route(s.req)]
               /\ LowerCase[s.auth.to] = LowerCase[payTo]
    <3>1. s.req \in Requests
      BY <2>1
    <3>2. MoneyOK(s.req)
      BY <3>1, CallShape
    <3> QED BY <3>1, <3>2 DEF MoneyOK
  <2>3. ASSUME NEW s \in ledger, NEW t \in ledger, s.req = t.req
        PROVE  s = t
    <3>1. s.auth = t.auth
      BY <2>2, <2>3
    <3>2. s \in [req : Requests, auth : Payloads] /\ t \in [req : Requests, auth : Payloads]
      BY <2>1
    <3> QED BY <2>3, <3>1, <3>2
  <2> QED BY <2>2, <2>3 DEF OneChargePerCall
<1> QED BY <1>1, PaidInvariance, PTL

\* A buyer who is answered 402 has not been charged.
THEOREM NotChargedIf402 == PaidSpec => []RefusedIsNotCharged
<1>1. PaidInv => RefusedIsNotCharged
  BY DEF PaidInv, MoneyOK, RefusedIsNotCharged
<1> QED BY <1>1, PaidInvariance, PTL

\* Nothing is served unpaid, and nothing charged where the gate is not seen.
THEOREM FailsClosed == PaidSpec => []PaidRoutesFailClosed
<1>1. PaidInv => PaidRoutesFailClosed
  BY DEF PaidInv, MoneyOK, PaidRoutesFailClosed, SettledFor
<1> QED BY <1>1, PaidInvariance, PTL

----------------------------------------------------------------------------
\* The total of cmd_pay's loop.

\* What the addition of doubles has to do for the loop.  T holds every <<r, x>>
\* such that x may be the total after some of the calls up to r were paid: each
\* further price is to show in the total as that price, and a total below the
\* limit as a double is to show as at most the limit.
TotalsAreExact(T) ==
    /\ T \subseteq Nat \X Nat
    /\ <<0, 0>> \in T /\ Shown(0) = 0
    /\ \A p \in T, r \in Requests :
          p[1] < r => LET x == AddF64(p[2], Told[Route(r)])
                      IN <<r, x>> \in T /\ Shown(x) = Shown(p[2]) + RoutePrice[Route(r)]
    /\ Limit # NoLimit => \A p \in T : ~(p[2] >= LimitF64) => Shown(p[2]) <= Limit

\* Every price is in atomic units, and a buyer is told it to the nearest double.
LEMMA ToldIsNear ==
  ASSUME NEW rt \in Routes
  PROVE  /\ RoutePrice[rt] \in 1..MaxPrice
         /\ Near(Told[rt], RoutePrice[rt], RoutePrice[rt])
<1>1. PriceToAtomic(PriceText[rt]) \in Nat
  BY PaidRouteAssumption
<1>2. Invalid \notin Nat
  BY MoneyAssumption
<1>3. PriceToAtomic(PriceText[rt]) \in 1..MaxPrice
  <2>1. PriceToAtomic(PriceText[rt]) = Invalid \/ PriceToAtomic(PriceText[rt]) \in 1..MaxPrice
    BY Zenon DEF PriceToAtomic
  <2> QED BY <1>1, <1>2, <2>1, Zenon
<1>4. RoutePrice[rt] = PriceToAtomic(PriceText[rt])
  BY DEF RoutePrice
<1>5. Told[rt] = ReadF64(AmountPaidUsdc(RoutePrice[rt]))
  BY DEF Told
<1>6. RoutePrice[rt] \in 1..MaxPrice
  BY <1>3, <1>4
<1> QED BY <1>5, <1>6, ReadIsNear, Zenon

\* A larger part allows for more.
LEMMA NearAllows ==
  ASSUME NEW x, NEW a \in Nat, NEW k \in Nat, NEW l \in Nat, k <= l, Near(x, a, k)
  PROVE  Near(x, a, l)
<1>1. Unit \in Nat /\ Half \in Nat /\ One \in Nat /\ x \in Nat
  BY Widths DEF Near
<1>2. k * Unit <= l * Unit /\ k * Unit \in Nat /\ l * Unit \in Nat
  BY <1>1, Times
<1> DEFINE f == (2 * Half) * (One * x)
           g == (2 * Half) * (a * Unit)
<1>3. f \in Nat /\ g \in Nat /\ f <= g + k * Unit /\ g <= f + k * Unit
  BY <1>1 DEF Near
<1> HIDE DEF f, g
<1>4. f <= g + l * Unit /\ g <= f + l * Unit
  BY <1>2, <1>3
<1> QED BY <1>1, <1>4 DEF f, g, Near

\* After n calls the total is off by no more than n * (n + 2) * price parts.
Parts(n, price) == (n * (n + 2)) * price
Totals(calls, price) ==
    {p \in (0..calls) \X Nat : \E a \in 0..(p[1] * price) : Near(p[2], a, Parts(p[1], price))}

\* More calls, more parts.
LEMMA PartsGrow ==
  ASSUME NEW n \in Nat, NEW m \in Nat, NEW price \in Nat, n <= m
  PROVE  /\ Parts(n, price) \in Nat /\ Parts(m, price) \in Nat
         /\ Parts(n, price) <= Parts(m, price) /\ n * price \in Nat /\ m * price \in Nat
         /\ n * price <= m * price /\ n * price <= Parts(n, price)
<1>1. n * (n + 2) \in Nat /\ m * (m + 2) \in Nat /\ n * (n + 2) <= m * (m + 2)
      /\ n <= n * (n + 2)
  BY Times
<1>2. n * price <= m * price /\ n * price \in Nat /\ m * price \in Nat
  BY Times
<1> DEFINE e == n * (n + 2)
           f == m * (m + 2)
<1>3. e \in Nat /\ f \in Nat /\ e <= f /\ n <= e
  BY <1>1
<1>4. Parts(n, price) = e * price /\ Parts(m, price) = f * price
  BY DEF Parts
<1> HIDE DEF e, f
<1>5. e * price \in Nat /\ f * price \in Nat /\ e * price <= f * price /\ n * price <= e * price
  BY <1>3, Times
<1> QED BY <1>2, <1>4, <1>5

\* With few calls, a total is shown as the amount it stands for.
LEMMA TotalIsShown ==
  ASSUME NEW calls, NEW price, FewCalls(calls, price), NEW n \in 0..calls, NEW x,
         NEW a \in 0..(n * price), Near(x, a, Parts(n, price))
  PROVE  /\ Shown(x) = a
         /\ n \in Nat /\ a \in Nat /\ a <= n * price /\ n * price < Half
         /\ Parts(n, price) \in Nat /\ Parts(n, price) < Half
<1>1. calls \in Nat /\ price \in Nat /\ n \in Nat /\ n <= calls
  BY DEF FewCalls
<1>2. /\ Parts(n, price) \in Nat /\ Parts(calls, price) \in Nat
      /\ Parts(n, price) <= Parts(calls, price) /\ n * price <= Parts(n, price) /\ n * price \in Nat
  BY <1>1, PartsGrow
<1>3. Parts(calls, price) < Half /\ Half \in Nat
  BY Widths DEF FewCalls, Parts, Half
<1>4. Parts(n, price) < Half /\ n * price < Half
  BY <1>2, <1>3
<1>5. a \in Nat /\ a <= n * price
  BY <1>2
<1>6. Shown(x) = a
  <2> DEFINE k == Parts(n, price)
  <2>1. k \in Nat /\ k < Half /\ Near(x, a, k)
    BY <1>2, <1>4
  <2> HIDE DEF k
  <2> QED BY <1>5, <2>1, ShownIs
<1> QED BY <1>1, <1>2, <1>4, <1>5, <1>6

\* The limit is read to the nearest double.
LEMMA LimitIsNear ==
  ASSUME Limit \in Nat, Limit < Half
  PROVE  LimitF64 \in Nat /\ Shown(LimitF64) = Limit
<1> DEFINE k == IF Limit = 0 THEN 1 ELSE Limit
           num == Limit * Unit
           B == k * Unit
<1>1. Half \in Nat /\ Unit \in Nat \ {0} /\ One \in Nat \ {0} /\ One * Half <= Unit
  BY Widths
<1>2. 1 < Half
  <2>1. PICK rt \in Routes : TRUE
    BY RouteIsARoute, PaidRouteAssumption
  <2>2. 1 <= MaxPrice /\ MaxPrice \in Nat /\ MaxPrice < Half
    BY ToldIsNear, Widths
  <2> QED BY <1>1, <2>2
<1>3. k \in Nat /\ k < Half /\ k >= 1 /\ Limit <= k
  BY <1>1, <1>2
<1>4. num \in Nat /\ B \in Nat /\ num <= B /\ Unit <= B
  <2> HIDE DEF k
  <2> QED BY <1>1, <1>3, Times
<1>5. One * Half <= B
  <2>1. One * Half \in Nat
    BY <1>1
  <2> HIDE DEF B
  <2> QED BY <1>1, <1>4, <2>1
<1>6. num \div One < TwoTo[Precision + Scale]
  <2>1. TwoTo[Precision + Scale] = (2 * Half) * Unit
    BY Widths DEF Unit
  <2>2. num < (2 * Half) * Unit
    BY <1>1
  <2> HIDE DEF num
  <2>3. num \div One \in Nat /\ num % One \in 0..(One - 1) /\ num = One * (num \div One) + (num % One)
    BY <1>1, <1>4, Division
  <2>4. num \div One <= num
    BY <1>1, <1>4, <2>3
  <2>5. (2 * Half) * Unit \in Nat
    BY <1>1
  <2> QED BY <1>4, <2>1, <2>2, <2>3, <2>4, <2>5
<1> DEFINE x == Nearest(num, One)
<1>7. /\ x \in Nat
      /\ (2 * Half) * (One * x) <= (2 * Half) * num + B
      /\ (2 * Half) * num <= (2 * Half) * (One * x) + B
  <2> HIDE DEF num, B
  <2> QED BY <1>1, <1>4, <1>5, <1>6, NearestIs
<1>8. LimitF64 = x
  BY DEF LimitF64
<1> HIDE DEF x
<1>9. Near(x, Limit, k)
  BY <1>7 DEF Near
<1> HIDE DEF k
<1> QED BY <1>3, <1>7, <1>8, <1>9, ShownIs

\* Shown, the doubles keep their order.
LEMMA ShownGrows ==
  ASSUME NEW x \in Nat, NEW y \in Nat, x <= y
  PROVE  Shown(x) <= Shown(y)
<1>1. Unit \in Nat \ {0} /\ One \in Nat \ {0}
  BY Widths
<1> DEFINE f == 2 * x * One + Unit
           g == 2 * y * One + Unit
           d == 2 * Unit
<1>2. x * One <= y * One /\ x * One \in Nat /\ y * One \in Nat
  BY <1>1, Times
<1>3. 2 * x * One = 2 * (x * One) /\ 2 * y * One = 2 * (y * One)
  BY <1>1
<1>4. f \in Nat /\ g \in Nat /\ f <= g /\ d \in Nat \ {0}
  BY <1>1, <1>2, <1>3
<1> HIDE DEF f, g, d
<1>5. f \div d <= g \div d
  BY <1>4, DivisionGrows
<1> QED BY <1>5 DEF Shown, f, g, d

\* Few calls make their totals exact: each addition rounds by less than a part
\* per atomic unit of the sum, and all of it together is less than half an
\* atomic unit.
LEMMA TotalsHold ==
  ASSUME NEW calls, NEW price, FewCalls(calls, price)
  PROVE  TotalsAreExact(Totals(calls, price))
<1> DEFINE T == Totals(calls, price)
<1>1. calls \in Nat /\ price \in Nat /\ Half \in Nat \ {0} /\ Unit \in Nat \ {0} /\ One \in Nat \ {0}
  BY Widths DEF FewCalls
<1>2. \A p \in T : p = <<p[1], p[2]>> /\ p[1] \in 0..calls /\ p[2] \in Nat
  BY DEF Totals
<1>3. T \subseteq Nat \X Nat
  BY <1>1, <1>2
<1>4. Near(0, 0, 0) /\ Shown(0) = 0
  <2>1. Near(0, 0, 0)
    BY <1>1 DEF Near
  <2> QED BY <1>1, <2>1, ShownIs
<1>5. <<0, 0>> \in T
  <2> DEFINE p == <<0, 0>>
  <2>1. Parts(0, price) = 0 /\ 0 * price = 0
    BY <1>1 DEF Parts
  <2>2. p[1] = 0 /\ p[2] = 0 /\ p \in (0..calls) \X Nat
    BY <1>1
  <2>3. 0 \in 0..(p[1] * price) /\ Near(p[2], 0, Parts(p[1], price))
    BY <1>4, <2>1, <2>2
  <2> HIDE DEF p
  <2>4. p \in T
    BY <2>2, <2>3, Zenon DEF Totals
  <2> QED BY <2>4 DEF p
<1>6. ASSUME NEW p \in T, NEW r \in Requests, p[1] < r
      PROVE  LET x == AddF64(p[2], Told[Route(r)])
             IN <<r, x>> \in T /\ Shown(x) = Shown(p[2]) + RoutePrice[Route(r)]
  <2> DEFINE n == p[1]
             t == p[2]
             y == Told[Route(r)]
             b == RoutePrice[Route(r)]
             x == AddF64(t, y)
  <2>1. PICK a \in 0..(n * price) : Near(t, a, Parts(n, price))
    BY Zenon DEF Totals
  <2>2. n \in 0..calls /\ t \in Nat
    BY <1>2
  <2>3. Route(r) \in Routes
    BY RouteIsARoute
  <2>4. b \in Nat /\ b >= 1 /\ b <= price /\ Near(y, b, b)
    <3>1. b \in 1..MaxPrice /\ Near(y, b, b)
      BY <2>3, ToldIsNear
    <3>2. b <= price
      BY <2>3 DEF FewCalls
    <3> HIDE DEF b, y
    <3> QED BY <3>1, <3>2, Widths
  <2>5. r \in 1..calls /\ n < r
    BY <1>6 DEF FewCalls
  <2> HIDE DEF T, n, t, y, b, x
  <2>6. /\ Shown(t) = a /\ n \in Nat /\ a \in Nat /\ a <= n * price
        /\ Parts(n, price) \in Nat /\ Parts(n, price) < Half
    BY <2>1, <2>2, TotalIsShown
  <2>7. n + 1 \in Nat /\ r \in Nat /\ n + 1 <= r
    BY <1>1, <2>5, <2>6
  <2> DEFINE k == Parts(n, price)
             l == k + b + (a + b + 1)
             np == n * price
             nn == (n * n) * price
  <2>8. /\ k = nn + 2 * np /\ np \in Nat /\ nn \in Nat /\ (n + 1) * price = np + price
        /\ Parts(n + 1, price) = nn + 4 * np + 3 * price
    <3>1. k = nn + 2 * np
      BY <1>1, <2>6 DEF Parts
    <3>2. Parts(n + 1, price) = nn + 4 * np + 3 * price
      <4>1. Parts(n + 1, price) = ((n + 1) * (n + 3)) * price
        BY <2>6 DEF Parts
      <4>2. (n + 1) * (n + 3) = (n * n) + 4 * n + 3
        BY <2>6
      <4>3. ((n * n) + 4 * n + 3) * price = (n * n) * price + 4 * (n * price) + 3 * price
        BY <1>1, <2>6
      <4> QED BY <4>1, <4>2, <4>3
    <3> QED BY <1>1, <2>6, <3>1, <3>2
  <2> HIDE DEF nn, np
  <2>9. l \in Nat /\ l <= Parts(n + 1, price) /\ a + b <= (n + 1) * price /\ a + b \in Nat
    <3>1. a <= np
      BY <2>6 DEF np
    <3> HIDE DEF k
    <3> QED BY <1>1, <2>4, <2>6, <2>8, <3>1
  <2>10. /\ Parts(n + 1, price) \in Nat /\ Parts(n + 1, price) <= Parts(r, price)
         /\ (n + 1) * price \in Nat /\ (n + 1) * price <= r * price /\ r * price \in Nat
         /\ Parts(r, price) \in Nat /\ Parts(r, price) <= Parts(calls, price)
         /\ Parts(calls, price) \in Nat
    <3>1. r <= calls
      BY <1>1, <2>5
    <3> QED BY <1>1, <2>7, <3>1, PartsGrow
  <2>11. Parts(calls, price) < Half
    BY DEF FewCalls, Parts, Half
  <2>12. l < Half /\ k + b <= 2 * Half /\ a + b + 1 < 2 * Half
    <3>1. l < Half
      <4> HIDE DEF l
      <4> QED BY <1>1, <2>9, <2>10, <2>11
    <3> QED BY <1>1, <2>4, <2>6, <3>1
  <2>13. Near(x, a + b, l)
    <3> HIDE DEF k
    <3>1. k \in Nat /\ Near(t, a, k)
      BY <2>1, <2>6 DEF k
    <3> QED BY <2>4, <2>6, <2>12, <3>1, SumIsNear DEF x
  <2> HIDE DEF l, k
  <2>14. Shown(x) = a + b
    BY <2>9, <2>12, <2>13, ShownIs
  <2>15. Near(x, a + b, Parts(r, price))
    <3>1. l <= Parts(r, price)
      BY <2>9, <2>10
    <3> QED BY <2>9, <2>10, <2>13, <3>1, NearAllows
  <2>16. <<r, x>> \in T
    <3> DEFINE q == <<r, x>>
    <3>1. x \in Nat
      BY <2>13 DEF Near
    <3>2. q[1] = r /\ q[2] = x /\ q \in (0..calls) \X Nat
      BY <1>1, <2>5, <3>1
    <3>3. a + b \in 0..(r * price)
      BY <2>9, <2>10
    <3> HIDE DEF q
    <3>4. a + b \in 0..(q[1] * price) /\ Near(q[2], a + b, Parts(q[1], price))
      BY <2>15, <3>2, <3>3
    <3>5. q \in T
      BY <3>2, <3>4, Zenon DEF Totals, T
    <3> QED BY <3>5 DEF q
  <2>17. Shown(x) = Shown(t) + b
    BY <2>6, <2>14
  <2> QED BY <2>16, <2>17 DEF x, t, y, b
<1>7. ASSUME Limit # NoLimit, NEW p \in T, ~(p[2] >= LimitF64)
      PROVE  Shown(p[2]) <= Limit
  <2> DEFINE n == p[1]
             t == p[2]
  <2>1. PICK a \in 0..(n * price) : Near(t, a, Parts(n, price))
    BY Zenon DEF Totals
  <2>2. n \in 0..calls /\ t \in Nat /\ ~(t >= LimitF64)
    BY <1>2, <1>7
  <2>3. Limit \in Nat
    BY <1>7, PaidRouteAssumption
  <2> HIDE DEF T, n, t
  <2>4. Shown(t) = a /\ n \in Nat /\ a \in Nat /\ a <= n * price /\ n * price < Half
    BY <2>1, <2>2, TotalIsShown
  <2>5. CASE Limit < Half
    <3>1. LimitF64 \in Nat /\ Shown(LimitF64) = Limit
      BY <2>3, <2>5, LimitIsNear
    <3>2. t <= LimitF64
      BY <2>2, <3>1
    <3>3. Shown(t) <= Shown(LimitF64)
      BY <2>2, <3>1, <3>2, ShownGrows
    <3> QED BY <3>1, <3>3 DEF t
  <2>6. CASE ~(Limit < Half)
    <3>1. n * price \in Nat
      BY <1>1, <2>4
    <3>2. a <= Limit
      BY <1>1, <2>3, <2>4, <2>6, <3>1
    <3> QED BY <2>4, <3>2 DEF t
  <2> QED BY <2>5, <2>6
<1> HIDE DEF T
<1> QED BY <1>3, <1>4, <1>5, <1>6, <1>7 DEF TotalsAreExact, T

----------------------------------------------------------------------------
\* The books of the loop, over totals T that are exact enough.

PaidCalls == {r \in Requests : call[r] = "paid"}

\* The total is one of T, made before the call in progress; that call is the
\* last one begun, and began below the limit.
LoopOK(T) ==
    /\ \E n \in Nat : /\ n <= buyer.count
                      /\ buyer.call \in Requests => n < buyer.call
                      /\ <<n, buyer.spent>> \in T
    /\ buyer.call \in Requests => buyer.call = buyer.count /\ call[buyer.call] \in CallRunning
    /\ buyer.call \in Requests /\ Limit # NoLimit => ~(buyer.spent >= LimitF64)
    /\ buyer.call \in Requests \cup {NoCall, Stopped}

\* One call at a time; what is signed is for a route with a gate, so a call
\* that succeeded was settled, and one that was free was not.
PhaseOK(r) ==
    /\ call[r] \in CallRunning => buyer.call = r
    /\ call[r] = "paying" \/ http[r].answer = "quote" => GateSeen(Route(r))
    /\ call[r] = "free" => http[r].header = NoHeader
    /\ call[r] = "paid" => SettledFor(r)

SpentInv(T) ==
    /\ PaidInv
    /\ IsFiniteSet(ledger)
    /\ LoopOK(T)
    /\ \A r \in Requests : PhaseOK(r)
    /\ Shown(buyer.spent) = Charged(PaidCalls)

\* cmd_pay's locals are three.
LEMMA BuyerIsARecord ==
  ASSUME PaidInv
  PROVE  /\ buyer = [count |-> buyer.count, spent |-> buyer.spent, call |-> buyer.call]
         /\ buyer.count \in Nat
  BY DEF PaidInv, ShapeOK, BuyerOK, Locals

\* The entries of the ledger, in a state of the invariant.
LEMMA Entries ==
  ASSUME PaidInv, NEW s \in ledger
  PROVE  /\ s.req \in Requests /\ SettledFor(s.req)
         /\ s.auth.value \in Nat /\ s.auth.value = RoutePrice[Route(s.req)]
         /\ exchange[s.req].pc \notin {"idle", "posted"}
         /\ \A t \in ledger : s.req = t.req => s = t
<1>1. ledger \subseteq [req : Requests, auth : Payloads]
  BY DEF PaidInv, ShapeOK
<1>2. ASSUME NEW t \in ledger
      PROVE  /\ t.req \in Requests
             /\ exchange[t.req].pc \in {"success", "error", "read"}
             /\ t.auth = exchange[t.req].auth
             /\ t.auth.value = RoutePrice[Route(t.req)]
  <2>1. t.req \in Requests
    BY <1>1
  <2>2. MoneyOK(t.req)
    BY <2>1, CallShape
  <2> QED BY <2>1, <2>2 DEF MoneyOK
<1>3. SettledFor(s.req) /\ s.req \in Requests
  BY <1>1 DEF SettledFor
<1>4. s.auth.value = RoutePrice[Route(s.req)] /\ RoutePrice[Route(s.req)] \in Nat
  BY <1>2, <1>3, RouteIsARoute
<1>5. \A t \in ledger : s.req = t.req => s = t
  BY <1>1, <1>2
<1> QED BY <1>2, <1>3, <1>4, <1>5

\* What was charged for some calls is a number; it does not change unless an
\* entry for one of them is added.
LEMMA ChargedStays ==
  ASSUME PaidInv, IsFiniteSet(ledger), ledger \subseteq ledger', NEW C, NEW D,
         \A s \in ledger : s.req \in C <=> s.req \in D,
         \A s \in ledger' \ ledger : s.req \notin D
  PROVE  /\ Charged(C) \in Nat
         /\ SumFunctionOnSet([s \in ledger' |-> s.auth.value], {s \in ledger' : s.req \in D})
               = Charged(C)
<1> DEFINE v == [s \in ledger' |-> s.auth.value]
           w == [s \in ledger |-> s.auth.value]
           E == {s \in ledger : s.req \in C}
           F == {s \in ledger' : s.req \in D}
<1>1. IsFiniteSet(E) /\ F = E
  BY FS_Subset
<1>2. \A s \in E : w[s] \in Nat /\ v[s] = w[s]
  BY Entries
<1>3. SumFunctionOnSet(w, E) \in Nat /\ SumFunctionOnSet(v, E) = SumFunctionOnSet(w, E)
  <2> HIDE DEF v, w, E
  <2> QED BY <1>1, <1>2, SumType, SameSum
<1>4. SumFunctionOnSet(v, F) = SumFunctionOnSet(w, E)
  <2> HIDE DEF F, E, v, w
  <2> QED BY <1>1, <1>3, Zenon
<1> QED BY <1>3, <1>4 DEF Charged

\* Calls with the same entries cost the same.
LEMMA SameCharge ==
  ASSUME PaidInv, NEW C, NEW D, \A s \in ledger : s.req \in C <=> s.req \in D
  PROVE  Charged(C) = Charged(D)
<1>1. {s \in ledger : s.req \in C} = {s \in ledger : s.req \in D}
  OBVIOUS
<1> QED BY <1>1, Zenon DEF Charged

\* A step after which the same calls are paid.
LEMMA SpentStands ==
  ASSUME NEW T, SpentInv(T), PaidInv', ledger \subseteq ledger', IsFiniteSet(ledger'),
         \A r \in Requests : call'[r] = "paid" <=> call[r] = "paid",
         \A s \in ledger' \ ledger : call[s.req] # "paid",
         buyer'.spent = buyer.spent,
         LoopOK(T)', \A r \in Requests : PhaseOK(r)'
  PROVE  SpentInv(T)'
<1>1. PaidCalls' = PaidCalls
  BY DEF PaidCalls
<1>2. \A s \in ledger' \ ledger : s.req \notin PaidCalls
  BY DEF PaidCalls
<1>3. SumFunctionOnSet([s \in ledger' |-> s.auth.value], {s \in ledger' : s.req \in PaidCalls})
         = Charged(PaidCalls)
  BY <1>2, ChargedStays DEF SpentInv
<1>4. Charged(PaidCalls)' = Charged(PaidCalls)
  BY <1>1, <1>3, Zenon DEF Charged
<1>5. Shown(buyer.spent)' = Shown(buyer.spent)
  BY Zenon
<1> QED BY <1>4, <1>5 DEF SpentInv

\* A call that neither begins nor returns stays as it should be.
LEMMA PhaseStays ==
  ASSUME NEW r \in Requests, PhaseOK(r), call'[r] = call[r],
         call[r] \in CallRunning => buyer'.call = buyer.call,
         http'[r].header = http[r].header,
         http'[r].answer = "quote" => http[r].answer = "quote" \/ GateSeen(Route(r)),
         ledger \subseteq ledger'
  PROVE  PhaseOK(r)'
<1>1. SettledFor(r) => SettledFor(r)'
  BY DEF SettledFor
<1> QED BY <1>1 DEF PhaseOK

\* A step of the other side: the loop waits.
LEMMA LoopWaits ==
  ASSUME NEW T, SpentInv(T), PaidInv', UNCHANGED <<buyer, call>>,
         ledger \subseteq ledger', IsFiniteSet(ledger'),
         \A s \in ledger' \ ledger : call[s.req] # "paid",
         \A r \in Requests :
            /\ http'[r].header = http[r].header
            /\ http'[r].answer = "quote" => http[r].answer = "quote" \/ GateSeen(Route(r))
  PROVE  SpentInv(T)'
<1>1. LoopOK(T)'
  BY DEF SpentInv, LoopOK
<1>2. \A r \in Requests : PhaseOK(r)'
  BY PhaseStays DEF SpentInv
<1> QED BY <1>1, <1>2, SpentStands

\* A call of pay returns without a payment.
LEMMA LoopGoesOn ==
  ASSUME NEW T, SpentInv(T), PaidInv', NEW r \in Requests,
         NEW pc \in {"free", "refused", "broken"}, Return(r, pc, buyer.spent),
         call[r] \in CallRunning, pc = "free" => http[r].header = NoHeader,
         UNCHANGED ledger,
         \A q \in Requests : http'[q].header = http[q].header /\ http'[q].answer = http[q].answer
  PROVE  SpentInv(T)'
<1>1. /\ buyer.count \in Nat
      /\ buyer = [count |-> buyer.count, spent |-> buyer.spent, call |-> buyer.call]
  BY BuyerIsARecord DEF SpentInv
<1>2. /\ buyer'.count = buyer.count /\ buyer'.spent = buyer.spent /\ buyer'.call = NoCall
  BY <1>1 DEF Return
<1>3. call'[r] = pc /\ \A q \in Requests \ {r} : call'[q] = call[q]
  BY DEF Return, SpentInv, PaidInv, ShapeOK
<1>4. NoCall \notin Requests
  BY PaidRouteAssumption
<1>5. LoopOK(T)'
  BY <1>2, <1>4 DEF SpentInv, LoopOK
<1>6. \A q \in Requests \ {r} : call[q] \notin CallRunning
  BY DEF SpentInv, PhaseOK
<1>7. \A q \in Requests \ {r} : PhaseOK(q)'
  BY <1>3, <1>6, PhaseStays DEF SpentInv
<1>8. PhaseOK(r)'
  BY <1>3 DEF SpentInv, PhaseOK, CallRunning
<1>9. \A q \in Requests : call'[q] = "paid" <=> call[q] = "paid"
  BY <1>3 DEF CallRunning
<1> QED BY <1>2, <1>5, <1>7, <1>8, <1>9, SpentStands DEF SpentInv

\* Who answers a request does not change what was signed, and quotes a price
\* only where the gate is seen.
LEMMA AnswerKeeps ==
  ASSUME PaidInv, NEW r \in Requests, NEW a, AnswerWith(r, a)
  PROVE  /\ \A q \in Requests : http'[q].header = http[q].header
         /\ \A q \in Requests \ {r} : http'[q] = http[q]
         /\ http'[r].answer = a
<1>1. http \in [Requests -> HttpRequests] /\ http[r] \in HttpRequests
  BY DEF PaidInv, ShapeOK
<1> QED BY <1>1 DEF AnswerWith, HttpRequests

\* The route judges, serves, refuses or drops.
LEMMA RouteSpent ==
  ASSUME NEW T, SpentInv(T), PaidInv', NEW r \in Requests, ServerStep(r) \/ DropHandler(r)
  PROVE  SpentInv(T)'
<1>1. UNCHANGED <<buyer, call, ledger>> /\ ledger \subseteq ledger' /\ IsFiniteSet(ledger')
  BY DEF SpentInv, ServerStep, DropHandler, Serve, ServeSettled, ServeUnsettled, Resume, paymentVars
<1>2. \A q \in Requests :
         /\ http'[q].header = http[q].header
         /\ http'[q].answer = "quote" => http[q].answer = "quote" \/ GateSeen(Route(q))
  <2>0. PaidInv /\ http \in [Requests -> HttpRequests] /\ http[r] \in HttpRequests
    BY DEF SpentInv, PaidInv, ShapeOK
  <2>1. ASSUME NEW a \in {"content", "402", "500", "quote"}, AnswerWith(r, a),
               a = "quote" => GateSeen(Route(r))
        PROVE  \A q \in Requests :
                  /\ http'[q].header = http[q].header
                  /\ http'[q].answer = "quote" => http[q].answer = "quote" \/ GateSeen(Route(q))
    <3>1. /\ \A q \in Requests : http'[q].header = http[q].header
          /\ \A q \in Requests \ {r} : http'[q] = http[q]
          /\ http'[r].answer = a
      BY <2>0, <2>1, AnswerKeeps
    <3> QED BY <2>1, <3>1
  <2>2. CASE \E pc : http' = [http EXCEPT ![r].pc = pc]
    BY <2>0, <2>2 DEF HttpRequests
  <2>3. CASE Serve(r)
    <3>1. CASE AnswerWith(r, "content") \/ AnswerWith(r, "500") \/ AnswerWith(r, "402")
      BY <2>1, <3>1
    <3>2. CASE GateSeen(Route(r)) /\ AnswerWith(r, "quote")
      BY <2>1, <3>2
    <3>3. CASE http' = [http EXCEPT ![r].pc = "settling"]
      BY <2>2, <3>3
    <3> QED BY <2>3, <3>1, <3>2, <3>3 DEF Serve
  <2>4. CASE ServeSettled(r) \/ ServeUnsettled(r)
    <3>1. AnswerWith(r, "content") \/ AnswerWith(r, "402") \/ AnswerWith(r, "500")
      BY <2>4 DEF ServeSettled, ServeUnsettled
    <3> QED BY <2>1, <3>1
  <2>5. CASE DropHandler(r)
    BY <2>2, <2>5 DEF DropHandler
  <2> QED BY <2>3, <2>4, <2>5 DEF ServerStep
<1> QED BY <1>1, <1>2, LoopWaits

\* Gateway charges for what is posted: never for a call that was paid already.
LEMMA SettleSpent ==
  ASSUME NEW T, SpentInv(T), PaidInv', NEW r \in Requests, SettleStep(r)
  PROVE  SpentInv(T)'
<1>1. UNCHANGED <<buyer, call, http>>
  BY DEF SettleStep, routeVars
<1>2. CASE UNCHANGED ledger
  BY <1>1, <1>2, LoopWaits DEF SpentInv
<1>3. CASE GatewaySettles(r)
  <2> DEFINE settlement == [req |-> r, auth |-> exchange[r].auth]
  <2>1. ledger' = ledger \cup {settlement} /\ exchange[r].pc = "posted" /\ settlement.req = r
    BY <1>3 DEF GatewaySettles
  <2> HIDE DEF settlement
  <2>2. ~SettledFor(r)
    <3>1. \A s \in ledger : s.req # r
      BY <2>1, Entries DEF SpentInv
    <3> QED BY <3>1 DEF SettledFor
  <2>3. call[r] # "paid"
    BY <2>2 DEF SpentInv, PhaseOK
  <2>4. IsFiniteSet(ledger') /\ ledger \subseteq ledger'
    BY <2>1, FS_AddElement DEF SpentInv
  <2>5. \A s \in ledger' \ ledger : call[s.req] # "paid"
    BY <2>1, <2>3
  <2> QED BY <1>1, <2>4, <2>5, LoopWaits
<1> QED BY <1>2, <1>3 DEF SettleStep, GatewayStep, GatewayAnswers, GatewayDeclines, GatewayFails

\* The next call begins: only while the total is below the limit.
LEMMA ProbeSpent ==
  ASSUME NEW T, SpentInv(T), PaidInv', NEW r \in Requests, Probe(r)
  PROVE  SpentInv(T)'
<1>1. /\ buyer.count \in Nat /\ r = buyer.count + 1 /\ r \in Nat /\ buyer.call = NoCall
      /\ buyer = [count |-> buyer.count, spent |-> buyer.spent, call |-> buyer.call]
  BY BuyerIsARecord, PaidRouteAssumption DEF SpentInv, Probe
<1>2. buyer'.count = r /\ buyer'.call = r /\ buyer'.spent = buyer.spent
  BY <1>1 DEF Probe
<1>3. UNCHANGED ledger /\ ledger \subseteq ledger' /\ IsFiniteSet(ledger')
  BY DEF Probe, paymentVars, SpentInv
<1>4. call[r] = "idle"
  <2>1. OrderOK(r) /\ ~(r <= buyer.count)
    BY <1>1, CallShape DEF SpentInv
  <2> QED BY <2>1 DEF OrderOK
<1>5. /\ call'[r] = "probing" /\ http'[r].header = NoHeader /\ http'[r].answer = "none"
      /\ \A q \in Requests \ {r} : call'[q] = call[q] /\ http'[q] = http[q]
  BY DEF Probe, Send, NoHttp, SpentInv, PaidInv, ShapeOK
<1>6. LoopOK(T)'
  <2>1. PICK n \in Nat : n <= buyer.count /\ <<n, buyer.spent>> \in T
    BY DEF SpentInv, LoopOK
  <2>2. n <= buyer'.count /\ n < buyer'.call /\ <<n, buyer'.spent>> \in T
    BY <1>1, <1>2, <2>1
  <2>3. Limit # NoLimit => ~(buyer'.spent >= LimitF64)
    BY <1>2 DEF Probe, LimitReached
  <2> QED BY <1>2, <1>5, <2>2, <2>3 DEF LoopOK, CallRunning
<1>7. \A q \in Requests \ {r} : PhaseOK(q)'
  <2>1. \A q \in Requests : call[q] \notin CallRunning
    BY <1>1, PaidRouteAssumption DEF SpentInv, PhaseOK
  <2> QED BY <1>3, <1>5, <2>1, PhaseStays DEF SpentInv
<1>8. PhaseOK(r)'
  BY <1>2, <1>5 DEF PhaseOK
<1>9. \A q \in Requests : call'[q] = "paid" <=> call[q] = "paid"
  BY <1>4, <1>5
<1> QED BY <1>2, <1>3, <1>6, <1>7, <1>8, <1>9, SpentStands

\* A quote is signed: the route has a gate.
LEMMA SignSpent ==
  ASSUME NEW T, SpentInv(T), PaidInv', NEW r \in Requests, call[r] = "probing",
         http[r].answer = "quote", Send(r, Signed(r)), call' = [call EXCEPT ![r] = "paying"],
         UNCHANGED <<buyer, paymentVars>>
  PROVE  SpentInv(T)'
<1>1. /\ call'[r] = "paying" /\ http'[r].answer = "none"
      /\ \A q \in Requests \ {r} : call'[q] = call[q] /\ http'[q] = http[q]
  BY DEF Send, NoHttp, SpentInv, PaidInv, ShapeOK
<1>2. UNCHANGED ledger /\ ledger \subseteq ledger' /\ IsFiniteSet(ledger')
  BY DEF paymentVars, SpentInv
<1>3. buyer.call = r /\ GateSeen(Route(r))
  BY DEF SpentInv, PhaseOK, CallRunning
<1>4. LoopOK(T)'
  BY <1>1, <1>3 DEF SpentInv, LoopOK, CallRunning
<1>5. \A q \in Requests \ {r} : PhaseOK(q)'
  BY <1>1, <1>2, PhaseStays DEF SpentInv
<1>6. PhaseOK(r)'
  BY <1>1, <1>3 DEF PhaseOK
<1>7. \A q \in Requests : call'[q] = "paid" <=> call[q] = "paid"
  BY <1>1
<1> QED BY <1>2, <1>4, <1>5, <1>6, <1>7, SpentStands

\* A payment succeeded: the route has a gate, so it was settled, once and at the
\* price that is added.
LEMMA PaySpent ==
  ASSUME NEW T, TotalsAreExact(T), SpentInv(T), PaidInv', NEW r \in Requests,
         call[r] = "paying", http[r].answer = "content", Return(r, "paid", Total(r)),
         UNCHANGED <<http, paymentVars>>
  PROVE  SpentInv(T)'
<1>1. /\ buyer.count \in Nat /\ r \in Nat /\ buyer.call = r /\ buyer.count = r
      /\ buyer = [count |-> buyer.count, spent |-> buyer.spent, call |-> buyer.call]
  BY BuyerIsARecord, PaidRouteAssumption DEF SpentInv, PhaseOK, LoopOK, CallRunning
<1>2. buyer'.count = buyer.count /\ buyer'.spent = Total(r) /\ buyer'.call = NoCall
  BY <1>1 DEF Return
<1>3. /\ call'[r] = "paid" /\ \A q \in Requests \ {r} : call'[q] = call[q]
      /\ UNCHANGED ledger /\ ledger \subseteq ledger' /\ IsFiniteSet(ledger')
  BY DEF Return, SpentInv, PaidInv, ShapeOK, paymentVars
<1>4. NoCall \notin Requests
  BY PaidRouteAssumption
<1>5. PICK n \in Nat : n < r /\ <<n, buyer.spent>> \in T
  BY <1>1 DEF SpentInv, LoopOK
<1>6. <<r, Total(r)>> \in T /\ Shown(Total(r)) = Shown(buyer.spent) + RoutePrice[Route(r)]
  <2> DEFINE p == <<n, buyer.spent>>
  <2>1. p \in T /\ p[1] < r /\ p[2] = buyer.spent
    BY <1>5
  <2>2. LET x == AddF64(p[2], Told[Route(r)])
        IN <<r, x>> \in T /\ Shown(x) = Shown(p[2]) + RoutePrice[Route(r)]
    <3> HIDE DEF p
    <3> QED BY <2>1 DEF TotalsAreExact
  <2> QED BY <2>1, <2>2, Zenon DEF Total
<1>7. SettledFor(r)
  <2>1. GateSeen(Route(r)) /\ MoneyOK(r)
    BY CallShape DEF SpentInv, PhaseOK
  <2>2. Charges(Route(r))
    BY <2>1 DEF GateSeen, Charges
  <2> QED BY <2>1, <2>2 DEF MoneyOK
<1>8. LoopOK(T)'
  BY <1>1, <1>2, <1>4, <1>6 DEF LoopOK
<1>9. \A q \in Requests \ {r} : PhaseOK(q)'
  <2>1. \A q \in Requests \ {r} : call[q] \notin CallRunning
    BY <1>1 DEF SpentInv, PhaseOK
  <2> QED BY <1>3, <2>1, PhaseStays DEF SpentInv
<1>10. PhaseOK(r)'
  BY <1>3, <1>7 DEF PhaseOK, SpentInv, CallRunning, SettledFor
<1>11. Charged(PaidCalls)' = Charged(PaidCalls) + RoutePrice[Route(r)]
  <2>1. PICK e \in ledger : e.req = r
    BY <1>7 DEF SettledFor
  <2> DEFINE w == [s \in ledger |-> s.auth.value]
             E == {s \in ledger : s.req \in PaidCalls}
             F == {s \in ledger' : s.req \in PaidCalls'}
  <2>2. /\ \A s \in ledger : s.req \in Requests /\ (s.req = r => s = e) /\ w[s] \in Nat
        /\ w[e] = RoutePrice[Route(r)]
    BY <2>1, Entries DEF SpentInv
  <2>3. PaidCalls' = PaidCalls \cup {r} /\ r \notin PaidCalls
    BY <1>3 DEF PaidCalls
  <2>4. F = E \cup {e} /\ e \notin E /\ IsFiniteSet(E)
    BY <1>3, <2>1, <2>2, <2>3, FS_Subset DEF SpentInv
  <2>5. \A s \in E \cup {e} : w[s] \in Nat
    BY <2>2
  <2>6. SumFunctionOnSet(w, E \cup {e}) = w[e] + SumFunctionOnSet(w, E)
    <3> HIDE DEF w, E
    <3> QED BY <2>4, <2>5, SumAddsOne
  <2>7. SumFunctionOnSet(w, E) \in Nat
    <3> HIDE DEF w, E
    <3> QED BY <2>4, <2>5, SumType
  <2>8. Charged(PaidCalls)' = SumFunctionOnSet(w, E \cup {e})
    <3>1. Charged(PaidCalls)' = SumFunctionOnSet(w, F)
      BY <1>3, Zenon DEF Charged
    <3> QED BY <2>4, <3>1, Zenon
  <2>9. Charged(PaidCalls) = SumFunctionOnSet(w, E)
    BY Zenon DEF Charged
  <2>10. RoutePrice[Route(r)] \in Nat
    BY RouteIsARoute
  <2> HIDE DEF w, E
  <2> QED BY <2>2, <2>6, <2>7, <2>8, <2>9, <2>10
<1>12. Shown(buyer.spent)' = Charged(PaidCalls)'
  <2>1. Shown(buyer.spent)' = Shown(Total(r))
    BY <1>2, Zenon
  <2>2. Shown(buyer.spent) = Charged(PaidCalls)
    BY DEF SpentInv
  <2> QED BY <1>6, <1>11, <2>1, <2>2, Zenon
<1> QED BY <1>3, <1>8, <1>9, <1>10, <1>12 DEF SpentInv

\* The buyer reads an answer, or the connection breaks.
LEMMA BuyerSpent ==
  ASSUME NEW T, TotalsAreExact(T), SpentInv(T), PaidInv', NEW r \in Requests,
         BuyerStep(r) \/ Break(r)
  PROVE  SpentInv(T)'
<1>1. CASE ReadProbe(r)
  <2>1. call[r] = "probing" /\ UNCHANGED paymentVars
    BY <1>1 DEF ReadProbe
  <2>2. http[r].header = NoHeader
    BY <2>1, CallShape DEF SpentInv, OrderOK
  <2>3. CASE (Return(r, "free", buyer.spent) \/ Return(r, "refused", buyer.spent)) /\ UNCHANGED http
    BY <2>1, <2>2, <2>3, LoopGoesOn DEF CallRunning, paymentVars
  <2>4. CASE /\ http[r].answer = "quote" /\ Send(r, Signed(r))
             /\ call' = [call EXCEPT ![r] = "paying"] /\ UNCHANGED buyer
    BY <2>1, <2>4, SignSpent
  <2> QED BY <1>1, <2>3, <2>4 DEF ReadProbe
<1>2. CASE ReadPaid(r)
  <2>1. call[r] = "paying" /\ UNCHANGED <<http, paymentVars>>
    BY <1>2 DEF ReadPaid
  <2>2. CASE Return(r, "refused", buyer.spent)
    BY <2>1, <2>2, LoopGoesOn DEF CallRunning, paymentVars
  <2>3. CASE http[r].answer = "content" /\ Return(r, "paid", Total(r))
    BY <2>1, <2>3, PaySpent
  <2> QED BY <1>2, <2>2, <2>3 DEF ReadPaid
<1>3. CASE Break(r)
  BY <1>3, LoopGoesOn DEF Break, paymentVars
<1> QED BY <1>1, <1>2, <1>3 DEF BuyerStep

\* The seller stops, and with it the call in progress.
LEMMA RestartSpent ==
  ASSUME NEW T, SpentInv(T), PaidInv', RestartSeller
  PROVE  SpentInv(T)'
<1>1. \A q \in Requests : http'[q].header = http[q].header /\ http'[q].answer = http[q].answer
  <2>1. \A q \in Requests : http[q] \in HttpRequests
    BY CallShape DEF SpentInv
  <2> QED BY <2>1 DEF RestartSeller, HttpRequests
<1>2. UNCHANGED ledger /\ ledger \subseteq ledger' /\ IsFiniteSet(ledger')
  BY DEF RestartSeller, paymentVars, SpentInv
<1>3. CASE UNCHANGED <<buyer, call>>
  BY <1>1, <1>2, <1>3, LoopWaits
<1>4. CASE buyer.call \in Requests /\ Return(buyer.call, "broken", buyer.spent)
  <2>1. PICK r \in Requests : r = buyer.call
    BY <1>4
  <2>2. Return(r, "broken", buyer.spent)
    BY <1>4, <2>1, Zenon
  <2>3. call[r] \in CallRunning
    BY <2>1 DEF SpentInv, LoopOK
  <2> QED BY <1>1, <1>2, <2>2, <2>3, LoopGoesOn
<1> QED BY <1>3, <1>4 DEF RestartSeller

\* Nothing was spent, and nothing charged, at the start.
LEMMA SpentInitInv ==
  ASSUME NEW T, TotalsAreExact(T), PaidInit
  PROVE  SpentInv(T)
<1>1. buyer.count = 0 /\ buyer.spent = 0 /\ buyer.call = NoCall /\ ledger = {}
  BY DEF PaidInit, PaymentInit
<1>2. LoopOK(T)
  <2>1. <<0, buyer.spent>> \in T
    BY <1>1 DEF TotalsAreExact
  <2>2. NoCall \notin Requests
    BY PaidRouteAssumption
  <2> QED BY <1>1, <2>1, <2>2 DEF LoopOK
<1>3. \A r \in Requests : PhaseOK(r)
  BY DEF PaidInit, NoHttp, PhaseOK, CallRunning
<1>4. Charged(PaidCalls) = 0
  <2>1. {s \in ledger : s.req \in PaidCalls} = {}
    BY <1>1
  <2>2. Charged(PaidCalls) = SumFunctionOnSet([s \in ledger |-> s.auth.value], {})
    BY <2>1, Zenon DEF Charged
  <2> QED BY <2>2, SumOfNone
<1>5. Shown(buyer.spent) = 0
  <2>1. Shown(0) = 0
    BY DEF TotalsAreExact
  <2> QED BY <1>1, <2>1, Zenon
<1>6. PaidInv /\ IsFiniteSet(ledger)
  BY <1>1, PaidInitInv, FS_EmptySet
<1> QED BY <1>2, <1>3, <1>4, <1>5, <1>6 DEF SpentInv

\* The loop stops, time passes, or nothing happens.
LEMMA IdleSpent ==
  ASSUME NEW T, SpentInv(T), PaidInv', StopAtLimit \/ ClockStep \/ UNCHANGED vars
  PROVE  SpentInv(T)'
<1>1. /\ UNCHANGED <<call, http, ledger>> /\ ledger \subseteq ledger' /\ IsFiniteSet(ledger')
  BY DEF SpentInv, StopAtLimit, ClockStep, vars, paymentVars, routeVars
<1>2. CASE UNCHANGED buyer
  BY <1>1, <1>2, LoopWaits
<1>3. CASE StopAtLimit
  <2>1. buyer'.count = buyer.count /\ buyer'.spent = buyer.spent /\ buyer'.call = Stopped
    BY <1>3, BuyerIsARecord DEF StopAtLimit, SpentInv
  <2>2. buyer.call = NoCall /\ NoCall \notin Requests /\ Stopped \notin Requests
    BY <1>3, PaidRouteAssumption DEF StopAtLimit
  <2>3. LoopOK(T)'
    BY <2>1, <2>2 DEF SpentInv, LoopOK
  <2>4. \A r \in Requests : PhaseOK(r)'
    <3>1. \A r \in Requests : call[r] \notin CallRunning
      BY <2>2 DEF SpentInv, PhaseOK
    <3> QED BY <1>1, <3>1, PhaseStays DEF SpentInv
  <2> QED BY <1>1, <2>1, <2>3, <2>4, SpentStands
<1> QED BY <1>2, <1>3 DEF ClockStep, routeVars, vars

\* Every step keeps the books of the loop.
LEMMA SpentStepInv ==
  ASSUME NEW T, TotalsAreExact(T), SpentInv(T), [PaidNext]_vars
  PROVE  SpentInv(T)'
<1>1. PaidInv'
  BY PaidStepInv DEF SpentInv
<1> QED
  BY <1>1, ProbeSpent, BuyerSpent, RouteSpent, SettleSpent, RestartSpent, IdleSpent
  DEF PaidNext

\* The books of the loop are right in every state.
THEOREM SpentInvariance ==
  ASSUME NEW calls, NEW price, FewCalls(calls, price)
  PROVE  PaidSpec => []SpentInv(Totals(calls, price))
<1> DEFINE T == Totals(calls, price)
<1>1. TotalsAreExact(T)
  BY TotalsHold
<1> HIDE DEF T
<1>2. PaidInit => SpentInv(T)
  BY <1>1, SpentInitInv
<1>3. SpentInv(T) /\ [PaidNext]_vars => SpentInv(T)'
  BY <1>1, SpentStepInv
<1>4. PaidSpec => []SpentInv(T)
  BY <1>2, <1>3, PTL DEF PaidSpec
<1> QED BY <1>4 DEF T

\* The total cmd_pay prints is what Gateway charged for the calls that
\* succeeded, for as few calls as FewCalls says.
THEOREM TotalIsCharged ==
  ASSUME NEW calls, NEW price, FewCalls(calls, price)
  PROVE  PaidSpec => []SpentWasCharged
<1> DEFINE T == Totals(calls, price)
<1> HIDE DEF T
<1>1. SpentInv(T) => SpentWasCharged
  <2>1. Charged(PaidCalls) = Charged({r \in Requests : call[r] = "paid"})
    BY Zenon DEF PaidCalls
  <2> QED BY <2>1, Zenon DEF SpentInv, SpentWasCharged
<1>2. PaidSpec => []SpentInv(T)
  BY SpentInvariance DEF T
<1> QED BY <1>1, <1>2, PTL

\* With --limit no call begins once more than the limit has been charged by
\* calls that did not return an error.
THEOREM LimitIsKept ==
  ASSUME NEW calls, NEW price, FewCalls(calls, price)
  PROVE  PaidSpec => []LimitHoldsForAnswered
<1> DEFINE T == Totals(calls, price)
<1>0. TotalsAreExact(T)
  BY TotalsHold
<1> HIDE DEF T
<1>1. SpentInv(T) => LimitHoldsForAnswered
  <2> SUFFICES ASSUME SpentInv(T), Limit # NoLimit, buyer.call \in Requests
               PROVE  Charged(AnsweredBefore) <= Limit
    BY DEF LimitHoldsForAnswered
  <2>1. PICK n \in Nat : <<n, buyer.spent>> \in T
    BY DEF SpentInv, LoopOK
  <2>2. Shown(buyer.spent) <= Limit
    <3> DEFINE p == <<n, buyer.spent>>
    <3>1. p \in T /\ p[2] = buyer.spent /\ ~(p[2] >= LimitF64)
      BY <2>1 DEF SpentInv, LoopOK
    <3>2. Shown(p[2]) <= Limit
      <4> HIDE DEF p
      <4> QED BY <1>0, <3>1 DEF TotalsAreExact
    <3> QED BY <3>1, <3>2, Zenon
  <2>3. \A s \in ledger : s.req \in AnsweredBefore <=> s.req \in PaidCalls
    <3> SUFFICES ASSUME NEW s \in ledger
                 PROVE  s.req \in AnsweredBefore <=> s.req \in PaidCalls
      OBVIOUS
    <3>1. s.req \in Requests /\ exchange[s.req].pc # "idle"
      BY Entries DEF SpentInv
    <3>2. OrderOK(s.req) /\ PhaseOK(s.req)
          /\ call[s.req] \in {"idle", "free", "paid", "refused", "broken"} \cup CallRunning
      BY <3>1, CallShape DEF SpentInv, PaidInv, ShapeOK
    <3>3. call[s.req] \notin {"idle", "free"}
      BY <3>1, <3>2 DEF OrderOK, PhaseOK
    <3>4. call[buyer.call] \in CallRunning
      BY DEF SpentInv, LoopOK
    <3> QED BY <3>1, <3>2, <3>3, <3>4 DEF AnsweredBefore, PaidCalls, PhaseOK, CallRunning
  <2>4. Charged(AnsweredBefore) = Charged(PaidCalls)
    BY <2>3, SameCharge DEF SpentInv
  <2>5. Charged(PaidCalls) = Shown(buyer.spent)
    BY Zenon DEF SpentInv
  <2> QED BY <2>2, <2>4, <2>5, Zenon
<1>2. PaidSpec => []SpentInv(T)
  BY SpentInvariance DEF T
<1> QED BY <1>1, <1>2, PTL

----------------------------------------------------------------------------
\* The shape of the state

\* The clock is within its bound, and what the buyer sends is a payload.
SentOK == now \in 0..MaxTime /\ \A r \in Requests : http[r].header \in Headers

\* It is so at the start, and no step sends anything else.
LEMMA SentStep ==
  ASSUME PaidInv, SentOK, [PaidNext]_vars
  PROVE  SentOK'
<1>1. MaxTime \in Nat /\ now \in Nat /\ now <= MaxTime
  BY EnvironmentAssumption DEF SentOK
<1>2. now' \in 0..MaxTime
  <2>1. CASE ClockStep
    BY <1>1, <2>1 DEF ClockStep, Tick, ClockSetBack
  <2>2. CASE UNCHANGED now
    BY <1>1, <2>2
  <2> QED BY <2>1, <2>2
    DEF PaidNext, Probe, BuyerStep, ReadProbe, ReadPaid, ServerStep, Serve, ServeSettled,
        ServeUnsettled, SettleStep, Break, DropHandler, StopAtLimit, RestartSeller, vars
<1>3. http \in [Requests -> HttpRequests]
  BY DEF PaidInv, ShapeOK
<1>4. ASSUME NEW r \in Requests, NEW h \in Headers, Send(r, h)
      PROVE  \A q \in Requests : http'[q].header \in Headers
  BY <1>3, <1>4 DEF Send, NoHttp, SentOK
<1>5. ASSUME \A q \in Requests : http'[q].header = http[q].header
      PROVE  \A q \in Requests : http'[q].header \in Headers
  BY <1>5 DEF SentOK
<1>6. ASSUME NEW r \in Requests, NEW a, AnswerWith(r, a)
      PROVE  \A q \in Requests : http'[q].header \in Headers
  BY <1>6, AnswerKeeps DEF SentOK
<1>7. ASSUME NEW r \in Requests
      PROVE  NoHeader \in Headers /\ Signed(r) \in Headers
  <2>1. Route(r) \in Routes /\ payTo \in PayTos /\ now \in 0..MaxTime
    BY RouteIsARoute DEF SentOK, PaidInv, ShapeOK
  <2>2. Signed(r) \in Payloads
    BY <2>1, PaidRouteAssumption DEF Signed, RoutePrice
  <2> QED BY <2>2 DEF Headers
<1>8. \A q \in Requests : http'[q].header \in Headers
  <2>1. CASE \E r \in Requests : Probe(r) \/ ReadProbe(r)
    BY <1>4, <1>5, <1>7, <2>1 DEF Probe, ReadProbe
  <2>2. CASE \E r \in Requests : Serve(r)
    <3>1. PICK r \in Requests : Serve(r)
      BY <2>2
    <3>2. CASE http' = [http EXCEPT ![r].pc = "settling"]
      BY <1>3, <1>5, <3>2 DEF HttpRequests
    <3> QED BY <1>6, <3>1, <3>2 DEF Serve
  <2>3. CASE \E r \in Requests : ServeSettled(r) \/ ServeUnsettled(r)
    BY <1>6, <2>3 DEF ServeSettled, ServeUnsettled
  <2>4. CASE RestartSeller \/ \E r \in Requests : DropHandler(r)
    BY <1>3, <1>5, <2>4 DEF RestartSeller, DropHandler, HttpRequests
  <2>5. CASE UNCHANGED http
    BY <1>5, <2>5
  <2> QED BY <2>1, <2>2, <2>3, <2>4, <2>5
    DEF PaidNext, BuyerStep, ReadPaid, ServerStep, SettleStep, Break, StopAtLimit, ClockStep,
        routeVars, vars
<1> QED BY <1>2, <1>8 DEF SentOK

\* The shape of every variable.
THEOREM PaidTypes ==
  ASSUME NEW calls, NEW price, FewCalls(calls, price)
  PROVE  PaidSpec => []PaidTypeOK
<1> DEFINE T == Totals(calls, price)
<1>0. TotalsAreExact(T)
  BY TotalsHold
<1> HIDE DEF T
<1>1. PaidInit => SentOK
  BY EnvironmentAssumption DEF PaidInit, SentOK, NoHttp, Headers
<1>2. PaidInv /\ SentOK /\ [PaidNext]_vars => SentOK'
  BY SentStep
<1>3. SpentInv(T) /\ SentOK => PaidTypeOK
  <2> SUFFICES ASSUME SpentInv(T), SentOK PROVE PaidTypeOK
    OBVIOUS
  <2>1. buyer \in [count : Nat, spent : Nat, call : Requests \cup {NoCall, Stopped}]
    <3>1. PICK n \in Nat : <<n, buyer.spent>> \in T
      BY DEF SpentInv, LoopOK
    <3>2. buyer.spent \in Nat
      BY <1>0, <3>1 DEF TotalsAreExact
    <3> QED BY <3>2, BuyerIsARecord DEF SpentInv, LoopOK
  <2>2. ASSUME NEW r \in Requests
        PROVE  http[r] \in [pc : {"idle", "answered", "closed"} \cup Serving,
                            header : Headers,
                            answer : {"none", "content", "quote", "402", "500"}]
    BY CallShape DEF SpentInv, SentOK, HttpRequests
  <2>3. http \in [Requests -> [pc : {"idle", "answered", "closed"} \cup Serving,
                               header : Headers,
                               answer : {"none", "content", "quote", "402", "500"}]]
    BY <2>2 DEF SpentInv, PaidInv, ShapeOK
  <2>4. ClockTypeOK /\ PaymentTypeOK
    BY DEF SpentInv, PaidInv, ShapeOK, Exchanges, ClockTypeOK, PaymentTypeOK
  <2>5. call \in [Requests -> {"idle", "free", "paid", "refused", "broken"} \cup CallRunning]
    BY DEF SpentInv, PaidInv, ShapeOK
  <2> QED BY <2>1, <2>3, <2>4, <2>5 DEF PaidTypeOK
<1>4. PaidSpec => []SpentInv(T)
  BY SpentInvariance DEF T
<1> QED BY <1>1, <1>2, <1>3, <1>4, PaidInvariance, PTL DEF PaidSpec

----------------------------------------------------------------------------
\* Prices and amounts

\* Whatever dollars and decimals a seller writes, require_payment reads them
\* exactly or refuses them, and so it does with a minus sign, a letter or a plus
\* sign at any place among them, where the parser of u64 takes a plus sign in
\* front of the dollars or of the decimals.
THEOREM PricesExact == PaidSpec => []PricesAreExact
<1>1. PricesAreExact
  BY PriceTexts DEF PricesAreExact
<1> QED BY <1>1, PTL

\* Whatever amount a buyer is told he paid, its text reads as that amount, as a
\* price and as a double.
THEOREM AmountsRead == PaidSpec => []AmountsReadBack
<1>1. AmountsReadBack
  BY AmountTexts DEF AmountsReadBack
<1> QED BY <1>1, PTL

----------------------------------------------------------------------------
\* The paid routes as a Sale.

\* Moves of the order of r that are steps of Sale, when Gateway charges nothing.
OrderMoves(r) ==
    \/ SaleState(r)' = SaleState(r) /\ exchange'[r].auth = exchange[r].auth
    \/ SaleState(r) = "open" /\ SaleState(r)' = "submitted" /\ exchange'[r].auth \in Payloads
    \/ /\ \/ SaleState(r) = "open" /\ SaleState(r)' = "closed"
          \/ SaleState(r) = "submitted" /\ SaleState(r)' = "closed" /\ ~SettledFor(r)
          \/ SaleState(r) = "submitted" /\ SaleState(r)' = "fulfilled" /\ SettledFor(r)
          \/ SaleState(r) = "submitted" /\ SaleState(r)' = "lost"
       /\ exchange'[r].auth = exchange[r].auth

\* A step that moves the order of one call is a step of Sale.
LEMMA OneOrderMoves ==
  ASSUME NEW r \in Requests, OrderMoves(r), UNCHANGED ledger,
         \A q \in Requests \ {r} : SaleOrder'[q] = SaleOrder[q]
  PROVE  [Sales!SaleNext]_<<SaleOrder, ledger>>
<1> DEFINE new == [state |-> SaleState(r)', auth |-> exchange'[r].auth]
<1>2. SaleOrder' = [SaleOrder EXCEPT ![r] = new]
  <2>1. SaleOrder'[r] = new
    BY DEF SaleOrder
  <2>2. /\ SaleOrder = [q \in Requests |-> SaleOrder[q]]
        /\ SaleOrder' = [q \in Requests |-> SaleOrder'[q]]
    BY DEF SaleOrder
  <2> HIDE DEF new
  <2> QED BY <2>1, <2>2
<1>3. /\ SaleOrder[r] = [state |-> SaleState(r), auth |-> exchange[r].auth]
      /\ SaleOrder[r].state = SaleState(r) /\ SaleOrder[r].auth = exchange[r].auth
      /\ SaleOrder = [q \in Requests |-> SaleOrder[q]]
  BY DEF SaleOrder
<1>4. CASE SaleState(r)' = SaleState(r) /\ exchange'[r].auth = exchange[r].auth
  <2>1. SaleOrder' = SaleOrder
    BY <1>2, <1>3, <1>4
  <2> QED BY <2>1
<1>5. CASE SaleState(r) = "open" /\ SaleState(r)' = "submitted" /\ exchange'[r].auth \in Payloads
  <2>1. Sales!Submit(r)
    BY <1>2, <1>3, <1>5 DEF Sales!Submit
  <2> QED BY <2>1 DEF Sales!SaleNext
<1>6. CASE /\ \/ SaleState(r) = "open"
              \/ SaleState(r) = "submitted" /\ ~SettledFor(r)
           /\ SaleState(r)' = "closed" /\ exchange'[r].auth = exchange[r].auth
  <2>1. Sales!Close(r)
    BY <1>2, <1>3, <1>6 DEF Sales!Close, Sales!IsCharged, SettledFor
  <2> QED BY <2>1 DEF Sales!SaleNext
<1>7. CASE /\ SaleState(r) = "submitted" /\ SaleState(r)' = "fulfilled" /\ SettledFor(r)
           /\ exchange'[r].auth = exchange[r].auth
  <2>1. Sales!Fulfil(r)
    BY <1>2, <1>3, <1>7 DEF Sales!Fulfil, Sales!IsCharged, SettledFor
  <2> QED BY <2>1 DEF Sales!SaleNext
<1>8. CASE /\ SaleState(r) = "submitted" /\ SaleState(r)' = "lost"
           /\ exchange'[r].auth = exchange[r].auth
  <2>1. new = [SaleOrder[r] EXCEPT !.state = IF @ = "open" THEN "closed" ELSE "lost"]
    BY <1>3, <1>8
  <2>2. SaleOrder' = [q \in Requests |->
                        IF q \in {r}
                        THEN [SaleOrder[q] EXCEPT !.state = IF @ = "open" THEN "closed" ELSE "lost"]
                        ELSE SaleOrder[q]]
    BY <1>2, <1>3, <2>1
  <2>3. Sales!Lose({r})
    BY <1>3, <1>8, <2>2 DEF Sales!Lose
  <2> QED BY <2>3 DEF Sales!SaleNext
<1> QED BY <1>4, <1>5, <1>6, <1>7, <1>8 DEF OrderMoves

\* What the order of a call is, from what its request was answered.
LEMMA OrderOf ==
  ASSUME PaidInv, NEW r \in Requests
  PROVE  /\ http[r].pc \notin {"answered", "closed"} =>
               SaleState(r) = (IF exchange[r].pc = "idle" THEN "open" ELSE "submitted")
         /\ http[r].answer = "quote" =>
               SaleState(r) = (IF exchange[r].pc = "idle" THEN "open" ELSE "submitted")
  BY CallShape DEF SaleState, OrderOK

\* Other calls' orders stay where they are.
LEMMA OthersStay ==
  ASSUME NEW q \in Requests, exchange'[q].pc = "idle" <=> exchange[q].pc = "idle",
         exchange'[q].auth = exchange[q].auth,
         http'[q].pc = http[q].pc, http'[q].answer = http[q].answer
  PROVE  SaleOrder'[q] = SaleOrder[q] /\ SaleState(q)' = SaleState(q)
<1>1. SaleState(q)' = SaleState(q)
  BY DEF SaleState
<1> QED BY <1>1 DEF SaleOrder

\* A first request opens no order, and a quote leaves it open.
LEMMA SendSells ==
  ASSUME PaidInv, NEW r \in Requests, NEW h, Send(r, h), UNCHANGED paymentVars,
         exchange[r].pc = "idle", http[r].answer \in {"none", "quote"}, http[r].pc # "closed"
  PROVE  [Sales!SaleNext]_<<SaleOrder, ledger>>
<1>1. /\ http'[r].pc = "sent" /\ http'[r].answer = "none"
      /\ \A q \in Requests \ {r} : http'[q] = http[q]
  BY DEF Send, NoHttp, PaidInv, ShapeOK
<1>2. SaleState(r)' = SaleState(r)
  BY <1>1 DEF SaleState, paymentVars
<1>3. \A q \in Requests \ {r} : SaleOrder'[q] = SaleOrder[q]
  BY <1>1, OthersStay DEF paymentVars
<1> QED BY <1>2, <1>3, OneOrderMoves DEF OrderMoves, paymentVars

\* The loop of the buyer moves no order.
LEMMA BuyerSells ==
  ASSUME PaidInv, NEW r \in Requests, Probe(r) \/ BuyerStep(r) \/ Break(r)
  PROVE  [Sales!SaleNext]_<<SaleOrder, ledger>>
<1>1. CASE UNCHANGED <<http, paymentVars>>
  BY <1>1 DEF SaleOrder, SaleState, paymentVars
<1>2. CASE Probe(r)
  <2>1. call[r] = "idle" /\ OrderOK(r)
    <3>1. ~(r <= buyer.count) /\ OrderOK(r)
      BY <1>2, CallShape DEF Probe
    <3> QED BY <3>1 DEF OrderOK
  <2>2. exchange[r].pc = "idle" /\ http[r].answer = "none" /\ http[r].pc # "closed"
    BY <2>1 DEF OrderOK
  <2> QED BY <1>2, <2>2, SendSells DEF Probe
<1>3. CASE ReadProbe(r) /\ ~UNCHANGED http
  <2>1. /\ http[r].answer = "quote" /\ http[r].pc = "answered" /\ call[r] = "probing"
        /\ Send(r, Signed(r)) /\ UNCHANGED paymentVars
    BY <1>3 DEF ReadProbe
  <2>2. exchange[r].pc = "idle"
    BY <2>1, CallShape DEF OrderOK
  <2> QED BY <2>1, <2>2, SendSells
<1>4. Break(r) \/ ReadPaid(r) => UNCHANGED <<http, paymentVars>>
  BY DEF Break, ReadPaid
<1>5. ReadProbe(r) => UNCHANGED paymentVars
  BY DEF ReadProbe
<1> QED BY <1>1, <1>2, <1>3, <1>4, <1>5 DEF BuyerStep

\* A route serves what it does not charge for, refuses or quotes, or asks Gateway.
LEMMA ServeSells ==
  ASSUME PaidInv, NEW r \in Requests, Serve(r)
  PROVE  [Sales!SaleNext]_<<SaleOrder, ledger>>
<1>1. /\ http[r].pc = "sent" /\ exchange[r].pc = "idle" /\ http[r].answer = "none"
      /\ SaleState(r) = "open" /\ UNCHANGED ledger
      /\ DOMAIN http = Requests /\ DOMAIN exchange = Requests
  BY CallShape, OrderOf DEF Serve, OrderOK, PaidInv, ShapeOK
<1>2. ASSUME NEW a \in {"content", "quote", "402", "500"}, AnswerWith(r, a), UNCHANGED exchange,
             a = "content" => ~Charges(Route(r))
      PROVE  [Sales!SaleNext]_<<SaleOrder, ledger>>
  <2>1. /\ http'[r].answer = a /\ http'[r].pc = "answered"
        /\ \A q \in Requests \ {r} : http'[q] = http[q]
    BY <1>1, <1>2, CallShape DEF AnswerWith, HttpRequests
  <2>2. SaleState(r)' \in {"open", "closed"}
    BY <1>1, <1>2, <2>1 DEF SaleState
  <2>3. OrderMoves(r)
    BY <1>1, <1>2, <2>2 DEF OrderMoves
  <2>4. \A q \in Requests \ {r} : SaleOrder'[q] = SaleOrder[q]
    BY <1>2, <2>1, OthersStay
  <2> QED BY <1>1, <2>3, <2>4, OneOrderMoves
<1>3. CASE /\ Acceptable(http[r].header, RoutePrice[Route(r)])
           /\ http' = [http EXCEPT ![r].pc = "settling"]
           /\ PostSettle(r, http[r].header)
  <2>1. /\ http'[r].answer = "none" /\ http'[r].pc = "settling"
        /\ \A q \in Requests \ {r} : http'[q] = http[q] /\ exchange'[q] = exchange[q]
    BY <1>1, <1>3, CallShape DEF PostSettle, HttpRequests
  <2>2. exchange'[r].pc = "posted" /\ exchange'[r].auth \in Payloads
    BY <1>1, <1>3 DEF PostSettle, NoExchange, Acceptable, WellFormed
  <2>3. SaleState(r)' = "submitted"
    BY <2>1, <2>2 DEF SaleState
  <2>4. OrderMoves(r)
    BY <1>1, <2>2, <2>3 DEF OrderMoves
  <2>5. \A q \in Requests \ {r} : SaleOrder'[q] = SaleOrder[q]
    BY <2>1, OthersStay
  <2> QED BY <1>1, <2>4, <2>5, OneOrderMoves
<1> QED BY <1>2, <1>3 DEF Serve

\* The answer of Gateway is read: the order is fulfilled, closed uncharged, or lost.
LEMMA AnswerSells ==
  ASSUME PaidInv, NEW r \in Requests, ServeSettled(r) \/ ServeUnsettled(r)
  PROVE  [Sales!SaleNext]_<<SaleOrder, ledger>>
<1>1. /\ http[r].pc = "settling" /\ exchange[r].pc \in {"success", "declined", "error"}
      /\ SaleState(r) = "submitted" /\ UNCHANGED ledger
      /\ DOMAIN http = Requests /\ DOMAIN exchange = Requests
      /\ exchange[r] \in Exchanges /\ MoneyOK(r)
  BY CallShape, OrderOf DEF ServeSettled, ServeUnsettled, Resume, PaidInv, ShapeOK
<1>2. /\ exchange'[r].pc = "read" /\ exchange'[r].auth = exchange[r].auth
      /\ \A q \in Requests \ {r} : exchange'[q] = exchange[q]
  BY <1>1 DEF ServeSettled, ServeUnsettled, Resume, Exchanges
<1>3. PICK a \in {"content", "402", "500"} :
         /\ AnswerWith(r, a)
         /\ a = "content" => exchange[r].pc = "success" /\ Charges(Route(r))
         /\ a = "402" => exchange[r].pc = "declined"
  <2>1. GateSeen(Route(r)) => Charges(Route(r))
    BY DEF GateSeen, Charges
  <2> QED BY <1>1, <2>1 DEF ServeSettled, ServeUnsettled, Resume, MoneyOK
<1>4. /\ http'[r].answer = a /\ http'[r].pc = "answered"
      /\ \A q \in Requests \ {r} : http'[q] = http[q]
  BY <1>1, <1>3, CallShape DEF AnswerWith, HttpRequests
<1>5. /\ a = "content" => SaleState(r)' = "fulfilled" /\ SettledFor(r)
      /\ a = "402" => SaleState(r)' = "closed" /\ ~SettledFor(r)
      /\ a = "500" => SaleState(r)' = "lost"
  BY <1>1, <1>2, <1>3, <1>4 DEF SaleState, MoneyOK, SettledFor
<1>6. OrderMoves(r)
  BY <1>1, <1>2, <1>3, <1>5 DEF OrderMoves
<1>7. \A q \in Requests \ {r} : SaleOrder'[q] = SaleOrder[q]
  BY <1>2, <1>4, OthersStay
<1> QED BY <1>1, <1>6, <1>7, OneOrderMoves

\* Gateway charges an order that waits or is lost, once, or moves nothing.
LEMMA GatewaySells ==
  ASSUME PaidInv, NEW r \in Requests, SettleStep(r)
  PROVE  [Sales!SaleNext]_<<SaleOrder, ledger>>
<1>1. /\ exchange[r].pc \in {"posted", "success"} /\ UNCHANGED http
      /\ exchange[r] \in Exchanges /\ OrderOK(r) /\ MoneyOK(r)
      /\ DOMAIN exchange = Requests
  BY CallShape DEF SettleStep, GatewayStep, GatewayAnswers, GatewaySettles, GatewayDeclines,
         GatewayFails, routeVars, PaidInv, ShapeOK
<1>2. /\ exchange'[r].pc # "idle" /\ exchange'[r].auth = exchange[r].auth
      /\ \A q \in Requests \ {r} : exchange'[q] = exchange[q]
  BY <1>1 DEF SettleStep, GatewayStep, GatewayAnswers, GatewaySettles, GatewayDeclines,
         GatewayFails, Exchanges
<1>3. SaleOrder' = SaleOrder
  <2>1. \A q \in Requests : SaleOrder'[q] = SaleOrder[q]
    BY <1>1, <1>2, OthersStay
  <2> QED BY <2>1 DEF SaleOrder
<1>4. CASE GatewaySettles(r)
  <2>1. exchange[r].pc = "posted" /\ ~SettledFor(r) /\ GateSeen(Route(r))
    BY <1>1, <1>4 DEF GatewaySettles, MoneyOK, SettledFor
  <2>2. Charges(Route(r)) /\ http[r].answer \notin {"402", "content"}
    BY <1>1, <2>1 DEF MoneyOK, GateSeen, Charges
  <2>3. SaleOrder[r].state \in {"submitted", "lost"} /\ SaleOrder[r].auth = exchange[r].auth
    BY <2>1, <2>2 DEF SaleOrder, SaleState
  <2>4. Sales!Charge(r)
    BY <1>3, <1>4, <2>3 DEF GatewaySettles, Sales!Charge
  <2> QED BY <2>4 DEF Sales!SaleNext
<1>5. CASE UNCHANGED ledger
  BY <1>3, <1>5
<1> QED
  BY <1>4, <1>5 DEF SettleStep, GatewayStep, GatewayAnswers, GatewayDeclines, GatewayFails

\* A dropped handler and a restart lose orders under way.
LEMMA SomeAreLost ==
  ASSUME PaidInv, UNCHANGED <<exchange, ledger>>,
         \A q \in Requests : \/ http'[q] = http[q]
                            \/ /\ http[q].pc \in Serving
                               /\ http'[q] = [http[q] EXCEPT !.pc = "closed"]
  PROVE  [Sales!SaleNext]_<<SaleOrder, ledger>>
<1> DEFINE O == {q \in Requests : http'[q] # http[q]}
           Lost(q) == [SaleOrder[q] EXCEPT !.state = IF @ = "open" THEN "closed" ELSE "lost"]
<1>1. ASSUME NEW q \in O
      PROVE  SaleOrder[q].state \in {"open", "submitted"} /\ SaleOrder'[q] = Lost(q)
  <2>1. /\ http[q].pc \in Serving /\ http'[q].pc = "closed" /\ http'[q].answer = "none"
    BY CallShape DEF HttpRequests, OrderOK, Serving
  <2>2. /\ SaleState(q) = (IF exchange[q].pc = "idle" THEN "open" ELSE "submitted")
        /\ SaleState(q)' = (IF exchange[q].pc = "idle" THEN "closed" ELSE "lost")
    BY <2>1, OrderOf DEF SaleState, Serving
  <2> QED BY <2>2 DEF SaleOrder
<1>2. \A q \in Requests \ O : SaleOrder'[q] = SaleOrder[q]
  BY DEF SaleOrder, SaleState
<1>3. SaleOrder' = [q \in Requests |-> IF q \in O THEN Lost(q) ELSE SaleOrder[q]]
  <2>1. SaleOrder' = [q \in Requests |-> SaleOrder'[q]]
    BY DEF SaleOrder
  <2> HIDE DEF Lost, O
  <2> QED BY <1>1, <1>2, <2>1
<1>4. Sales!Lose(O)
  BY <1>1, <1>3 DEF Sales!Lose
<1>5. O \in SUBSET Requests
  OBVIOUS
<1> QED BY <1>4, <1>5 DEF Sales!SaleNext

\* Every step of the demo is a step of Sale, or none.
LEMMA PaidStepSells ==
  ASSUME PaidInv, [PaidNext]_vars
  PROVE  [Sales!SaleNext]_<<SaleOrder, ledger>>
<1>1. CASE UNCHANGED <<http, exchange, ledger>>
  BY <1>1 DEF SaleOrder, SaleState
<1>2. ASSUME NEW r \in Requests, ServerStep(r)
      PROVE  [Sales!SaleNext]_<<SaleOrder, ledger>>
  BY <1>2, ServeSells, AnswerSells DEF ServerStep
<1>3. ASSUME NEW r \in Requests, DropHandler(r)
      PROVE  [Sales!SaleNext]_<<SaleOrder, ledger>>
  <2>1. \A q \in Requests : \/ http'[q] = http[q]
                           \/ /\ http[q].pc \in Serving
                              /\ http'[q] = [http[q] EXCEPT !.pc = "closed"]
    BY <1>3 DEF DropHandler, PaidInv, ShapeOK
  <2> QED BY <1>3, <2>1, SomeAreLost DEF DropHandler, paymentVars
<1>4. CASE RestartSeller
  BY <1>4, SomeAreLost DEF RestartSeller, paymentVars
<1>5. StopAtLimit \/ ClockStep \/ UNCHANGED vars => UNCHANGED <<http, exchange, ledger>>
  BY DEF StopAtLimit, ClockStep, vars, paymentVars, routeVars
<1> QED BY <1>1, <1>2, <1>3, <1>4, <1>5, BuyerSells, GatewaySells DEF PaidNext

\* The paid routes sell: a call is fulfilled only when it has been charged, once
\* at most, and one that was refused never is.
THEOREM PaidIsASale == PaidSpec => SellsAccess
<1>1. PaidInit => Sales!SaleInit
  BY DEF PaidInit, PaymentInit, NoHttp, NoExchange, Sales!SaleInit, Sales!OpenOrder,
         SaleOrder, SaleState
<1>2. PaidInv /\ [PaidNext]_vars => [Sales!SaleNext]_Sales!saleVars
  BY PaidStepSells DEF Sales!saleVars
<1> QED BY <1>1, <1>2, PaidInvariance, PTL DEF PaidSpec, SellsAccess, Sales!SaleSpec
=============================================================================

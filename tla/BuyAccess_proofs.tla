-------------------------- MODULE BuyAccess_proofs --------------------------
(***************************************************************************)
(* What the buy route guarantees for any number of requests, wallets and   *)
(* items, any prices and any mix of failures.  BuyAccess implements        *)
(* AccessManager, so that everything proved of AccessManager holds of the  *)
(* server as a whole; BuyIInv, which ties handlers, exchanges, grants and  *)
(* book entries to Gateway's ledger, is inductive; and the route           *)
(* implements Sale.                                                        *)
(***************************************************************************)
EXTENDS BuyAccess, AccessManager_proofs

\* What BuyIInv says beyond AccessIInv.
LocalOK ==
    /\ PaymentTypeOK
    /\ handler \in [Requests -> Handlers]
    /\ payments \in Seq(Rows)
    /\ \A r \in Requests : SaleOK(r) /\ CheckOK(r)
    /\ BooksOK

\* The two halves of the invariant.
LEMMA BuyIInvSplit == BuyIInv <=> AccessIInv /\ LocalOK
  BY DEF BuyIInv, LocalOK, BuyTypeOK, AccessIInv

\* The initial state satisfies the invariant.
LEMMA BuyInitIInv == BuyInit => BuyIInv
<1> SUFFICES ASSUME BuyInit PROVE BuyIInv
  OBVIOUS
<1>1. AccessIInv
  BY AccessInitIInv DEF BuyInit
<1>2. PaymentTypeOK
  BY PaymentAssumption DEF BuyInit, PaymentInit, PaymentTypeOK, NoExchange, Headers
<1>3. handler \in [Requests -> Handlers]
  BY DEF BuyInit, NoHandler, Handlers
<1>4. payments \in Seq(Rows) /\ BooksOK
  BY DEF BuyInit, BooksOK
<1>5. ASSUME NEW r \in Requests
      PROVE  SaleOK(r) /\ CheckOK(r)
  BY DEF BuyInit, AccessInit, PaymentInit, NoHandler, NoExchange, NoGrant, SaleOK, CheckOK
<1> QED BY <1>1, <1>2, <1>3, <1>4, <1>5, BuyIInvSplit DEF LocalOK

----------------------------------------------------------------------------
\* Every step is a step of AccessManager, or none.

\* The key of a request is a key of the cache.
LEMMA KeyOfRequest ==
  ASSUME NEW w \in Wallets, NEW h \in HttpRequests
  PROVE  <<w, ContentOf[h.item]>> \in Keys
  BY BuyAssumption DEF Keys

\* The handler's own steps call check_access or grant_and_record, or leave
\* AccessManager alone.
LEMMA HandlerIsAccessStep ==
  ASSUME BuyIInv, NEW r \in Requests, HandlerStep(r)
  PROVE  [AccessNext]_accessVars
<1>1. CASE GrantSale(r)
  <2>1. handler[r].payer \in Wallets /\ handler[r].http \in HttpRequests
    BY <1>1 DEF BuyIInv, SaleOK, Paid, GrantSale
  <2>2. SoldKey(r) \in Keys
    BY <2>1, KeyOfRequest DEF SoldKey, Item
  <2>3. CallGrant(r, SoldKey(r))
    BY <1>1 DEF GrantSale, CallGrant
  <2> QED BY <2>2, <2>3 DEF AccessNext
<1>2. CASE ~GrantSale(r)
  BY <1>2 DEF HandlerStep, FastPath, FallThrough, Price, Settled, NotSettled, LogPayment, Deliver
<1> QED BY <1>1, <1>2

\* A request with a wallet that parses calls check_access.
LEMMA ArriveIsAccessStep ==
  ASSUME NEW r \in Requests, NEW h \in HttpRequests, Arrive(r, h)
  PROVE  [AccessNext]_accessVars
<1>1. CASE UNCHANGED check
  BY <1>1 DEF Arrive, accessVars
<1>2. CASE h.wallet # NoWallet /\ CheckAccess(r, <<h.wallet, ContentOf[h.item]>>)
  <2>1. h.wallet \in Wallets
    BY <1>2, BuyAssumption
  <2>2. <<h.wallet, ContentOf[h.item]>> \in Keys
    BY <2>1, KeyOfRequest
  <2>3. CallCheck(r, <<h.wallet, ContentOf[h.item]>>)
    BY <1>2 DEF Arrive, CallCheck
  <2> QED BY <2>2, <2>3 DEF AccessNext
<1> QED BY <1>1, <1>2 DEF Arrive

\* A disconnect drops the check the handler waits for, if there is one.
LEMMA DisconnectIsAccessStep ==
  ASSUME NEW r \in Requests, Disconnect(r)
  PROVE  [AccessNext]_accessVars
<1>1. CASE CheckAt(r, "gone") /\ check[r].pc \in CheckRunning
  <2>1. DropCheck(r)
    BY <1>1 DEF Disconnect, DropCheck
  <2> QED BY <2>1 DEF AccessNext
<1>2. CASE UNCHANGED check
  BY <1>2 DEF Disconnect, accessVars
<1> QED BY <1>1, <1>2 DEF Disconnect

\* Each step of the buy route is a step of AccessManager, or none.
LEMMA BuyStepIsAccessStep ==
  ASSUME BuyIInv, [BuyNext]_vars
  PROVE  [AccessNext]_accessVars
<1>1. CASE RestartServer
  <2>1. Restart
    BY <1>1 DEF RestartServer, Restart
  <2> QED BY <2>1 DEF AccessNext
<1>2. ASSUME NEW r \in Requests, AccessStep(r) PROVE [AccessNext]_accessVars
  BY <1>2 DEF AccessStep, AccessNext
<1>3. ASSUME NEW r \in Requests, SettleStep(r) PROVE [AccessNext]_accessVars
  BY <1>3 DEF SettleStep
<1>4. CASE ChainStep
  BY <1>4 DEF ChainStep, AccessNext
<1>5. CASE ClockStep
  BY <1>5 DEF ClockStep, AccessNext
<1>6. CASE UNCHANGED vars
  BY <1>6 DEF vars
<1> QED
  BY <1>1, <1>2, <1>3, <1>4, <1>5, <1>6, HandlerIsAccessStep, ArriveIsAccessStep,
     DisconnectIsAccessStep
  DEF BuyNext

\* What is on chain stays there.
LEMMA AccessGrows ==
  ASSUME [AccessNext]_accessVars
  PROVE  access \subseteq access'
  BY DEF AccessNext, CheckStep, GrantStep, ReadCache, AskChain, RecordCheck, GrantPrepare,
         GrantSend, GrantReceipt, GrantRecord, DropCheck, CallCheck, CallGrant, MineTx, Restart,
         PassTime, accessVars, chainVars

----------------------------------------------------------------------------
\* What one request's part of the invariant depends on.

\* A sale stays as it is while its handler, exchange and grant do, and the
\* ledger only grows.
LEMMA SaleFrame ==
  ASSUME NEW r \in Requests, SaleOK(r),
         handler'[r] = handler[r], exchange'[r] = exchange[r],
         ledger \subseteq ledger', payTo' = payTo,
         grant'[r].pc # "idle" => grant[r].pc # "idle" /\ grant'[r].key = grant[r].key
  PROVE  SaleOK(r)'
  BY DEF SaleOK, Paid, SoldKey, Settlement, Backs, Item, Wallet

\* A sale that is paid stays so while its exchange, its payer and its request do.
LEMMA PaidFrame ==
  ASSUME NEW r \in Requests, Paid(r), exchange'[r] = exchange[r], ledger \subseteq ledger',
         handler'[r].payer = handler[r].payer, handler'[r].http = handler[r].http
  PROVE  Paid(r)'
  BY DEF Paid, Backs, Settlement, Wallet

\* A check a handler waits for may turn to yes for a pair on chain; what is on
\* chain stays.
LEMMA CheckFrame ==
  ASSUME NEW r \in Requests, CheckOK(r),
         handler'[r] = handler[r], access \subseteq access',
         check'[r].key = check[r].key,
         check'[r].pc = "true" => check[r].pc = "true" \/ Owns(check[r].key)
  PROVE  CheckOK(r)'
  BY DEF CheckOK, Owns, Pair, Wallet, Item

\* The rows of the payments table have their columns.
LEMMA RowsAreRows ==
  ASSUME BuyIInv
  PROVE  \A i \in DOMAIN payments : payments[i] \in Rows
<1>1. payments \in Seq(Rows)
  BY DEF BuyIInv, BuyTypeOK
<1> QED BY <1>1

\* Where the handler of a row may be.
Booked == {"logged", "titling", "content", "gone"}

\* Every row is of a sale that is paid.
LEMMA RowsAreOfSales ==
  ASSUME BuyIInv
  PROVE  \A i \in DOMAIN payments : /\ payments[i].gateway_ref \in Requests
                                     /\ handler[payments[i].gateway_ref].pc \in Booked
                                     /\ Paid(payments[i].gateway_ref)
  BY RowsAreRows DEF Rows, BuyIInv, BooksOK, Booked

\* The step leaves a row of r true.
RowStays(r) ==
    Paid(r) /\ handler[r].pc \in Booked
        => /\ Paid(r)'
           /\ handler'[r].pc \in Booked
           /\ handler'[r].price = handler[r].price

\* Nothing is booked and the rows stay true.
LEMMA BooksStay ==
  ASSUME BuyIInv, UNCHANGED payments, \A q \in Requests : RowStays(q)
  PROVE  BooksOK' /\ payments' \in Seq(Rows)
<1>1. ASSUME NEW i \in DOMAIN payments
      PROVE  LET q == payments[i].gateway_ref
             IN  /\ handler'[q].pc \in Booked
                 /\ Paid(q)'
                 /\ payments[i].amount = handler'[q].price
  BY RowsAreOfSales DEF BuyIInv, BooksOK, RowStays
<1>2. ASSUME NEW i \in DOMAIN payments', NEW q, q = payments'[i].gateway_ref
      PROVE  handler'[q].pc \in Booked /\ Paid(q)' /\ payments'[i].amount = handler'[q].price
  BY <1>1, <1>2
<1>3. BooksOK'
  BY <1>2 DEF BuyIInv, BooksOK, Booked
<1> QED BY <1>3 DEF BuyIInv, BuyTypeOK

\* A sale that is paid is booked, for the first time.
LEMMA BooksGrow ==
  ASSUME BuyIInv, NEW r \in Requests,
         Row(r) \in Rows, payments' = Append(payments, Row(r)),
         handler[r].pc = "logging",
         handler'[r].pc = "logged", handler'[r].price = handler[r].price, Paid(r)',
         \A q \in Requests \ {r} : RowStays(q)
  PROVE  BooksOK' /\ payments' \in Seq(Rows)
<1>1. payments \in Seq(Rows)
  BY DEF BuyIInv, BuyTypeOK
<1>2. payments' \in Seq(Rows)
  BY <1>1
<1>3. ASSUME NEW i \in DOMAIN payments'
      PROVE  \/ /\ i \in DOMAIN payments /\ payments'[i] = payments[i]
                /\ payments[i].gateway_ref \in Requests \ {r}
             \/ i = Len(payments) + 1 /\ payments'[i] = Row(r)
  BY <1>1, RowsAreOfSales DEF Booked
<1>4. ASSUME NEW i \in DOMAIN payments', NEW q, q = payments'[i].gateway_ref
      PROVE  handler'[q].pc \in Booked /\ Paid(q)' /\ payments'[i].amount = handler'[q].price
  <2>1. CASE /\ i \in DOMAIN payments /\ payments'[i] = payments[i]
             /\ payments[i].gateway_ref \in Requests \ {r}
    <3>1. /\ handler[q].pc \in Booked /\ Paid(q) /\ q \in Requests \ {r}
          /\ payments[i].amount = handler[q].price
      BY <1>4, <2>1, RowsAreOfSales DEF BuyIInv, BooksOK
    <3> QED BY <2>1, <3>1 DEF RowStays
  <2>2. CASE payments'[i] = Row(r)
    BY <1>4, <2>2 DEF Row, Booked
  <2> QED BY <1>3, <2>1, <2>2
<1>5. ASSUME NEW i \in DOMAIN payments', NEW j \in DOMAIN payments',
             payments'[i].gateway_ref = payments'[j].gateway_ref
      PROVE  i = j
  BY <1>3, <1>5 DEF BuyIInv, BooksOK, Row
<1> QED BY <1>2, <1>4, <1>5 DEF BooksOK, Booked

\* A step that touches one request's sale keeps the others.
LEMMA OthersStay ==
  ASSUME BuyIInv, NEW r \in Requests,
         \A q \in Requests \ {r} : /\ handler'[q] = handler[q]
                                   /\ exchange'[q] = exchange[q]
                                   /\ check'[q] = check[q]
                                   /\ grant'[q] = grant[q],
         ledger \subseteq ledger', payTo' = payTo, access \subseteq access',
         SaleOK(r)', CheckOK(r)'
  PROVE  \A q \in Requests : SaleOK(q)' /\ CheckOK(q)'
<1> SUFFICES ASSUME NEW q \in Requests \ {r}
             PROVE  SaleOK(q)' /\ CheckOK(q)'
  OBVIOUS
<1> QED BY SaleFrame, CheckFrame DEF BuyIInv

\* A step that changes one request's sale keeps the invariant, if it leaves the
\* row of that sale true and nothing is booked.
LEMMA OneSaleMoves ==
  ASSUME BuyIInv, NEW r \in Requests,
         PaymentTypeOK', handler' \in [Requests -> Handlers],
         \A q \in Requests \ {r} : /\ handler'[q] = handler[q]
                                   /\ exchange'[q] = exchange[q]
                                   /\ check'[q] = check[q]
                                   /\ grant'[q] = grant[q],
         ledger \subseteq ledger', payTo' = payTo, access \subseteq access',
         UNCHANGED payments, RowStays(r),
         SaleOK(r)', CheckOK(r)'
  PROVE  LocalOK'
<1>1. \A q \in Requests : RowStays(q)
  BY PaidFrame DEF RowStays
<1> QED BY <1>1, OthersStay, BooksStay DEF LocalOK

\* The handler of r goes to another place and keeps everything else.
LEMMA AtMoves ==
  ASSUME BuyIInv, NEW r \in Requests, NEW pc \in HandlerRunning \cup Finished, At(r, pc)
  PROVE  /\ handler' \in [Requests -> Handlers]
         /\ handler'[r].pc = pc /\ handler'[r].http = handler[r].http
         /\ handler'[r].price = handler[r].price /\ handler'[r].payer = handler[r].payer
         /\ handler'[r].owned = handler[r].owned
         /\ \A q \in Requests \ {r} : handler'[q] = handler[q]
<1> DEFINE hd == [handler[r] EXCEPT !.pc = pc]
<1>1. handler \in [Requests -> Handlers] /\ handler[r] \in Handlers
  BY DEF BuyIInv, BuyTypeOK
<1>2. /\ hd \in Handlers
      /\ hd.pc = pc /\ hd.http = handler[r].http /\ hd.price = handler[r].price
      /\ hd.payer = handler[r].payer /\ hd.owned = handler[r].owned
  BY <1>1 DEF Handlers
<1>3. handler' = [handler EXCEPT ![r] = hd]
  BY DEF At
<1> HIDE DEF hd
<1> QED BY <1>1, <1>2, <1>3

----------------------------------------------------------------------------
\* The handler's steps

\* A request arrives: nothing is settled, nothing known but the key to check.
LEMMA ArriveLocal ==
  ASSUME BuyIInv, NEW r \in Requests, NEW h \in HttpRequests, Arrive(r, h)
  PROVE  LocalOK'
<1> DEFINE key == <<h.wallet, ContentOf[h.item]>>
           hd(pc) == [pc |-> pc, http |-> h, price |-> 0, payer |-> NoWallet,
                      owned |-> h.wallet # NoWallet /\ Parses(h.wallet) /\ Owns(key),
                      bought |-> BoughtBefore(h)]
<1>1. handler[r] = NoHandler /\ exchange[r].pc = "idle"
  BY DEF Arrive, BuyIInv, SaleOK, NoHandler
<1>2. grant[r].pc = "idle"
  BY <1>1 DEF BuyIInv, SaleOK, NoHandler
<1>3. PICK pc \in {"pricing", "bad_request", "checking"} :
         /\ handler' = [handler EXCEPT ![r] = hd(pc)]
         /\ \/ pc # "checking" /\ UNCHANGED check
            \/ pc = "checking" /\ h.wallet # NoWallet /\ CheckAccess(r, key)
  BY DEF Arrive, NoHandler
<1> HIDE DEF hd
<1>4. /\ hd(pc) \in Handlers
      /\ hd(pc).pc = pc /\ hd(pc).http = h
  <2>1. (h.wallet # NoWallet /\ Parses(h.wallet) /\ Owns(key)) \in BOOLEAN
    BY DEF Parses, Owns
  <2>2. BoughtBefore(h) \in BOOLEAN
    BY DEF BoughtBefore
  <2> QED BY <2>1, <2>2 DEF hd, Handlers, HandlerRunning, Finished
<1>5. handler \in [Requests -> Handlers]
  BY DEF BuyIInv, BuyTypeOK
<1>6. /\ handler'[r] = hd(pc)
      /\ handler' \in [Requests -> Handlers]
      /\ \A q \in Requests \ {r} : handler'[q] = handler[q]
  BY <1>3, <1>4, <1>5
<1>7. check \in [Requests -> CheckCalls]
  BY DEF BuyIInv, BuyTypeOK, AccessTypeOK
<1>8. \A q \in Requests \ {r} : check'[q] = check[q]
  BY <1>3, <1>7 DEF CheckAccess
<1>9. SaleOK(r)'
  BY <1>1, <1>2, <1>4, <1>6 DEF SaleOK, Arrive, paymentVars
<1>10. CheckOK(r)'
  BY <1>3, <1>4, <1>6, <1>7, BuyAssumption DEF CheckOK, CheckAccess, Wallet, Item
<1>11. PaymentTypeOK'
  BY DEF BuyIInv, BuyTypeOK, PaymentTypeOK, Arrive, paymentVars
<1>12. RowStays(r)
  BY <1>1 DEF RowStays, Booked, NoHandler
<1> QED
  BY <1>1, <1>6, <1>8, <1>9, <1>10, <1>11, <1>12, OneSaleMoves
  DEF Arrive, paymentVars, chainVars

\* What holds of a sale whose handler only goes on to a place where nothing
\* more is claimed of it than where it was.
LEMMA PlainMove ==
  ASSUME BuyIInv, NEW r \in Requests, NEW pc \in {"fast", "pricing", "content", "gone"},
         handler[r].pc \in HandlerRunning, At(r, pc),
         pc \in {"fast", "pricing"} => handler[r].pc = "checking",
         pc = "content" => handler[r].pc = "titling",
         UNCHANGED <<chainVars, grant, paymentVars, payments>>,
         \A q \in Requests \ {r} : check'[q] = check[q],
         pc = "fast" => Owns(<<Wallet(r), ContentOf[Item(r)]>>)
  PROVE  LocalOK'
<1>1. /\ handler' \in [Requests -> Handlers]
      /\ handler'[r].pc = pc /\ handler'[r].http = handler[r].http
      /\ handler'[r].price = handler[r].price /\ handler'[r].payer = handler[r].payer
      /\ \A q \in Requests \ {r} : handler'[q] = handler[q]
  BY AtMoves DEF HandlerRunning, Finished
<1>2. SaleOK(r) /\ UNCHANGED <<exchange, ledger, payTo>>
  BY DEF BuyIInv, paymentVars
<1>3. Paid(r) => Paid(r)'
  BY <1>1, <1>2, PaidFrame
<1>4. SaleOK(r)'
  BY <1>1, <1>2, <1>3 DEF SaleOK, SoldKey, Settlement, Item, HandlerRunning
<1>5. CheckOK(r)'
  BY <1>1 DEF CheckOK, Wallet, Item, Owns, Pair, chainVars
<1>6. PaymentTypeOK'
  BY <1>2 DEF BuyIInv, BuyTypeOK, PaymentTypeOK
<1>7. RowStays(r)
  BY <1>1, <1>3 DEF RowStays, Booked
<1> QED
  BY <1>1, <1>2, <1>4, <1>5, <1>6, <1>7, OneSaleMoves DEF chainVars

\* check_access said yes, and the yes is true.
LEMMA FastPathLocal ==
  ASSUME BuyIInv, NEW r \in Requests, FastPath(r)
  PROVE  LocalOK'
<1>1. Owns(<<Wallet(r), ContentOf[Item(r)]>>)
  BY DEF FastPath, BuyIInv, CheckOK
<1> QED BY <1>1, PlainMove DEF FastPath, HandlerRunning, accessVars

\* It said no, or failed.
LEMMA FallThroughLocal ==
  ASSUME BuyIInv, NEW r \in Requests, FallThrough(r)
  PROVE  LocalOK'
  BY PlainMove DEF FallThrough, HandlerRunning, accessVars

\* The client goes away.
LEMMA DisconnectLocal ==
  ASSUME BuyIInv, NEW r \in Requests, Disconnect(r)
  PROVE  LocalOK'
<1>1. \A q \in Requests \ {r} : check'[q] = check[q]
  BY DEF Disconnect, CheckAt, BuyIInv, BuyTypeOK, AccessTypeOK
<1> QED BY <1>1, PlainMove DEF Disconnect

\* The prices a handler may read are the ones the properties accept.
LEMMA PricesAccepted ==
  ASSUME NEW i \in Items
  PROVE  Prices(i) \subseteq AcceptedPrices(i) /\ Prices(i) \subseteq Nat
  BY BuyAssumption DEF Prices, AcceptedPrices

\* The price is read; what is posted is what the handler asked for.
LEMMA PriceLocal ==
  ASSUME BuyIInv, NEW r \in Requests, Price(r)
  PROVE  LocalOK'
<1>1. /\ handler[r].pc = "pricing" /\ handler[r] \in Handlers
      /\ handler[r].http \in HttpRequests
      /\ exchange[r].pc = "idle" /\ SaleOK(r)
      /\ exchange[r] \in [pc : {"idle", "posted", "success", "declined", "error", "read"},
                          auth : Headers, payer : Wallets \cup {NoWallet, Empty}]
  BY DEF BuyIInv, BuyTypeOK, PaymentTypeOK, SaleOK, Price
<1>2. Item(r) \in Items
  BY <1>1, BuyAssumption DEF Item
<1>3. PICK p \in Prices(Item(r)), pc \in {"error500", "challenge", "rejected", "settling"} :
         /\ handler' = [handler EXCEPT ![r] = [@ EXCEPT !.pc = pc, !.price = p]]
         /\ \/ UNCHANGED exchange
            \/ Acceptable(Header(r), p) /\ PostSettle(r, Header(r))
  BY DEF Price
<1>4. p \in AcceptedPrices(Item(r)) /\ p \in Nat
  BY <1>2, PricesAccepted
<1> DEFINE hd == [handler[r] EXCEPT !.pc = pc, !.price = p]
<1>5. /\ hd \in Handlers
      /\ hd.pc = pc /\ hd.http = handler[r].http /\ hd.price = p
  BY <1>1, <1>4 DEF Handlers, HandlerRunning, Finished
<1>6. handler' = [handler EXCEPT ![r] = hd]
  BY <1>3
<1> HIDE DEF hd
<1>7. /\ handler'[r] = hd
      /\ handler' \in [Requests -> Handlers]
      /\ \A q \in Requests \ {r} : handler'[q] = handler[q]
  BY <1>5, <1>6 DEF BuyIInv, BuyTypeOK
<1>8. /\ PaymentTypeOK'
      /\ \A q \in Requests \ {r} : exchange'[q] = exchange[q]
      /\ \/ exchange'[r].pc = "idle"
         \/ /\ exchange'[r].pc = "posted"
            /\ exchange'[r].auth \in Payloads
            /\ exchange'[r].auth.value = p
            /\ LowerCase[exchange'[r].auth.to] = LowerCase[payTo]
  <2>1. CASE UNCHANGED exchange
    BY <1>1, <2>1 DEF BuyIInv, BuyTypeOK, PaymentTypeOK, Price
  <2>2. CASE Acceptable(Header(r), p) /\ PostSettle(r, Header(r))
    <3>1. /\ Header(r) \in Payloads /\ Header(r).value = p
          /\ LowerCase[Header(r).to] = LowerCase[payTo]
      BY <2>2 DEF Acceptable, WellFormed, Compatible
    <3> DEFINE ex == [NoExchange EXCEPT !.pc = "posted", !.auth = Header(r)]
    <3>2. exchange' = [exchange EXCEPT ![r] = ex]
      BY <2>2 DEF PostSettle
    <3>3. /\ ex \in [pc : {"idle", "posted", "success", "declined", "error", "read"},
                     auth : Headers, payer : Wallets \cup {NoWallet, Empty}]
          /\ ex.pc = "posted" /\ ex.auth = Header(r)
      BY <3>1 DEF Headers, NoExchange
    <3> HIDE DEF ex
    <3> QED BY <3>1, <3>2, <3>3 DEF BuyIInv, BuyTypeOK, PaymentTypeOK, Price
  <2> QED BY <1>3, <2>1, <2>2
<1>9. SaleOK(r)'
  BY <1>1, <1>4, <1>5, <1>7, <1>8 DEF SaleOK, Item, Price, accessVars
<1>10. CheckOK(r)'
  BY <1>5, <1>7 DEF CheckOK
<1>11. RowStays(r)
  BY <1>1 DEF RowStays, Booked
<1> QED
  BY <1>1, <1>7, <1>8, <1>9, <1>10, <1>11, OneSaleMoves DEF Price, accessVars, chainVars

\* Gateway's answer is read; it stays what it was.
LEMMA ResumeReads ==
  ASSUME BuyIInv, NEW r \in Requests, NEW answers, Resume(r, answers)
  PROVE  /\ PaymentTypeOK'
         /\ exchange[r].pc \in answers
         /\ exchange'[r].pc = "read"
         /\ exchange'[r].auth = exchange[r].auth
         /\ exchange'[r].payer = exchange[r].payer
         /\ \A q \in Requests \ {r} : exchange'[q] = exchange[q]
         /\ UNCHANGED <<ledger, payTo>>
<1> DEFINE ex == [exchange[r] EXCEPT !.pc = "read"]
<1>1. exchange \in [Requests -> [pc : {"idle", "posted", "success", "declined", "error", "read"},
                                 auth : Headers, payer : Wallets \cup {NoWallet, Empty}]]
  BY DEF BuyIInv, BuyTypeOK, PaymentTypeOK
<1>2. /\ ex \in [pc : {"idle", "posted", "success", "declined", "error", "read"},
                 auth : Headers, payer : Wallets \cup {NoWallet, Empty}]
      /\ ex.pc = "read" /\ ex.auth = exchange[r].auth /\ ex.payer = exchange[r].payer
  BY <1>1
<1>3. exchange' = [exchange EXCEPT ![r] = ex]
  BY DEF Resume
<1> HIDE DEF ex
<1> QED BY <1>1, <1>2, <1>3 DEF Resume, BuyIInv, BuyTypeOK, PaymentTypeOK

\* The payer the sale goes on with is the one the settlement is for.
LEMMA PayerIsBacked ==
  ASSUME BuyIInv, NEW r \in Requests, exchange[r].pc = "success", Payer(r) \in Wallets
  PROVE  Backs(r, Payer(r))
<1>1. SaleOK(r) /\ exchange[r].payer \in Wallets \cup {NoWallet, Empty}
  BY DEF BuyIInv, BuyTypeOK, PaymentTypeOK
<1>2. CASE exchange[r].payer = NoWallet
  BY <1>1, <1>2 DEF SaleOK, Backs, Payer
<1>3. CASE exchange[r].payer # NoWallet
  BY <1>1, <1>3 DEF SaleOK, Backs, Payer
<1> QED BY <1>2, <1>3

\* The payment is settled: the sale goes on for its payer.
LEMMA SettledLocal ==
  ASSUME BuyIInv, NEW r \in Requests, Settled(r)
  PROVE  LocalOK'
<1>1. /\ handler[r].pc = "settling" /\ handler[r] \in Handlers /\ SaleOK(r)
      /\ Resume(r, {"success"}) /\ UNCHANGED <<accessVars, payments>>
  BY DEF Settled, BuyIInv, BuyTypeOK
<1>2. PICK pc \in {"error500", "logging"}, w \in Wallets \cup {NoWallet} :
         /\ handler' = [handler EXCEPT ![r] = [handler[r] EXCEPT !.pc = pc, !.payer = w]]
         /\ pc = "logging" => w = Payer(r) /\ w \in Wallets
  <2>1. CASE At(r, "error500")
    <3>1. [handler[r] EXCEPT !.pc = "error500"]
             = [handler[r] EXCEPT !.pc = "error500", !.payer = handler[r].payer]
      BY <1>1 DEF Handlers
    <3> QED BY <1>1, <2>1, <3>1 DEF At, Handlers
  <2> QED BY <2>1 DEF Settled
<1> DEFINE hd == [handler[r] EXCEPT !.pc = pc, !.payer = w]
<1>3. /\ hd \in Handlers
      /\ hd.pc = pc /\ hd.http = handler[r].http /\ hd.price = handler[r].price /\ hd.payer = w
  BY <1>1 DEF Handlers, HandlerRunning, Finished
<1>4. handler' = [handler EXCEPT ![r] = hd]
  BY <1>2
<1> HIDE DEF hd
<1>5. /\ handler'[r] = hd
      /\ handler' \in [Requests -> Handlers]
      /\ \A q \in Requests \ {r} : handler'[q] = handler[q]
  BY <1>3, <1>4 DEF BuyIInv, BuyTypeOK
<1>6. /\ PaymentTypeOK'
      /\ exchange[r].pc = "success" /\ exchange'[r].pc = "read"
      /\ exchange'[r].auth = exchange[r].auth /\ exchange'[r].payer = exchange[r].payer
      /\ \A q \in Requests \ {r} : exchange'[q] = exchange[q]
      /\ UNCHANGED <<ledger, payTo>>
  BY <1>1, ResumeReads
<1>7. pc = "logging" => Backs(r, w)
  BY <1>2, <1>6, PayerIsBacked
<1>8. pc = "logging" => Paid(r)'
  BY <1>2, <1>3, <1>5, <1>6, <1>7 DEF Paid, Backs, Settlement, Wallet
<1>9. SaleOK(r)'
  BY <1>1, <1>2, <1>3, <1>5, <1>6, <1>8 DEF SaleOK, Item, accessVars
<1>10. CheckOK(r)'
  BY <1>3, <1>5 DEF CheckOK
<1>11. RowStays(r)
  BY <1>1 DEF RowStays, Booked
<1> QED
  BY <1>1, <1>5, <1>6, <1>9, <1>10, <1>11, OneSaleMoves DEF accessVars, chainVars

\* The payment is declined, or its fate unknown.
LEMMA NotSettledLocal ==
  ASSUME BuyIInv, NEW r \in Requests, NotSettled(r)
  PROVE  LocalOK'
<1>1. /\ handler[r].pc = "settling" /\ handler[r] \in Handlers /\ SaleOK(r)
      /\ Resume(r, {"declined", "error"}) /\ UNCHANGED <<accessVars, payments>>
  BY DEF NotSettled, BuyIInv, BuyTypeOK
<1>2. /\ handler' \in [Requests -> Handlers]
      /\ handler'[r].pc = "rejected" /\ handler'[r].http = handler[r].http
      /\ handler'[r].price = handler[r].price
      /\ \A q \in Requests \ {r} : handler'[q] = handler[q]
  BY AtMoves DEF NotSettled, Finished
<1>3. /\ PaymentTypeOK'
      /\ exchange'[r].pc = "read" /\ exchange'[r].auth = exchange[r].auth
      /\ exchange[r].pc # "idle"
      /\ \A q \in Requests \ {r} : exchange'[q] = exchange[q]
      /\ UNCHANGED <<ledger, payTo>>
  BY <1>1, ResumeReads
<1>4. SaleOK(r)'
  BY <1>1, <1>2, <1>3 DEF SaleOK, Item, accessVars
<1>5. CheckOK(r)'
  BY <1>2 DEF CheckOK
<1>6. RowStays(r)
  BY <1>1 DEF RowStays, Booked
<1> QED
  BY <1>1, <1>2, <1>3, <1>4, <1>5, <1>6, OneSaleMoves DEF accessVars, chainVars

\* The sale is booked, or the booking fails: the sale stays as paid as it was.
LEMMA LogPaymentLocal ==
  ASSUME BuyIInv, NEW r \in Requests, LogPayment(r)
  PROVE  LocalOK'
<1>1. /\ handler[r].pc = "logging" /\ handler[r] \in Handlers /\ SaleOK(r) /\ Paid(r)
      /\ handler[r].http \in HttpRequests
      /\ UNCHANGED <<accessVars, exchange, ledger, payTo>>
  BY DEF LogPayment, BuyIInv, BuyTypeOK, SaleOK, paymentVars
<1>2. /\ handler' \in [Requests -> Handlers]
      /\ handler'[r].pc = "logged" /\ handler'[r].http = handler[r].http
      /\ handler'[r].price = handler[r].price /\ handler'[r].payer = handler[r].payer
      /\ \A q \in Requests \ {r} : handler'[q] = handler[q]
  BY AtMoves DEF LogPayment, HandlerRunning
<1>3. Paid(r)'
  BY <1>1, <1>2, PaidFrame
<1>4. SaleOK(r)'
  BY <1>1, <1>2, <1>3 DEF SaleOK, Settlement, Item, accessVars
<1>5. CheckOK(r)'
  BY <1>2 DEF CheckOK
<1>6. PaymentTypeOK'
  BY <1>1 DEF BuyIInv, BuyTypeOK, PaymentTypeOK
<1>7. \A q \in Requests : SaleOK(q)' /\ CheckOK(q)'
  BY <1>1, <1>2, <1>4, <1>5, OthersStay DEF accessVars, chainVars
<1>8. \A q \in Requests \ {r} : RowStays(q)
  BY <1>1, <1>2, PaidFrame DEF RowStays
<1>9. BooksOK' /\ payments' \in Seq(Rows)
  <2>1. CASE UNCHANGED payments
    <3>1. RowStays(r)
      BY <1>1 DEF RowStays, Booked
    <3> QED BY <1>8, <2>1, <3>1, BooksStay
  <2>2. CASE payments' = Append(payments, Row(r))
    <3>1. Row(r) \in Rows
      BY <1>1, BuyAssumption DEF Row, Rows, Item, Handlers, Paid
    <3> QED BY <1>1, <1>2, <1>3, <1>8, <2>2, <3>1, BooksGrow
  <2> QED BY <2>1, <2>2 DEF LogPayment
<1> QED BY <1>2, <1>6, <1>7, <1>9 DEF LocalOK

\* The grant is for the payer and the item of a sale that is paid.
LEMMA GrantSaleLocal ==
  ASSUME BuyIInv, NEW r \in Requests, GrantSale(r)
  PROVE  LocalOK'
<1>1. /\ handler[r].pc = "logged" /\ SaleOK(r) /\ Paid(r)
      /\ UNCHANGED <<exchange, ledger, payTo, payments, check, access>>
  BY DEF GrantSale, BuyIInv, SaleOK, paymentVars, chainVars
<1>2. /\ handler' \in [Requests -> Handlers]
      /\ handler'[r].pc = "titling" /\ handler'[r].http = handler[r].http
      /\ handler'[r].price = handler[r].price /\ handler'[r].payer = handler[r].payer
      /\ \A q \in Requests \ {r} : handler'[q] = handler[q]
  BY AtMoves DEF GrantSale, HandlerRunning
<1>3. /\ grant'[r].key = SoldKey(r)
      /\ \A q \in Requests \ {r} : grant'[q] = grant[q]
  BY DEF GrantSale, SpawnGrant, BuyIInv, BuyTypeOK, AccessTypeOK
<1>4. Paid(r)'
  BY <1>1, <1>2, PaidFrame
<1>5. SaleOK(r)'
  BY <1>1, <1>2, <1>3, <1>4 DEF SaleOK, SoldKey, Settlement, Item
<1>6. CheckOK(r)'
  BY <1>2 DEF CheckOK
<1>7. PaymentTypeOK'
  BY <1>1 DEF BuyIInv, BuyTypeOK, PaymentTypeOK
<1>8. RowStays(r)
  BY <1>2, <1>4 DEF RowStays, Booked
<1> QED
  BY <1>1, <1>2, <1>3, <1>5, <1>6, <1>7, <1>8, OneSaleMoves

\* The content is sent for a sale that is paid.
LEMMA DeliverLocal ==
  ASSUME BuyIInv, NEW r \in Requests, Deliver(r)
  PROVE  LocalOK'
  BY PlainMove DEF Deliver, HandlerRunning, accessVars

----------------------------------------------------------------------------
\* The other steps.

\* Gateway settles what it was sent, declines it, or its answer is lost.
LEMMA SettleLocal ==
  ASSUME BuyIInv, NEW r \in Requests, SettleStep(r)
  PROVE  LocalOK'
<1>1. /\ exchange[r] \in [pc : {"idle", "posted", "success", "declined", "error", "read"},
                          auth : Headers, payer : Wallets \cup {NoWallet, Empty}]
      /\ exchange[r].pc \in {"posted", "success"}
      /\ exchange[r].auth \in Payloads
      /\ SaleOK(r) /\ CheckOK(r) /\ handler \in [Requests -> Handlers]
      /\ UNCHANGED <<accessVars, buyVars>> /\ UNCHANGED payTo
  BY DEF SettleStep, GatewayStep, GatewayAnswers, GatewaySettles, GatewayDeclines, GatewayFails,
         BuyIInv, BuyTypeOK, PaymentTypeOK, SaleOK
<1>2. PICK pc \in {"success", "declined", "error"}, w \in Wallets \cup {NoWallet, Empty} :
         /\ exchange' = [exchange EXCEPT ![r] = [exchange[r] EXCEPT !.pc = pc, !.payer = w]]
         /\ \/ pc # "success" /\ UNCHANGED ledger
            \/ /\ pc = "success" /\ w \in PayerNames(exchange[r].auth)
               /\ ledger' = ledger \cup {Settlement(r)}
  <2>1. CASE GatewaySettles(r)
    <3>1. PICK w \in PayerNames(exchange[r].auth) :
             exchange' = [exchange EXCEPT ![r] = [exchange[r] EXCEPT !.pc = "success", !.payer = w]]
      BY <2>1 DEF GatewaySettles
    <3>2. w \in Wallets \cup {NoWallet, Empty}
      BY DEF PayerNames
    <3> QED BY <2>1, <3>1, <3>2 DEF GatewaySettles, Settlement
  <2>2. CASE GatewayDeclines(r) \/ GatewayFails(r)
    <3>1. PICK pc \in {"declined", "error"} :
             exchange' = [exchange EXCEPT ![r] = [exchange[r] EXCEPT !.pc = pc]]
      BY <2>2 DEF GatewayDeclines, GatewayFails
    <3>2. [exchange[r] EXCEPT !.pc = pc]
             = [exchange[r] EXCEPT !.pc = pc, !.payer = exchange[r].payer]
      BY <1>1
    <3>3. exchange[r].payer \in Wallets \cup {NoWallet, Empty} /\ UNCHANGED ledger
      BY <1>1, <2>2 DEF GatewayDeclines, GatewayFails
    <3> QED BY <3>1, <3>2, <3>3
  <2> QED BY <2>1, <2>2 DEF SettleStep, GatewayStep, GatewayAnswers
<1> DEFINE ex == [exchange[r] EXCEPT !.pc = pc, !.payer = w]
<1>3. /\ ex \in [pc : {"idle", "posted", "success", "declined", "error", "read"},
                 auth : Headers, payer : Wallets \cup {NoWallet, Empty}]
      /\ ex.pc = pc /\ ex.auth = exchange[r].auth /\ ex.payer = w
  BY <1>1
<1>4. exchange' = [exchange EXCEPT ![r] = ex]
  BY <1>2
<1> HIDE DEF ex
<1>5. /\ exchange'[r] = ex
      /\ exchange' \in [Requests -> [pc : {"idle", "posted", "success", "declined", "error",
                                           "read"},
                                     auth : Headers, payer : Wallets \cup {NoWallet, Empty}]]
      /\ \A q \in Requests \ {r} : exchange'[q] = exchange[q]
  BY <1>3, <1>4 DEF BuyIInv, BuyTypeOK, PaymentTypeOK
<1>6. /\ ledger \subseteq ledger'
      /\ ledger' \subseteq [req : Requests, auth : Payloads]
  BY <1>1, <1>2 DEF BuyIInv, BuyTypeOK, PaymentTypeOK, Settlement
<1>7. PaymentTypeOK'
  BY <1>1, <1>5, <1>6 DEF BuyIInv, BuyTypeOK, PaymentTypeOK
<1>8. pc = "success" => /\ Settlement(r)' \in ledger'
                        /\ w \in Wallets => AddrOf[exchange[r].auth.from] = AddrOf[w]
  BY <1>2, <1>3, <1>5, PaymentAssumption DEF Settlement, PayerNames
<1>9. SaleOK(r)'
  <2>1. /\ handler[r].pc \notin {"logging", "logged", "titling", "content"}
        /\ grant[r].pc = "idle"
    BY <1>1 DEF SaleOK, Paid
  <2> QED BY <1>1, <1>2, <1>3, <1>5, <1>8, <2>1 DEF SaleOK, Item, accessVars, buyVars
<1>10. CheckOK(r)'
  BY <1>1 DEF CheckOK, Wallet, Item, Owns, Pair, accessVars, chainVars, buyVars
<1>11. RowStays(r)
  BY <1>1 DEF RowStays, Paid
<1> QED
  BY <1>1, <1>5, <1>6, <1>7, <1>9, <1>10, <1>11, OneSaleMoves DEF accessVars, chainVars, buyVars

\* check_access and grant_and_record go on: a check that turns to yes is about
\* a pair on chain, a grant keeps its key.
LEMMA AccessLocal ==
  ASSUME BuyIInv, NEW r \in Requests, AccessStep(r)
  PROVE  LocalOK'
<1>1. check \in [Requests -> CheckCalls] /\ grant \in [Requests -> GrantCalls]
  BY DEF BuyIInv, BuyTypeOK, AccessTypeOK
<1>2. SaleOK(r) /\ CheckOK(r) /\ UNCHANGED <<paymentVars, buyVars>>
  BY DEF BuyIInv, AccessStep
<1>3. access \subseteq access'
  BY DEF AccessStep, CheckStep, GrantStep, ReadCache, AskChain, RecordCheck, GrantPrepare,
         GrantSend, GrantReceipt, GrantRecord, chainVars
<1> RowStays(r)
  BY <1>2, PaidFrame DEF RowStays, paymentVars, buyVars
<1>4. CASE CheckStep(r)
  <2>1. check[r].pc \in CheckRunning /\ check[r].key \in Keys
    BY <1>4 DEF CheckStep, ReadCache, AskChain, RecordCheck, CheckRunning, BuyIInv, AccessIInv,
                CallsConsistent
  <2>2. /\ grant' = grant
        /\ \A q \in Requests \ {r} : check'[q] = check[q]
        /\ check'[r].key = check[r].key
    BY <1>1, <1>4 DEF CheckStep, ReadCache, AskChain, RecordCheck, Answered, CheckAt, CheckCalls
  <2>3. check'[r].pc = "true" => Owns(check[r].key)
    <3>1. CASE ReadCache(r)
      BY <1>1, <2>1, <3>1 DEF ReadCache, Answered, CheckAt, CheckCalls, Fresh, BuyIInv, AccessIInv,
                              CacheSound
    <3>2. CASE AskChain(r)
      BY <1>1, <3>2 DEF AskChain, Answered, CheckAt, CheckCalls
    <3>3. CASE RecordCheck(r)
      BY <1>1, <3>3 DEF RecordCheck, BuyIInv, AccessIInv, CallsConsistent, Owns
    <3> QED BY <1>4, <3>1, <3>2, <3>3 DEF CheckStep
  <2>4. SaleOK(r)' /\ CheckOK(r)'
    BY <1>2, <1>3, <2>2, <2>3, SaleFrame, CheckFrame DEF paymentVars, buyVars
  <2> QED
    BY <1>2, <1>3, <2>2, <2>4, OneSaleMoves
    DEF BuyIInv, BuyTypeOK, PaymentTypeOK, paymentVars, buyVars
<1>5. CASE GrantStep(r)
  <2>1. /\ check' = check /\ grant[r].pc # "idle"
        /\ \A q \in Requests \ {r} : grant'[q] = grant[q]
        /\ grant'[r].key = grant[r].key
    BY <1>1, <1>5 DEF GrantStep, GrantPrepare, GrantSend, GrantReceipt, GrantRecord, GrantAt,
                      GrantCalls
  <2>2. SaleOK(r)' /\ CheckOK(r)'
    BY <1>2, <1>3, <2>1, SaleFrame, CheckFrame DEF paymentVars, buyVars
  <2> QED
    BY <1>2, <1>3, <2>1, <2>2, OneSaleMoves
    DEF BuyIInv, BuyTypeOK, PaymentTypeOK, paymentVars, buyVars
<1> QED BY <1>4, <1>5 DEF AccessStep

\* A block, a tick, or nothing: no sale is touched.
LEMMA NoSaleMoves ==
  ASSUME BuyIInv, UNCHANGED <<check, grant, paymentVars, buyVars>>, access \subseteq access'
  PROVE  LocalOK'
<1>1. \A q \in Requests : SaleOK(q)' /\ CheckOK(q)'
  BY SaleFrame, CheckFrame DEF BuyIInv, paymentVars, buyVars
<1>2. BooksOK' /\ payments' \in Seq(Rows)
  BY BooksStay, PaidFrame DEF RowStays, paymentVars, buyVars
<1> QED BY <1>1, <1>2 DEF LocalOK, BuyIInv, BuyTypeOK, PaymentTypeOK, paymentVars, buyVars

\* A restart ends every handler, check and grant that is under way: a row that
\* was written stays, of a sale that is paid.
LEMMA RestartLocal ==
  ASSUME BuyIInv, RestartServer
  PROVE  LocalOK'
<1>1. /\ handler \in [Requests -> Handlers]
      /\ check \in [Requests -> CheckCalls] /\ grant \in [Requests -> GrantCalls]
      /\ UNCHANGED <<chainVars, paymentVars, payments>>
  BY DEF BuyIInv, BuyTypeOK, AccessTypeOK, RestartServer
<1>2. ASSUME NEW q \in Requests
      PROVE  \/ handler[q].pc \notin HandlerRunning /\ handler'[q] = handler[q]
             \/ /\ handler[q].pc \in HandlerRunning
                /\ handler'[q] = [handler[q] EXCEPT !.pc = "gone"]
  BY DEF RestartServer
<1>3. handler' \in [Requests -> Handlers]
  <2>1. \A q \in Requests : handler'[q] \in Handlers
    <3> SUFFICES ASSUME NEW q \in Requests PROVE handler'[q] \in Handlers
      OBVIOUS
    <3>1. handler[q] \in Handlers
      BY <1>1
    <3>2. [handler[q] EXCEPT !.pc = "gone"] \in Handlers
      BY <3>1 DEF Handlers, Finished
    <3> QED BY <1>2, <3>1, <3>2
  <2>2. handler' = [q \in Requests |-> handler'[q]]
    BY DEF RestartServer
  <2> QED BY <2>1, <2>2
<1>4. ASSUME NEW q \in Requests
      PROVE  SaleOK(q)' /\ CheckOK(q)'
  <2>1. SaleOK(q) /\ CheckOK(q)
    BY DEF BuyIInv
  <2>2. /\ grant'[q].key = grant[q].key
        /\ grant[q].pc = "idle" => grant'[q].pc = "idle"
    BY <1>1 DEF RestartServer, LoseCalls, Gone, GrantRunning, GrantCalls
  <2>3. /\ check'[q].key = check[q].key
        /\ check'[q].pc = "true" => check[q].pc = "true"
    BY <1>1 DEF RestartServer, LoseCalls, Gone, CheckCalls
  <2>4. CASE handler'[q] = handler[q]
    BY <1>1, <2>1, <2>2, <2>3, <2>4, SaleFrame, CheckFrame DEF paymentVars, chainVars
  <2>5. CASE /\ handler[q].pc \in HandlerRunning
             /\ handler'[q] = [handler[q] EXCEPT !.pc = "gone"]
    <3>1. /\ handler'[q].pc = "gone" /\ handler'[q].http = handler[q].http
          /\ handler'[q].price = handler[q].price /\ handler'[q].payer = handler[q].payer
      BY <1>1, <2>5 DEF Handlers
    <3>2. Paid(q) => Paid(q)'
      BY <1>1, <3>1, PaidFrame DEF paymentVars
    <3>3. SaleOK(q)'
      BY <1>1, <2>1, <2>2, <2>5, <3>1, <3>2
      DEF SaleOK, SoldKey, Settlement, Item, HandlerRunning, paymentVars
    <3>4. CheckOK(q)'
      BY <3>1 DEF CheckOK
    <3> QED BY <3>3, <3>4
  <2> QED BY <1>2, <2>4, <2>5
<1>5. BooksOK' /\ payments' \in Seq(Rows)
  <2>1. ASSUME NEW q \in Requests
        PROVE  /\ handler'[q].http = handler[q].http /\ handler'[q].price = handler[q].price
               /\ handler'[q].payer = handler[q].payer
               /\ handler'[q].pc \in {handler[q].pc, "gone"}
    <3>1. handler[q] \in Handlers
      BY <1>1
    <3>2. handler'[q] = handler[q] \/ handler'[q] = [handler[q] EXCEPT !.pc = "gone"]
      BY <1>2
    <3> QED BY <3>1, <3>2 DEF Handlers
  <2>2. \A q \in Requests : RowStays(q)
    BY <1>1, <2>1, PaidFrame DEF RowStays, Booked, paymentVars
  <2> QED BY <1>1, <2>2, BooksStay
<1>6. PaymentTypeOK'
  BY <1>1 DEF BuyIInv, BuyTypeOK, PaymentTypeOK, paymentVars
<1> QED BY <1>3, <1>4, <1>5, <1>6 DEF LocalOK

----------------------------------------------------------------------------
\* The theorems

\* BuyIInv is inductive: AccessManager's part because every step is one of
\* AccessManager's, the rest with one lemma per action.
LEMMA BuyStepIInv ==
  ASSUME BuyIInv, [BuyNext]_vars
  PROVE  BuyIInv'
<1>1. AccessIInv'
  BY BuyStepIsAccessStep, AccessStepIInv DEF BuyIInv
<1>2. LocalOK'
  <2>1. ASSUME NEW r \in Requests, HandlerStep(r) PROVE LocalOK'
    BY <2>1, FastPathLocal, FallThroughLocal, PriceLocal, SettledLocal, NotSettledLocal,
       LogPaymentLocal, GrantSaleLocal, DeliverLocal
    DEF HandlerStep
  <2>2. CASE ChainStep
    BY <2>2, NoSaleMoves DEF ChainStep, MineTx
  <2>3. CASE ClockStep
    BY <2>3, NoSaleMoves DEF ClockStep, PassTime, chainVars
  <2>4. CASE UNCHANGED vars
    BY <2>4, NoSaleMoves DEF vars, accessVars, chainVars
  <2> QED
    BY <2>1, <2>2, <2>3, <2>4, ArriveLocal, AccessLocal, SettleLocal, DisconnectLocal, RestartLocal
    DEF BuyNext
<1> QED BY <1>1, <1>2 DEF BuyIInv, LocalOK, BuyTypeOK, AccessIInv

\* The invariant holds in every state of the buy route, whatever fails, stops
\* or restarts and however handlers, checks, grants, Gateway and the chain
\* interleave.
THEOREM BuyInvariance == BuySpec => []BuyIInv
<1> QED BY BuyInitIInv, BuyStepIInv, PTL DEF BuySpec

\* Every state has the declared shape.
THEOREM BuyTypeCorrect == BuySpec => []BuyTypeOK
<1>1. BuyIInv => BuyTypeOK
  BY DEF BuyIInv
<1> QED BY <1>1, BuyInvariance, PTL

\* The buy route implements AccessManager: all its theorems hold of the route.
THEOREM BuyImplementsAccess == BuySpec => UsesAccessManager
<1>1. BuyInit => AccessInit
  BY DEF BuyInit
<1>2. BuyIInv /\ [BuyNext]_vars => [AccessNext]_accessVars
  BY BuyStepIsAccessStep
<1> QED BY <1>1, <1>2, BuyInvariance, PTL DEF BuySpec, UsesAccessManager, AccessSpec

\* No access without payment: what has been granted since the start was settled
\* by Gateway for that owner and item at its price.
THEOREM NoAccessUnpaid == BuySpec => []GrantsArePaidFor
<1>1. BuyIInv => GrantsArePaidFor
  <2> SUFFICES ASSUME BuyIInv, NEW p \in access \ Genesis
               PROVE  \E s \in ledger : Buys(s, p[1], p[2])
    BY DEF GrantsArePaidFor
  <2>1. PICK r \in Requests : grant[r].pc # "idle" /\ Pair(grant[r].key) = p
    BY AskedFor DEF BuyIInv, NothingUngranted
  <2>2. /\ SaleOK(r)
        /\ exchange[r].pc = "read" /\ handler[r].payer \in Wallets
        /\ Backs(r, handler[r].payer)
        /\ p[1] = AddrOf[handler[r].payer] /\ p[2] = ContentOf[Item(r)]
    BY <2>1 DEF BuyIInv, SaleOK, Paid, SoldKey, Pair
  <2>3. Buys(Settlement(r), p[1], p[2])
    BY <2>2, PaymentAssumption DEF Buys, Backs, Settlement, SaleOK
  <2> QED BY <2>2, <2>3 DEF Backs
<1> QED BY <1>1, BuyInvariance, PTL

\* Nothing but Gateway's settling moves the ledger.
LEMMA OnlyGatewayCharges ==
  ASSUME [BuyNext]_vars
  PROVE  UNCHANGED ledger \/ \E r \in Requests : GatewaySettles(r)
<1>1. ASSUME NEW r \in Requests, HandlerStep(r) PROVE UNCHANGED ledger
  BY <1>1 DEF HandlerStep, FastPath, FallThrough, Price, Settled, NotSettled, LogPayment, GrantSale,
              Deliver, Resume, paymentVars
<1>2. ASSUME NEW r \in Requests, SettleStep(r) PROVE UNCHANGED ledger \/ GatewaySettles(r)
  BY <1>2 DEF SettleStep, GatewayStep, GatewayAnswers, GatewayDeclines, GatewayFails
<1> QED
  BY <1>1, <1>2
  DEF BuyNext, Arrive, AccessStep, Disconnect, ChainStep, ClockStep, RestartServer, vars, paymentVars

\* An authorization is settled for one request only.
NoncesOnce == \A s, t \in ledger : s.auth.nonce = t.auth.nonce => s = t

\* Every step keeps it.
LEMMA NoncesOnceStep ==
  ASSUME NoncesOnce, [BuyNext]_vars
  PROVE  NoncesOnce'
<1>1. ASSUME NEW r \in Requests, GatewaySettles(r) PROVE NoncesOnce'
  <2> DEFINE c == [req |-> r, auth |-> exchange[r].auth]
  <2>1. /\ ledger' = ledger \cup {c}
        /\ \A s \in ledger : s.auth.nonce # c.auth.nonce
    BY <1>1 DEF GatewaySettles
  <2> HIDE DEF c
  <2> QED BY <2>1 DEF NoncesOnce
<1>2. UNCHANGED ledger => NoncesOnce'
  BY DEF NoncesOnce
<1> QED BY <1>1, <1>2, OnlyGatewayCharges

\* Who is served for money has paid for it, himself and with an authorization
\* that serves nobody else; who is served for nothing names a wallet that owns
\* the content, his own or another's: the route asks for no proof of that.
THEOREM ServedPaidOrNamedAnOwner == BuySpec => []ServedIsPaidOrNamesAnOwner
<1>1. BuyIInv /\ NoncesOnce => ServedIsPaidOrNamesAnOwner
  <2> SUFFICES ASSUME BuyIInv, NoncesOnce, NEW r \in Requests
               PROVE  /\ handler[r].pc = "content" =>
                            \E s \in ledger :
                               /\ s.req = r
                               /\ s.auth.value = handler[r].price
                               /\ LowerCase[s.auth.to] = LowerCase[payTo]
                               /\ \A t \in ledger : t.auth.nonce = s.auth.nonce => t = s
                      /\ handler[r].pc = "fast" => Owns(<<Wallet(r), ContentOf[Item(r)]>>)
    BY DEF ServedIsPaidOrNamesAnOwner
  <2>1. SaleOK(r) /\ CheckOK(r)
    BY DEF BuyIInv
  <2>2. ASSUME handler[r].pc = "content"
        PROVE  /\ Settlement(r) \in ledger
               /\ Settlement(r).req = r /\ Settlement(r).auth.value = handler[r].price
               /\ LowerCase[Settlement(r).auth.to] = LowerCase[payTo]
               /\ \A t \in ledger : t.auth.nonce = Settlement(r).auth.nonce => t = Settlement(r)
    BY <2>1, <2>2 DEF SaleOK, Paid, Backs, Settlement, NoncesOnce
  <2> QED BY <2>1, <2>2 DEF CheckOK
<1>2. BuyInit => NoncesOnce
  BY DEF BuyInit, PaymentInit, NoncesOnce
<1> QED BY <1>1, <1>2, NoncesOnceStep, BuyInvariance, PTL DEF BuySpec

\* The payments table holds settlements, each at most once, at its amount.
THEOREM BooksAreTrue == BuySpec => []BooksMatchLedger
<1>1. BuyIInv => BooksMatchLedger
  <2> SUFFICES ASSUME BuyIInv, NEW i \in DOMAIN payments
               PROVE  \E s \in ledger : /\ s.req = payments[i].gateway_ref
                                        /\ s.auth.value = payments[i].amount
    BY DEF BuyIInv, BooksOK, BooksMatchLedger
  <2> DEFINE r == payments[i].gateway_ref
  <2>1. r \in Requests /\ Paid(r) /\ payments[i].amount = handler[r].price
    BY RowsAreOfSales DEF BuyIInv, BooksOK
  <2>2. SaleOK(r)
    BY <2>1 DEF BuyIInv
  <2>3. /\ Settlement(r) \in ledger
        /\ Settlement(r).req = r /\ Settlement(r).auth.value = handler[r].price
    BY <2>1, <2>2 DEF SaleOK, Paid, Backs, Settlement
  <2> QED BY <2>1, <2>3
<1> QED BY <1>1, BuyInvariance, PTL

----------------------------------------------------------------------------
\* Owners.  Beyond BuyIInv this needs the history of the one request: what its
\* check was asked, what it may still answer, and that nothing is posted
\* unless the check has failed.
OwnerOK(r) ==
    /\ SettledFor(r) => exchange[r].pc # "idle"
    /\ handler[r].owned =>
          /\ Owns(<<Wallet(r), ContentOf[Item(r)]>>)
          /\ handler[r].pc = "checking" => check[r].pc # "false"
          /\ handler[r].pc = "pricing" \/ exchange[r].pc # "idle" => check[r].pc \in CheckFailed

\* What every step but the arrival of r does with r: the handler gets to its
\* price only past a check that said no or failed, and to Gateway only past
\* its price.
Advances(r) ==
    /\ handler'[r].owned = handler[r].owned /\ handler'[r].http = handler[r].http
    /\ handler'[r].pc = "checking" => handler[r].pc = "checking"
    /\ handler'[r].pc = "pricing" => \/ handler[r].pc = "pricing"
                                     \/ /\ handler[r].pc = "checking"
                                        /\ check[r].pc \in {"false"} \cup CheckFailed
    /\ exchange'[r].pc # "idle" => exchange[r].pc # "idle" \/ handler[r].pc = "pricing"
    /\ exchange[r].pc # "idle" => exchange'[r].pc # "idle"

\* An answer of check_access is final, and "no" was true when it was given.
CheckAdvances(r) ==
    /\ check[r].pc \in CheckFailed => check'[r].pc \in CheckFailed
    /\ check'[r].pc = "false" => check[r].pc = "false" \/ ~Owns(check[r].key)

\* What Gateway settles has been posted.
LedgerAdvances ==
    \A s \in ledger' \ ledger : exchange'[s.req].pc # "idle"

\* Such a step keeps what is said of an owner.
LEMMA OwnerFrame ==
  ASSUME BuyIInv, NEW r \in Requests, OwnerOK(r),
         Advances(r), CheckAdvances(r), LedgerAdvances, access \subseteq access'
  PROVE  OwnerOK(r)'
<1>1. SettledFor(r)' => exchange'[r].pc # "idle"
  BY DEF OwnerOK, SettledFor, LedgerAdvances, Advances
<1>2. ASSUME handler[r].owned
      PROVE  /\ Owns(<<Wallet(r), ContentOf[Item(r)]>>)'
             /\ handler'[r].pc = "checking" => check'[r].pc # "false"
             /\ handler'[r].pc = "pricing" \/ exchange'[r].pc # "idle" => check'[r].pc \in CheckFailed
  <2>1. Owns(<<Wallet(r), ContentOf[Item(r)]>>)
    BY <1>2 DEF OwnerOK
  <2>2. Owns(<<Wallet(r), ContentOf[Item(r)]>>)'
    BY <2>1 DEF Advances, Owns, Pair, Wallet, Item
  <2>3. handler'[r].pc = "checking" => check'[r].pc # "false"
    BY <1>2, <2>1 DEF OwnerOK, Advances, CheckAdvances, BuyIInv, CheckOK
  <2>4. handler'[r].pc = "pricing" \/ exchange'[r].pc # "idle" => check'[r].pc \in CheckFailed
    BY <1>2 DEF OwnerOK, Advances, CheckAdvances
  <2> QED BY <2>2, <2>3, <2>4
<1> QED BY <1>1, <1>2 DEF OwnerOK, Advances

\* A request arrives: nothing is posted for it, and its check has not answered.
LEMMA ArriveOwner ==
  ASSUME BuyIInv, NEW r \in Requests, OwnerOK(r), NEW h \in HttpRequests, Arrive(r, h)
  PROVE  OwnerOK(r)'
<1> DEFINE key == <<h.wallet, ContentOf[h.item]>>
           owns == h.wallet # NoWallet /\ Parses(h.wallet) /\ Owns(key)
           hd(pc) == [pc |-> pc, http |-> h, price |-> 0, payer |-> NoWallet,
                      owned |-> owns, bought |-> BoughtBefore(h)]
<1>1. exchange[r].pc = "idle" /\ UNCHANGED <<paymentVars, chainVars>>
  BY DEF Arrive, BuyIInv, SaleOK, NoHandler
<1>2. PICK pc \in {"pricing", "bad_request", "checking"} :
         /\ handler' = [handler EXCEPT ![r] = hd(pc)]
         /\ \/ pc # "checking" /\ ~owns
            \/ pc = "checking" /\ CheckAccess(r, key)
  BY DEF Arrive, NoHandler
<1>3. /\ handler'[r].pc = pc /\ handler'[r].http = h /\ handler'[r].owned = owns
  BY <1>2 DEF BuyIInv, BuyTypeOK
<1>4. pc = "checking" => check'[r].pc = "cache"
  BY <1>2 DEF CheckAccess, BuyIInv, BuyTypeOK, AccessTypeOK
<1>5. ~SettledFor(r)'
  BY <1>1 DEF OwnerOK, SettledFor, paymentVars
<1>6. owns => Owns(<<Wallet(r), ContentOf[Item(r)]>>)'
  BY <1>1, <1>3 DEF Owns, Pair, Wallet, Item, chainVars
<1> HIDE DEF owns
<1> QED BY <1>1, <1>2, <1>3, <1>4, <1>5, <1>6 DEF OwnerOK, paymentVars

\* The handler of q takes a step.
LEMMA HandlerAdvances ==
  ASSUME BuyIInv, NEW q \in Requests, HandlerStep(q)
  PROVE  /\ \A r \in Requests : Advances(r) /\ CheckAdvances(r)
         /\ LedgerAdvances
<1>1. /\ handler \in [Requests -> Handlers]
      /\ exchange \in [Requests -> [pc : {"idle", "posted", "success", "declined", "error",
                                          "read"},
                                    auth : Headers, payer : Wallets \cup {NoWallet, Empty}]]
      /\ UNCHANGED <<check, ledger>>
  BY DEF BuyIInv, BuyTypeOK, PaymentTypeOK, HandlerStep, FastPath, FallThrough, Price, Settled,
         NotSettled, LogPayment, GrantSale, Deliver, Resume, accessVars, paymentVars
<1>2. \A r \in Requests \ {q} : handler'[r] = handler[r] /\ exchange'[r] = exchange[r]
  BY <1>1 DEF HandlerStep, FastPath, FallThrough, Price, Settled, NotSettled, LogPayment, GrantSale,
              Deliver, Resume, PostSettle, At, paymentVars
<1>3. Advances(q)
  <2>1. handler[q] \in Handlers
    BY <1>1
  <2>2. PICK pc \in Finished \cup {"pricing", "settling", "logging", "logged", "titling"} :
           /\ handler'[q].pc = pc
           /\ handler'[q].owned = handler[q].owned /\ handler'[q].http = handler[q].http
           /\ pc = "pricing" => /\ handler[q].pc = "checking"
                                /\ check[q].pc \in {"false"} \cup CheckFailed
    <3>1. CASE FastPath(q)
      BY <1>1, <2>1, <3>1 DEF FastPath, At, Finished, Handlers
    <3>2. CASE FallThrough(q)
      BY <1>1, <2>1, <3>2 DEF FallThrough, At, Handlers
    <3>3. CASE Price(q)
      <4>1. PICK p \in Prices(Item(q)), pc \in {"error500", "challenge", "rejected", "settling"} :
               handler' = [handler EXCEPT ![q] = [@ EXCEPT !.pc = pc, !.price = p]]
        BY <3>3 DEF Price
      <4>2. handler'[q] = [handler[q] EXCEPT !.pc = pc, !.price = p]
        BY <1>1, <4>1
      <4> QED BY <2>1, <4>2 DEF Finished, Handlers
    <3>4. CASE Settled(q)
      <4>1. CASE At(q, "error500")
        BY <1>1, <2>1, <4>1 DEF At, Finished, Handlers
      <4>2. CASE handler' = [handler EXCEPT ![q] = [handler[q] EXCEPT !.pc = "logging",
                                                                      !.payer = Payer(q)]]
        <5>1. handler'[q] = [handler[q] EXCEPT !.pc = "logging", !.payer = Payer(q)]
          BY <1>1, <4>2
        <5> QED BY <2>1, <5>1 DEF Handlers
      <4> QED BY <3>4, <4>1, <4>2 DEF Settled
    <3>5. CASE NotSettled(q)
      BY <1>1, <2>1, <3>5 DEF NotSettled, At, Finished, Handlers
    <3>6. CASE LogPayment(q) \/ GrantSale(q) \/ Deliver(q)
      BY <1>1, <2>1, <3>6 DEF LogPayment, GrantSale, Deliver, At, Finished, Handlers
    <3> QED BY <3>1, <3>2, <3>3, <3>4, <3>5, <3>6 DEF HandlerStep
  <2>3. /\ exchange'[q].pc # "idle" => exchange[q].pc # "idle" \/ handler[q].pc = "pricing"
        /\ exchange[q].pc # "idle" => exchange'[q].pc # "idle"
    BY <1>1 DEF HandlerStep, FastPath, FallThrough, Price, Settled, NotSettled, LogPayment,
                GrantSale, Deliver, Resume, PostSettle, NoExchange, paymentVars
  <2> QED BY <2>2, <2>3 DEF Advances, Finished
<1> QED BY <1>1, <1>2, <1>3 DEF Advances, CheckAdvances, LedgerAdvances

\* check_access and grant_and_record go on.
LEMMA AccessAdvances ==
  ASSUME BuyIInv, NEW q \in Requests, AccessStep(q)
  PROVE  /\ \A r \in Requests : Advances(r) /\ CheckAdvances(r)
         /\ LedgerAdvances
<1>1. check \in [Requests -> CheckCalls] /\ UNCHANGED <<paymentVars, buyVars>>
  BY DEF BuyIInv, BuyTypeOK, AccessTypeOK, AccessStep
<1>2. \A r \in Requests : Advances(r)
  BY <1>1 DEF Advances, paymentVars, buyVars
<1>3. \A r \in Requests : CheckAdvances(r)
  <2>1. CASE GrantStep(q)
    BY <2>1 DEF GrantStep, GrantPrepare, GrantSend, GrantReceipt, GrantRecord, CheckAdvances
  <2>2. CASE CheckStep(q)
    <3>1. \A r \in Requests \ {q} : check'[r] = check[r]
      BY <1>1, <2>2 DEF CheckStep, ReadCache, AskChain, RecordCheck, Answered, CheckAt
    <3>2. check[q].pc \notin CheckFailed
      BY <2>2 DEF CheckStep, ReadCache, AskChain, RecordCheck, CheckFailed
    <3>3. check'[q].pc = "false" => ~Owns(check[q].key)
      BY <1>1, <2>2 DEF CheckStep, ReadCache, AskChain, RecordCheck, Answered, CheckAt, CheckCalls,
                        Owns
    <3> QED BY <3>1, <3>2, <3>3 DEF CheckAdvances
  <2> QED BY <2>1, <2>2 DEF AccessStep
<1> QED BY <1>1, <1>2, <1>3 DEF LedgerAdvances, paymentVars

\* Gateway answers, or its answer is lost.
LEMMA SettleAdvances ==
  ASSUME BuyIInv, NEW q \in Requests, SettleStep(q)
  PROVE  /\ \A r \in Requests : Advances(r) /\ CheckAdvances(r)
         /\ LedgerAdvances
<1>1. /\ exchange \in [Requests -> [pc : {"idle", "posted", "success", "declined", "error",
                                          "read"},
                                    auth : Headers, payer : Wallets \cup {NoWallet, Empty}]]
      /\ UNCHANGED <<check, handler>>
  BY DEF BuyIInv, BuyTypeOK, PaymentTypeOK, SettleStep, accessVars, buyVars
<1>2. /\ exchange[q].pc # "idle" /\ exchange'[q].pc # "idle"
      /\ \A r \in Requests \ {q} : exchange'[r] = exchange[r]
      /\ \A s \in ledger' \ ledger : s.req = q
  <2>1. CASE GatewaySettles(q)
    <3>1. PICK w : exchange' = [exchange EXCEPT ![q] = [exchange[q] EXCEPT !.pc = "success",
                                                                           !.payer = w]]
      BY <2>1 DEF GatewaySettles
    <3>2. exchange'[q].pc = "success" /\ \A r \in Requests \ {q} : exchange'[r] = exchange[r]
      BY <1>1, <3>1
    <3> QED BY <2>1, <3>2 DEF GatewaySettles
  <2>2. CASE GatewayDeclines(q) \/ GatewayFails(q)
    BY <1>1, <2>2 DEF GatewayDeclines, GatewayFails
  <2> QED BY <2>1, <2>2 DEF SettleStep, GatewayStep, GatewayAnswers
<1> QED BY <1>1, <1>2 DEF Advances, CheckAdvances, LedgerAdvances

\* A client goes away, or the process stops: what was running is gone.
LEMMA StopAdvances ==
  ASSUME BuyIInv, RestartServer \/ \E q \in Requests : Disconnect(q)
  PROVE  /\ \A r \in Requests : Advances(r) /\ CheckAdvances(r)
         /\ LedgerAdvances
<1>1. /\ handler \in [Requests -> Handlers] /\ check \in [Requests -> CheckCalls]
      /\ UNCHANGED paymentVars
  BY DEF BuyIInv, BuyTypeOK, AccessTypeOK, RestartServer, Disconnect
<1>2. ASSUME NEW r \in Requests
      PROVE  /\ handler'[r].owned = handler[r].owned /\ handler'[r].http = handler[r].http
             /\ handler'[r].pc \in {handler[r].pc, "gone"}
  BY <1>1 DEF RestartServer, Disconnect, At, Handlers
<1>3. ASSUME NEW r \in Requests
      PROVE  /\ check'[r].pc \in {check[r].pc, "gone"}
             /\ check[r].pc \in CheckFailed => check'[r].pc \in CheckFailed
  BY <1>1 DEF RestartServer, LoseCalls, Gone, CheckRunning, CheckFailed, Disconnect, CheckAt, CheckCalls
<1> QED BY <1>1, <1>2, <1>3 DEF Advances, CheckAdvances, LedgerAdvances, paymentVars

\* Every step keeps what is said of owners.
LEMMA OwnerStep ==
  ASSUME BuyIInv, \A r \in Requests : OwnerOK(r), [BuyNext]_vars
  PROVE  \A r \in Requests : OwnerOK(r)'
<1>1. access \subseteq access'
  BY BuyStepIsAccessStep, AccessGrows
<1>2. CASE /\ \A r \in Requests : Advances(r) /\ CheckAdvances(r)
           /\ LedgerAdvances
  BY <1>1, <1>2, OwnerFrame
<1>3. ASSUME NEW q \in Requests, NEW h \in HttpRequests, Arrive(q, h)
      PROVE  \A r \in Requests : OwnerOK(r)'
  <2>1. \A r \in Requests \ {q} : Advances(r) /\ CheckAdvances(r)
    BY <1>3 DEF Arrive, CheckAccess, Advances, CheckAdvances, paymentVars, BuyIInv, BuyTypeOK,
                AccessTypeOK
  <2>2. LedgerAdvances
    BY <1>3 DEF Arrive, LedgerAdvances, paymentVars
  <2> QED BY <1>1, <1>3, <2>1, <2>2, OwnerFrame, ArriveOwner
<1>4. CASE ChainStep \/ ClockStep \/ UNCHANGED vars
  BY <1>2, <1>4 DEF ChainStep, MineTx, ClockStep, PassTime, vars, accessVars, paymentVars, buyVars,
                    Advances, CheckAdvances, LedgerAdvances
<1> QED
  BY <1>2, <1>3, <1>4, HandlerAdvances, AccessAdvances, SettleAdvances, StopAdvances DEF BuyNext

\* Nobody who owns the content and says who they are is charged again, unless
\* check_access has failed, be it to write down its own yes: whatever the cache holds, in whatever order checks,
\* grants, blocks, the clock and restarts come.
THEOREM OwnersKeepTheirMoney == BuySpec => []OwnersAreNotCharged
<1> DEFINE Inv == BuyIInv /\ \A r \in Requests : OwnerOK(r)
<1>1. BuyInit => Inv
  <2> SUFFICES ASSUME BuyInit, NEW r \in Requests PROVE OwnerOK(r)
    BY BuyInitIInv
  <2>1. ~handler[r].owned
    BY DEF BuyInit, NoHandler
  <2>2. ~SettledFor(r)
    BY DEF BuyInit, PaymentInit, SettledFor
  <2> QED BY <2>1, <2>2 DEF OwnerOK
<1>2. Inv /\ [BuyNext]_vars => Inv'
  BY BuyStepIInv, OwnerStep
<1>3. Inv => OwnersAreNotCharged
  BY DEF OwnerOK, OwnersAreNotCharged
<1> HIDE DEF Inv
<1> QED BY <1>1, <1>2, <1>3, PTL DEF BuySpec

----------------------------------------------------------------------------
\* What holds when less goes wrong.  Each theorem names the failures that must
\* not occur; any other may.

\* If the node and the database answer and the server stays up, a grant to a
\* buyer whose wallet parses is lost only to a concurrent sale's grant.
THEOREM SaleLostToARaceOnly ==
  ASSUME Faults \cap {"db", "rpc", "crash"} = {}
  PROVE  BuySpec => []LostOnlyToARace
<1> QED BY BuyImplementsAccess, LostToARaceOnly, PTL DEF UsesAccessManager

\* While Gateway has not been read the handler waits; a sale that is charged is
\* on its way to the books and the client, or there.
ServedOK(r) ==
    /\ exchange[r].pc \notin {"idle", "read"} => handler[r].pc = "settling"
    /\ exchange[r].pc = "success" => exchange[r].payer \in Wallets
    /\ SettledFor(r) =>
        \/ handler[r].pc = "settling" /\ exchange[r].pc = "success"
        \/ handler[r].pc = "logging"
        \/ /\ handler[r].pc \in {"logged", "titling", "content"}
           /\ \E i \in DOMAIN payments : payments[i].gateway_ref = r

\* It stays while nothing about r changes.
LEMMA ServedStays ==
  ASSUME NEW r \in Requests, ServedOK(r), exchange'[r] = exchange[r], handler'[r] = handler[r],
         SettledFor(r)' => SettledFor(r), UNCHANGED payments
  PROVE  ServedOK(r)'
  BY DEF ServedOK

\* It stays when the handler of r goes from one place to another before anything
\* is charged, and when it posts.
LEMMA UnchargedServed ==
  ASSUME BuyIInv, \A q \in Requests : ServedOK(q), NEW r \in Requests,
         handler[r].pc \in {"idle", "checking", "pricing"},
         \/ UNCHANGED exchange
         \/ exchange'[r].pc = "posted" /\ handler'[r].pc = "settling",
         \A q \in Requests \ {r} : handler'[q] = handler[q] /\ exchange'[q] = exchange[q],
         UNCHANGED <<ledger, payments>>
  PROVE  \A q \in Requests : ServedOK(q)'
<1>1. exchange[r].pc = "idle" /\ ~SettledFor(r)
  BY DEF BuyIInv, SaleOK, ServedOK
<1>2. \A q \in Requests : SettledFor(q)' = SettledFor(q)
  BY DEF SettledFor
<1>3. ServedOK(r)'
  BY <1>1, <1>2 DEF ServedOK
<1> QED BY <1>2, <1>3, ServedStays

\* A handler that was charged goes on with the payer Gateway named, enters the
\* payment and sends the content.
LEMMA HandlerServed ==
  ASSUME Faults \subseteq {"rpc", "clock"}, BuyIInv, \A q \in Requests : ServedOK(q),
         NEW r \in Requests, HandlerStep(r)
  PROVE  \A q \in Requests : ServedOK(q)'
<1>1. /\ handler \in [Requests -> Handlers] /\ handler[r] \in Handlers /\ ServedOK(r)
      /\ exchange \in [Requests -> [pc : {"idle", "posted", "success", "declined", "error",
                                          "read"},
                                    auth : Headers, payer : Wallets \cup {NoWallet, Empty}]]
      /\ payments \in Seq(Rows)
  BY DEF BuyIInv, BuyTypeOK, PaymentTypeOK
<1>2. UNCHANGED ledger
  BY DEF HandlerStep, FastPath, FallThrough, Price, Settled, NotSettled, LogPayment, GrantSale,
         Deliver, Resume, paymentVars
<1>3. \A q \in Requests : SettledFor(q)' = SettledFor(q)
  BY <1>2 DEF SettledFor
<1>4. \A q \in Requests \ {r} : handler'[q] = handler[q] /\ exchange'[q] = exchange[q]
  BY <1>1 DEF HandlerStep, FastPath, FallThrough, Price, Settled, NotSettled, LogPayment, GrantSale,
              Deliver, Resume, PostSettle, At, paymentVars
<1>5. CASE FastPath(r) \/ FallThrough(r)
  BY <1>4, <1>5, UnchargedServed DEF FastPath, FallThrough, paymentVars
<1>6. CASE Price(r)
  <2>1. PICK p \in Prices(Item(r)), pc \in {"error500", "challenge", "rejected", "settling"} :
           /\ handler' = [handler EXCEPT ![r] = [@ EXCEPT !.pc = pc, !.price = p]]
           /\ UNCHANGED exchange \/ (pc = "settling" /\ PostSettle(r, Header(r)))
    BY <1>6 DEF Price
  <2>2. handler'[r].pc = pc
    <3>1. handler'[r] = [handler[r] EXCEPT !.pc = pc, !.price = p]
      BY <1>1, <2>1
    <3> QED BY <1>1, <3>1 DEF Handlers
  <2>3. PostSettle(r, Header(r)) => exchange'[r].pc = "posted"
    BY <1>1 DEF PostSettle, NoExchange
  <2> QED BY <1>2, <1>4, <1>6, <2>1, <2>2, <2>3, UnchargedServed DEF Price
<1>7. CASE Settled(r)
  <2>1. /\ exchange[r].pc = "success" /\ exchange'[r].pc = "read" /\ UNCHANGED payments
    BY <1>7, ResumeReads DEF Settled
  <2>2. Payer(r) \in Wallets
    BY <1>1, <2>1, PaymentAssumption DEF ServedOK, Payer
  <2>3. handler' = [handler EXCEPT ![r] = [handler[r] EXCEPT !.pc = "logging", !.payer = Payer(r)]]
    BY <1>7, <2>2, PaymentAssumption DEF Settled
  <2>4. handler'[r].pc = "logging"
    <3>1. handler'[r] = [handler[r] EXCEPT !.pc = "logging", !.payer = Payer(r)]
      BY <1>1, <2>3
    <3> QED BY <1>1, <3>1 DEF Handlers
  <2>5. ServedOK(r)'
    BY <1>1, <2>1, <2>4 DEF ServedOK
  <2> QED BY <1>3, <1>4, <2>1, <2>5, ServedStays
<1>8. CASE NotSettled(r)
  <2>1. /\ exchange[r].pc \in {"declined", "error"} /\ exchange'[r].pc = "read"
        /\ handler[r].pc = "settling" /\ UNCHANGED payments
    BY <1>8, ResumeReads DEF NotSettled
  <2>2. ServedOK(r)'
    BY <1>1, <1>3, <2>1 DEF ServedOK
  <2> QED BY <1>3, <1>4, <2>1, <2>2, ServedStays
<1>9. CASE LogPayment(r)
  <2>1. /\ handler[r].pc = "logging" /\ handler'[r].pc = "logged" /\ UNCHANGED exchange
        /\ payments' = Append(payments, Row(r))
    BY <1>1, <1>9 DEF LogPayment, At, Handlers, paymentVars
  <2>2. Row(r).gateway_ref = r
    BY DEF Row
  <2>3. /\ Len(payments) + 1 \in DOMAIN payments'
        /\ payments'[Len(payments) + 1].gateway_ref = r
        /\ \A i \in DOMAIN payments : i \in DOMAIN payments' /\ payments'[i] = payments[i]
    BY <1>1, <2>1, <2>2
  <2>4. ServedOK(r)'
    BY <1>1, <2>1, <2>3 DEF ServedOK
  <2>5. ASSUME NEW q \in Requests \ {r} PROVE ServedOK(q)'
    BY <1>3, <1>4, <2>3 DEF ServedOK
  <2> QED BY <2>4, <2>5
<1>10. CASE GrantSale(r) \/ Deliver(r)
  <2>1. /\ handler[r].pc \in {"logged", "titling"} /\ handler'[r].pc \in {"titling", "content"}
        /\ UNCHANGED <<exchange, payments>>
    BY <1>1, <1>10 DEF GrantSale, Deliver, At, Handlers, paymentVars
  <2>2. ServedOK(r)'
    BY <1>1, <1>3, <2>1 DEF ServedOK
  <2> QED BY <1>3, <1>4, <2>1, <2>2, ServedStays
<1> QED BY <1>5, <1>6, <1>7, <1>8, <1>9, <1>10 DEF HandlerStep

\* Gateway answers, naming the payer.
LEMMA SettleServed ==
  ASSUME Faults \subseteq {"rpc", "clock"}, BuyIInv, \A q \in Requests : ServedOK(q),
         NEW r \in Requests, SettleStep(r)
  PROVE  \A q \in Requests : ServedOK(q)'
<1>1. /\ exchange \in [Requests -> [pc : {"idle", "posted", "success", "declined", "error",
                                          "read"},
                                    auth : Headers, payer : Wallets \cup {NoWallet, Empty}]]
      /\ UNCHANGED <<handler, payments>> /\ ServedOK(r) /\ exchange[r].pc = "posted"
  BY DEF BuyIInv, BuyTypeOK, PaymentTypeOK, SettleStep, GatewayStep, GatewayAnswers,
         GatewaySettles, GatewayDeclines, GatewayFails, buyVars
<1>2. \A q \in Requests \ {r} : exchange'[q] = exchange[q]
  BY <1>1 DEF SettleStep, GatewayStep, GatewayAnswers, GatewaySettles, GatewayDeclines,
              GatewayFails
<1>3. \A q \in Requests \ {r} : SettledFor(q)' => SettledFor(q)
  <2>1. \/ ledger' = ledger
        \/ ledger' = ledger \cup {[req |-> r, auth |-> exchange[r].auth]}
    BY DEF SettleStep, GatewayStep, GatewayAnswers, GatewaySettles, GatewayDeclines, GatewayFails
  <2>2. \A s \in ledger' : s \in ledger \/ s.req = r
    BY <2>1
  <2> QED BY <2>2 DEF SettledFor
<1>4. ServedOK(r)'
  <2>1. CASE GatewaySettles(r)
    <3>1. PICK w \in PayerNames(exchange[r].auth) :
             exchange' = [exchange EXCEPT ![r] = [@ EXCEPT !.pc = "success", !.payer = w]]
      BY <2>1 DEF GatewaySettles
    <3>2. w \in Wallets
      BY DEF PayerNames
    <3>3. exchange'[r].pc = "success" /\ exchange'[r].payer = w
      BY <1>1, <3>1
    <3> QED BY <1>1, <3>2, <3>3 DEF ServedOK
  <2>2. CASE GatewayDeclines(r)
    <3>1. exchange'[r].pc = "declined" /\ ledger' = ledger
      BY <1>1, <2>2 DEF GatewayDeclines
    <3>2. ~SettledFor(r)'
      BY <1>1, <3>1 DEF ServedOK, SettledFor
    <3> QED BY <1>1, <3>1, <3>2 DEF ServedOK
  <2> QED BY <2>1, <2>2 DEF SettleStep, GatewayStep, GatewayAnswers, GatewayFails
<1> QED BY <1>1, <1>2, <1>3, <1>4, ServedStays

\* Every step keeps it.
LEMMA ServedStep ==
  ASSUME Faults \subseteq {"rpc", "clock"}, BuyIInv, \A q \in Requests : ServedOK(q),
         [BuyNext]_vars
  PROVE  \A q \in Requests : ServedOK(q)'
<1>1. ASSUME UNCHANGED <<exchange, ledger, handler, payments>>
      PROVE  \A q \in Requests : ServedOK(q)'
  BY <1>1, ServedStays DEF SettledFor
<1>2. CASE UNCHANGED vars
  BY <1>1, <1>2 DEF vars, paymentVars, buyVars
<1>3. ASSUME NEW r \in Requests, NEW h \in HttpRequests, Arrive(r, h)
      PROVE  \A q \in Requests : ServedOK(q)'
  <2>1. /\ handler[r].pc = "idle" /\ UNCHANGED <<paymentVars, payments>>
        /\ \A q \in Requests \ {r} : handler'[q] = handler[q]
    BY <1>3 DEF Arrive, NoHandler, BuyIInv, BuyTypeOK
  <2> QED BY <2>1, UnchargedServed DEF paymentVars
<1>4. ASSUME NEW r \in Requests, AccessStep(r) PROVE \A q \in Requests : ServedOK(q)'
  BY <1>1, <1>4 DEF AccessStep, paymentVars, buyVars
<1>5. CASE ChainStep \/ ClockStep
  BY <1>1, <1>5 DEF ChainStep, ClockStep, paymentVars, buyVars
<1>6. ~RestartServer /\ \A r \in Requests : ~Disconnect(r)
  BY DEF RestartServer, Disconnect
<1> QED BY <1>2, <1>3, <1>4, <1>5, <1>6, HandlerServed, SettleServed DEF BuyNext

\* If Gateway and the database answer, payers are named, nobody goes away and
\* the server stays up, whoever is charged gets the content and the payment is
\* on the books: the chain may fail and the clock be set back as they like.
THEOREM ChargedBuyerIsServed ==
  ASSUME Faults \subseteq {"rpc", "clock"}
  PROVE  BuySpec => []ChargedIsServed
<1> DEFINE Inv == BuyIInv /\ \A q \in Requests : ServedOK(q)
<1>1. BuyInit => Inv
  BY BuyInitIInv DEF BuyInit, PaymentInit, ServedOK, SettledFor, NoExchange
<1>2. Inv /\ [BuyNext]_vars => Inv'
  BY BuyStepIInv, ServedStep
<1>3. Inv => ChargedIsServed
  BY DEF ServedOK, ChargedIsServed, Finished
<1> QED BY <1>1, <1>2, <1>3, PTL DEF BuySpec

----------------------------------------------------------------------------
\* The buy route as a Sale.

\* Moves of an order that are steps of Sale, when Gateway charges nothing.
OrderMoves(r) ==
    \/ SaleState(r)' = SaleState(r) /\ exchange'[r].auth = exchange[r].auth
    \/ SaleState(r) = "open" /\ SaleState(r)' = "submitted" /\ exchange'[r].auth \in Payloads
    \/ /\ SaleState(r) = "open" /\ SaleState(r)' = "closed"
       /\ exchange'[r].auth = exchange[r].auth
    \/ /\ SaleState(r) = "submitted" /\ SaleState(r)' = "fulfilled" /\ SettledFor(r)
       /\ exchange'[r].auth = exchange[r].auth
    \/ /\ SaleState(r) = "submitted" /\ SaleState(r)' = "lost"
       /\ exchange'[r].auth = exchange[r].auth

\* A step that moves one request moves its order.
LEMMA OneOrderMoves ==
  ASSUME NEW r \in Requests, OrderMoves(r), UNCHANGED ledger,
         \A q \in Requests \ {r} : handler'[q] = handler[q] /\ exchange'[q] = exchange[q]
  PROVE  [Sales!SaleNext]_<<SaleOrder, ledger>>
<1> DEFINE new == [state |-> SaleState(r)', auth |-> exchange'[r].auth]
<1>1. \A q \in Requests \ {r} : SaleOrder'[q] = SaleOrder[q]
  BY DEF SaleOrder, SaleState
<1>2. SaleOrder' = [SaleOrder EXCEPT ![r] = new]
  <2>1. SaleOrder'[r] = new
    BY DEF SaleOrder
  <2>2. /\ SaleOrder = [q \in Requests |-> SaleOrder[q]]
        /\ SaleOrder' = [q \in Requests |-> SaleOrder'[q]]
    BY DEF SaleOrder
  <2> HIDE DEF new
  <2> QED BY <1>1, <2>1, <2>2
<1>3. /\ SaleOrder[r] = [state |-> SaleState(r), auth |-> exchange[r].auth]
      /\ SaleOrder[r].state = SaleState(r) /\ SaleOrder[r].auth = exchange[r].auth
      /\ SaleOrder = [q \in Requests |-> SaleOrder[q]]
  BY DEF SaleOrder
<1>4. CASE SaleState(r)' = SaleState(r) /\ exchange'[r].auth = exchange[r].auth
  <2>1. SaleOrder' = SaleOrder
    BY <1>2, <1>3, <1>4
  <2> QED BY <2>1
<1>5. CASE SaleState(r) = "open" /\ SaleState(r)' = "submitted" /\ exchange'[r].auth \in Payloads
  <2>1. Sales!Submit(r)
    BY <1>2, <1>3, <1>5 DEF Sales!Submit
  <2> QED BY <2>1 DEF Sales!SaleNext
<1>6. CASE /\ SaleState(r) = "open" /\ SaleState(r)' = "closed"
           /\ exchange'[r].auth = exchange[r].auth
  <2>1. Sales!Close(r)
    BY <1>2, <1>3, <1>6 DEF Sales!Close
  <2> QED BY <2>1 DEF Sales!SaleNext
<1>7. CASE /\ SaleState(r) = "submitted" /\ SaleState(r)' = "fulfilled" /\ SettledFor(r)
           /\ exchange'[r].auth = exchange[r].auth
  <2>1. Sales!Fulfil(r)
    BY <1>2, <1>3, <1>7 DEF Sales!Fulfil, Sales!IsCharged, SettledFor
  <2> QED BY <2>1 DEF Sales!SaleNext
<1>8. CASE /\ SaleState(r) = "submitted" /\ SaleState(r)' = "lost"
           /\ exchange'[r].auth = exchange[r].auth
  <2>1. new = [SaleOrder[r] EXCEPT !.state = IF @ = "open" THEN "closed" ELSE "lost"]
    BY <1>3, <1>8
  <2>2. SaleOrder' = [q \in Requests |->
                        IF q \in {r}
                        THEN [SaleOrder[q] EXCEPT !.state = IF @ = "open" THEN "closed" ELSE "lost"]
                        ELSE SaleOrder[q]]
    BY <1>2, <1>3, <2>1
  <2>3. Sales!Lose({r})
    BY <1>3, <1>8, <2>2 DEF Sales!Lose
  <2> QED BY <2>3 DEF Sales!SaleNext
<1> QED BY <1>4, <1>5, <1>6, <1>7, <1>8 DEF OrderMoves

\* Every step of a handler moves its order.
LEMMA HandlerSells ==
  ASSUME BuyIInv, NEW r \in Requests, HandlerStep(r)
  PROVE  OrderMoves(r)
<1>1. /\ handler[r] \in Handlers
      /\ exchange[r] \in [pc : {"idle", "posted", "success", "declined", "error", "read"},
                          auth : Headers, payer : Wallets \cup {NoWallet, Empty}]
  BY DEF BuyIInv, BuyTypeOK, PaymentTypeOK
<1>2. SaleOK(r)
  BY DEF BuyIInv
<1>3. handler \in [Requests -> Handlers] /\ DOMAIN exchange = Requests
  BY DEF BuyIInv, BuyTypeOK, PaymentTypeOK
<1>4. CASE FastPath(r)
  BY <1>1, <1>2, <1>3, <1>4
  DEF FastPath, At, paymentVars, SaleOK, OrderMoves, SaleState, Finished, HandlerRunning, Handlers
<1>5. CASE FallThrough(r)
  BY <1>1, <1>2, <1>3, <1>5
  DEF FallThrough, At, paymentVars, SaleOK, OrderMoves, SaleState, Finished, HandlerRunning, Handlers
<1>6. CASE Price(r)
  <2>1. PICK p \in Prices(Item(r)), pc \in {"error500", "challenge", "rejected", "settling"} :
           /\ handler' = [handler EXCEPT ![r] = [handler[r] EXCEPT !.pc = pc, !.price = p]]
           /\ \/ pc # "settling" /\ UNCHANGED exchange
              \/ pc = "settling" /\ Acceptable(Header(r), p) /\ PostSettle(r, Header(r))
    BY <1>6 DEF Price
  <2>2. handler'[r].pc = pc
    BY <1>1, <1>3, <2>1 DEF Handlers
  <2>3. handler[r].pc = "pricing" /\ exchange[r].pc = "idle"
    BY <1>2, <1>6 DEF Price, SaleOK
  <2>4. CASE pc # "settling" /\ UNCHANGED exchange
    BY <2>2, <2>3, <2>4 DEF OrderMoves, SaleState, Finished
  <2>5. CASE pc = "settling" /\ Acceptable(Header(r), p) /\ PostSettle(r, Header(r))
    <3>1. exchange'[r].pc = "posted" /\ exchange'[r].auth \in Payloads
      BY <1>3, <2>5 DEF PostSettle, NoExchange, Acceptable, WellFormed
    <3> QED BY <2>2, <2>3, <2>5, <3>1 DEF OrderMoves, SaleState, Finished
  <2> QED BY <2>1, <2>4, <2>5
<1>7. CASE Settled(r)
  <2>1. /\ exchange[r].pc = "success" /\ exchange'[r].pc = "read"
        /\ exchange'[r].auth = exchange[r].auth
    BY <1>7, ResumeReads DEF Settled
  <2> QED
    BY <1>1, <1>2, <1>3, <1>7, <2>1
    DEF Settled, At, SaleOK, OrderMoves, SaleState, Finished, HandlerRunning, Handlers
<1>8. CASE NotSettled(r)
  <2>1. /\ exchange[r].pc # "idle" /\ exchange'[r].pc = "read"
        /\ exchange'[r].auth = exchange[r].auth
    BY <1>8, ResumeReads DEF NotSettled
  <2> QED
    BY <1>1, <1>2, <1>3, <1>8, <2>1
    DEF NotSettled, At, SaleOK, OrderMoves, SaleState, Finished, HandlerRunning, Handlers
<1>9. CASE LogPayment(r) \/ GrantSale(r) \/ Deliver(r)
  <2>1. exchange[r].pc = "read" /\ SettledFor(r)
    BY <1>2, <1>9 DEF LogPayment, GrantSale, Deliver, SaleOK, Paid, Backs, Settlement, SettledFor
  <2> QED
    BY <1>1, <1>3, <1>9, <2>1
    DEF LogPayment, GrantSale, Deliver, At, paymentVars, OrderMoves, SaleState, Finished,
        HandlerRunning, Handlers
<1> QED BY <1>4, <1>5, <1>6, <1>7, <1>8, <1>9 DEF HandlerStep

\* Only its own request's handler and exchange move, and nothing is charged.
LEMMA HandlerMovesAlone ==
  ASSUME BuyIInv, NEW r \in Requests, HandlerStep(r)
  PROVE  /\ UNCHANGED ledger
         /\ \A q \in Requests \ {r} : handler'[q] = handler[q] /\ exchange'[q] = exchange[q]
<1>1. DOMAIN handler = Requests /\ DOMAIN exchange = Requests
  BY DEF BuyIInv, BuyTypeOK, PaymentTypeOK
<1>2. CASE Price(r)
  BY <1>1, <1>2 DEF Price, PostSettle
<1> QED
  BY <1>1, <1>2
  DEF HandlerStep, FastPath, FallThrough, Settled, NotSettled, LogPayment, GrantSale, Deliver,
      Resume, At, paymentVars

\* Gateway charges an order that waits or is lost, once, or moves nothing.
LEMMA GatewaySells ==
  ASSUME BuyIInv, NEW r \in Requests, SettleStep(r)
  PROVE  [Sales!SaleNext]_<<SaleOrder, ledger>>
<1>1. /\ DOMAIN exchange = Requests /\ handler[r] \in Handlers
      /\ SaleOK(r) /\ UNCHANGED handler
      /\ exchange[r].pc \in {"posted", "success"}
      /\ exchange[r] \in [pc : {"idle", "posted", "success", "declined", "error", "read"},
                          auth : Headers, payer : Wallets \cup {NoWallet, Empty}]
  BY DEF BuyIInv, BuyTypeOK, PaymentTypeOK, SettleStep, GatewayStep, GatewayAnswers,
         GatewaySettles, GatewayDeclines, GatewayFails, buyVars
<1>2. /\ exchange'[r].pc # "idle" /\ exchange'[r].auth = exchange[r].auth
      /\ \A q \in Requests \ {r} : exchange'[q] = exchange[q]
  BY <1>1 DEF SettleStep, GatewayStep, GatewayAnswers, GatewaySettles, GatewayDeclines, GatewayFails
<1>3. SaleOrder' = SaleOrder
  <2>1. \A q \in Requests : SaleState(q)' = SaleState(q) /\ exchange'[q].auth = exchange[q].auth
    BY <1>1, <1>2 DEF SaleState
  <2> QED BY <2>1 DEF SaleOrder
<1>4. CASE GatewaySettles(r)
  <2>1. SaleOrder[r].state \in {"submitted", "lost"} /\ SaleOrder[r].auth = exchange[r].auth
    <3>1. handler[r].pc # "content"
      BY <1>1 DEF SaleOK, Paid
    <3> QED BY <1>1, <3>1 DEF SaleOrder, SaleState, Handlers, HandlerRunning, Finished
  <2>2. Sales!Charge(r)
    BY <1>3, <1>4, <2>1 DEF GatewaySettles, Sales!Charge
  <2> QED BY <2>2 DEF Sales!SaleNext
<1>5. CASE UNCHANGED ledger
  BY <1>3, <1>5
<1> QED
  BY <1>4, <1>5 DEF SettleStep, GatewayStep, GatewayAnswers, GatewayDeclines, GatewayFails

\* A restart loses the orders under way.
LEMMA RestartSells ==
  ASSUME BuyIInv, RestartServer
  PROVE  [Sales!SaleNext]_<<SaleOrder, ledger>>
<1> DEFINE O == {q \in Requests : handler[q].pc \in HandlerRunning}
           Lost(q) == [SaleOrder[q] EXCEPT !.state = IF @ = "open" THEN "closed" ELSE "lost"]
<1>1. \A q \in Requests : handler[q] \in Handlers
  BY DEF BuyIInv, BuyTypeOK
<1>2. UNCHANGED <<exchange, ledger>>
  BY DEF RestartServer, paymentVars
<1>3. ASSUME NEW q \in O
      PROVE  SaleOrder[q].state \in {"open", "submitted"} /\ SaleOrder'[q] = Lost(q)
  <2>1. handler'[q].pc = "gone"
    BY <1>1 DEF RestartServer, Handlers
  <2>2. /\ SaleState(q) = (IF exchange[q].pc = "idle" THEN "open" ELSE "submitted")
        /\ SaleState(q)' = (IF exchange[q].pc = "idle" THEN "closed" ELSE "lost")
    BY <1>2, <2>1 DEF SaleState, HandlerRunning, Finished
  <2> QED BY <1>2, <2>2 DEF SaleOrder
<1>4. \A q \in Requests \ O : SaleOrder'[q] = SaleOrder[q]
  BY <1>2 DEF RestartServer, SaleOrder, SaleState
<1>5. SaleOrder' = [q \in Requests |-> IF q \in O THEN Lost(q) ELSE SaleOrder[q]]
  <2>1. SaleOrder' = [q \in Requests |-> SaleOrder'[q]]
    BY DEF SaleOrder
  <2> HIDE DEF Lost, O
  <2> QED BY <1>3, <1>4, <2>1
<1>6. Sales!Lose(O)
  BY <1>2, <1>3, <1>5 DEF Sales!Lose
<1>7. O \in SUBSET Requests
  OBVIOUS
<1> QED BY <1>6, <1>7 DEF Sales!SaleNext

\* Every step of the buy route is a step of Sale, or none.
LEMMA BuyStepSells ==
  ASSUME BuyIInv, [BuyNext]_vars
  PROVE  [Sales!SaleNext]_<<SaleOrder, ledger>>
<1>1. /\ DOMAIN handler = Requests /\ DOMAIN exchange = Requests
      /\ \A r \in Requests : handler[r] \in Handlers /\ SaleOK(r)
  BY DEF BuyIInv, BuyTypeOK, PaymentTypeOK
<1>2. ASSUME NEW r \in Requests, NEW h \in HttpRequests, Arrive(r, h)
      PROVE  [Sales!SaleNext]_<<SaleOrder, ledger>>
  <2>1. /\ handler[r].pc = "idle" /\ exchange[r].pc = "idle"
        /\ handler'[r].pc \in {"pricing", "bad_request", "checking"}
        /\ \A q \in Requests \ {r} : handler'[q] = handler[q]
        /\ UNCHANGED <<exchange, ledger>>
    <3>1. handler[r].pc = "idle" /\ exchange[r].pc = "idle" /\ UNCHANGED <<exchange, ledger>>
      BY <1>1, <1>2 DEF Arrive, NoHandler, SaleOK, paymentVars
    <3> DEFINE owned == h.wallet # NoWallet /\ Parses(h.wallet) /\ Owns(<<h.wallet, ContentOf[h.item]>>)
               bought == BoughtBefore(h)
               hd(pc) == [pc |-> pc, http |-> h, price |-> 0, payer |-> NoWallet,
                          owned |-> owned, bought |-> bought]
    <3>2. PICK pc \in {"pricing", "bad_request", "checking"} :
             handler' = [handler EXCEPT ![r] = hd(pc)]
      BY <1>2 DEF Arrive, NoHandler
    <3> HIDE DEF owned, bought
    <3>3. \A q \in Requests \ {r} : handler'[q] = handler[q]
      BY <3>2
    <3>4. handler'[r].pc = pc
      BY <1>1, <3>2
    <3> QED BY <3>1, <3>3, <3>4
  <2>2. OrderMoves(r)
    BY <2>1 DEF OrderMoves, SaleState, Finished
  <2> QED BY <2>1, <2>2, OneOrderMoves
<1>3. ASSUME NEW r \in Requests, HandlerStep(r)
      PROVE  [Sales!SaleNext]_<<SaleOrder, ledger>>
  BY <1>3, HandlerSells, HandlerMovesAlone, OneOrderMoves
<1>4. ASSUME NEW r \in Requests, Disconnect(r)
      PROVE  [Sales!SaleNext]_<<SaleOrder, ledger>>
  <2>1. /\ handler[r].pc \in HandlerRunning /\ handler'[r].pc = "gone"
        /\ \A q \in Requests \ {r} : handler'[q] = handler[q]
        /\ UNCHANGED <<exchange, ledger>>
    BY <1>1, <1>4 DEF Disconnect, At, paymentVars, Handlers
  <2>2. OrderMoves(r)
    BY <2>1 DEF OrderMoves, SaleState, Finished, HandlerRunning
  <2> QED BY <2>1, <2>2, OneOrderMoves
<1>5. CASE UNCHANGED <<handler, exchange, ledger>>
  BY <1>5 DEF SaleOrder, SaleState
<1>6. ASSUME NEW r \in Requests, AccessStep(r)
      PROVE  UNCHANGED <<handler, exchange, ledger>>
  BY <1>6 DEF AccessStep, paymentVars, buyVars
<1>7. ChainStep \/ ClockStep \/ UNCHANGED vars => UNCHANGED <<handler, exchange, ledger>>
  BY DEF ChainStep, ClockStep, vars, paymentVars, buyVars
<1> QED BY <1>2, <1>3, <1>4, <1>5, <1>6, <1>7, GatewaySells, RestartSells DEF BuyNext

\* The buy route sells: an order is charged once at most, fulfilled only when it
\* has been, and never charged once it ended without Gateway.
THEOREM BuyIsASale == BuySpec => SellsContent
<1>1. BuyInit => Sales!SaleInit
  BY DEF BuyInit, PaymentInit, NoHandler, NoExchange, Sales!SaleInit, Sales!OpenOrder,
         SaleOrder, SaleState, Finished
<1>2. BuyIInv /\ [BuyNext]_vars => [Sales!SaleNext]_Sales!saleVars
  BY BuyStepSells DEF Sales!saleVars
<1> QED BY <1>1, <1>2, BuyInvariance, PTL DEF BuySpec, SellsContent, Sales!SaleSpec
=============================================================================

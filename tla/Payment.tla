------------------------------ MODULE Payment ------------------------------
(***************************************************************************)
(* handle_payment (arc-x402/src/server.rs): what the seller demands of a   *)
(* PAYMENT-SIGNATURE header, and the settle call to Circle Gateway.  The   *)
(* handlers that call it, BuyAccess and Streaming, compose this module.    *)
(*                                                                         *)
(* A header is one of                                                      *)
(*   NoHeader    absent, or not visible ASCII                              *)
(*   Malformed   not base64, not the JSON of a PaymentPayload, or with an  *)
(*               empty value or a nonce or signature of the wrong length   *)
(*   a payload   the fields the seller or Gateway looks at                 *)
(*                                                                         *)
(* Gateway itself is external: it settles an authorization nonce at most   *)
(* once, and may decline for reasons the server does not see (no funds, a  *)
(* bad signature).                                                         *)
(***************************************************************************)
EXTENDS Environment

CONSTANTS
    Payloads,     \* the payment payloads buyers have signed
    NoHeader,
    Malformed,
    Shaped,       \* the strings validate_address accepts
    LowerCase,    \* str::to_ascii_lowercase on Wallets
    PayTos,       \* what SELLER_ADDRESS may be set to
    Network,      \* ARC_TESTNET_CAIP2
    MinValid,     \* MIN_VALID_DURATION_SECS, in ticks
    NoWallet,     \* no string (None)
    Empty         \* the empty string

ASSUME PaymentAssumption ==
    /\ \A p \in Payloads :
          /\ {p.from, p.to} \subseteq Wallets
          /\ {p.value, p.validBefore} \subseteq Nat
    /\ {NoHeader, Malformed} \cap Payloads = {} /\ NoHeader # Malformed
    /\ Shaped \subseteq Wallets
    /\ LowerCase \in [Wallets -> Wallets]
    /\ \A v, w \in Wallets : LowerCase[v] = LowerCase[w] => (v \in Shaped <=> w \in Shaped)
    /\ PayTos \subseteq Wallets
    /\ MinValid \in Nat
    /\ {NoWallet, Empty} \cap Wallets = {}

VARIABLES
    exchange,     \* [Requests -> its POST to /v1/payments/settle]
    ledger,       \* what Gateway has settled: [req, auth] records
    payTo         \* SELLER_ADDRESS, the same at every start

paymentVars == <<exchange, ledger, payTo>>

Headers == Payloads \cup {NoHeader, Malformed}
NoExchange == [pc |-> "idle", auth |-> NoHeader, payer |-> NoWallet]

PaymentInit ==
    /\ exchange = [r \in Requests |-> NoExchange]
    /\ ledger = {}
    /\ payTo \in PayTos

\* build_requirements and its two siblings validate the address to pay to.
Buildable == payTo \in Shaped

\* validate_payment_signature
WellFormed(h) == h \in Payloads /\ {h.from, h.to} \subseteq Shaped

\* validate_payload_vs_requirements
Compatible(p, price) ==
    /\ p.value = price
    /\ LowerCase[p.to] = LowerCase[payTo]
    /\ p.network = Network
    /\ p.validBefore > now
    /\ p.validBefore >= now + MinValid

Acceptable(h, price) == WellFormed(h) /\ Compatible(h, price)

\* GatewayApiClient::settle sends the request.
PostSettle(r, p) ==
    exchange' = [exchange EXCEPT ![r] = [NoExchange EXCEPT !.pc = "posted", !.auth = p]]

\* Gateway names the payer as it likes to spell the address, if at all.
PayerNames(p) ==
    {w \in Wallets : AddrOf[w] = AddrOf[p.from]}
        \cup (IF "payer" \in Faults THEN {NoWallet, Empty} ELSE {})

\* Gateway receives the request, whether or not anybody still waits.
GatewaySettles(r) ==
    /\ exchange[r].pc = "posted"
    /\ \A s \in ledger : s.auth.nonce # exchange[r].auth.nonce
    /\ ledger' = ledger \cup {[req |-> r, auth |-> exchange[r].auth]}
    /\ \E w \in PayerNames(exchange[r].auth) :
          exchange' = [exchange EXCEPT ![r] = [@ EXCEPT !.pc = "success", !.payer = w]]
    /\ UNCHANGED payTo

GatewayDeclines(r) ==
    /\ exchange[r].pc = "posted"
    /\ exchange' = [exchange EXCEPT ![r].pc = "declined"]
    /\ UNCHANGED <<ledger, payTo>>

\* The request or its answer is lost: settle returns an error, and whether
\* the payment was settled the server does not know.
GatewayFails(r) ==
    /\ "gateway" \in Faults
    /\ exchange[r].pc \in {"posted", "success"}
    /\ exchange' = [exchange EXCEPT ![r].pc = "error"]
    /\ UNCHANGED <<ledger, payTo>>

\* The handler resumes with the answer.
Resume(r, answers) ==
    /\ exchange[r].pc \in answers
    /\ exchange' = [exchange EXCEPT ![r].pc = "read"]
    /\ UNCHANGED <<ledger, payTo>>

GatewayAnswers(r) == GatewaySettles(r) \/ GatewayDeclines(r)
GatewayStep(r) == GatewayAnswers(r) \/ GatewayFails(r)

SettledFor(r) == \E s \in ledger : s.req = r

PaymentTypeOK ==
    /\ exchange \in [Requests -> [pc : {"idle", "posted", "success", "declined", "error", "read"},
                                  auth : Headers,
                                  payer : Wallets \cup {NoWallet, Empty}]]
    /\ ledger \subseteq [req : Requests, auth : Payloads]
    /\ payTo \in PayTos
=============================================================================

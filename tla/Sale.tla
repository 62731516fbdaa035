-------------------------------- MODULE Sale --------------------------------
(***************************************************************************)
(* What every route that sells for x402 payments promises, without         *)
(* headers, prices, catalogue, books, chain or clock: an order is put to   *)
(* Gateway with one payment, once; it is fulfilled only after it has been  *)
(* charged; and once it is closed it never is charged.  An order that ends  *)
(* after Gateway was asked, and not by what Gateway is known to have said, *)
(* is lost: it may have been charged or may yet be.                        *)
(***************************************************************************)
CONSTANTS
    Orders,
    Payments,     \* authorizations, each with the nonce Gateway knows it by
    NoPayment

VARIABLES
    order,        \* [Orders -> how far it is, and its payment]
    charged       \* what Gateway has charged: [req, auth] records

saleVars == <<order, charged>>

OpenOrder == [state |-> "open", auth |-> NoPayment]
IsCharged(o) == \E c \in charged : c.req = o

SaleInit ==
    /\ order = [o \in Orders |-> OpenOrder]
    /\ charged = {}

Submit(o) ==
    /\ order[o].state = "open"
    /\ \E p \in Payments :
          order' = [order EXCEPT ![o] = [state |-> "submitted", auth |-> p]]
    /\ UNCHANGED charged

\* A lost order may be charged late; nothing else is.
Charge(o) ==
    /\ order[o].state \in {"submitted", "lost"}
    /\ \A c \in charged : c.auth.nonce # order[o].auth.nonce
    /\ charged' = charged \cup {[req |-> o, auth |-> order[o].auth]}
    /\ UNCHANGED order

Fulfil(o) ==
    /\ order[o].state = "submitted"
    /\ IsCharged(o)
    /\ order' = [order EXCEPT ![o].state = "fulfilled"]
    /\ UNCHANGED charged

\* Over, without a charge now or ever.
Close(o) ==
    /\ \/ order[o].state = "open"
       \/ order[o].state = "submitted" /\ ~IsCharged(o)
    /\ order' = [order EXCEPT ![o].state = "closed"]
    /\ UNCHANGED charged

\* Any set of orders under way ends without an answer.
Lose(O) ==
    /\ \A o \in O : order[o].state \in {"open", "submitted"}
    /\ order' = [o \in Orders |->
                    IF o \in O
                    THEN [order[o] EXCEPT !.state = IF @ = "open" THEN "closed" ELSE "lost"]
                    ELSE order[o]]
    /\ UNCHANGED charged

SaleNext ==
    \/ \E o \in Orders : Submit(o) \/ Charge(o) \/ Fulfil(o) \/ Close(o)
    \/ \E O \in SUBSET Orders : Lose(O)

SaleSpec == SaleInit /\ [][SaleNext]_saleVars
=============================================================================

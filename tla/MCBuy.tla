------------------------------- MODULE MCBuy -------------------------------
(***************************************************************************)
(* BuyAccess on small instances: one buyer who spells the wallet in two    *)
(* ways, a string that is no address, one item with a price of its own and *)
(* one without a row.                                                      *)
(***************************************************************************)
EXTENDS BuyAccess, TLC

CONSTANTS r1, r2, lower, checksummed, junk, seller, SELLER, alice, bob, i1, i2, c1, c2, arc, eth, n1, n2, n3

MCWallets == {lower, checksummed, junk, seller, SELLER}
MCAddresses == {alice, bob}
MCAddrOf == [w \in MCWallets |->
               CASE w \in {lower, checksummed} -> alice
                 [] w \in {seller, SELLER} -> bob
                 [] OTHER -> NoAddress]
MCShaped == {lower, checksummed, seller, SELLER}
MCLowerCase == [w \in MCWallets |->
                  CASE w \in {lower, checksummed} -> lower
                    [] w \in {seller, SELLER} -> seller
                    [] OTHER -> w]
MCContentOf == [i \in {i1, i2} |-> IF i = i1 THEN c1 ELSE c2]
MCItemPrice == [i \in {i1, i2} |-> IF i = i1 THEN 3 ELSE NoPrice]

Pay(from, to, value, network, validBefore, nonce) ==
    [from |-> from, to |-> to, value |-> value, network |-> network,
     validBefore |-> validBefore, nonce |-> nonce]

\* MinValid = 1: an authorization signed at tick t expires at t + 1.
Good1 == Pay(lower, SELLER, 3, arc, 2, n1)
Good2 == Pay(checksummed, seller, 3, arc, 2, n2)
AtDefault == Pay(lower, seller, 5, arc, 1, n3)
WrongPayee == Pay(lower, lower, 3, arc, 2, n1)
WrongChain == Pay(lower, seller, 3, eth, 2, n1)
Unshaped == Pay(junk, seller, 3, arc, 2, n1)

Get(w, i, h) == [wallet |-> w, item |-> i, header |-> h]

\* Two purchases of one item by one buyer.
BuyerPayloads == {Good1, Good2}
BuyerRequests == {Get(lower, i1, Good1), Get(checksummed, i1, Good2)}

\* A buyer, the same buyer naming somebody else's wallet, and one naming none
\* who pays the default price, which is asked of that item when a query fails.
FaultPayloads == {Good1, AtDefault}
FaultRequests == {Get(lower, i1, Good1), Get(seller, i2, AtDefault), Get(NoWallet, i1, AtDefault)}

\* Purchases of two items.
ItemsPayloads == {Good1, AtDefault}
ItemsRequests == {Get(lower, i1, Good1), Get(lower, i2, AtDefault)}

\* What a seller must not accept, beside what it must.
MixedPayloads == {Good1, AtDefault, WrongPayee, WrongChain, Unshaped}
MixedRequests == {Get(NoWallet, i1, h) : h \in {Good1, WrongPayee, WrongChain,
                                                Unshaped, Malformed, NoHeader}}
                 \cup {Get(lower, i2, AtDefault), Get(lower, i2, Good1),
                       Get(junk, i1, Good1), Get(lower, i1, Good1)}

MCGenesis == {<<alice, c1>>}
RequestSymmetry == Permutations(Requests)
=============================================================================

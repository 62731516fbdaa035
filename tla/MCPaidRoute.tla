---------------------------- MODULE MCPaidRoute ----------------------------
(***************************************************************************)
(* PaidRoute on small instances: two routes layered so that the middleware *)
(* sees its gate, one as examples/seller layers its routes, one free.  A   *)
(* cent is the atomic unit, a double has 10 bits.                          *)
(***************************************************************************)
EXTENDS PaidRoute

CONSTANTS lower, seller, alice, bob, arc, quote, dataset, task, open

MCWallets == {lower, seller}
MCAddresses == {alice, bob}
MCAddrOf == [w \in MCWallets |-> IF w = lower THEN alice ELSE bob]
MCLowerCase == [w \in MCWallets |-> w]

MCRoutes == {quote, dataset, task, open}
MCPriceText == [rt \in MCRoutes |-> IF rt = dataset THEN <<"$", "0", ".", "0", "2">>
                                                    ELSE <<"$", ".", "0", "1", "9">>]
MCWholes == {0, 1, 2}

\* What BuyerClient can sign.
MCPayloads == [from : {lower}, to : {seller}, value : {1, 2}, network : {arc},
               validBefore : MinValid..(MaxTime + MinValid), nonce : Requests]

\* examples/seller: .layer(Extension(gate)).layer(from_fn(payment_middleware)).
ExampleLayers == <<"gate", "payment">>
WorkingLayers == <<"payment", "gate">>
MixedLayers == [rt \in MCRoutes |->
                  CASE rt = task -> ExampleLayers [] rt = open -> <<>> [] OTHER -> WorkingLayers]
UsedLayers == [rt \in MCRoutes |-> WorkingLayers]

\* The instances make no more calls than their doubles have bits for.
ASSUME CallsAreFew == FewCalls(5, 2)

MCEndpoints == <<quote, dataset, task, dataset, open>>
=============================================================================

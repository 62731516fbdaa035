------------------------------ MODULE MCAccess ------------------------------
(***************************************************************************)
(* AccessManager on a small instance: one item, a buyer's wallet and a     *)
(* string that is no address, and the seller's account, which may or may   *)
(* not have deployed the contract.                                         *)
(***************************************************************************)
EXTENDS AccessManager, TLC

CONSTANTS r1, r2, lower, junk, alice, bob, c1

MCAddresses == {alice, bob}
MCAddrOf == [w \in Wallets |-> IF w = junk THEN NoAddress ELSE alice]
RequestSymmetry == Permutations(Requests)
=============================================================================

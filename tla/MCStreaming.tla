---------------------------- MODULE MCStreaming ----------------------------
(***************************************************************************)
(* StreamClient and Streaming on small instances: the command watches one  *)
(* of two items, whose prices differ, and other clients interfere.         *)
(***************************************************************************)
EXTENDS StreamClient, TLC

CONSTANTS r1, r2, r3, r4, r5, lower, seller, SELLER, unshaped, alice, bob, i1, i2, arc, n1

MCWallets == {lower, seller, SELLER, unshaped}
MCAddresses == {alice, bob}
MCAddrOf == [w \in MCWallets |->
               CASE w = lower -> alice [] w = unshaped -> NoAddress [] OTHER -> bob]
MCLowerCase == [w \in MCWallets |-> IF w = SELLER THEN seller ELSE w]
MCShaped == {lower, seller, SELLER}
MCItems == {i1, i2}
MCChunkPrice == [i \in MCItems |-> IF i = i1 THEN 2 ELSE NoPrice]

Pay(to, value, validBefore, nonce) ==
    [from |-> lower, to |-> to, value |-> value, network |-> arc,
     validBefore |-> validBefore, nonce |-> nonce]

\* What others send, and what cmd_stream can sign.
OthersPayloads == {Pay(SELLER, 1, 3, n1), Pay(SELLER, 2, 3, n1)}
MCPayloads ==
    OthersPayloads \cup
        {Pay(to, v, t, r) : to \in PayTos, v \in {1, 2}, t \in MinValid..(MaxTime + MinValid),
                            r \in Requests}
\* Others ask for chunks of the other item on the command's session: paying the
\* other item's price, which is the session's if get_item failed, or the
\* session's.
ChunksFor(v) == [session : {r1}, item : {i2}, header : {Pay(SELLER, v, 3, n1), NoHeader}]
FaultChunks == ChunksFor(1)
LiveChunks == ChunksFor(2)
ThreeOwn == <<r1, r2, r3>>
=============================================================================

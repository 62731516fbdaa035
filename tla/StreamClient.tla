---------------------------- MODULE StreamClient ----------------------------
(***************************************************************************)
(* cmd_stream (examples/buyer) against the streaming route: one session,   *)
(* then chunks in turn, each signed, sent and read before the next one     *)
(* (create_stream_session, sign_chunk, stream_chunk in client.rs).  Other  *)
(* clients open sessions and ask for chunks beside it, of its session too. *)
(***************************************************************************)
EXTENDS Streaming, Functions

CONSTANTS
    Buyer,         \* the address of the buyer's key
    Item,          \* --item-id
    OwnRequests,   \* the requests cmd_stream makes, one to open, one per chunk
    Opening,       \* items for which others ask sessions
    Chunks         \* what others ask for chunks

ASSUME StreamClientAssumption ==
    /\ Buyer \in Shaped
    /\ Item \in Items
    /\ Opening \subseteq Items
    /\ Chunks \subseteq ChunkAsks
    /\ OwnRequests \in Seq(Requests) /\ OwnRequests # <<>>
    /\ \A i, j \in DOMAIN OwnRequests : OwnRequests[i] = OwnRequests[j] => i = j

VARIABLE cmd     \* the locals of cmd_stream, and the header on its way

clientVars == <<now, paymentVars, streamVars, cmd>>

ClientInit ==
    /\ StreamInit
    /\ cmd = [pc |-> "start", i |-> 1, price |-> 0, total |-> 0, header |-> NoHeader]

\* The request of this round, and the session the first one opened.
Own == OwnRequests[cmd.i]
Session == OwnRequests[1]
IsOwn(r) == \E i \in DOMAIN OwnRequests : OwnRequests[i] = r

Fail == cmd' = [cmd EXCEPT !.pc = "failed"]

\* create_stream_session
OpenSession ==
    /\ cmd.pc = "start"
    /\ cmd' = [cmd EXCEPT !.pc = "opening"]
    /\ AskSession(Own, Item)

\* The answer names price and payee; build_chunk_requirements rejects a payee
\* that is no address.  A connection closed without an answer is an error.
SessionOpened ==
    /\ cmd.pc = "opening"
    /\ \/ /\ opener[Own].pc = "open"
          /\ IF Buildable THEN cmd' = [cmd EXCEPT !.pc = "next", !.price = opener[Own].price]
                          ELSE Fail
       \/ opener[Own].pc \in {"panic", "gone"} /\ Fail
    /\ UNCHANGED <<now, paymentVars, streamVars>>

\* build_payment_payload, with a fresh nonce.
Signed ==
    [from |-> Buyer, to |-> payTo, value |-> cmd.price, network |-> Network,
     validBefore |-> now + MinValid, nonce |-> OwnRequests[cmd.i + 1]]

\* The next chunk is signed and sent, or there is none left and the total is
\* printed.
SignChunk ==
    /\ cmd.pc = "next"
    /\ \/ /\ cmd.i < Len(OwnRequests)
          /\ cmd' = [cmd EXCEPT !.pc = "sent", !.i = @ + 1, !.header = Signed]
       \/ cmd.i = Len(OwnRequests) /\ cmd' = [cmd EXCEPT !.pc = "done"]
    /\ UNCHANGED <<now, paymentVars, streamVars>>

\* The request reaches chunk_handler.
ChunkArrives ==
    /\ cmd.pc = "sent"
    /\ cmd' = [cmd EXCEPT !.pc = "waiting"]
    /\ GetChunk(Own, [session |-> Session, item |-> Item, header |-> cmd.header])

\* Mutants: after an error the next chunk is tried; the answer is not awaited.
ReadChunkGoesOn ==
    /\ cmd.pc = "waiting"
    /\ \/ /\ chunk[Own].pc = "chunk"
          /\ cmd' = [cmd EXCEPT !.pc = "next", !.total = @ + cmd.price]
       \/ chunk[Own].pc \in ChunkFinished \ {"chunk"} /\ cmd' = [cmd EXCEPT !.pc = "next"]
    /\ UNCHANGED <<now, paymentVars, streamVars>>
ReadChunkOnly ==
    /\ cmd.pc = "waiting"
    /\ chunk[Own].pc = "chunk"
    /\ cmd' = [cmd EXCEPT !.pc = "next", !.total = @ + cmd.price]
    /\ UNCHANGED <<now, paymentVars, streamVars>>

\* Any answer but a success ends the command, whatever was charged for it.
ReadChunk ==
    /\ cmd.pc = "waiting"
    /\ \/ /\ chunk[Own].pc = "chunk"
          /\ cmd' = [cmd EXCEPT !.pc = "next", !.total = @ + cmd.price]
       \/ chunk[Own].pc \in ChunkFinished \ {"chunk"} /\ Fail
    /\ UNCHANGED <<now, paymentVars, streamVars>>

\* The connection breaks; the handler, if there is one, does not know it yet.
Break ==
    /\ "disconnect" \in Faults
    /\ cmd.pc \in {"opening", "sent", "waiting"}
    /\ Fail
    /\ UNCHANGED <<now, paymentVars, streamVars>>

CmdStep == OpenSession \/ SessionOpened \/ SignChunk \/ ChunkArrives \/ ReadChunk

\* The requests of other clients.
OthersNext ==
    \E r \in Requests :
        /\ ~IsOwn(r)
        /\ \/ \E i \in Opening : AskSession(r, i)
           \/ \E c \in Chunks : GetChunk(r, c)
        /\ UNCHANGED cmd

ClientNext == CmdStep \/ Break \/ OthersNext \/ (ServerNext /\ UNCHANGED cmd)

ClientSpec == ClientInit /\ [][ClientNext]_clientVars

\* The command runs on; so does the server (StreamFairness).
FairClientSpec == ClientSpec /\ StreamFairness /\ WF_clientVars(CmdStep)

----------------------------------------------------------------------------
\* Properties.

\* What Gateway has charged for the requests of the command.
ChargedToCmd ==
    SumFunctionOnSet([s \in ledger |-> s.auth.value], {s \in ledger : IsOwn(s.req)})

\* Whatever fails, the viewer has paid for the chunks he got and for at most one
\* more, at the price he was told: the total the command prints when it is done
\* is what it cost.
PaysOneAhead ==
    /\ cmd.total <= ChargedToCmd
    /\ ChargedToCmd <= cmd.total + (IF cmd.pc = "done" THEN 0 ELSE cmd.price)

\* The command comes to an end, also when its session is collected between two
\* chunks or its payments are declined, unless Gateway never answers the settle
\* call of one of its chunks, for which nobody has a timeout.
StreamEnds ==
    cmd.pc = "opening"
        ~> \/ cmd.pc \in {"done", "failed"}
           \/ \E r \in Requests : IsOwn(r) /\ [](exchange[r].pc = "posted")
=============================================================================

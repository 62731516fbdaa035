------------------------- MODULE StreamClient_proofs -------------------------
(***************************************************************************)
(* cmd_stream against the streaming route.  The command and the clients    *)
(* beside it only send requests the route allows for, so what is proved of *)
(* StreamSpec holds under ClientSpec; and what the command has spent       *)
(* follows from where it is: ClientInv counts the chunks it has read.      *)
(***************************************************************************)
EXTENDS StreamClient, Streaming_proofs, Sums_proofs

\* A header that is no payload is refused like any other that is not.
LEMMA ForeignHeader ==
  ASSUME NEW r, NEW c, NEW h, c.header \notin Headers,
         h = [c EXCEPT !.header = Malformed],
         h.session = c.session, h.item = c.item, h.header = Malformed,
         GetChunk(r, c)
  PROVE  GetChunk(r, h)
  BY PaymentAssumption
  DEF GetChunk, Headers, Acceptable, WellFormed, Demand, NextLabel, CountChunk

\* The locals of cmd_stream, of which only the count matters here: it stays
\* within the requests it makes.
Locals(pc, i, price, total, header) ==
    [pc |-> pc, i |-> i, price |-> price, total |-> total, header |-> header]
CmdOK ==
    \E i \in 1..Len(OwnRequests) :
        \E pc, price, total, header : cmd = Locals(pc, i, price, total, header)

\* It does at the start, and goes on to.
LEMMA CmdCounts ==
  /\ ClientInit => CmdOK
  /\ CmdOK /\ [ClientNext]_clientVars => CmdOK'
<1>1. OwnRequests \in Seq(Requests) /\ Len(OwnRequests) \in Nat \ {0}
  BY StreamClientAssumption
<1>2. ASSUME ClientInit PROVE CmdOK
  <2>1. cmd = Locals("start", 1, 0, 0, NoHeader)
    BY <1>2 DEF ClientInit, Locals
  <2>2. 1 \in 1..Len(OwnRequests)
    BY <1>1
  <2> QED BY <2>1, <2>2 DEF CmdOK
<1>3. ASSUME CmdOK, [ClientNext]_clientVars PROVE CmdOK'
  <2>1. PICK i \in 1..Len(OwnRequests) :
           \E pc, price, total, header : cmd = Locals(pc, i, price, total, header)
    BY <1>3 DEF CmdOK
  <2>2. PICK pc, price, total, header : cmd = Locals(pc, i, price, total, header)
    BY <2>1
  <2>3. ASSUME NEW q, NEW n, NEW p, NEW t, NEW h, n \in 1..Len(OwnRequests),
               cmd' = Locals(q, n, p, t, h)
        PROVE  CmdOK'
    BY <2>3 DEF CmdOK
  <2>4. CASE UNCHANGED cmd
    BY <2>2, <2>3, <2>4
  <2>5. CASE OpenSession
    <3>1. cmd' = Locals("opening", i, price, total, header)
      BY <2>2, <2>5 DEF OpenSession, Locals
    <3> QED BY <2>3, <3>1
  <2>6. CASE SessionOpened
    <3>1. \/ cmd' = Locals("next", i, opener[Own].price, total, header)
          \/ cmd' = Locals("failed", i, price, total, header)
      BY <2>2, <2>6 DEF SessionOpened, Fail, Locals
    <3> QED BY <2>3, <3>1
  <2>7. CASE SignChunk
    <3>1. cmd.i = i
      BY <2>2 DEF Locals
    <3>2. ASSUME i < Len(OwnRequests),
                 cmd' = [cmd EXCEPT !.pc = "sent", !.i = @ + 1, !.header = Signed]
          PROVE  CmdOK'
      <4>1. cmd' = Locals("sent", i + 1, price, total, Signed)
        BY <2>2, <3>2 DEF Locals
      <4>2. i + 1 \in 1..Len(OwnRequests)
        BY <1>1, <3>2
      <4> QED BY <2>3, <4>1, <4>2
    <3>3. ASSUME cmd' = [cmd EXCEPT !.pc = "done"] PROVE CmdOK'
      <4>1. cmd' = Locals("done", i, price, total, header)
        BY <2>2, <3>3 DEF Locals
      <4> QED BY <2>3, <4>1
    <3> QED BY <2>7, <3>1, <3>2, <3>3 DEF SignChunk
  <2>8. CASE ChunkArrives
    <3>1. cmd' = Locals("waiting", i, price, total, header)
      BY <2>2, <2>8 DEF ChunkArrives, Locals
    <3> QED BY <2>3, <3>1
  <2>9. CASE ReadChunk
    <3>1. \/ cmd' = Locals("next", i, price, total + price, header)
          \/ cmd' = Locals("failed", i, price, total, header)
      BY <2>2, <2>9 DEF ReadChunk, Fail, Locals
    <3> QED BY <2>3, <3>1
  <2>10. CASE Break
    <3>1. cmd' = Locals("failed", i, price, total, header)
      BY <2>2, <2>10 DEF Break, Fail, Locals
    <3> QED BY <2>3, <3>1
  <2> QED
    BY <1>3, <2>4, <2>5, <2>6, <2>7, <2>8, <2>9, <2>10
    DEF ClientNext, CmdStep, OthersNext, clientVars
<1> QED BY <1>2, <1>3

\* A chunk may be asked for with any header.
LEMMA AnyHeader ==
  ASSUME NEW r \in Requests, NEW s \in Requests, NEW i \in Items, NEW h,
         GetChunk(r, [session |-> s, item |-> i, header |-> h])
  PROVE  StreamNext
<1>1. CASE h \in Headers
  BY <1>1 DEF StreamNext, ChunkAsks
<1>2. CASE h \notin Headers
  <2> DEFINE c == [session |-> s, item |-> i, header |-> h]
             m == [session |-> s, item |-> i, header |-> Malformed]
  <2>1. /\ c.header \notin Headers /\ m = [c EXCEPT !.header = Malformed]
        /\ m.session = c.session /\ m.item = c.item /\ m.header = Malformed
    BY <1>2
  <2>2. GetChunk(r, m)
    BY <2>1, ForeignHeader
  <2>3. m \in ChunkAsks
    BY DEF ChunkAsks, Headers
  <2> QED BY <2>2, <2>3 DEF StreamNext
<1> QED BY <1>1, <1>2

\* A step of cmd_stream or of another client is a step of the route, or none.
LEMMA ClientStepIsStreamStep ==
  ASSUME CmdOK, [ClientNext]_clientVars
  PROVE  [StreamNext]_vars
<1>1. Own \in Requests /\ Session \in Requests /\ Item \in Items
  BY StreamClientAssumption DEF CmdOK, Locals, Own, Session
<1>2. CASE OpenSession
  BY <1>1, <1>2 DEF OpenSession, StreamNext
<1>3. CASE ChunkArrives
  BY <1>1, <1>3, AnyHeader DEF ChunkArrives
<1>4. CASE OthersNext
  BY <1>4, StreamClientAssumption DEF OthersNext, StreamNext
<1>5. CASE ServerNext
  BY <1>5 DEF StreamNext
<1>6. CASE SessionOpened \/ SignChunk \/ ReadChunk \/ Break \/ UNCHANGED clientVars
  BY <1>6 DEF SessionOpened, SignChunk, ReadChunk, Break, clientVars, vars
<1> QED BY <1>2, <1>3, <1>4, <1>5, <1>6 DEF ClientNext, CmdStep

\* cmd_stream and the clients beside it are clients like any others: whatever
\* is proved of StreamSpec holds of their runs.
THEOREM ClientsUseStreaming == ClientSpec => StreamSpec
<1>1. ClientInit => StreamInit
  BY DEF ClientInit
<1>2. ClientSpec => []CmdOK
  BY CmdCounts, PTL DEF ClientSpec
<1>3. CmdOK /\ [ClientNext]_clientVars => [StreamNext]_vars
  BY ClientStepIsStreamStep
<1> QED BY <1>1, <1>2, <1>3, PTL DEF ClientSpec, StreamSpec

----------------------------------------------------------------------------
\* What the command has spent.

\* The number of chunks the command has read.
Read == IF cmd.pc \in {"sent", "waiting"} \/ (cmd.pc = "failed" /\ cmd.i > 1)
        THEN cmd.i - 2 ELSE cmd.i - 1

\* The requests behind it; the others are still unused.
Asked(j) == j < cmd.i \/ (j = cmd.i /\ cmd.pc \notin {"start", "sent"})

\* Where the command is in its requests.
RoundOK ==
    /\ CmdOK /\ cmd.price \in Nat /\ cmd.total \in Nat
    /\ cmd.pc \in {"start", "opening"} => cmd.i = 1
    /\ cmd.pc \in {"sent", "waiting"} => cmd.i > 1
    /\ \A j \in DOMAIN OwnRequests : ~Asked(j) => Unused(OwnRequests[j])
    /\ chunk[Session].pc = "idle"

\* It knows the price of its session, and asks for chunks of that session.
PriceOK ==
    /\ cmd.i > 1 \/ cmd.pc = "next" =>
        /\ opener[Session].pc \in Opened
        /\ cmd.price = opener[Session].price
    /\ \A j \in DOMAIN OwnRequests :
          j > 1 => chunk[OwnRequests[j]].session \in {NoSession, Session}

\* It has counted the chunks it has read, and each of them was sent.
CountOK ==
    /\ cmd.total = Read * cmd.price
    /\ \A j \in 2..(Read + 1) : chunk[OwnRequests[j]].pc = "chunk"

ClientInv == RoundOK /\ PriceOK /\ CountOK

\* A session that was opened keeps its price, a chunk its session, and what was
\* sent was sent.
GoesOn ==
    /\ \A s \in Requests : opener[s].pc \in Opened =>
          opener'[s].pc \in Opened /\ opener'[s].price = opener[s].price
    /\ \A r \in Requests : chunk[r].pc # "idle" =>
          /\ chunk'[r].session = chunk[r].session
          /\ chunk[r].pc = "chunk" => chunk'[r].pc = "chunk"

\* Request r is not used.
Quiet(r) ==
    /\ Unused(r) => Unused(r)'
    /\ chunk[r].pc = "idle" => chunk'[r].pc = "idle"

\* Asking for a session uses one request and changes no chunk.
LEMMA AskGoesOn ==
  ASSUME StreamInv, NEW r \in Requests, NEW i \in Items, AskSession(r, i)
  PROVE  GoesOn /\ UNCHANGED chunk /\ \A q \in Requests \ {r} : Quiet(q)
<1>1. /\ opener \in [Requests -> Openers] /\ opener[r].pc = "idle" /\ UNCHANGED chunk
      /\ \A q \in Requests \ {r} : opener'[q] = opener[q]
  BY DEF StreamInv, StreamTypeOK, AskSession, Unused
<1> QED BY <1>1 DEF GoesOn, Opened, Quiet, Unused

\* Asking for a chunk uses one request, and the chunk is of the session asked for.
LEMMA GetGoesOn ==
  ASSUME StreamInv, NEW r \in Requests, NEW c, GetChunk(r, c)
  PROVE  /\ GoesOn /\ UNCHANGED opener /\ \A q \in Requests \ {r} : Quiet(q)
         /\ chunk'[r].session \in {NoSession, c.session}
<1>1. /\ chunk \in [Requests -> ChunkRuns] /\ chunk[r].pc = "idle" /\ UNCHANGED opener
      /\ \A q \in Requests \ {r} : chunk'[q] = chunk[q]
  BY DEF StreamInv, StreamTypeOK, GetChunk, Unused
<1>2. chunk'[r].session \in {NoSession, c.session}
  BY <1>1 DEF GetChunk, NoChunk
<1> QED BY <1>1, <1>2 DEF GoesOn, Quiet, Unused

\* The server uses no request, and an opened session keeps its price.
LEMMA ServerGoesOn ==
  ASSUME StreamInv, ServerNext
  PROVE  GoesOn /\ \A q \in Requests : Quiet(q)
<1>1. opener \in [Requests -> Openers] /\ chunk \in [Requests -> ChunkRuns]
  BY DEF StreamInv, StreamTypeOK
<1>2. ASSUME NEW r \in Requests, CreateSession(r) \/ LogSession(r)
      PROVE  GoesOn /\ \A q \in Requests : Quiet(q)
  <2>1. /\ UNCHANGED chunk /\ \A q \in Requests \ {r} : opener'[q] = opener[q]
        /\ opener[r].pc \in {"priced", "logging"} /\ opener'[r].pc # "idle"
        /\ opener[r].pc = "logging" => opener'[r].pc = "open" /\ opener'[r].price = opener[r].price
    BY <1>1, <1>2 DEF CreateSession, LogSession, Openers
  <2> QED BY <2>1 DEF GoesOn, Quiet, Unused, Opened
<1>3. ASSUME NEW r \in Requests,
             ChunkSettled(r) \/ ChunkNotSettled(r) \/ BookChunk(r) \/ DeliverChunk(r)
      PROVE  GoesOn /\ \A q \in Requests : Quiet(q)
  <2>1. /\ UNCHANGED opener /\ \A q \in Requests \ {r} : chunk'[q] = chunk[q]
        /\ chunk[r].pc \in ChunkRunning /\ chunk'[r].session = chunk[r].session
    BY <1>1, <1>3
    DEF ChunkSettled, ChunkNotSettled, BookChunk, DeliverChunk, ChunkRunning, ChunkRuns
  <2> QED BY <2>1 DEF GoesOn, Quiet, Unused, ChunkRunning
<1>4. ASSUME NEW r \in Requests, Disconnect(r)
      PROVE  GoesOn /\ \A q \in Requests : Quiet(q)
  <2>1. CASE opener[r].pc \in OpenerRunning /\ opener' = [opener EXCEPT ![r].pc = "gone"]
             /\ UNCHANGED chunk
    BY <1>1, <2>1 DEF GoesOn, Quiet, Unused, Opened, OpenerRunning, Openers
  <2>2. CASE chunk[r].pc \in ChunkRunning /\ chunk' = [chunk EXCEPT ![r].pc = "gone"]
             /\ UNCHANGED opener
    BY <1>1, <2>2 DEF GoesOn, Quiet, Unused, ChunkRunning, ChunkRuns
  <2> QED BY <1>4, <2>1, <2>2 DEF Disconnect
<1>5. ASSUME Restart PROVE GoesOn /\ \A q \in Requests : Quiet(q)
  <2>1. ASSUME NEW q \in Requests
        PROVE  /\ opener'[q].price = opener[q].price
               /\ opener'[q].pc = IF opener[q].pc \in OpenerRunning THEN "gone"
                                  ELSE opener[q].pc
               /\ chunk'[q].session = chunk[q].session
               /\ chunk'[q].pc = IF chunk[q].pc \in ChunkRunning THEN "gone" ELSE chunk[q].pc
    BY <1>1, <1>5 DEF Restart, Openers, ChunkRuns
  <2> QED BY <2>1 DEF GoesOn, Quiet, Unused, OpenerRunning, ChunkRunning, Opened
<1>6. ASSUME UNCHANGED <<opener, chunk>> PROVE GoesOn /\ \A q \in Requests : Quiet(q)
  BY <1>6 DEF GoesOn, Quiet, Unused
<1>7. ASSUME \/ \E r \in Requests : SettleStep(r)
             \/ Collect \/ ClockStep
      PROVE  UNCHANGED <<opener, chunk>>
  BY <1>7 DEF SettleStep, Collect, ClockStep, streamVars
<1> QED BY <1>2, <1>3, <1>4, <1>5, <1>6, <1>7 DEF ServerNext, HandlerStep

\* The locals after a step of the command.
Moves(pc, i, price, total) ==
    cmd'.pc = pc /\ cmd'.i = i /\ cmd'.price = price /\ cmd'.total = total

\* What each step of the command does to its locals.
LEMMA CmdMoves ==
  ASSUME CmdOK
  PROVE  /\ OpenSession => Moves("opening", cmd.i, cmd.price, cmd.total)
         /\ Fail => Moves("failed", cmd.i, cmd.price, cmd.total)
         /\ SessionOpened => \/ Fail
                             \/ /\ opener[Own].pc = "open"
                                /\ Moves("next", cmd.i, opener[Own].price, cmd.total)
         /\ SignChunk => \/ /\ cmd.i < Len(OwnRequests)
                            /\ Moves("sent", cmd.i + 1, cmd.price, cmd.total)
                         \/ Moves("done", cmd.i, cmd.price, cmd.total)
         /\ ChunkArrives => Moves("waiting", cmd.i, cmd.price, cmd.total)
         /\ ReadChunk => \/ Fail
                         \/ /\ chunk[Own].pc = "chunk"
                            /\ Moves("next", cmd.i, cmd.price, cmd.total + cmd.price)
<1>1. PICK i \in 1..Len(OwnRequests) :
         \E pc, price, total, header : cmd = Locals(pc, i, price, total, header)
  BY DEF CmdOK
<1>2. PICK pc, price, total, header : cmd = Locals(pc, i, price, total, header)
  BY <1>1
<1>3. cmd.i = i /\ cmd.price = price /\ cmd.total = total
  BY <1>2 DEF Locals
<1>4. ASSUME NEW q, NEW n, NEW p, NEW t, NEW h, cmd' = Locals(q, n, p, t, h)
      PROVE  Moves(q, n, p, t)
  BY <1>4 DEF Moves, Locals
<1>5. ASSUME OpenSession PROVE Moves("opening", i, price, total)
  <2>1. cmd' = Locals("opening", i, price, total, header)
    BY <1>2, <1>5 DEF OpenSession, Locals
  <2> QED BY <1>4, <2>1
<1>6. ASSUME Fail PROVE Moves("failed", i, price, total)
  <2>1. cmd' = Locals("failed", i, price, total, header)
    BY <1>2, <1>6 DEF Fail, Locals
  <2> QED BY <1>4, <2>1
<1>7. ASSUME SessionOpened, ~Fail
      PROVE  opener[Own].pc = "open" /\ Moves("next", i, opener[Own].price, total)
  <2>1. cmd' = Locals("next", i, opener[Own].price, total, header)
    BY <1>2, <1>7 DEF SessionOpened, Locals
  <2> QED BY <1>4, <1>7, <2>1 DEF SessionOpened
<1>8. ASSUME SignChunk
      PROVE  \/ i < Len(OwnRequests) /\ Moves("sent", i + 1, price, total)
             \/ Moves("done", i, price, total)
  <2>1. \/ i < Len(OwnRequests) /\ cmd' = Locals("sent", i + 1, price, total, Signed)
        \/ cmd' = Locals("done", i, price, total, header)
    BY <1>2, <1>3, <1>8 DEF SignChunk, Locals
  <2> QED BY <1>4, <2>1
<1>9. ASSUME ChunkArrives PROVE Moves("waiting", i, price, total)
  <2>1. cmd' = Locals("waiting", i, price, total, header)
    BY <1>2, <1>9 DEF ChunkArrives, Locals
  <2> QED BY <1>4, <2>1
<1>10. ASSUME ReadChunk, ~Fail
       PROVE  chunk[Own].pc = "chunk" /\ Moves("next", i, price, total + price)
  <2>1. cmd' = Locals("next", i, price, total + price, header)
    BY <1>2, <1>10 DEF ReadChunk, Locals
  <2> QED BY <1>4, <1>10, <2>1 DEF ReadChunk
<1> QED BY <1>3, <1>5, <1>6, <1>7, <1>8, <1>9, <1>10

\* The requests of the command are requests, each its own.
LEMMA OwnOnes ==
  ASSUME CmdOK
  PROVE  /\ Len(OwnRequests) \in Nat \ {0} /\ DOMAIN OwnRequests = 1..Len(OwnRequests)
         /\ cmd.i \in DOMAIN OwnRequests /\ 1 \in DOMAIN OwnRequests
         /\ \A j \in DOMAIN OwnRequests : OwnRequests[j] \in Requests
         /\ \A j, k \in DOMAIN OwnRequests : OwnRequests[j] = OwnRequests[k] => j = k
         /\ Session = OwnRequests[1] /\ Own = OwnRequests[cmd.i]
         /\ Session \in Requests /\ Own \in Requests
  BY StreamClientAssumption DEF CmdOK, Locals, Session, Own

\* A chunk of the command's session, or of none, goes on as one.
LEMMA SessionStays ==
  ASSUME StreamInv', NEW r \in Requests, GoesOn, Quiet(r), NEW s,
         chunk[r].session \in {NoSession, s}
  PROVE  chunk'[r].session \in {NoSession, s}
<1>1. CASE chunk[r].pc = "idle"
  <2>1. chunk'[r].pc = "idle"
    BY <1>1 DEF Quiet
  <2> QED BY <2>1 DEF StreamInv, ChunkOK
<1>2. CASE chunk[r].pc # "idle"
  BY <1>2 DEF GoesOn
<1> QED BY <1>1, <1>2

\* The invariant stays when the route goes on and no request of the command is
\* used.
LEMMA OthersStay ==
  ASSUME ClientInv, CmdOK', StreamInv, StreamInv', GoesOn, UNCHANGED cmd,
         \A j \in DOMAIN OwnRequests : Quiet(OwnRequests[j])
  PROVE  ClientInv'
<1>1. CmdOK
  BY DEF ClientInv, RoundOK
<1>2. UNCHANGED <<Read, Session>> /\ \A j : Asked(j)' = Asked(j)
  BY DEF Read, Session, Asked
<1>3. RoundOK'
  BY <1>1, <1>2, OwnOnes DEF ClientInv, RoundOK, Quiet
<1>4. ASSUME NEW j \in DOMAIN OwnRequests, j > 1
      PROVE  chunk'[OwnRequests[j]].session \in {NoSession, Session}
  <2>1. OwnRequests[j] \in Requests /\ chunk[OwnRequests[j]].session \in {NoSession, Session}
    BY <1>1, <1>4, OwnOnes DEF ClientInv, PriceOK
  <2> QED BY <2>1, SessionStays
<1>5. PriceOK'
  BY <1>1, <1>2, <1>4, OwnOnes DEF ClientInv, PriceOK, GoesOn
<1>6. \A j \in 2..(Read + 1) : chunk'[OwnRequests[j]].pc = "chunk"
  <2> SUFFICES ASSUME NEW j \in 2..(Read + 1) PROVE chunk'[OwnRequests[j]].pc = "chunk"
    OBVIOUS
  <2>1. j \in DOMAIN OwnRequests
    BY <1>1, OwnOnes DEF Read
  <2> QED BY <1>1, <2>1, OwnOnes DEF ClientInv, CountOK, GoesOn
<1> QED BY <1>2, <1>3, <1>5, <1>6 DEF ClientInv, CountOK

\* What holds at the start.
LEMMA ClientInitInv == StreamInv /\ ClientInit => ClientInv
<1> SUFFICES ASSUME StreamInv, ClientInit PROVE ClientInv
  OBVIOUS
<1>1. /\ CmdOK /\ cmd.pc = "start" /\ cmd.i = 1 /\ cmd.price = 0 /\ cmd.total = 0
      /\ chunk = [r \in Requests |-> NoChunk] /\ opener = [r \in Requests |-> NoOpener]
  BY CmdCounts DEF ClientInit, StreamInit
<1>2. RoundOK /\ PriceOK /\ CountOK
  BY <1>1, OwnOnes DEF RoundOK, PriceOK, CountOK, Asked, Read, Unused, NoChunk, NoOpener
<1> QED BY <1>2 DEF ClientInv

\* While the route does not move, only the locals do.
LEMMA CmdAloneStays ==
  ASSUME StreamInv, ClientInv, CmdOK', UNCHANGED <<now, paymentVars, streamVars>>,
         SessionOpened \/ SignChunk \/ ReadChunk \/ Break
  PROVE  ClientInv'
<1>1. /\ CmdOK /\ cmd.i \in Nat \ {0} /\ cmd.price \in Nat /\ cmd.total \in Nat
      /\ UNCHANGED <<opener, chunk, Session>> /\ \A r : Unused(r)' <=> Unused(r)
  BY OwnOnes DEF ClientInv, RoundOK, streamVars, Session, Unused
<1>2. ASSUME Fail, cmd.pc \in {"opening", "sent", "waiting"} PROVE ClientInv'
  <2>1. Moves("failed", cmd.i, cmd.price, cmd.total)
    BY <1>1, <1>2, CmdMoves
  <2>2. Read' = Read /\ \A j \in DOMAIN OwnRequests : Asked(j) => Asked(j)'
    BY <1>1, <1>2, <2>1 DEF Moves, Read, Asked, ClientInv, RoundOK
  <2>3. RoundOK'
    BY <1>1, <1>2, <2>1, <2>2 DEF Moves, ClientInv, RoundOK
  <2>4. PriceOK' /\ CountOK'
    BY <1>1, <1>2, <2>1, <2>2 DEF Moves, ClientInv, PriceOK, CountOK
  <2> QED BY <2>3, <2>4 DEF ClientInv
<1>3. ASSUME SessionOpened, ~Fail PROVE ClientInv'
  <2>1. /\ Moves("next", cmd.i, opener[Own].price, cmd.total)
        /\ opener[Own].pc = "open" /\ cmd.pc = "opening" /\ cmd.i = 1 /\ Own = Session
    BY <1>1, <1>3, CmdMoves, OwnOnes DEF SessionOpened, ClientInv, RoundOK
  <2>2. opener[Session].price \in Nat
    BY <1>1, OwnOnes DEF StreamInv, StreamTypeOK, Openers
  <2>3. Read = 0 /\ Read' = 0 /\ \A j \in DOMAIN OwnRequests : Asked(j) => Asked(j)'
    BY <1>1, <2>1 DEF Moves, Read, Asked
  <2>4. RoundOK'
    BY <1>1, <2>1, <2>2, <2>3 DEF Moves, ClientInv, RoundOK
  <2>5. PriceOK' /\ CountOK'
    BY <1>1, <2>1, <2>2, <2>3 DEF Moves, ClientInv, PriceOK, CountOK, Opened
  <2> QED BY <2>4, <2>5 DEF ClientInv
<1>4. ASSUME SignChunk PROVE ClientInv'
  <2>1. /\ cmd.pc = "next"
        /\ \/ Moves("sent", cmd.i + 1, cmd.price, cmd.total)
           \/ Moves("done", cmd.i, cmd.price, cmd.total)
    BY <1>1, <1>4, CmdMoves DEF SignChunk
  <2>2. Read' = Read /\ \A j \in DOMAIN OwnRequests : Asked(j) => Asked(j)'
    BY <1>1, <2>1, OwnOnes DEF Moves, Read, Asked
  <2>3. RoundOK'
    BY <1>1, <2>1, <2>2 DEF Moves, ClientInv, RoundOK
  <2>4. PriceOK' /\ CountOK'
    BY <1>1, <2>1, <2>2 DEF Moves, ClientInv, PriceOK, CountOK
  <2> QED BY <2>3, <2>4 DEF ClientInv
<1>5. ASSUME ReadChunk, ~Fail PROVE ClientInv'
  <2>1. /\ Moves("next", cmd.i, cmd.price, cmd.total + cmd.price)
        /\ cmd.pc = "waiting" /\ cmd.i > 1 /\ chunk[Own].pc = "chunk"
    BY <1>1, <1>5, CmdMoves DEF ReadChunk, ClientInv, RoundOK
  <2>2. /\ Read = cmd.i - 2 /\ Read' = cmd.i - 1 
        /\ \A j \in DOMAIN OwnRequests : Asked(j) => Asked(j)'
    BY <1>1, <2>1 DEF Moves, Read, Asked
  <2>3. RoundOK'
    BY <1>1, <2>1, <2>2 DEF Moves, ClientInv, RoundOK
  <2>4. cmd.total + cmd.price = Read' * cmd.price
    <3>1. cmd.total = (cmd.i - 2) * cmd.price
      BY <2>2 DEF ClientInv, CountOK
    <3>2. (cmd.i - 2) * cmd.price + cmd.price = (cmd.i - 1) * cmd.price
      BY <1>1
    <3> QED BY <2>2, <3>1, <3>2
  <2>5. \A j \in 2..(Read' + 1) : chunk[OwnRequests[j]].pc = "chunk"
    <3>1. \A j \in 2..(Read' + 1) : j = cmd.i \/ j \in 2..(Read + 1)
      BY <1>1, <2>2
    <3>2. chunk[OwnRequests[cmd.i]].pc = "chunk"
      BY <2>1 DEF Own
    <3> QED BY <3>1, <3>2 DEF ClientInv, CountOK
  <2>6. PriceOK' /\ CountOK'
    BY <1>1, <2>1, <2>4, <2>5 DEF Moves, ClientInv, PriceOK, CountOK
  <2> QED BY <2>3, <2>6 DEF ClientInv
<1> QED BY <1>2, <1>3, <1>4, <1>5 DEF SessionOpened, ReadChunk, Break

\* The command asks for its session, with the first of its requests.
LEMMA OpenSessionInv ==
  ASSUME StreamInv, StreamInv', ClientInv, CmdOK', OpenSession
  PROVE  ClientInv'
<1>1. /\ CmdOK /\ cmd.pc = "start" /\ cmd.i = 1 /\ Own = Session
      /\ Moves("opening", cmd.i, cmd.price, cmd.total)
  BY CmdMoves, OwnOnes DEF ClientInv, RoundOK, OpenSession
<1>2. GoesOn /\ UNCHANGED chunk /\ \A q \in Requests \ {Session} : Quiet(q)
  BY <1>1, AskGoesOn, OwnOnes, StreamClientAssumption DEF OpenSession
<1>3. Read = 0 /\ Read' = 0 /\ Session' = Session
  BY <1>1 DEF Moves, Read, Session
<1>4. \A j \in DOMAIN OwnRequests : ~Asked(j)' => ~Asked(j) /\ OwnRequests[j] # Session
  BY <1>1, OwnOnes DEF Moves, Asked
<1>5. RoundOK'
  BY <1>1, <1>2, <1>3, <1>4, OwnOnes DEF Moves, ClientInv, RoundOK, Quiet
<1>6. PriceOK' /\ CountOK'
  BY <1>1, <1>2, <1>3 DEF Moves, ClientInv, PriceOK, CountOK
<1> QED BY <1>5, <1>6 DEF ClientInv

\* A request of the command for a chunk arrives.
LEMMA ChunkArrivesInv ==
  ASSUME StreamInv, StreamInv', ClientInv, CmdOK', ChunkArrives
  PROVE  ClientInv'
<1>1. /\ CmdOK /\ cmd.pc = "sent" /\ cmd.i > 1 /\ Own # Session
      /\ Moves("waiting", cmd.i, cmd.price, cmd.total)
  BY CmdMoves, OwnOnes DEF ClientInv, RoundOK, ChunkArrives
<1>2. /\ GoesOn /\ UNCHANGED opener /\ \A q \in Requests \ {Own} : Quiet(q)
      /\ chunk'[Own].session \in {NoSession, Session}
  BY <1>1, GetGoesOn, OwnOnes DEF ChunkArrives
<1>3. Read' = Read /\ Session' = Session
  BY <1>1 DEF Moves, Read, Session
<1>4. \A j \in DOMAIN OwnRequests : ~Asked(j)' => ~Asked(j) /\ OwnRequests[j] # Own
  BY <1>1, OwnOnes DEF Moves, Asked
<1>5. RoundOK'
  BY <1>1, <1>2, <1>3, <1>4, OwnOnes DEF Moves, ClientInv, RoundOK, Quiet
<1>6. ASSUME NEW j \in DOMAIN OwnRequests, j > 1
      PROVE  chunk'[OwnRequests[j]].session \in {NoSession, Session}
  <2>1. OwnRequests[j] \in Requests /\ chunk[OwnRequests[j]].session \in {NoSession, Session}
    BY <1>1, <1>6, OwnOnes DEF ClientInv, PriceOK
  <2> QED BY <1>2, <2>1, SessionStays
<1>7. PriceOK'
  BY <1>1, <1>2, <1>3, <1>6 DEF Moves, ClientInv, PriceOK
<1>8. CountOK'
  <2>1. \A j \in 2..(Read + 1) : j \in DOMAIN OwnRequests
    BY <1>1, OwnOnes DEF Read
  <2> QED BY <1>1, <1>2, <1>3, <2>1, OwnOnes DEF Moves, ClientInv, CountOK, GoesOn
<1> QED BY <1>5, <1>7, <1>8 DEF ClientInv

\* Every step of the command and of everything beside it keeps it.
LEMMA ClientStepInv ==
  ASSUME StreamInv, StreamInv', ClientInv, CmdOK', [ClientNext]_clientVars
  PROVE  ClientInv'
<1>1. CASE OthersNext
  <2>1. PICK r \in Requests : /\ ~IsOwn(r) /\ UNCHANGED cmd
                              /\ \/ \E i \in Opening : AskSession(r, i)
                                 \/ \E c \in Chunks : GetChunk(r, c)
    BY <1>1 DEF OthersNext
  <2>2. GoesOn /\ \A q \in Requests \ {r} : Quiet(q)
    BY <2>1, AskGoesOn, GetGoesOn, StreamClientAssumption
  <2>3. \A j \in DOMAIN OwnRequests : Quiet(OwnRequests[j])
    BY <2>1, <2>2, OwnOnes DEF ClientInv, RoundOK, IsOwn
  <2> QED BY <2>1, <2>2, <2>3, OthersStay
<1>2. CASE ServerNext /\ UNCHANGED cmd
  BY <1>2, ServerGoesOn, OthersStay, OwnOnes DEF ClientInv, RoundOK
<1>3. CASE UNCHANGED clientVars
  <2>1. GoesOn /\ \A q : Quiet(q)
    BY <1>3 DEF clientVars, streamVars, GoesOn, Quiet, Unused
  <2> QED BY <1>3, <2>1, OthersStay DEF clientVars
<1>4. CASE SessionOpened \/ SignChunk \/ ReadChunk \/ Break
  BY <1>4, CmdAloneStays DEF SessionOpened, SignChunk, ReadChunk, Break
<1> QED
  BY <1>1, <1>2, <1>3, <1>4, OpenSessionInv, ChunkArrivesInv DEF ClientNext, CmdStep

\* What Gateway has entered for the command.
OwnEntries == {s \in ledger : IsOwn(s.req)}
Value == [s \in ledger |-> s.auth.value]

\* An entry for the command is the settlement of a chunk it asked for, at the
\* price of its session.
LEMMA OwnEntry ==
  ASSUME StreamInv, ClientInv, NEW s \in OwnEntries
  PROVE  \E k \in 2..cmd.i : /\ s = Settlement(OwnRequests[k])
                             /\ Value[s] = cmd.price
                             /\ Asked(k)
<1>1. PICK k \in DOMAIN OwnRequests : OwnRequests[k] = s.req
  BY DEF OwnEntries, IsOwn
<1> DEFINE r == OwnRequests[k]
<1>2. /\ r \in Requests /\ s \in ledger /\ s \in [req : Requests, auth : Payloads]
      /\ k \in 1..Len(OwnRequests) /\ cmd.i \in 1..Len(OwnRequests)
      /\ Len(OwnRequests) \in Nat
  BY <1>1, OwnOnes
  DEF OwnEntries, StreamInv, StreamTypeOK, PaymentTypeOK, ClientInv, RoundOK
<1>3. exchange[r].pc # "idle" /\ s.auth = exchange[r].auth
  BY <1>1, <1>2 DEF StreamInv, LedgerOK
<1>4. s = Settlement(r)
  BY <1>1, <1>2, <1>3 DEF Settlement
<1>5. /\ chunk[r].session # NoSession /\ chunk[r].pc # "idle"
      /\ s.auth.value = opener[chunk[r].session].price
  BY <1>2, <1>3 DEF StreamInv, ChunkOK
<1>6. Asked(k) /\ k # 1
  BY <1>1, <1>5, OwnOnes DEF ClientInv, RoundOK, Unused
<1>7. k \in 2..cmd.i
  BY <1>2, <1>6 DEF Asked
<1>8. s.auth.value = cmd.price
  <2>1. k > 1 /\ cmd.i > 1
    BY <1>2, <1>7
  <2>2. chunk[r].session = Session
    BY <1>5, <2>1 DEF ClientInv, PriceOK
  <2> QED BY <1>5, <2>1, <2>2 DEF ClientInv, PriceOK
<1> QED BY <1>2, <1>4, <1>6, <1>7, <1>8 DEF Value

\* So what it was charged for is what it has read, and at most the chunk it waits
\* for, or failed at.
LEMMA ClientInvPays == StreamInv /\ ClientInv => PaysOneAhead
<1> SUFFICES ASSUME StreamInv, ClientInv PROVE PaysOneAhead
  OBVIOUS
<1> DEFINE e == [j \in 1..Read |-> Settlement(OwnRequests[j + 1])]
           E == {e[j] : j \in 1..Read}
           x == Settlement(Own)
<1>1. /\ CmdOK /\ Read \in Nat /\ cmd.price \in Nat /\ cmd.total \in Nat
      /\ cmd.i \in Nat /\ Read \in {cmd.i - 1, cmd.i - 2}
      /\ \A j \in 1..Read : j + 1 \in DOMAIN OwnRequests /\ j + 1 < cmd.i + 1
  BY OwnOnes DEF ClientInv, RoundOK, Read
<1>2. \A j \in 1..Read : e[j] \in OwnEntries
  <2> SUFFICES ASSUME NEW j \in 1..Read PROVE Settlement(OwnRequests[j + 1]) \in OwnEntries
    OBVIOUS
  <2>1. OwnRequests[j + 1] \in Requests /\ j + 1 \in 2..(Read + 1)
    BY <1>1, OwnOnes
  <2>2. chunk[OwnRequests[j + 1]].pc = "chunk"
    BY <2>1 DEF ClientInv, CountOK
  <2>3. Settlement(OwnRequests[j + 1]) \in ledger
    BY <2>1, <2>2 DEF StreamInv, ChunkOK, Paid
  <2> QED BY <1>1, <2>3 DEF OwnEntries, Settlement, IsOwn
<1>3. \A s \in OwnEntries : Value[s] = cmd.price
  BY OwnEntry
<1>4. \A j, k \in 1..Read : e[j] = e[k] => j = k
  <2> SUFFICES ASSUME NEW j \in 1..Read, NEW k \in 1..Read,
                      Settlement(OwnRequests[j + 1]) = Settlement(OwnRequests[k + 1])
               PROVE  j = k
    OBVIOUS
  <2>1. OwnRequests[j + 1] = OwnRequests[k + 1]
    BY DEF Settlement
  <2>2. j + 1 = k + 1
    BY <1>1, <2>1, OwnOnes
  <2> QED BY <2>2
<1>5. IsFiniteSet(E) /\ SumFunctionOnSet(Value, E) = Read * cmd.price
  <2> HIDE DEF e
  <2>1. \A j \in 1..Read : Value[e[j]] = cmd.price
    BY <1>2, <1>3
  <2>2. Listed(E, Value, Read, e, cmd.price)
    BY <1>1, <1>4, <2>1 DEF Listed
  <2> QED BY <2>2, EqualSum
<1>6. \A s \in OwnEntries \ E : s = x /\ Read = cmd.i - 2
  <2> SUFFICES ASSUME NEW s \in OwnEntries, s \notin E PROVE s = x /\ Read = cmd.i - 2
    OBVIOUS
  <2>1. PICK k \in 2..cmd.i : s = Settlement(OwnRequests[k]) /\ Asked(k)
    BY OwnEntry
  <2>2. ASSUME k - 1 \in 1..Read PROVE FALSE
    <3>1. e[k - 1] = Settlement(OwnRequests[k])
      BY <1>1, <2>2
    <3> QED BY <2>1, <2>2, <3>1
  <2>3. k = cmd.i /\ Read = cmd.i - 2
    BY <1>1, <2>2
  <2> QED BY <2>1, <2>3, <1>1, OwnOnes
<1>7. E \subseteq OwnEntries
  BY <1>2
<1>8. ChargedToCmd = SumFunctionOnSet(Value, OwnEntries)
  BY DEF ChargedToCmd, Value, OwnEntries
<1>9. cmd.total = Read * cmd.price /\ (Read = cmd.i - 2 => cmd.pc # "done")
  BY <1>1 DEF ClientInv, CountOK, Read
<1> HIDE DEF e, E, x
<1>10. CASE OwnEntries = E
  <2>1. ChargedToCmd = cmd.total
    BY <1>5, <1>8, <1>9, <1>10, Zenon
  <2> QED BY <1>1, <2>1 DEF PaysOneAhead
<1>11. CASE OwnEntries # E
  <2>1. x \in OwnEntries /\ x \notin E /\ OwnEntries = E \cup {x} /\ cmd.pc # "done"
    BY <1>6, <1>7, <1>9, <1>11
  <2>2. \A y \in E \cup {x} : Value[y] \in Nat
    BY <1>1, <1>3, <2>1
  <2>3. SumFunctionOnSet(Value, E \cup {x}) = Value[x] + SumFunctionOnSet(Value, E)
    BY <1>5, <2>1, <2>2, SumAddsOne
  <2>4. Value[x] = cmd.price
    BY <1>3, <2>1
  <2>5. ChargedToCmd = Value[x] + SumFunctionOnSet(Value, E)
    BY <1>8, <2>1, <2>3, Zenon
  <2>6. ChargedToCmd = cmd.price + cmd.total
    BY <1>5, <1>9, <2>4, <2>5
  <2> QED BY <1>1, <2>1, <2>6 DEF PaysOneAhead
<1> QED BY <1>10, <1>11

\* Whatever fails, and whoever else asks for chunks of its session: the command
\* has paid for the chunks it has read and at most one more, each at the price it
\* was told, and when it is done the total it prints is what it cost.
THEOREM ViewerPaysOneAhead == ClientSpec => []PaysOneAhead
<1>1. ClientSpec => []CmdOK
  BY CmdCounts, PTL DEF ClientSpec
<1>2. ClientSpec => []StreamInv
  <2>1. CmdOK /\ [ClientNext]_clientVars => [StreamNext]_vars
    BY ClientStepIsStreamStep
  <2>2. StreamInv /\ [StreamNext]_vars => StreamInv'
    BY StreamStepInv
  <2>3. ClientInit => StreamInv
    BY StreamInitInv DEF ClientInit
  <2> QED BY <1>1, <2>1, <2>2, <2>3, PTL DEF ClientSpec
<1>3. ClientInit /\ StreamInv => ClientInv
  BY ClientInitInv
<1>4. StreamInv /\ StreamInv' /\ ClientInv /\ CmdOK' /\ [ClientNext]_clientVars => ClientInv'
  BY ClientStepInv
<1>5. StreamInv /\ ClientInv => PaysOneAhead
  BY ClientInvPays
<1> QED BY <1>1, <1>2, <1>3, <1>4, <1>5, PTL DEF ClientSpec
=============================================================================

-------------------------- MODULE Streaming_proofs --------------------------
(***************************************************************************)
(* What the streaming route guarantees for any number of sessions and      *)
(* chunk requests, any items and prices and any mix of failures: StreamInv *)
(* is inductive, and the safety properties and the refinement of Sale      *)
(* follow from it.                                                         *)
(***************************************************************************)
EXTENDS Streaming, TLAPS

\* The invariant ties three records to each other: a session to the request
\* that opened it, a chunk to its session and to its exchange with Gateway, and
\* the ledger and the payments table to the chunk they are about.

\* Where the run of create_session is once there is, or was, a session.
Opened == {"logging", "open", "gone"}

\* What Gateway would enter for r, and where chunk_handler has it paid and,
\* maybe, booked.
Settlement(r) == [req |-> r, auth |-> exchange[r].auth]
Paid == {"logging", "titling", "chunk"}
Booked == {"titling", "chunk", "gone"}

\* A session has an opener, which knows its price.
SessionOK(r) ==
    sessions[r] # NoSession =>
        /\ opener[r].pc \in Opened
        /\ sessions[r].price = opener[r].price

\* A chunk is at the price of its session, numbered within its counter, and
\* what Gateway was sent for it is that price.
ChunkOK(r) ==
    LET s == chunk[r].session IN
    /\ s = NoSession <=> chunk[r].pc \in {"idle", "not_found"}
    /\ s = NoSession => exchange[r].pc = "idle"
    /\ s # NoSession => /\ opener[s].pc \in Opened
                        /\ chunk[r].price = opener[s].price
                        /\ chunk[r].item \in Items
                        /\ sessions[s] # NoSession => chunk[r].label <= sessions[s].chunks
    /\ exchange[r].pc # "idle" => /\ exchange[r].auth \in Payloads
                                  /\ exchange[r].auth.value = chunk[r].price
    /\ exchange[r].pc = "success" \/ chunk[r].pc \in Paid => Settlement(r) \in ledger

\* The ledger knows of r what was posted for r.
LedgerOK(r) ==
    \A s \in ledger : s.req = r => exchange[r].pc # "idle" /\ s.auth = exchange[r].auth

\* Nothing is sold for an address that cannot be paid.
PayeeOK(r) ==
    payTo \notin Shaped => /\ sessions[r] = NoSession
                           /\ opener[r].pc \notin {"logging", "open"}
                           /\ chunk[r].pc \in {"idle", "not_found"}

\* A number is given out once.
NumbersOK ==
    \A r, q \in Requests :
        chunk[r].session # NoSession /\ chunk[q].session = chunk[r].session
            /\ chunk[q].label = chunk[r].label => r = q

\* A row of the payments table is a chunk that was paid for, entered once.
BooksOK ==
    /\ \A i \in DOMAIN payments :
          LET r == payments[i].gateway_ref IN
          /\ chunk[r].pc \in Booked
          /\ Settlement(r) \in ledger
          /\ payments[i].amount = chunk[r].price
          /\ payments[i].item = chunk[r].item
    /\ \A i, j \in DOMAIN payments :
          payments[i].gateway_ref = payments[j].gateway_ref => i = j

StreamInv ==
    /\ StreamTypeOK
    /\ \A r \in Requests : SessionOK(r) /\ ChunkOK(r) /\ LedgerOK(r) /\ PayeeOK(r)
    /\ NumbersOK
    /\ BooksOK

\* The initial state satisfies it.
LEMMA StreamInitInv == StreamInit => StreamInv
<1> SUFFICES ASSUME StreamInit PROVE StreamInv
  OBVIOUS
<1>1. StreamTypeOK
  BY PaymentAssumption
  DEF StreamInit, PaymentInit, StreamTypeOK, PaymentTypeOK, ClockTypeOK, NoExchange, Headers,
      NoOpener, NoChunk, Openers, ChunkRuns
<1>2. ASSUME NEW r \in Requests
      PROVE  SessionOK(r) /\ ChunkOK(r) /\ LedgerOK(r) /\ PayeeOK(r)
  BY DEF StreamInit, PaymentInit, NoExchange, NoOpener, NoChunk, SessionOK, ChunkOK, LedgerOK,
         PayeeOK, Paid
<1>3. NumbersOK /\ BooksOK
  BY DEF StreamInit, NoChunk, NumbersOK, BooksOK
<1> QED BY <1>1, <1>2, <1>3 DEF StreamInv

----------------------------------------------------------------------------
\* What the parts of the invariant depend on.

\* Sessions that were opened stay at their price, and count on or go.
SessionsGoOn ==
    \A s \in Requests : opener[s].pc \in Opened =>
        /\ opener'[s].pc \in Opened
        /\ opener'[s].price = opener[s].price
        /\ sessions'[s] # NoSession => /\ sessions[s] # NoSession
                                       /\ sessions[s].chunks <= sessions'[s].chunks

\* The chunk of r stays as it is, or its handler goes away.
Stays(r) ==
    /\ exchange'[r] = exchange[r]
    /\ \/ chunk'[r] = chunk[r]
       \/ chunk[r].pc \in ChunkRunning /\ chunk'[r] = [chunk[r] EXCEPT !.pc = "gone"]

\* The fields of a chunk.
LEMMA ChunkShape ==
  ASSUME StreamInv, NEW r \in Requests
  PROVE  /\ chunk[r] \in ChunkRuns
         /\ exchange[r] \in [pc : {"idle", "posted", "success", "declined", "error", "read"},
                             auth : Headers, payer : Wallets \cup {NoWallet, Empty}]
  BY DEF StreamInv, StreamTypeOK, PaymentTypeOK

\* A chunk that goes away keeps what it is about.
LEMMA StaysShape ==
  ASSUME StreamInv, NEW r \in Requests, Stays(r)
  PROVE  /\ chunk'[r] \in ChunkRuns
         /\ chunk'[r].session = chunk[r].session /\ chunk'[r].label = chunk[r].label
         /\ chunk'[r].item = chunk[r].item /\ chunk'[r].price = chunk[r].price
         /\ \/ chunk'[r].pc = chunk[r].pc
            \/ chunk[r].pc \in ChunkRunning /\ chunk'[r].pc = "gone"
<1> DEFINE gone == [chunk[r] EXCEPT !.pc = "gone"]
<1>1. chunk[r] \in ChunkRuns
  BY ChunkShape
<1>2. /\ gone \in ChunkRuns
      /\ gone.pc = "gone"
      /\ gone.session = chunk[r].session /\ gone.label = chunk[r].label
      /\ gone.item = chunk[r].item /\ gone.price = chunk[r].price
  BY <1>1 DEF ChunkRuns, ChunkFinished
<1> HIDE DEF gone
<1>3. \/ chunk'[r] = chunk[r]
      \/ chunk[r].pc \in ChunkRunning /\ chunk'[r] = gone
  BY DEF Stays, gone
<1> QED BY <1>1, <1>2, <1>3

\* Its part of the invariant stays while sessions go on and the ledger grows
\* by entries for others.
LEMMA StaysOK ==
  ASSUME StreamInv, NEW r \in Requests, Stays(r), SessionsGoOn,
         sessions' \in [Requests -> Sessions \cup {NoSession}],
         ledger \subseteq ledger', \A s \in ledger' : s.req = r => s \in ledger
  PROVE  ChunkOK(r)' /\ LedgerOK(r)'
<1>1. chunk[r] \in ChunkRuns /\ ChunkOK(r) /\ LedgerOK(r)
  BY ChunkShape DEF StreamInv
<1>2. Settlement(r)' = Settlement(r)
  BY DEF Stays, Settlement
<1> DEFINE s == chunk[r].session
<1>3. s = NoSession \/ s \in Requests
  BY <1>1 DEF ChunkRuns
<1>4. s # NoSession => /\ opener'[s].pc \in Opened
                       /\ chunk'[r].price = opener'[s].price
                       /\ chunk'[r].item \in Items
                       /\ sessions'[s] # NoSession => chunk'[r].label <= sessions'[s].chunks
  <2> SUFFICES ASSUME s # NoSession
               PROVE  /\ opener'[s].pc \in Opened
                      /\ chunk'[r].price = opener'[s].price
                      /\ chunk'[r].item \in Items
                      /\ sessions'[s] # NoSession => chunk'[r].label <= sessions'[s].chunks
    OBVIOUS
  <2>1. /\ opener[s].pc \in Opened /\ chunk[r].price = opener[s].price /\ chunk[r].item \in Items
        /\ sessions[s] # NoSession => chunk[r].label <= sessions[s].chunks
    BY <1>1 DEF ChunkOK
  <2>2. ASSUME sessions'[s] # NoSession PROVE chunk'[r].label <= sessions'[s].chunks
    <3>1. sessions[s] # NoSession /\ sessions[s].chunks <= sessions'[s].chunks
      BY <1>3, <2>1, <2>2 DEF SessionsGoOn
    <3>2. {sessions[s].chunks, sessions'[s].chunks, chunk[r].label} \subseteq Nat
      BY <1>1, <1>3, <2>2, <3>1 DEF StreamInv, StreamTypeOK, Sessions, ChunkRuns
    <3> QED BY <2>1, <3>1, <3>2, StaysShape
  <2> QED BY <1>3, <2>1, <2>2, StaysShape DEF SessionsGoOn
<1> QED
  BY <1>1, <1>2, <1>3, <1>4, StaysShape DEF ChunkOK, LedgerOK, Stays, ChunkRunning, Paid

\* Numbers stay distinct while nothing is numbered.
LEMMA NumbersStay ==
  ASSUME StreamInv,
         \A q \in Requests : chunk'[q].session = chunk[q].session /\ chunk'[q].label = chunk[q].label
  PROVE  NumbersOK'
  BY DEF StreamInv, NumbersOK

\* Rows are rows.
LEMMA RowsAreRows ==
  ASSUME StreamInv
  PROVE  \A i \in DOMAIN payments : payments[i] \in Rows
<1>1. payments \in Seq(Rows)
  BY DEF StreamInv, StreamTypeOK
<1> QED BY <1>1

\* The books stay true while nothing is booked and what is booked stays.
LEMMA BooksStay ==
  ASSUME StreamInv, UNCHANGED payments, ledger \subseteq ledger',
         \A q \in Requests : chunk[q].pc \in Booked =>
            /\ chunk'[q].pc \in Booked
            /\ chunk'[q].price = chunk[q].price /\ chunk'[q].item = chunk[q].item
            /\ Settlement(q) \in ledger => Settlement(q)' = Settlement(q)
  PROVE  BooksOK'
<1>1. \A i \in DOMAIN payments : payments[i].gateway_ref \in Requests
  BY RowsAreRows DEF Rows
<1>2. ASSUME NEW i \in DOMAIN payments
      PROVE  LET r == payments[i].gateway_ref IN
             /\ chunk'[r].pc \in Booked
             /\ Settlement(r)' \in ledger'
             /\ payments[i].amount = chunk'[r].price
             /\ payments[i].item = chunk'[r].item
  BY <1>1 DEF StreamInv, BooksOK
<1> QED BY <1>2 DEF StreamInv, BooksOK

\* No session moves without its opener.
LEMMA SessionsStay ==
  ASSUME StreamInv, UNCHANGED <<sessions, opener>>
  PROVE  SessionsGoOn /\ \A q \in Requests : SessionOK(q)'
<1>1. ASSUME NEW s \in Requests, sessions[s] # NoSession
      PROVE  sessions[s].chunks <= sessions[s].chunks
  BY <1>1 DEF StreamInv, StreamTypeOK, Sessions
<1> QED BY <1>1 DEF StreamInv, SessionsGoOn, SessionOK

----------------------------------------------------------------------------
\* create_session

\* A step of openers leaves the chunks, the ledger and the books alone.
LEMMA OpenersMove ==
  ASSUME StreamInv, UNCHANGED <<paymentVars, chunk, payments>>, SessionsGoOn,
         ClockTypeOK', sessions' \in [Requests -> Sessions \cup {NoSession}],
         opener' \in [Requests -> Openers], sessionLog' \subseteq Requests,
         \A q \in Requests : SessionOK(q)' /\ PayeeOK(q)'
  PROVE  StreamInv'
<1>1. \A q \in Requests : ChunkOK(q)' /\ LedgerOK(q)'
  BY StaysOK DEF Stays, paymentVars
<1>2. NumbersOK' /\ BooksOK'
  BY NumbersStay, BooksStay DEF Settlement, paymentVars
<1>3. StreamTypeOK'
  BY DEF StreamInv, StreamTypeOK, PaymentTypeOK, paymentVars
<1> QED BY <1>1, <1>2, <1>3 DEF StreamInv

\* The prices that may be read are prices.
LEMMA PricesAreNat ==
  ASSUME NEW i \in Items
  PROVE  Prices(i) \subseteq Nat
  BY StreamAssumption DEF Prices

\* A request for a session: nothing but a price is known.
LEMMA AskSessionInv ==
  ASSUME StreamInv, NEW r \in Requests, NEW i \in Items, AskSession(r, i)
  PROVE  StreamInv'
<1>1. PICK p \in Prices(i) :
         opener' = [opener EXCEPT ![r] = [NoOpener EXCEPT !.pc = "priced", !.price = p]]
  BY DEF AskSession
<1> DEFINE op == [NoOpener EXCEPT !.pc = "priced", !.price = p]
<1>2. op \in Openers /\ op.pc = "priced"
  BY PricesAreNat DEF Openers, OpenerRunning, NoOpener
<1>3. opener' = [opener EXCEPT ![r] = op]
  BY <1>1
<1> HIDE DEF op
<1>4. opener \in [Requests -> Openers] /\ opener[r].pc = "idle"
  BY DEF StreamInv, StreamTypeOK, AskSession, Unused
<1>5. /\ opener' \in [Requests -> Openers]
      /\ opener'[r] = op
      /\ \A q \in Requests \ {r} : opener'[q] = opener[q]
  BY <1>2, <1>3, <1>4
<1>6. sessions[r] = NoSession
  BY <1>4 DEF StreamInv, SessionOK, Opened
<1>7. \A q \in Requests : SessionOK(q)' /\ PayeeOK(q)'
  BY <1>2, <1>5, <1>6 DEF StreamInv, SessionOK, PayeeOK, AskSession, paymentVars
<1>8. SessionsGoOn
  BY <1>4, <1>5 DEF SessionsGoOn, Opened, AskSession, StreamInv, StreamTypeOK, Sessions
<1> QED
  BY <1>5, <1>7, <1>8, OpenersMove
  DEF AskSession, StreamInv, StreamTypeOK, ClockTypeOK

\* The session is stored at the price that was read, if there is an address to
\* pay to.
LEMMA CreateSessionInv ==
  ASSUME StreamInv, NEW r \in Requests, CreateSession(r)
  PROVE  StreamInv'
<1>1. /\ opener \in [Requests -> Openers] /\ opener[r] \in Openers
      /\ sessions \in [Requests -> Sessions \cup {NoSession}]
      /\ opener[r].pc = "priced" /\ now \in Nat
      /\ UNCHANGED <<now, paymentVars, chunk, payments, sessionLog>>
  BY DEF StreamInv, StreamTypeOK, ClockTypeOK, CreateSession
<1>2. CASE Buildable
  <2> DEFINE op == [opener[r] EXCEPT !.pc = "logging", !.at = now]
             se == [price |-> opener[r].price, chunks |-> 0, created |-> now]
  <2>1. /\ op \in Openers /\ op.pc = "logging" /\ op.price = opener[r].price
        /\ se \in Sessions /\ se.price = opener[r].price
    BY <1>1 DEF Openers, OpenerRunning, Sessions
  <2>2. sessions' = [sessions EXCEPT ![r] = se] /\ opener' = [opener EXCEPT ![r] = op]
    BY <1>2 DEF CreateSession
  <2> HIDE DEF op, se
  <2>3. se # NoSession
    BY <2>1, StreamAssumption DEF Sessions
  <2>4. /\ sessions' \in [Requests -> Sessions \cup {NoSession}]
        /\ opener' \in [Requests -> Openers]
        /\ sessions'[r] = se /\ opener'[r] = op
        /\ \A q \in Requests \ {r} : sessions'[q] = sessions[q] /\ opener'[q] = opener[q]
    BY <1>1, <2>1, <2>2
  <2>5. SessionsGoOn
    BY <1>1, <2>4 DEF SessionsGoOn, Opened, Sessions
  <2>6. \A q \in Requests : SessionOK(q)' /\ PayeeOK(q)'
    BY <1>1, <1>2, <2>1, <2>4 DEF StreamInv, SessionOK, PayeeOK, Opened, Buildable, paymentVars
  <2> QED
    BY <1>1, <2>4, <2>5, <2>6, OpenersMove DEF StreamInv, StreamTypeOK, ClockTypeOK
<1>3. CASE ~Buildable
  <2> DEFINE op == [opener[r] EXCEPT !.pc = "panic"]
  <2>1. op \in Openers /\ op.pc = "panic"
    BY <1>1 DEF Openers
  <2>2. opener' = [opener EXCEPT ![r] = op] /\ sessions' = sessions
    BY <1>3 DEF CreateSession
  <2> HIDE DEF op
  <2>3. /\ opener' \in [Requests -> Openers] /\ opener'[r] = op
        /\ \A q \in Requests \ {r} : opener'[q] = opener[q]
    BY <1>1, <2>1, <2>2
  <2>4. SessionsGoOn
    BY <1>1, <2>2, <2>3 DEF SessionsGoOn, Opened, Sessions
  <2>5. sessions[r] = NoSession
    BY <1>1 DEF StreamInv, SessionOK, Opened
  <2>6. \A q \in Requests : SessionOK(q)' /\ PayeeOK(q)'
    BY <1>1, <2>1, <2>2, <2>3, <2>5 DEF StreamInv, SessionOK, PayeeOK, paymentVars
  <2> QED
    BY <1>1, <2>2, <2>3, <2>4, <2>6, OpenersMove DEF StreamInv, StreamTypeOK, ClockTypeOK
<1> QED BY <1>2, <1>3

\* An opener that created its session goes on to pc, one that did not ends.
LEMMA OpenerGoesOn ==
  ASSUME StreamInv, NEW r \in Requests, NEW pc \in {"open", "gone"},
         opener' = [opener EXCEPT ![r].pc = pc],
         \/ opener[r].pc = "logging"
         \/ opener[r].pc = "priced" /\ pc = "gone",
         sessionLog' \subseteq Requests,
         UNCHANGED <<now, paymentVars, sessions, chunk, payments>>
  PROVE  StreamInv'
<1>1. opener \in [Requests -> Openers] /\ opener[r] \in Openers
  BY DEF StreamInv, StreamTypeOK
<1> DEFINE op == [opener[r] EXCEPT !.pc = pc]
<1>2. op \in Openers /\ op.pc = pc /\ op.price = opener[r].price
  BY <1>1 DEF Openers
<1>3. opener' = [opener EXCEPT ![r] = op]
  OBVIOUS
<1> HIDE DEF op
<1>4. /\ opener' \in [Requests -> Openers] /\ opener'[r] = op
      /\ \A q \in Requests \ {r} : opener'[q] = opener[q]
  BY <1>1, <1>2, <1>3
<1>5. SessionsGoOn
  BY <1>2, <1>4 DEF SessionsGoOn, Opened, StreamInv, StreamTypeOK, Sessions
<1>6. \A q \in Requests : SessionOK(q)' /\ PayeeOK(q)'
  BY <1>2, <1>4 DEF StreamInv, SessionOK, PayeeOK, Opened, paymentVars
<1> QED BY <1>4, <1>5, <1>6, OpenersMove DEF StreamInv, StreamTypeOK, ClockTypeOK

\* The log of sessions says nothing about money.
LEMMA LogSessionInv ==
  ASSUME StreamInv, NEW r \in Requests, LogSession(r)
  PROVE  StreamInv'
  BY OpenerGoesOn DEF LogSession, StreamInv, StreamTypeOK

----------------------------------------------------------------------------
\* chunk_handler

\* A step that moves one chunk, and no session but by its counter.
LEMMA OneChunkMoves ==
  ASSUME StreamInv, NEW r \in Requests,
         UNCHANGED <<now, ledger, payTo, opener, sessionLog>>,
         chunk' \in [Requests -> ChunkRuns], PaymentTypeOK', payments' \in Seq(Rows),
         sessions' \in [Requests -> Sessions \cup {NoSession}],
         \A q \in Requests \ {r} : chunk'[q] = chunk[q] /\ exchange'[q] = exchange[q],
         \A q \in Requests : sessions[q] = NoSession => sessions'[q] = NoSession,
         SessionsGoOn, \A q \in Requests : SessionOK(q)',
         ChunkOK(r)', LedgerOK(r)', payTo \notin Shaped => chunk'[r].pc \in {"idle", "not_found"},
         NumbersOK', BooksOK'
  PROVE  StreamInv'
<1>1. \A q \in Requests \ {r} : ChunkOK(q)' /\ LedgerOK(q)'
  BY StaysOK DEF Stays
<1>2. \A q \in Requests : PayeeOK(q)'
  BY DEF StreamInv, PayeeOK
<1> QED BY <1>1, <1>2 DEF StreamInv, StreamTypeOK, ClockTypeOK

\* A handler that is under way goes on to pc, or ends there; its exchange, if
\* it moves, is read.  What is left to show is what is booked.
LEMMA ChunkGoesOn ==
  ASSUME StreamInv, NEW r \in Requests, chunk[r].pc \in ChunkRunning,
         NEW pc \in ChunkRunning \cup {"rejected", "chunk", "gone"},
         NEW w \in Wallets \cup {NoWallet, Empty},
         chunk' = [chunk EXCEPT ![r] = [chunk[r] EXCEPT !.pc = pc, !.payer = w]],
         PaymentTypeOK', exchange'[r].auth = exchange[r].auth,
         \/ exchange'[r].pc = exchange[r].pc
         \/ exchange'[r].pc = "read" /\ exchange[r].pc # "idle",
         \A q \in Requests \ {r} : exchange'[q] = exchange[q],
         pc \in Paid => Settlement(r) \in ledger,
         UNCHANGED <<now, ledger, payTo, sessions, opener, sessionLog>>
  PROVE  /\ payments' \in Seq(Rows) /\ BooksOK' => StreamInv'
         /\ chunk'[r].pc = pc
         /\ chunk'[r].price = chunk[r].price /\ chunk'[r].item = chunk[r].item
         /\ \A q \in Requests \ {r} : chunk'[q] = chunk[q]
         /\ \A q \in Requests : Settlement(q)' = Settlement(q)
<1> DEFINE ch == [chunk[r] EXCEPT !.pc = pc, !.payer = w]
<1>1. /\ ch \in ChunkRuns /\ ch.pc = pc
      /\ ch.session = chunk[r].session /\ ch.label = chunk[r].label
      /\ ch.item = chunk[r].item /\ ch.price = chunk[r].price
  BY ChunkShape DEF ChunkRuns, ChunkFinished
<1>2. chunk' = [chunk EXCEPT ![r] = ch]
  OBVIOUS
<1> HIDE DEF ch
<1>3. /\ chunk' \in [Requests -> ChunkRuns] /\ chunk'[r] = ch
      /\ \A q \in Requests \ {r} : chunk'[q] = chunk[q]
  BY <1>1, <1>2 DEF StreamInv, StreamTypeOK
<1>4. \A q \in Requests : Settlement(q)' = Settlement(q)
  BY DEF Settlement
<1>5. ChunkOK(r) /\ LedgerOK(r) /\ PayeeOK(r)
  BY DEF StreamInv
<1>6. ChunkOK(r)'
  BY <1>1, <1>3, <1>4, <1>5 DEF ChunkOK, ChunkRunning
<1>7. LedgerOK(r)'
  BY <1>5 DEF LedgerOK
<1>8. NumbersOK'
  BY <1>1, <1>3, NumbersStay
<1>9. payTo \in Shaped
  BY <1>5 DEF PayeeOK, ChunkRunning
<1>10. ASSUME payments' \in Seq(Rows), BooksOK' PROVE StreamInv'
  BY <1>3, <1>6, <1>7, <1>8, <1>9, <1>10, SessionsStay, OneChunkMoves
  DEF StreamInv, StreamTypeOK
<1> QED BY <1>1, <1>3, <1>4, <1>10

\* Nothing is booked while a handler goes on that has nothing booked.
LEMMA ChunkGoesOnUnbooked ==
  ASSUME StreamInv, NEW r \in Requests, chunk[r].pc \in ChunkRunning,
         NEW pc \in ChunkRunning \cup {"rejected", "chunk", "gone"},
         chunk[r].pc \in Booked => pc \in Booked,
         NEW w \in Wallets \cup {NoWallet, Empty},
         chunk' = [chunk EXCEPT ![r] = [chunk[r] EXCEPT !.pc = pc, !.payer = w]],
         PaymentTypeOK', exchange'[r].auth = exchange[r].auth,
         \/ exchange'[r].pc = exchange[r].pc
         \/ exchange'[r].pc = "read" /\ exchange[r].pc # "idle",
         \A q \in Requests \ {r} : exchange'[q] = exchange[q],
         pc \in Paid => Settlement(r) \in ledger,
         UNCHANGED <<now, ledger, payTo, sessions, opener, sessionLog, payments>>
  PROVE  StreamInv'
<1>1. /\ payments' \in Seq(Rows) /\ BooksOK' => StreamInv'
      /\ chunk'[r].pc = pc
      /\ chunk'[r].price = chunk[r].price /\ chunk'[r].item = chunk[r].item
      /\ \A q \in Requests \ {r} : chunk'[q] = chunk[q]
      /\ \A q \in Requests : Settlement(q)' = Settlement(q)
  BY ChunkGoesOn
<1>2. BooksOK'
  BY <1>1, BooksStay
<1> QED BY <1>1, <1>2 DEF StreamInv, StreamTypeOK

\* Gateway's answer is read; only a success goes on.
LEMMA AnswerReadInv ==
  ASSUME StreamInv, NEW r \in Requests, ChunkSettled(r) \/ ChunkNotSettled(r)
  PROVE  StreamInv'
<1>1. /\ chunk[r] \in ChunkRuns /\ chunk[r].pc = "settling" /\ ChunkOK(r)
      /\ exchange[r] \in [pc : {"idle", "posted", "success", "declined", "error", "read"},
                          auth : Headers, payer : Wallets \cup {NoWallet, Empty}]
      /\ exchange[r].pc \in {"success", "declined", "error"}
      /\ UNCHANGED <<now, ledger, payTo, sessions, opener, sessionLog, payments>>
  BY ChunkShape DEF StreamInv, ChunkSettled, ChunkNotSettled, Resume
<1> DEFINE ex == [exchange[r] EXCEPT !.pc = "read"]
<1>2. /\ ex \in [pc : {"idle", "posted", "success", "declined", "error", "read"},
                 auth : Headers, payer : Wallets \cup {NoWallet, Empty}]
      /\ ex.pc = "read" /\ ex.auth = exchange[r].auth
  BY <1>1
<1>3. exchange' = [exchange EXCEPT ![r] = ex]
  BY DEF ChunkSettled, ChunkNotSettled, Resume
<1> HIDE DEF ex
<1>4. /\ exchange'[r] = ex /\ PaymentTypeOK'
      /\ \A q \in Requests \ {r} : exchange'[q] = exchange[q]
  BY <1>1, <1>2, <1>3 DEF StreamInv, StreamTypeOK, PaymentTypeOK
<1>5. CASE ChunkSettled(r)
  <2>1. Settlement(r) \in ledger
    BY <1>1, <1>5 DEF ChunkOK, ChunkSettled, Resume
  <2>2. chunk' = [chunk EXCEPT ![r] = [chunk[r] EXCEPT !.pc = "logging",
                                                       !.payer = exchange[r].payer]]
    BY <1>5 DEF ChunkSettled
  <2> QED BY <1>1, <1>2, <1>4, <2>1, <2>2, ChunkGoesOnUnbooked DEF ChunkRunning, Booked
<1>6. CASE ChunkNotSettled(r)
  <2>1. chunk' = [chunk EXCEPT ![r] = [chunk[r] EXCEPT !.pc = "rejected",
                                                       !.payer = chunk[r].payer]]
    BY <1>1, <1>6 DEF ChunkNotSettled, ChunkRuns
  <2>2. chunk[r].payer \in Wallets \cup {NoWallet, Empty}
    BY <1>1 DEF ChunkRuns
  <2>3. /\ "rejected" \notin Paid /\ chunk[r].pc \in ChunkRunning /\ chunk[r].pc \notin Booked
        /\ exchange'[r].pc = "read" /\ exchange[r].pc # "idle"
        /\ exchange'[r].auth = exchange[r].auth
    BY <1>1, <1>2, <1>4 DEF ChunkRunning, Booked, Paid
  <2> QED BY <1>1, <1>4, <2>1, <2>2, <2>3, ChunkGoesOnUnbooked
<1> QED BY <1>5, <1>6

\* A paid chunk is entered in the books, once, or it is not.
LEMMA BookChunkInv ==
  ASSUME StreamInv, NEW r \in Requests, BookChunk(r)
  PROVE  StreamInv'
<1>1. /\ chunk[r] \in ChunkRuns /\ chunk[r].pc = "logging" /\ ChunkOK(r)
      /\ chunk[r].payer \in Wallets \cup {NoWallet, Empty}
      /\ UNCHANGED <<now, paymentVars, sessions, opener, sessionLog>> /\ PaymentTypeOK'
  BY ChunkShape
  DEF StreamInv, StreamTypeOK, PaymentTypeOK, BookChunk, ChunkRuns, paymentVars
<1>2. chunk' = [chunk EXCEPT ![r] = [chunk[r] EXCEPT !.pc = "titling", !.payer = chunk[r].payer]]
  BY <1>1 DEF BookChunk, ChunkRuns
<1>3. /\ chunk[r].session # NoSession /\ chunk[r].item \in Items /\ chunk[r].price \in Nat
      /\ Settlement(r) \in ledger /\ chunk[r].pc \in ChunkRunning
      /\ exchange'[r] = exchange[r]
  BY <1>1 DEF ChunkOK, ChunkRuns, ChunkRunning, Paid, paymentVars
<1>4. /\ payments' \in Seq(Rows) /\ BooksOK' => StreamInv'
      /\ chunk'[r].pc = "titling"
      /\ chunk'[r].price = chunk[r].price /\ chunk'[r].item = chunk[r].item
      /\ \A q \in Requests \ {r} : chunk'[q] = chunk[q]
      /\ \A q \in Requests : Settlement(q)' = Settlement(q)
  BY <1>1, <1>2, <1>3, ChunkGoesOn DEF ChunkRunning, paymentVars
<1>5. payments \in Seq(Rows) /\ BooksOK
  BY DEF StreamInv, StreamTypeOK
<1>6. CASE UNCHANGED payments
  <2>1. BooksOK'
    BY <1>1, <1>4, <1>6, BooksStay DEF Booked, paymentVars
  <2> QED BY <1>4, <1>5, <1>6, <2>1
<1>7. CASE BookRow(r, chunk[r].price)
  <2> DEFINE row == [item |-> chunk[r].item, amount |-> chunk[r].price, gateway_ref |-> r]
  <2>1. /\ row \in Rows /\ row.gateway_ref = r
        /\ row.amount = chunk[r].price /\ row.item = chunk[r].item
    BY <1>3 DEF Rows
  <2>2. payments' = Append(payments, row)
    BY <1>7 DEF BookRow
  <2> HIDE DEF row
  <2>3. payments' \in Seq(Rows)
    BY <1>5, <2>1, <2>2
  <2>4. ASSUME NEW i \in DOMAIN payments'
        PROVE  \/ /\ i \in DOMAIN payments /\ payments'[i] = payments[i]
                  /\ payments[i].gateway_ref \in Requests \ {r}
               \/ i = Len(payments) + 1 /\ payments'[i] = row
    <3>1. \/ i \in DOMAIN payments /\ payments'[i] = payments[i]
          \/ i = Len(payments) + 1 /\ payments'[i] = row
      BY <1>5, <2>2
    <3>2. ASSUME i \in DOMAIN payments PROVE payments[i].gateway_ref \in Requests \ {r}
      BY <1>1, <1>5, <3>2, RowsAreRows DEF BooksOK, Booked, Rows
    <3> QED BY <3>1, <3>2
  <2>5. ASSUME NEW i \in DOMAIN payments', NEW q \in Requests, payments'[i].gateway_ref = q
        PROVE  /\ chunk'[q].pc \in Booked
               /\ Settlement(q)' \in ledger'
               /\ payments'[i].amount = chunk'[q].price
               /\ payments'[i].item = chunk'[q].item
    <3>1. CASE /\ i \in DOMAIN payments /\ payments'[i] = payments[i]
               /\ payments[i].gateway_ref \in Requests \ {r}
      BY <1>1, <1>4, <1>5, <2>5, <3>1 DEF BooksOK, paymentVars
    <3>2. CASE payments'[i] = row
      BY <1>1, <1>3, <1>4, <2>1, <2>5, <3>2 DEF Booked, paymentVars
    <3> QED BY <2>4, <3>1, <3>2
  <2>6. ASSUME NEW i \in DOMAIN payments', NEW j \in DOMAIN payments',
               payments'[i].gateway_ref = payments'[j].gateway_ref
        PROVE  i = j
    BY <1>5, <2>1, <2>4, <2>6 DEF BooksOK
  <2>7. BooksOK'
    <3>1. \A i \in DOMAIN payments' : payments'[i].gateway_ref \in Requests
      BY <2>1, <2>4
    <3> QED BY <2>5, <2>6, <3>1 DEF BooksOK
  <2> QED BY <1>4, <2>3, <2>7
<1> QED BY <1>6, <1>7 DEF BookChunk

\* The chunk is sent.
LEMMA DeliverChunkInv ==
  ASSUME StreamInv, NEW r \in Requests, DeliverChunk(r)
  PROVE  StreamInv'
<1>1. /\ chunk[r] \in ChunkRuns /\ chunk[r].pc = "titling" /\ ChunkOK(r)
      /\ chunk[r].payer \in Wallets \cup {NoWallet, Empty}
      /\ UNCHANGED <<now, paymentVars, sessions, opener, sessionLog, payments>>
      /\ PaymentTypeOK'
  BY ChunkShape
  DEF StreamInv, StreamTypeOK, PaymentTypeOK, DeliverChunk, ChunkRuns, paymentVars
<1>2. chunk' = [chunk EXCEPT ![r] = [chunk[r] EXCEPT !.pc = "chunk", !.payer = chunk[r].payer]]
  BY <1>1 DEF DeliverChunk, ChunkRuns
<1>3. /\ Settlement(r) \in ledger /\ chunk[r].pc \in ChunkRunning /\ "chunk" \in Booked
      /\ exchange' = exchange
  BY <1>1 DEF ChunkOK, ChunkRunning, Paid, Booked, paymentVars
<1> QED BY <1>1, <1>2, <1>3, ChunkGoesOnUnbooked DEF paymentVars

\* The client goes away.
LEMMA DisconnectInv ==
  ASSUME StreamInv, NEW r \in Requests, Disconnect(r)
  PROVE  StreamInv'
<1>1. CASE /\ opener[r].pc \in OpenerRunning
           /\ opener' = [opener EXCEPT ![r].pc = "gone"] /\ UNCHANGED chunk
  BY <1>1, OpenerGoesOn DEF Disconnect, OpenerRunning, StreamInv, StreamTypeOK
<1>2. CASE /\ chunk[r].pc \in ChunkRunning
           /\ chunk' = [chunk EXCEPT ![r].pc = "gone"] /\ UNCHANGED opener
  <2>1. chunk[r] \in ChunkRuns /\ chunk[r].payer \in Wallets \cup {NoWallet, Empty}
    BY ChunkShape DEF ChunkRuns
  <2>2. chunk' = [chunk EXCEPT ![r] = [chunk[r] EXCEPT !.pc = "gone", !.payer = chunk[r].payer]]
    BY <1>2, <2>1 DEF ChunkRuns
  <2>3. /\ "gone" \in Booked /\ "gone" \notin Paid
        /\ UNCHANGED <<now, exchange, ledger, payTo, sessions, opener, sessionLog, payments>>
        /\ PaymentTypeOK'
    BY <1>2 DEF Booked, Paid, Disconnect, StreamInv, StreamTypeOK, PaymentTypeOK, paymentVars
  <2> QED BY <1>2, <2>1, <2>2, <2>3, ChunkGoesOnUnbooked
<1> QED BY <1>1, <1>2 DEF Disconnect

\* A request for a chunk: it takes the next number and the session's price, and
\* posts only what is acceptable at that price.
LEMMA GetChunkInv ==
  ASSUME StreamInv, NEW r \in Requests, NEW c \in ChunkAsks, GetChunk(r, c)
  PROVE  StreamInv'
<1> DEFINE s == c.session
<1>1. /\ s \in Requests /\ c.item \in Items /\ s # NoSession
      /\ chunk[r].pc = "idle" /\ exchange[r].pc = "idle"
      /\ ChunkOK(r) /\ LedgerOK(r)
      /\ UNCHANGED <<now, ledger, payTo, opener, sessionLog, payments>>
      /\ chunk \in [Requests -> ChunkRuns] /\ sessions \in [Requests -> Sessions \cup {NoSession}]
      /\ PaymentTypeOK
  BY StreamAssumption DEF ChunkAsks, GetChunk, Unused, ChunkOK, StreamInv, StreamTypeOK
<1>2. CASE sessions[s] = NoSession
  <2> DEFINE ch == [NoChunk EXCEPT !.pc = "not_found"]
  <2>1. /\ ch \in ChunkRuns /\ ch.pc = "not_found" /\ ch.session = NoSession
    BY DEF ChunkRuns, ChunkFinished, NoChunk
  <2>2. chunk' = [chunk EXCEPT ![r] = ch] /\ UNCHANGED <<sessions, exchange>>
    BY <1>2 DEF GetChunk
  <2> HIDE DEF ch
  <2>3. /\ chunk' \in [Requests -> ChunkRuns] /\ chunk'[r] = ch
        /\ \A q \in Requests \ {r} : chunk'[q] = chunk[q]
    BY <1>1, <2>1, <2>2
  <2>4. ChunkOK(r)' /\ LedgerOK(r)'
    BY <1>1, <2>1, <2>2, <2>3 DEF ChunkOK, LedgerOK, Paid
  <2>5. NumbersOK'
    BY <2>1, <2>3 DEF StreamInv, NumbersOK
  <2>6. BooksOK'
    BY <1>1, <2>2, <2>3, BooksStay DEF Booked, Settlement
  <2> QED
    BY <1>1, <2>1, <2>2, <2>3, <2>4, <2>5, <2>6, SessionsStay, OneChunkMoves
    DEF StreamInv, StreamTypeOK, PaymentTypeOK
<1>3. CASE sessions[s] # NoSession
  <2> DEFINE se == [sessions[s] EXCEPT !.chunks = @ + 1]
             ch(pc) == [pc |-> pc, session |-> s, item |-> c.item, label |-> NextLabel(s),
                        price |-> Demand(c), payer |-> NoWallet]
             ex == [NoExchange EXCEPT !.pc = "posted", !.auth = c.header]
  <2>1. /\ sessions[s] \in Sessions /\ sessions[s].price = opener[s].price
        /\ opener[s].pc \in Opened /\ payTo \in Shaped
    BY <1>1, <1>3 DEF StreamInv, SessionOK, PayeeOK
  <2>2. /\ se \in Sessions /\ se # NoSession /\ se.price = sessions[s].price
        /\ se.chunks = sessions[s].chunks + 1 /\ sessions[s].chunks \in Nat
    <3>1. se \in Sessions /\ se.price = sessions[s].price /\ sessions[s].chunks \in Nat
          /\ se.chunks = sessions[s].chunks + 1
      BY <2>1 DEF Sessions
    <3>2. NoSession \notin Sessions
      BY StreamAssumption DEF Sessions
    <3> QED BY <3>1, <3>2
  <2>3. sessions' = [sessions EXCEPT ![s] = se]
    BY <1>3 DEF GetChunk, CountChunk
  <2>4. PICK pc \in {"challenge", "rejected", "settling"} :
           /\ chunk' = [chunk EXCEPT ![r] = ch(pc)]
           /\ \/ pc # "settling" /\ UNCHANGED exchange
              \/ /\ pc = "settling" /\ Acceptable(c.header, Demand(c))
                 /\ exchange' = [exchange EXCEPT ![r] = ex]
    BY <1>3 DEF GetChunk, PostSettle
  <2>5. /\ ch(pc) \in ChunkRuns /\ ch(pc).pc = pc /\ ch(pc).session = s
        /\ ch(pc).item = c.item /\ ch(pc).label = sessions[s].chunks + 1
        /\ ch(pc).price = sessions[s].price
    BY <1>1, <2>1, <2>2 DEF ChunkRuns, ChunkRunning, ChunkFinished, NextLabel, Demand, Sessions
  <2>6. /\ Acceptable(c.header, Demand(c))
              => c.header \in Payloads /\ c.header.value = sessions[s].price
        /\ ex.pc = "posted" /\ ex.auth = c.header /\ ex.payer = NoWallet
        /\ c.header \in Payloads =>
              ex \in [pc : {"idle", "posted", "success", "declined", "error", "read"},
                     auth : Headers, payer : Wallets \cup {NoWallet, Empty}]
    BY DEF Acceptable, WellFormed, Compatible, Demand, NoExchange, Headers
  <2> HIDE DEF se, ch, ex
  <2>7. /\ chunk' \in [Requests -> ChunkRuns] /\ chunk'[r] = ch(pc)
        /\ \A q \in Requests \ {r} : chunk'[q] = chunk[q]
        /\ sessions' \in [Requests -> Sessions \cup {NoSession}] /\ sessions'[s] = se
        /\ \A q \in Requests \ {s} : sessions'[q] = sessions[q]
    BY <1>1, <2>2, <2>3, <2>4, <2>5
  <2>8. /\ PaymentTypeOK' /\ \A q \in Requests \ {r} : exchange'[q] = exchange[q]
        /\ \/ pc # "settling" /\ exchange'[r] = exchange[r]
           \/ /\ pc = "settling" /\ exchange'[r].pc = "posted"
              /\ exchange'[r].auth \in Payloads /\ exchange'[r].auth.value = sessions[s].price
    BY <1>1, <2>4, <2>6 DEF PaymentTypeOK
  <2>9. SessionsGoOn /\ \A q \in Requests : SessionOK(q)'
    <3>1. SessionsGoOn
      BY <1>1, <1>3, <2>2, <2>7 DEF SessionsGoOn, Sessions
    <3> QED BY <1>1, <2>1, <2>2, <2>7, <3>1 DEF StreamInv, SessionOK
  <2>10. ChunkOK(r)'
    BY <1>1, <2>1, <2>2, <2>4, <2>5, <2>7, <2>8 DEF ChunkOK, Paid
  <2>11. LedgerOK(r)'
    BY <1>1 DEF LedgerOK
  <2>12. NumbersOK'
    <3>1. ASSUME NEW q \in Requests \ {r}, chunk[q].session = s
          PROVE  chunk[q].label # sessions[s].chunks + 1
      <4>1. chunk[q].label <= sessions[s].chunks /\ chunk[q].label \in Nat
        BY <1>1, <1>3, <3>1 DEF StreamInv, ChunkOK, ChunkRuns
      <4> QED BY <2>2, <4>1
    <3> QED BY <2>5, <2>7, <3>1 DEF StreamInv, NumbersOK
  <2>13. BooksOK'
    BY <1>1, <2>7, <2>8, BooksStay DEF Booked, Settlement
  <2> QED
    BY <1>1, <1>3, <2>1, <2>7, <2>8, <2>9, <2>10, <2>11, <2>12, <2>13, OneChunkMoves
    DEF StreamInv, StreamTypeOK
<1> QED BY <1>2, <1>3

----------------------------------------------------------------------------
\* Gateway, time, collection and restarts

\* Gateway settles what it was sent, declines it, or its answer is lost.
LEMMA SettleInv ==
  ASSUME StreamInv, NEW r \in Requests, SettleStep(r)
  PROVE  StreamInv'
<1>1. /\ exchange[r] \in [pc : {"idle", "posted", "success", "declined", "error", "read"},
                          auth : Headers, payer : Wallets \cup {NoWallet, Empty}]
      /\ exchange[r].pc \in {"posted", "success"} /\ exchange[r].auth \in Payloads
      /\ ChunkOK(r) /\ LedgerOK(r) /\ UNCHANGED <<now, streamVars, payTo>>
  BY DEF SettleStep, GatewayStep, GatewayAnswers, GatewaySettles, GatewayDeclines, GatewayFails,
         StreamInv, StreamTypeOK, PaymentTypeOK, ChunkOK
<1>2. PICK pc \in {"success", "declined", "error"}, w \in Wallets \cup {NoWallet, Empty} :
         /\ exchange' = [exchange EXCEPT ![r] = [exchange[r] EXCEPT !.pc = pc, !.payer = w]]
         /\ \/ pc # "success" /\ UNCHANGED ledger
            \/ pc = "success" /\ ledger' = ledger \cup {Settlement(r)}
  <2>1. CASE GatewaySettles(r)
    <3>1. PICK w \in PayerNames(exchange[r].auth) :
             exchange' = [exchange EXCEPT ![r] = [exchange[r] EXCEPT !.pc = "success", !.payer = w]]
      BY <2>1 DEF GatewaySettles
    <3>2. w \in Wallets \cup {NoWallet, Empty}
      BY DEF PayerNames
    <3> QED BY <2>1, <3>1, <3>2 DEF GatewaySettles, Settlement
  <2>2. CASE GatewayDeclines(r) \/ GatewayFails(r)
    <3>1. PICK pc \in {"declined", "error"} :
             exchange' = [exchange EXCEPT ![r] = [exchange[r] EXCEPT !.pc = pc]]
      BY <2>2 DEF GatewayDeclines, GatewayFails
    <3>2. [exchange[r] EXCEPT !.pc = pc]
             = [exchange[r] EXCEPT !.pc = pc, !.payer = exchange[r].payer]
      BY <1>1
    <3>3. exchange[r].payer \in Wallets \cup {NoWallet, Empty} /\ UNCHANGED ledger
      BY <1>1, <2>2 DEF GatewayDeclines, GatewayFails
    <3> QED BY <3>1, <3>2, <3>3
  <2> QED BY <2>1, <2>2 DEF SettleStep, GatewayStep, GatewayAnswers
<1> DEFINE ex == [exchange[r] EXCEPT !.pc = pc, !.payer = w]
<1>3. /\ ex \in [pc : {"idle", "posted", "success", "declined", "error", "read"},
                 auth : Headers, payer : Wallets \cup {NoWallet, Empty}]
      /\ ex.pc = pc /\ ex.auth = exchange[r].auth
  BY <1>1
<1>4. exchange' = [exchange EXCEPT ![r] = ex]
  BY <1>2
<1> HIDE DEF ex
<1>5. /\ exchange'[r] = ex
      /\ exchange' \in [Requests -> [pc : {"idle", "posted", "success", "declined", "error",
                                           "read"},
                                     auth : Headers, payer : Wallets \cup {NoWallet, Empty}]]
      /\ \A q \in Requests \ {r} : exchange'[q] = exchange[q]
  BY <1>3, <1>4 DEF StreamInv, StreamTypeOK, PaymentTypeOK
<1>6. /\ ledger \subseteq ledger' /\ ledger' \subseteq [req : Requests, auth : Payloads]
      /\ \A e \in ledger' : e \in ledger \/ e = Settlement(r)
      /\ Settlement(r).req = r /\ Settlement(r).auth = exchange[r].auth
  BY <1>1, <1>2 DEF StreamInv, StreamTypeOK, PaymentTypeOK, Settlement
<1>7. \A q \in Requests : Settlement(q)' = Settlement(q)
  BY <1>3, <1>5 DEF Settlement
<1>8. ChunkOK(r)'
  BY <1>1, <1>2, <1>3, <1>5, <1>6, <1>7 DEF ChunkOK, streamVars
<1>9. LedgerOK(r)'
  BY <1>1, <1>2, <1>3, <1>5, <1>6 DEF LedgerOK
<1>10. SessionsGoOn /\ (\A q \in Requests : SessionOK(q)')
       /\ sessions' \in [Requests -> Sessions \cup {NoSession}]
  BY <1>1, SessionsStay DEF streamVars, StreamInv, StreamTypeOK
<1>11. \A q \in Requests : ChunkOK(q)' /\ LedgerOK(q)'
  <2> SUFFICES ASSUME NEW q \in Requests \ {r} PROVE ChunkOK(q)' /\ LedgerOK(q)'
    BY <1>8, <1>9
  <2> QED BY <1>1, <1>5, <1>6, <1>10, StaysOK DEF Stays, streamVars
<1>12. \A q \in Requests : PayeeOK(q)'
  BY <1>1 DEF StreamInv, PayeeOK, streamVars
<1>13. NumbersOK' /\ BooksOK'
  BY <1>1, <1>6, <1>7, NumbersStay, BooksStay DEF streamVars
<1> QED
  BY <1>1, <1>5, <1>6, <1>10, <1>11, <1>12, <1>13
  DEF StreamInv, StreamTypeOK, PaymentTypeOK, ClockTypeOK, streamVars

\* A step after which sessions are as they were or gone, openers and handlers
\* as they were or gone: Collect, a tick, a restart.
LEMMA SomeGo ==
  ASSUME StreamInv, ClockTypeOK', UNCHANGED <<paymentVars, sessionLog, payments>>,
         sessions' \in [Requests -> Sessions \cup {NoSession}],
         opener' \in [Requests -> Openers], chunk' \in [Requests -> ChunkRuns],
         \A q \in Requests :
            /\ sessions'[q] \in {sessions[q], NoSession}
            /\ \/ opener'[q] = opener[q]
               \/ /\ opener[q].pc \in OpenerRunning /\ opener'[q].pc = "gone"
                  /\ opener'[q].price = opener[q].price
            /\ Stays(q)
  PROVE  StreamInv'
<1>1. SessionsGoOn
  BY DEF SessionsGoOn, StreamInv, StreamTypeOK, Sessions, Opened
<1>2. \A q \in Requests : ChunkOK(q)' /\ LedgerOK(q)'
  BY <1>1, StaysOK DEF paymentVars
<1>3. ASSUME NEW q \in Requests PROVE SessionOK(q)' /\ PayeeOK(q)'
  <2>1. SessionOK(q) /\ PayeeOK(q)
    BY DEF StreamInv
  <2>2. SessionOK(q)'
    BY <2>1 DEF SessionOK, Opened
  <2>3. chunk[q].pc \in {"idle", "not_found"} => chunk'[q].pc = chunk[q].pc
    BY StaysShape DEF ChunkRunning
  <2>4. PayeeOK(q)'
    BY <2>1, <2>3 DEF PayeeOK, paymentVars
  <2> QED BY <2>2, <2>4
<1>4. NumbersOK'
  BY StaysShape, NumbersStay
<1>5. \A q \in Requests : /\ chunk[q].pc \in Booked => chunk'[q].pc \in Booked
                         /\ Settlement(q)' = Settlement(q)
  BY StaysShape DEF Booked, Settlement, paymentVars
<1>6. BooksOK'
  BY <1>5, StaysShape, BooksStay DEF paymentVars
<1> QED
  BY <1>2, <1>3, <1>4, <1>6 DEF StreamInv, StreamTypeOK, PaymentTypeOK, paymentVars

\* Collection.
LEMMA CollectInv ==
  ASSUME StreamInv, Collect
  PROVE  StreamInv'
<1>1. /\ sessions' \in [Requests -> Sessions \cup {NoSession}]
      /\ \A q \in Requests : sessions'[q] \in {sessions[q], NoSession}
  BY DEF Collect, StreamInv, StreamTypeOK
<1> QED BY <1>1, SomeGo DEF Collect, Stays, StreamInv, StreamTypeOK, ClockTypeOK, paymentVars

\* Time.
LEMMA ClockInv ==
  ASSUME StreamInv, ClockStep
  PROVE  StreamInv'
<1>1. ClockTypeOK'
  BY DEF ClockStep, Tick, ClockSetBack, StreamInv, StreamTypeOK, ClockTypeOK
<1> QED BY <1>1, SomeGo DEF ClockStep, Stays, StreamInv, StreamTypeOK, paymentVars, streamVars

\* A restart ends every handler that is under way.
LEMMA RestartInv ==
  ASSUME StreamInv, Restart
  PROVE  StreamInv'
<1>1. /\ opener \in [Requests -> Openers] /\ chunk \in [Requests -> ChunkRuns]
      /\ UNCHANGED <<now, paymentVars, sessionLog, payments>>
  BY DEF StreamInv, StreamTypeOK, Restart
<1>2. ASSUME NEW q \in Requests
      PROVE  /\ opener'[q] \in Openers
             /\ \/ opener'[q] = opener[q]
                \/ /\ opener[q].pc \in OpenerRunning /\ opener'[q].pc = "gone"
                   /\ opener'[q].price = opener[q].price
  <2> DEFINE op == [opener[q] EXCEPT !.pc = "gone"]
  <2>1. op \in Openers /\ op.pc = "gone" /\ op.price = opener[q].price
    BY <1>1 DEF Openers
  <2>2. opener'[q] = IF opener[q].pc \in OpenerRunning THEN op ELSE opener[q]
    BY DEF Restart
  <2> HIDE DEF op
  <2> QED BY <1>1, <2>1, <2>2
<1>3. ASSUME NEW q \in Requests PROVE chunk'[q] \in ChunkRuns /\ Stays(q)
  <2>1. Stays(q)
    BY DEF Restart, Stays, paymentVars
  <2> QED BY <2>1, StaysShape
<1>4. /\ sessions' = [q \in Requests |-> NoSession]
      /\ opener' = [q \in Requests |-> opener'[q]] /\ chunk' = [q \in Requests |-> chunk'[q]]
  BY DEF Restart
<1>5. /\ sessions' \in [Requests -> Sessions \cup {NoSession}]
      /\ opener' \in [Requests -> Openers] /\ chunk' \in [Requests -> ChunkRuns]
      /\ \A q \in Requests : sessions'[q] = NoSession
  BY <1>2, <1>3, <1>4
<1> QED BY <1>1, <1>2, <1>3, <1>5, SomeGo DEF StreamInv, StreamTypeOK, ClockTypeOK

----------------------------------------------------------------------------
\* The theorems

\* StreamInv is inductive, with one lemma per action.
LEMMA StreamStepInv ==
  ASSUME StreamInv, [StreamNext]_vars
  PROVE  StreamInv'
<1>1. CASE UNCHANGED vars
  BY <1>1, SomeGo
  DEF vars, streamVars, Stays, paymentVars, StreamInv, StreamTypeOK, ClockTypeOK
<1>2. ASSUME NEW r \in Requests, HandlerStep(r) PROVE StreamInv'
  BY <1>2, CreateSessionInv, LogSessionInv, AnswerReadInv, BookChunkInv, DeliverChunkInv
  DEF HandlerStep
<1>3. CASE ServerNext
  BY <1>2, <1>3, SettleInv, DisconnectInv, CollectInv, ClockInv, RestartInv DEF ServerNext
<1> QED BY <1>1, <1>3, AskSessionInv, GetChunkInv DEF StreamNext

\* The invariant holds in every state, however sessions, chunk requests,
\* Gateway, collection and restarts interleave.
THEOREM StreamInvariance == StreamSpec => []StreamInv
<1> QED BY StreamInitInv, StreamStepInv, PTL DEF StreamSpec

\* Every state has the declared shape.
THEOREM StreamTypeCorrect == StreamSpec => []StreamTypeOK
<1>1. StreamInv => StreamTypeOK
  BY DEF StreamInv
<1> QED BY <1>1, StreamInvariance, PTL

\* No two chunks of a session are given the same number (next_chunk).
THEOREM NumbersTellApart == StreamSpec => []LabelsAreDistinct
<1>1. StreamInv => LabelsAreDistinct
  BY DEF StreamInv, NumbersOK, ChunkOK, LabelsAreDistinct
<1> QED BY <1>1, StreamInvariance, PTL

\* A chunk is charged at what create_session quoted for its session, and sent
\* only against a settlement of its own.
THEOREM QuoteIsThePrice == StreamSpec => []ChunksCostTheQuote
<1>1. StreamInv => ChunksCostTheQuote
  <2> SUFFICES ASSUME StreamInv PROVE ChunksCostTheQuote
    OBVIOUS
  <2>1. ASSUME NEW s \in ledger
        PROVE  /\ chunk[s.req].session # NoSession
               /\ s.auth.value = opener[chunk[s.req].session].price
    <3>1. s.req \in Requests
      BY DEF StreamInv, StreamTypeOK, PaymentTypeOK
    <3>2. LedgerOK(s.req) /\ ChunkOK(s.req)
      BY <3>1 DEF StreamInv
    <3> QED BY <3>2 DEF LedgerOK, ChunkOK
  <2>2. ASSUME NEW r \in Requests, chunk[r].pc = "chunk" PROVE SettledFor(r)
    <3>1. Settlement(r) \in ledger
      BY <2>2 DEF StreamInv, ChunkOK, Paid
    <3> QED BY <3>1 DEF SettledFor, Settlement
  <2> QED BY <2>1, <2>2 DEF ChunksCostTheQuote
<1> QED BY <1>1, StreamInvariance, PTL

\* The payments table holds settlements of chunks, each at most once, at their
\* amount and for their item.
THEOREM ChunkBooksAreTrue == StreamSpec => []ChunkBooksMatchLedger
<1>1. StreamInv => ChunkBooksMatchLedger
  <2> SUFFICES ASSUME StreamInv, NEW i \in DOMAIN payments
               PROVE  \E s \in ledger : /\ s.req = payments[i].gateway_ref
                                        /\ s.auth.value = payments[i].amount
                                        /\ chunk[s.req].item = payments[i].item
    BY DEF StreamInv, BooksOK, ChunkBooksMatchLedger
  <2> DEFINE r == payments[i].gateway_ref
  <2>1. /\ r \in Requests /\ Settlement(r) \in ledger
        /\ payments[i].amount = chunk[r].price /\ payments[i].item = chunk[r].item
    BY RowsAreRows DEF StreamInv, BooksOK, Rows
  <2>2. Settlement(r).req = r /\ Settlement(r).auth = exchange[r].auth
    BY DEF Settlement
  <2>3. ChunkOK(r) /\ LedgerOK(r)
    BY <2>1 DEF StreamInv
  <2>4. exchange[r].auth.value = chunk[r].price
    BY <2>1, <2>2, <2>3 DEF ChunkOK, LedgerOK
  <2> QED BY <2>1, <2>2, <2>4
<1> QED BY <1>1, StreamInvariance, PTL

----------------------------------------------------------------------------
\* What holds when less goes wrong.  Each theorem names the failures that must
\* not occur; any other may.

\* While Gateway has not been read the handler waits; once the chunk is charged
\* it is on its way to the books and the client.
ServedOK(r) ==
    /\ exchange[r].pc \notin {"idle", "read"} => chunk[r].pc = "settling"
    /\ exchange[r].pc = "success" => exchange[r].payer # NoWallet
    /\ SettledFor(r) =>
        \/ chunk[r].pc = "settling" /\ exchange[r].pc = "success"
        \/ chunk[r].pc = "logging" /\ chunk[r].payer # NoWallet
        \/ /\ chunk[r].pc \in {"titling", "chunk"}
           /\ \E i \in DOMAIN payments : payments[i].gateway_ref = r

\* It stays while nothing about r changes.
LEMMA ServedStays ==
  ASSUME NEW r \in Requests, ServedOK(r), exchange'[r] = exchange[r], chunk'[r] = chunk[r],
         SettledFor(r)' => SettledFor(r), UNCHANGED payments
  PROVE  ServedOK(r)'
  BY DEF ServedOK

\* Asking for a chunk charges nothing yet.
LEMMA GetChunkServed ==
  ASSUME StreamInv, \A q \in Requests : ServedOK(q),
         NEW r \in Requests, NEW c \in ChunkAsks, GetChunk(r, c)
  PROVE  \A q \in Requests : ServedOK(q)'
<1>1. /\ exchange[r].pc = "idle" /\ ~SettledFor(r) /\ UNCHANGED <<ledger, payments>>
      /\ chunk \in [Requests -> ChunkRuns]
      /\ exchange \in [Requests -> [pc : {"idle", "posted", "success", "declined", "error",
                                          "read"},
                                    auth : Headers, payer : Wallets \cup {NoWallet, Empty}]]
  <2>1. ChunkOK(r) /\ LedgerOK(r) /\ chunk[r].pc = "idle"
    BY DEF StreamInv, GetChunk, Unused
  <2> QED
    BY <2>1 DEF ChunkOK, LedgerOK, SettledFor, GetChunk, StreamInv, StreamTypeOK, PaymentTypeOK
<1>2. \A q \in Requests \ {r} : chunk'[q] = chunk[q] /\ exchange'[q] = exchange[q]
  BY <1>1 DEF GetChunk, PostSettle
<1>3. \A q \in Requests : SettledFor(q)' = SettledFor(q)
  BY <1>1 DEF SettledFor
<1>4. \/ UNCHANGED exchange
      \/ exchange'[r].pc = "posted" /\ chunk'[r].pc = "settling"
  <2> DEFINE ch == [pc |-> "settling", session |-> c.session, item |-> c.item,
                    label |-> NextLabel(c.session), price |-> Demand(c), payer |-> NoWallet]
             ex == [NoExchange EXCEPT !.pc = "posted", !.auth = c.header]
  <2>1. ch.pc = "settling" /\ ex.pc = "posted"
    BY DEF NoExchange
  <2>2. \/ UNCHANGED exchange
        \/ exchange' = [exchange EXCEPT ![r] = ex] /\ chunk' = [chunk EXCEPT ![r] = ch]
    BY DEF GetChunk, PostSettle
  <2> HIDE DEF ch, ex
  <2> QED BY <1>1, <2>1, <2>2
<1>5. ServedOK(r)'
  BY <1>1, <1>3, <1>4 DEF ServedOK
<1> QED BY <1>1, <1>2, <1>3, <1>5, ServedStays

\* A handler that was charged goes on with the payer Gateway named, enters the
\* payment and sends the chunk.
LEMMA HandlerServed ==
  ASSUME Faults \subseteq {"rpc", "clock"}, StreamInv, \A q \in Requests : ServedOK(q),
         NEW r \in Requests,
         ChunkSettled(r) \/ ChunkNotSettled(r) \/ BookChunk(r) \/ DeliverChunk(r)
  PROVE  \A q \in Requests : ServedOK(q)'
<1>1. /\ chunk \in [Requests -> ChunkRuns] /\ chunk[r] \in ChunkRuns /\ ServedOK(r)
      /\ exchange \in [Requests -> [pc : {"idle", "posted", "success", "declined", "error",
                                          "read"},
                                    auth : Headers, payer : Wallets \cup {NoWallet, Empty}]]
      /\ payments \in Seq(Rows)
  BY DEF StreamInv, StreamTypeOK, PaymentTypeOK
<1>2. UNCHANGED ledger
  BY DEF ChunkSettled, ChunkNotSettled, BookChunk, DeliverChunk, Resume, paymentVars
<1>3. \A q \in Requests : SettledFor(q)' = SettledFor(q)
  BY <1>2 DEF SettledFor
<1>4. \A q \in Requests \ {r} : chunk'[q] = chunk[q] /\ exchange'[q] = exchange[q]
  BY <1>1 DEF ChunkSettled, ChunkNotSettled, BookChunk, DeliverChunk, Resume, paymentVars
<1>5. CASE ChunkSettled(r)
  <2>1. /\ exchange[r].pc = "success" /\ exchange'[r].pc = "read"
        /\ chunk'[r].pc = "logging" /\ chunk'[r].payer = exchange[r].payer
        /\ UNCHANGED payments
    BY <1>1, <1>5 DEF ChunkSettled, Resume, ChunkRuns
  <2>2. ServedOK(r)'
    BY <1>1, <2>1 DEF ServedOK
  <2> QED BY <1>3, <1>4, <2>1, <2>2, ServedStays
<1>6. CASE ChunkNotSettled(r)
  <2>1. /\ exchange[r].pc \in {"declined", "error"} /\ exchange'[r].pc = "read"
        /\ chunk[r].pc = "settling" /\ UNCHANGED payments
    BY <1>1, <1>6 DEF ChunkNotSettled, Resume
  <2>2. ServedOK(r)'
    BY <1>1, <1>3, <2>1 DEF ServedOK
  <2> QED BY <1>3, <1>4, <2>1, <2>2, ServedStays
<1>7. CASE BookChunk(r)
  <2>1. /\ chunk[r].pc = "logging" /\ chunk'[r].pc = "titling" /\ UNCHANGED exchange
        /\ BookRow(r, chunk[r].price) \/ (chunk[r].payer = NoWallet /\ UNCHANGED payments)
    BY <1>1, <1>7 DEF BookChunk, paymentVars
  <2>2. CASE BookRow(r, chunk[r].price)
    <3> DEFINE row == [item |-> chunk[r].item, amount |-> chunk[r].price, gateway_ref |-> r]
    <3>1. payments' = Append(payments, row) /\ row.gateway_ref = r
      BY <2>2 DEF BookRow
    <3> HIDE DEF row
    <3>2. /\ Len(payments) + 1 \in DOMAIN payments'
          /\ payments'[Len(payments) + 1].gateway_ref = r
          /\ \A i \in DOMAIN payments : i \in DOMAIN payments' /\ payments'[i] = payments[i]
      BY <1>1, <3>1
    <3>3. ServedOK(r)'
      BY <1>1, <2>1, <3>2 DEF ServedOK
    <3>4. ASSUME NEW q \in Requests \ {r} PROVE ServedOK(q)'
      BY <1>3, <1>4, <3>2 DEF ServedOK
    <3> QED BY <3>3, <3>4
  <2>3. CASE chunk[r].payer = NoWallet /\ UNCHANGED payments
    <3>1. ServedOK(r)'
      BY <1>1, <1>3, <2>1, <2>3 DEF ServedOK
    <3> QED BY <1>3, <1>4, <2>3, <3>1, ServedStays
  <2> QED BY <2>1, <2>2, <2>3
<1>8. CASE DeliverChunk(r)
  <2>1. /\ chunk[r].pc = "titling" /\ chunk'[r].pc = "chunk" /\ UNCHANGED <<exchange, payments>>
    BY <1>1, <1>8 DEF DeliverChunk, paymentVars
  <2>2. ServedOK(r)'
    BY <1>1, <1>3, <2>1 DEF ServedOK
  <2> QED BY <1>3, <1>4, <2>1, <2>2, ServedStays
<1> QED BY <1>5, <1>6, <1>7, <1>8

\* Gateway answers, naming the payer.
LEMMA SettleServed ==
  ASSUME Faults \subseteq {"rpc", "clock"}, StreamInv, \A q \in Requests : ServedOK(q),
         NEW r \in Requests, SettleStep(r)
  PROVE  \A q \in Requests : ServedOK(q)'
<1>1. /\ exchange \in [Requests -> [pc : {"idle", "posted", "success", "declined", "error",
                                          "read"},
                                    auth : Headers, payer : Wallets \cup {NoWallet, Empty}]]
      /\ UNCHANGED <<chunk, payments>> /\ ServedOK(r) /\ exchange[r].pc = "posted"
  BY DEF StreamInv, StreamTypeOK, PaymentTypeOK, SettleStep, GatewayStep, GatewayAnswers,
         GatewaySettles, GatewayDeclines, GatewayFails, streamVars
<1>2. \A q \in Requests \ {r} : exchange'[q] = exchange[q]
  BY <1>1 DEF SettleStep, GatewayStep, GatewayAnswers, GatewaySettles, GatewayDeclines,
              GatewayFails
<1>3. \A q \in Requests \ {r} : SettledFor(q)' => SettledFor(q)
  <2>1. \/ ledger' = ledger
        \/ ledger' = ledger \cup {[req |-> r, auth |-> exchange[r].auth]}
    BY DEF SettleStep, GatewayStep, GatewayAnswers, GatewaySettles, GatewayDeclines, GatewayFails
  <2>2. \A s \in ledger' : s \in ledger \/ s.req = r
    BY <2>1
  <2> QED BY <2>2 DEF SettledFor
<1>4. ServedOK(r)'
  <2>1. CASE GatewaySettles(r)
    <3>1. PICK w \in PayerNames(exchange[r].auth) :
             exchange' = [exchange EXCEPT ![r] = [@ EXCEPT !.pc = "success", !.payer = w]]
      BY <2>1 DEF GatewaySettles
    <3>2. w # NoWallet
      BY PaymentAssumption DEF PayerNames
    <3>3. exchange'[r].pc = "success" /\ exchange'[r].payer = w
      BY <1>1, <3>1
    <3> QED BY <1>1, <3>2, <3>3 DEF ServedOK
  <2>2. CASE GatewayDeclines(r)
    <3>1. exchange'[r].pc = "declined" /\ ledger' = ledger
      BY <1>1, <2>2 DEF GatewayDeclines
    <3>2. ~SettledFor(r)'
      BY <1>1, <3>1 DEF ServedOK, SettledFor
    <3> QED BY <1>1, <3>1, <3>2 DEF ServedOK
  <2> QED BY <2>1, <2>2 DEF SettleStep, GatewayStep, GatewayAnswers, GatewayFails
<1> QED BY <1>1, <1>2, <1>3, <1>4, ServedStays

\* Every step keeps charged chunks served, if only the node or the clock may fail.
LEMMA ServedStep ==
  ASSUME Faults \subseteq {"rpc", "clock"}, StreamInv, \A q \in Requests : ServedOK(q),
         [StreamNext]_vars
  PROVE  \A q \in Requests : ServedOK(q)'
<1>1. ASSUME UNCHANGED <<exchange, ledger, chunk, payments>>
      PROVE  \A q \in Requests : ServedOK(q)'
  BY <1>1, ServedStays DEF SettledFor
<1>2. CASE UNCHANGED vars
  BY <1>1, <1>2 DEF vars, paymentVars, streamVars
<1>3. ASSUME NEW r \in Requests, NEW i \in Items, AskSession(r, i)
      PROVE  \A q \in Requests : ServedOK(q)'
  BY <1>1, <1>3 DEF AskSession, paymentVars
<1>4. ASSUME NEW r \in Requests, HandlerStep(r)
      PROVE  \A q \in Requests : ServedOK(q)'
  BY <1>1, <1>4, HandlerServed DEF HandlerStep, CreateSession, LogSession, paymentVars
<1>5. CASE Collect
  BY <1>1, <1>5 DEF Collect, paymentVars
<1>6. CASE ClockStep
  BY <1>1, <1>6 DEF ClockStep, paymentVars, streamVars
<1>7. ~Restart /\ \A r \in Requests : ~Disconnect(r)
  BY DEF Restart, Disconnect
<1>8. CASE ServerNext
  BY <1>4, <1>5, <1>6, <1>7, <1>8, SettleServed DEF ServerNext
<1> QED BY <1>2, <1>3, <1>8, GetChunkServed DEF StreamNext

\* If Gateway and the database answer, payers are named, nobody goes away and
\* the server stays up, a chunk that is charged is entered and sent: a session
\* that is collected, or a clock that is set back, never stands in the way.
THEOREM ChargedChunkIsSent ==
  ASSUME Faults \subseteq {"rpc", "clock"}
  PROVE  StreamSpec => []ChargedChunkIsServed
<1> DEFINE Inv == StreamInv /\ \A q \in Requests : ServedOK(q)
<1>1. StreamInit => Inv
  BY StreamInitInv DEF StreamInit, PaymentInit, ServedOK, SettledFor, NoExchange
<1>2. Inv /\ [StreamNext]_vars => Inv'
  BY StreamStepInv, ServedStep
<1>3. Inv => ChargedChunkIsServed
  BY DEF ServedOK, ChargedChunkIsServed, ChunkFinished
<1> QED BY <1>1, <1>2, <1>3, PTL DEF StreamSpec

\* A session knows when it was opened; if it is gone, it was old enough.
AgeOK(r) ==
    opener[r].pc \in {"logging", "open"} =>
        /\ opener[r].at <= now
        /\ IF sessions[r] = NoSession THEN now >= opener[r].at + MaxAge
                                      ELSE sessions[r].created = opener[r].at

\* Every step keeps the ages, as long as nothing restarts and time goes forward.
LEMMA AgeStep ==
  ASSUME "crash" \notin Faults, "clock" \notin Faults,
         StreamInv, \A q \in Requests : AgeOK(q), [StreamNext]_vars
  PROVE  \A q \in Requests : AgeOK(q)'
<1>1. /\ now \in Nat /\ MaxAge \in Nat
      /\ opener \in [Requests -> Openers] /\ sessions \in [Requests -> Sessions \cup {NoSession}]
  BY StreamAssumption DEF StreamInv, StreamTypeOK, ClockTypeOK
<1>2. ASSUME NEW q \in Requests, opener'[q] = opener[q], sessions'[q] = sessions[q],
             now' \in Nat, now <= now'
      PROVE  AgeOK(q)'
  <2>1. opener[q].at \in Nat
    BY <1>1 DEF Openers
  <2> QED BY <1>1, <1>2, <2>1 DEF AgeOK
<1>3. CASE UNCHANGED <<now, sessions, opener>>
  BY <1>1, <1>2, <1>3
<1>4. ASSUME NEW r \in Requests, NEW i \in Items, AskSession(r, i)
      PROVE  \A q \in Requests : AgeOK(q)'
  <2>1. opener'[r].pc = "priced" /\ \A q \in Requests \ {r} : opener'[q] = opener[q]
    BY <1>1, <1>4 DEF AskSession, NoOpener
  <2> QED BY <1>1, <1>2, <1>4, <2>1 DEF AskSession, AgeOK
<1>5. ASSUME NEW r \in Requests, CreateSession(r) PROVE \A q \in Requests : AgeOK(q)'
  <2>1. \A q \in Requests \ {r} : opener'[q] = opener[q] /\ sessions'[q] = sessions[q]
    BY <1>1, <1>5 DEF CreateSession
  <2>2. UNCHANGED now
    BY <1>5 DEF CreateSession
  <2>3. \/ opener'[r].pc = "panic"
        \/ /\ opener'[r].at = now /\ sessions'[r].created = now
           /\ sessions'[r] \in Sessions
    <3>1. opener[r] \in Openers
      BY <1>1
    <3>2. CASE Buildable
      <4> DEFINE op == [opener[r] EXCEPT !.pc = "logging", !.at = now]
                 se == [price |-> opener[r].price, chunks |-> 0, created |-> now]
      <4>1. se \in Sessions /\ se.created = now /\ op.at = now
        BY <1>1, <3>1 DEF Openers, Sessions
      <4>2. sessions' = [sessions EXCEPT ![r] = se] /\ opener' = [opener EXCEPT ![r] = op]
        BY <1>5, <3>2 DEF CreateSession
      <4> HIDE DEF op, se
      <4> QED BY <1>1, <4>1, <4>2
    <3>3. CASE ~Buildable
      BY <1>1, <1>5, <3>1, <3>3 DEF CreateSession, Openers
    <3> QED BY <3>2, <3>3
  <2>4. sessions'[r] \in Sessions => sessions'[r] # NoSession
    BY StreamAssumption DEF Sessions
  <2>5. AgeOK(r)'
    BY <1>1, <2>2, <2>3, <2>4 DEF AgeOK
  <2> QED BY <1>1, <1>2, <2>1, <2>2, <2>5
<1>6. ASSUME NEW r \in Requests, LogSession(r) \/ Disconnect(r)
      PROVE  \A q \in Requests : AgeOK(q)'
  <2>1. UNCHANGED <<now, sessions>>
    BY <1>6 DEF LogSession, Disconnect
  <2>2. \A q \in Requests \ {r} : opener'[q] = opener[q]
    BY <1>1, <1>6 DEF LogSession, Disconnect
  <2>3. \/ opener'[r] = opener[r] \/ opener'[r].pc = "gone"
        \/ opener[r].pc = "logging" /\ opener'[r].at = opener[r].at
    BY <1>1, <1>6 DEF LogSession, Disconnect, Openers
  <2>4. AgeOK(r)'
    BY <2>1, <2>3 DEF AgeOK
  <2> QED BY <1>1, <1>2, <2>1, <2>2, <2>4
<1>7. CASE Collect
  <2> SUFFICES ASSUME NEW q \in Requests PROVE AgeOK(q)'
    OBVIOUS
  <2>1. UNCHANGED <<now, opener>>
    BY <1>7 DEF Collect
  <2>2. \/ sessions'[q] = sessions[q]
        \/ sessions[q] # NoSession /\ Expired(q) /\ sessions'[q] = NoSession
    BY <1>7 DEF Collect
  <2>3. CASE sessions[q] # NoSession /\ Expired(q) /\ sessions'[q] = NoSession
    <3>1. opener[q].at \in Nat /\ AgeOK(q)
      BY <1>1 DEF Openers
    <3>2. opener[q].pc \in {"logging", "open"} => now >= opener[q].at + MaxAge
      BY <1>1, <2>3, <3>1 DEF AgeOK, Expired, SaturatingSub
    <3> QED BY <2>1, <2>3, <3>1, <3>2 DEF AgeOK
  <2> QED BY <1>1, <1>2, <2>1, <2>2, <2>3
<1>8. CASE ClockStep
  BY <1>1, <1>2, <1>8 DEF ClockStep, Tick, ClockSetBack, streamVars
<1>9. ASSUME NEW r \in Requests, NEW c \in ChunkAsks, GetChunk(r, c)
      PROVE  \A q \in Requests : AgeOK(q)'
  <2> SUFFICES ASSUME NEW q \in Requests PROVE AgeOK(q)'
    OBVIOUS
  <2>1. UNCHANGED <<now, opener>>
    BY <1>9 DEF GetChunk
  <2>2. \/ sessions'[q] = sessions[q]
        \/ /\ sessions[q] # NoSession /\ sessions'[q] # NoSession
           /\ sessions'[q].created = sessions[q].created
    <3>1. c.session \in Requests
      BY DEF ChunkAsks
    <3> DEFINE se == [sessions[c.session] EXCEPT !.chunks = @ + 1]
    <3>2. CASE sessions[c.session] # NoSession
      <4>1. se \in Sessions /\ se.created = sessions[c.session].created
        BY <1>1, <3>1, <3>2 DEF Sessions
      <4>2. sessions' = [sessions EXCEPT ![c.session] = se]
        BY <1>9, <3>2 DEF GetChunk, CountChunk
      <4> HIDE DEF se
      <4>3. se # NoSession
        BY <4>1, StreamAssumption DEF Sessions
      <4> QED BY <1>1, <3>1, <3>2, <4>1, <4>2, <4>3
    <3>3. CASE sessions[c.session] = NoSession
      BY <1>9, <3>3 DEF GetChunk
    <3> QED BY <3>2, <3>3
  <2> QED BY <2>1, <2>2 DEF AgeOK
<1>10. ~Restart
  BY DEF Restart
<1>11. ASSUME NEW r \in Requests, HandlerStep(r) \/ SettleStep(r)
       PROVE  \A q \in Requests : AgeOK(q)'
  BY <1>3, <1>5, <1>6, <1>11
  DEF HandlerStep, ChunkSettled, ChunkNotSettled, BookChunk, DeliverChunk, SettleStep, streamVars
<1>12. CASE ServerNext
  BY <1>6, <1>7, <1>8, <1>10, <1>11, <1>12 DEF ServerNext
<1> QED BY <1>3, <1>4, <1>9, <1>12 DEF StreamNext, vars, streamVars

\* As long as the server is not restarted and its clock not set back, a session
\* a client was told about is there until it is MaxAge old, whatever else fails.
THEOREM SessionsAreKept ==
  ASSUME "crash" \notin Faults, "clock" \notin Faults
  PROVE  StreamSpec => []SessionsLastTheirAge
<1> DEFINE Inv == StreamInv /\ \A q \in Requests : AgeOK(q)
<1>1. StreamInit => Inv
  BY StreamInitInv DEF StreamInit, NoOpener, AgeOK
<1>2. Inv /\ [StreamNext]_vars => Inv'
  BY StreamStepInv, AgeStep
<1>3. Inv => SessionsLastTheirAge
  BY DEF AgeOK, SessionsLastTheirAge
<1> QED BY <1>1, <1>2, <1>3, PTL DEF StreamSpec

----------------------------------------------------------------------------
\* The streaming route as a Sale.

\* Moves of an order that are steps of Sale, when Gateway charges nothing.
OrderMoves(r) ==
    \/ SaleState(r)' = SaleState(r) /\ exchange'[r].auth = exchange[r].auth
    \/ SaleState(r) = "open" /\ SaleState(r)' = "submitted" /\ exchange'[r].auth \in Payloads
    \/ /\ SaleState(r) = "open" /\ SaleState(r)' = "closed"
       /\ exchange'[r].auth = exchange[r].auth
    \/ /\ SaleState(r) = "submitted" /\ SaleState(r)' = "fulfilled" /\ SettledFor(r)
       /\ exchange'[r].auth = exchange[r].auth
    \/ /\ SaleState(r) = "submitted" /\ SaleState(r)' = "lost"
       /\ exchange'[r].auth = exchange[r].auth

\* A step that moves one request moves its order.
LEMMA OneOrderMoves ==
  ASSUME NEW r \in Requests, OrderMoves(r), UNCHANGED ledger,
         \A q \in Requests \ {r} : chunk'[q] = chunk[q] /\ exchange'[q] = exchange[q]
  PROVE  [Sales!SaleNext]_<<SaleOrder, ledger>>
<1> DEFINE new == [state |-> SaleState(r)', auth |-> exchange'[r].auth]
<1>1. \A q \in Requests \ {r} : SaleOrder'[q] = SaleOrder[q]
  BY DEF SaleOrder, SaleState
<1>2. SaleOrder' = [SaleOrder EXCEPT ![r] = new]
  <2>1. SaleOrder'[r] = new
    BY DEF SaleOrder
  <2>2. /\ SaleOrder = [q \in Requests |-> SaleOrder[q]]
        /\ SaleOrder' = [q \in Requests |-> SaleOrder'[q]]
    BY DEF SaleOrder
  <2> HIDE DEF new
  <2> QED BY <1>1, <2>1, <2>2
<1>3. /\ SaleOrder[r] = [state |-> SaleState(r), auth |-> exchange[r].auth]
      /\ SaleOrder[r].state = SaleState(r) /\ SaleOrder[r].auth = exchange[r].auth
      /\ SaleOrder = [q \in Requests |-> SaleOrder[q]]
  BY DEF SaleOrder
<1>4. CASE SaleState(r)' = SaleState(r) /\ exchange'[r].auth = exchange[r].auth
  <2>1. SaleOrder' = SaleOrder
    BY <1>2, <1>3, <1>4
  <2> QED BY <2>1
<1>5. CASE SaleState(r) = "open" /\ SaleState(r)' = "submitted" /\ exchange'[r].auth \in Payloads
  <2>1. Sales!Submit(r)
    BY <1>2, <1>3, <1>5 DEF Sales!Submit
  <2> QED BY <2>1 DEF Sales!SaleNext
<1>6. CASE /\ SaleState(r) = "open" /\ SaleState(r)' = "closed"
           /\ exchange'[r].auth = exchange[r].auth
  <2>1. Sales!Close(r)
    BY <1>2, <1>3, <1>6 DEF Sales!Close
  <2> QED BY <2>1 DEF Sales!SaleNext
<1>7. CASE /\ SaleState(r) = "submitted" /\ SaleState(r)' = "fulfilled" /\ SettledFor(r)
           /\ exchange'[r].auth = exchange[r].auth
  <2>1. Sales!Fulfil(r)
    BY <1>2, <1>3, <1>7 DEF Sales!Fulfil, Sales!IsCharged, SettledFor
  <2> QED BY <2>1 DEF Sales!SaleNext
<1>8. CASE /\ SaleState(r) = "submitted" /\ SaleState(r)' = "lost"
           /\ exchange'[r].auth = exchange[r].auth
  <2>1. new = [SaleOrder[r] EXCEPT !.state = IF @ = "open" THEN "closed" ELSE "lost"]
    BY <1>3, <1>8
  <2>2. SaleOrder' = [q \in Requests |->
                        IF q \in {r}
                        THEN [SaleOrder[q] EXCEPT !.state = IF @ = "open" THEN "closed" ELSE "lost"]
                        ELSE SaleOrder[q]]
    BY <1>2, <1>3, <2>1
  <2>3. Sales!Lose({r})
    BY <1>3, <1>8, <2>2 DEF Sales!Lose
  <2> QED BY <2>3 DEF Sales!SaleNext
<1> QED BY <1>4, <1>5, <1>6, <1>7, <1>8 DEF OrderMoves

\* Where a chunk request is, before and after a step, says where its order is.
LEMMA StreamShape ==
  ASSUME StreamInv
  PROVE  /\ DOMAIN chunk = Requests /\ DOMAIN exchange = Requests
         /\ \A r \in Requests :
               /\ chunk[r] \in ChunkRuns /\ ChunkOK(r)
               /\ exchange[r] \in [pc : {"idle", "posted", "success", "declined", "error", "read"},
                                   auth : Headers, payer : Wallets \cup {NoWallet, Empty}]
  BY DEF StreamInv, StreamTypeOK, PaymentTypeOK

\* A chunk request arrives: it is refused, or put to Gateway.
LEMMA GetChunkSells ==
  ASSUME StreamInv, NEW r \in Requests, NEW c \in ChunkAsks, GetChunk(r, c)
  PROVE  [Sales!SaleNext]_<<SaleOrder, ledger>>
<1>1. /\ chunk[r].pc = "idle" /\ exchange[r].pc = "idle" /\ UNCHANGED ledger
      /\ DOMAIN chunk = Requests /\ DOMAIN exchange = Requests
  BY StreamShape DEF GetChunk, Unused, ChunkOK
<1> DEFINE run(pc) == [pc |-> pc, session |-> c.session, item |-> c.item,
                       label |-> NextLabel(c.session), price |-> Demand(c), payer |-> NoWallet]
<1>2. \/ /\ chunk' = [chunk EXCEPT ![r] = [NoChunk EXCEPT !.pc = "not_found"]]
         /\ UNCHANGED exchange
      \/ /\ \E pc \in {"challenge", "rejected"} : chunk' = [chunk EXCEPT ![r] = run(pc)]
         /\ UNCHANGED exchange
      \/ /\ chunk' = [chunk EXCEPT ![r] = run("settling")]
         /\ c.header \in Payloads /\ PostSettle(r, c.header)
  BY DEF GetChunk, Acceptable, WellFormed
<1>3. \A q \in Requests \ {r} : chunk'[q] = chunk[q] /\ exchange'[q] = exchange[q]
  BY <1>1, <1>2 DEF PostSettle
<1>4. \/ chunk'[r].pc \in {"not_found", "challenge", "rejected"} /\ UNCHANGED exchange
      \/ /\ chunk'[r].pc = "settling"
         /\ exchange'[r].pc = "posted" /\ exchange'[r].auth \in Payloads
  <2>1. CASE /\ chunk' = [chunk EXCEPT ![r] = [NoChunk EXCEPT !.pc = "not_found"]]
             /\ UNCHANGED exchange
    BY <1>1, <2>1 DEF NoChunk
  <2>2. CASE /\ \E pc \in {"challenge", "rejected"} : chunk' = [chunk EXCEPT ![r] = run(pc)]
             /\ UNCHANGED exchange
    <3>1. PICK pc \in {"challenge", "rejected"} : chunk' = [chunk EXCEPT ![r] = run(pc)]
      BY <2>2
    <3>2. chunk'[r] = run(pc)
      BY <1>1, <3>1
    <3> QED BY <2>2, <3>1, <3>2
  <2>3. CASE /\ chunk' = [chunk EXCEPT ![r] = run("settling")]
             /\ c.header \in Payloads /\ PostSettle(r, c.header)
    <3>1. chunk'[r] = run("settling")
      BY <1>1, <2>3
    <3>2. exchange'[r].pc = "posted" /\ exchange'[r].auth = c.header
      BY <1>1, <2>3 DEF PostSettle, NoExchange
    <3> QED BY <2>3, <3>1, <3>2
  <2> QED BY <1>2, <2>1, <2>2, <2>3
<1>5. OrderMoves(r)
  BY <1>1, <1>4 DEF OrderMoves, SaleState, ChunkFinished
<1> QED BY <1>1, <1>3, <1>5, OneOrderMoves

\* What is charged for a request was put to Gateway for it.
LEMMA LedgerKnows ==
  ASSUME StreamInv, NEW r \in Requests, Settlement(r) \in ledger
  PROVE  exchange[r].pc # "idle"
  BY DEF StreamInv, LedgerOK, Settlement

\* Every step of a handler moves its order.
LEMMA HandlerSells ==
  ASSUME StreamInv, NEW r \in Requests,
         ChunkSettled(r) \/ ChunkNotSettled(r) \/ BookChunk(r) \/ DeliverChunk(r)
  PROVE  [Sales!SaleNext]_<<SaleOrder, ledger>>
<1>1. /\ DOMAIN chunk = Requests /\ DOMAIN exchange = Requests
      /\ chunk[r] \in ChunkRuns /\ ChunkOK(r)
      /\ exchange[r] \in [pc : {"idle", "posted", "success", "declined", "error", "read"},
                          auth : Headers, payer : Wallets \cup {NoWallet, Empty}]
  BY StreamShape
<1>2. /\ UNCHANGED ledger
      /\ \A q \in Requests \ {r} : chunk'[q] = chunk[q] /\ exchange'[q] = exchange[q]
  BY <1>1 DEF ChunkSettled, ChunkNotSettled, BookChunk, DeliverChunk, Resume, paymentVars
<1>3. CASE ChunkSettled(r) \/ ChunkNotSettled(r)
  <2>1. /\ exchange[r].pc # "idle" /\ exchange'[r].pc = "read"
        /\ exchange'[r].auth = exchange[r].auth
    BY <1>1, <1>3 DEF ChunkSettled, ChunkNotSettled, Resume
  <2>2. chunk[r].pc = "settling" /\ chunk'[r].pc \in {"logging", "rejected"}
    BY <1>1, <1>3 DEF ChunkSettled, ChunkNotSettled, ChunkRuns
  <2>3. OrderMoves(r)
    BY <2>1, <2>2 DEF OrderMoves, SaleState, ChunkFinished
  <2> QED BY <1>2, <2>3, OneOrderMoves
<1>4. CASE BookChunk(r)
  <2>1. chunk[r].pc = "logging" /\ chunk'[r].pc = "titling" /\ UNCHANGED exchange
    BY <1>1, <1>4 DEF BookChunk, paymentVars, ChunkRuns
  <2>2. OrderMoves(r)
    BY <2>1 DEF OrderMoves, SaleState, ChunkFinished
  <2> QED BY <1>2, <2>2, OneOrderMoves
<1>5. CASE DeliverChunk(r)
  <2>1. chunk[r].pc = "titling" /\ chunk'[r].pc = "chunk" /\ UNCHANGED exchange
    BY <1>1, <1>5 DEF DeliverChunk, paymentVars, ChunkRuns
  <2>2. Settlement(r) \in ledger /\ exchange[r].pc # "idle"
    BY <1>1, <2>1, LedgerKnows DEF ChunkOK, Paid, Settlement
  <2>3. SettledFor(r)
    BY <2>2 DEF SettledFor, Settlement
  <2>4. OrderMoves(r)
    BY <2>1, <2>2, <2>3 DEF OrderMoves, SaleState, ChunkFinished
  <2> QED BY <1>2, <2>4, OneOrderMoves
<1> QED BY <1>3, <1>4, <1>5

\* Gateway charges an order that waits or is lost, once, or moves nothing.
LEMMA GatewaySells ==
  ASSUME StreamInv, NEW r \in Requests, SettleStep(r)
  PROVE  [Sales!SaleNext]_<<SaleOrder, ledger>>
<1>1. /\ DOMAIN exchange = Requests /\ chunk[r] \in ChunkRuns
      /\ ChunkOK(r) /\ UNCHANGED chunk
      /\ exchange[r].pc \in {"posted", "success"}
      /\ exchange[r] \in [pc : {"idle", "posted", "success", "declined", "error", "read"},
                          auth : Headers, payer : Wallets \cup {NoWallet, Empty}]
  BY StreamShape DEF SettleStep, GatewayStep, GatewayAnswers, GatewaySettles, GatewayDeclines,
         GatewayFails, streamVars
<1>2. /\ exchange'[r].pc # "idle" /\ exchange'[r].auth = exchange[r].auth
      /\ \A q \in Requests \ {r} : exchange'[q] = exchange[q]
  BY <1>1 DEF SettleStep, GatewayStep, GatewayAnswers, GatewaySettles, GatewayDeclines, GatewayFails
<1>3. SaleOrder' = SaleOrder
  <2>1. \A q \in Requests : SaleState(q)' = SaleState(q) /\ exchange'[q].auth = exchange[q].auth
    BY <1>1, <1>2 DEF SaleState
  <2> QED BY <2>1 DEF SaleOrder
<1>4. CASE GatewaySettles(r)
  <2>1. chunk[r].pc # "chunk"
    BY <1>1, <1>4 DEF GatewaySettles, ChunkOK, Paid, Settlement
  <2>2. SaleOrder[r].state \in {"submitted", "lost"} /\ SaleOrder[r].auth = exchange[r].auth
    BY <1>1, <2>1 DEF SaleOrder, SaleState, ChunkFinished
  <2>3. Sales!Charge(r)
    BY <1>3, <1>4, <2>2 DEF GatewaySettles, Sales!Charge
  <2> QED BY <2>3 DEF Sales!SaleNext
<1>5. CASE UNCHANGED ledger
  BY <1>3, <1>5
<1> QED
  BY <1>4, <1>5 DEF SettleStep, GatewayStep, GatewayAnswers, GatewayDeclines, GatewayFails

\* A client that goes away, and a restart, lose orders under way.
LEMMA SomeAreLost ==
  ASSUME StreamInv, UNCHANGED <<exchange, ledger>>,
         \A q \in Requests : \/ chunk'[q] = chunk[q]
                            \/ /\ chunk[q].pc \in ChunkRunning
                               /\ chunk'[q] = [chunk[q] EXCEPT !.pc = "gone"]
  PROVE  [Sales!SaleNext]_<<SaleOrder, ledger>>
<1> DEFINE O == {q \in Requests : chunk'[q] # chunk[q]}
           Lost(q) == [SaleOrder[q] EXCEPT !.state = IF @ = "open" THEN "closed" ELSE "lost"]
<1>1. ASSUME NEW q \in O
      PROVE  SaleOrder[q].state \in {"open", "submitted"} /\ SaleOrder'[q] = Lost(q)
  <2>1. chunk[q].pc \in ChunkRunning /\ chunk'[q].pc = "gone"
    BY StreamShape DEF ChunkRuns
  <2>2. /\ SaleState(q) = (IF exchange[q].pc = "idle" THEN "open" ELSE "submitted")
        /\ SaleState(q)' = (IF exchange[q].pc = "idle" THEN "closed" ELSE "lost")
    BY <2>1 DEF SaleState, ChunkRunning, ChunkFinished
  <2> QED BY <2>2 DEF SaleOrder
<1>2. \A q \in Requests \ O : SaleOrder'[q] = SaleOrder[q]
  BY DEF SaleOrder, SaleState
<1>3. SaleOrder' = [q \in Requests |-> IF q \in O THEN Lost(q) ELSE SaleOrder[q]]
  <2>1. SaleOrder' = [q \in Requests |-> SaleOrder'[q]]
    BY DEF SaleOrder
  <2> HIDE DEF Lost, O
  <2> QED BY <1>1, <1>2, <2>1
<1>4. Sales!Lose(O)
  BY <1>1, <1>3 DEF Sales!Lose
<1>5. O \in SUBSET Requests
  OBVIOUS
<1> QED BY <1>4, <1>5 DEF Sales!SaleNext

\* Every step of the streaming route is a step of Sale, or none.
LEMMA StreamStepSells ==
  ASSUME StreamInv, [StreamNext]_vars
  PROVE  [Sales!SaleNext]_<<SaleOrder, ledger>>
<1>1. CASE UNCHANGED <<chunk, exchange, ledger>>
  BY <1>1 DEF SaleOrder, SaleState
<1>2. ASSUME NEW r \in Requests, HandlerStep(r)
      PROVE  [Sales!SaleNext]_<<SaleOrder, ledger>>
  <2>1. CASE CreateSession(r) \/ LogSession(r)
    BY <1>1, <2>1 DEF CreateSession, LogSession, paymentVars
  <2> QED BY <1>2, <2>1, HandlerSells DEF HandlerStep
<1>3. ASSUME NEW r \in Requests, Disconnect(r)
      PROVE  [Sales!SaleNext]_<<SaleOrder, ledger>>
  <2>1. /\ UNCHANGED <<exchange, ledger>>
        /\ \A q \in Requests : \/ chunk'[q] = chunk[q]
                              \/ /\ chunk[q].pc \in ChunkRunning
                                 /\ chunk'[q] = [chunk[q] EXCEPT !.pc = "gone"]
    BY <1>3, StreamShape DEF Disconnect, paymentVars
  <2> QED BY <2>1, SomeAreLost
<1>4. CASE Restart
  <2>1. /\ UNCHANGED <<exchange, ledger>>
        /\ \A q \in Requests : \/ chunk'[q] = chunk[q]
                              \/ /\ chunk[q].pc \in ChunkRunning
                                 /\ chunk'[q] = [chunk[q] EXCEPT !.pc = "gone"]
    BY <1>4 DEF Restart, paymentVars
  <2> QED BY <2>1, SomeAreLost
<1>5. ASSUME NEW r \in Requests, NEW i \in Items, AskSession(r, i)
      PROVE  UNCHANGED <<chunk, exchange, ledger>>
  BY <1>5 DEF AskSession, paymentVars
<1>6. Collect \/ ClockStep \/ UNCHANGED vars => UNCHANGED <<chunk, exchange, ledger>>
  BY DEF Collect, ClockStep, vars, paymentVars, streamVars
<1> QED BY <1>1, <1>2, <1>3, <1>4, <1>5, <1>6, GetChunkSells, GatewaySells DEF StreamNext, ServerNext

\* The streaming route sells: a chunk is charged once at most, sent only when it
\* has been, and never charged once its request ended without Gateway.
THEOREM StreamIsASale == StreamSpec => SellsChunks
<1>1. StreamInit => Sales!SaleInit
  BY DEF StreamInit, PaymentInit, NoChunk, NoExchange, Sales!SaleInit, Sales!OpenOrder,
         SaleOrder, SaleState, ChunkFinished
<1>2. StreamInv /\ [StreamNext]_vars => [Sales!SaleNext]_Sales!saleVars
  BY StreamStepSells DEF Sales!saleVars
<1> QED BY <1>1, <1>2, StreamInvariance, PTL DEF StreamSpec, SellsChunks, Sales!SaleSpec
=============================================================================

--------------------------- MODULE Catalog_proofs ---------------------------
(***************************************************************************)
(* What the catalogue guarantees for any items, files, defaults and number *)
(* of starts, sales and readers, whichever statement fails and wherever    *)
(* the process stops: rows of one mind, rows that last, one price for an   *)
(* item as long as a process lives, and statistics whose parts, taken at   *)
(* different moments, disagree in one direction only.                      *)
(***************************************************************************)
EXTENDS Catalog, Sums_proofs

Servers == [pc : {"down", "listening"} \cup Starting, cfg : Configs \cup {NoConfig},
            todo : SUBSET Items, seen : SUBSET Configs, nr : Nat, unread : BOOLEAN]
Quotes == [pc : {"idle", "quoted", "done"}, of : Asked \cup {NoItem}, price : Nat,
           answered : BOOLEAN]

ShapeOK ==
    /\ items \in [Items -> Rows \cup {NoRow}]
    /\ server \in Servers
    /\ sale \in [Sales -> Quotes]

\* What is still to be seeded is in the file of this start, and, unless the
\* table could not be read, not in the table.
StartOK ==
    /\ server.pc \notin {"down"} => server.cfg \in server.seen
    /\ server.todo # {} => server.pc = "seeding" /\ server.todo \subseteq DOMAIN server.cfg.file
    /\ ~server.unread => \A i \in server.todo : items[i] = NoRow

PriceOf(a) == IF items[a.item] # NoRow THEN items[a.item][a.mode] ELSE server.cfg.default[a.mode]

\* Every quote of this process that get_item answered is what it would answer
\* now.
SaleOK ==
    \A s \in Sales :
        /\ sale[s].pc # "idle" => server.pc = "listening"
        /\ sale[s].answered => sale[s].pc # "idle" /\ sale[s].price = PriceOf(sale[s].of)

CatalogInv == ShapeOK /\ StartOK /\ SaleOK /\ RowsFromOneStart

----------------------------------------------------------------------------
\* A seeded row has both prices.
LEMMA SeededIsRow ==
  ASSUME NEW c \in Configs, NEW i \in DOMAIN c.file
  PROVE  Seeded(c, i) \in Rows
  BY CatalogAssumption DEF Seeded, Rows

\* The initial state satisfies the invariant.
LEMMA CatalogInitInv == CatalogInit => CatalogInv
  BY DEF CatalogInit, CatalogInv, ShapeOK, StartOK, SaleOK, RowsFromOneStart, Down, NoSale,
         Servers, Quotes

\* A step of the start that touches neither table nor quote.
LEMMA StartFrame ==
  ASSUME CatalogInv, UNCHANGED <<items, sale>>, server' \in Servers, StartOK',
         server.seen \subseteq server'.seen,
         server.pc # "listening"
  PROVE  CatalogInv'
<1>1. SaleOK'
  BY DEF CatalogInv, SaleOK
<1>2. RowsFromOneStart'
  BY DEF CatalogInv, RowsFromOneStart, Seeded
<1> QED BY <1>1, <1>2 DEF CatalogInv, ShapeOK

\* Between opening and the first request.
LEMMA StartKeeps ==
  ASSUME CatalogInv, OpenDatabase \/ CountItems \/ Listen \/ \E c \in Configs : Boot(c)
  PROVE  CatalogInv'
<1>1. server \in Servers /\ StartOK
  BY DEF CatalogInv, ShapeOK
<1>2. CASE \E c \in Configs : Boot(c)
  <2>1. server' \in Servers /\ StartOK' /\ server.seen \subseteq server'.seen
    BY <1>1, <1>2 DEF Boot, Servers, StartOK, Starting
  <2> QED BY <1>2, <2>1, StartFrame DEF Boot
<1>3. CASE OpenDatabase
  <2>1. server' \in Servers /\ server.seen \subseteq server'.seen
    BY <1>1, <1>3 DEF OpenDatabase, Servers, Starting
  <2>2. StartOK'
    BY <1>1, <1>3 DEF OpenDatabase, StartOK, Servers
  <2> QED BY <1>3, <2>1, <2>2, StartFrame DEF OpenDatabase
<1>4. CASE CountItems
  <2>1. server.cfg \in Configs /\ server.cfg \in server.seen
    BY <1>1, <1>4 DEF CountItems, StartOK, Servers
  <2>2. DOMAIN server.cfg.file \subseteq Items
    BY <2>1, CatalogAssumption
  <2>3. server' \in Servers /\ server.seen \subseteq server'.seen
    BY <1>1, <1>4, <2>2 DEF CountItems, Servers, Starting
  <2>4. StartOK'
    <3>1. /\ server'.pc = "seeding" /\ server'.cfg = server.cfg /\ server'.seen = server.seen
          /\ server'.todo \in {server.todo, DOMAIN server.cfg.file}
      BY <1>1, <1>4 DEF CountItems, Servers
    <3>2. server.todo = {}
      BY <1>1, <1>4 DEF CountItems, StartOK
    <3>3. ~server'.unread => server'.todo = {} \/ TableEmpty
      BY <1>1, <1>4, <3>2 DEF CountItems, Servers
    <3>4. ~server'.unread => \A i \in server'.todo : items[i] = NoRow
      BY <2>2, <3>1, <3>2, <3>3 DEF TableEmpty
    <3> QED BY <1>4, <2>1, <3>1, <3>2, <3>4 DEF CountItems, StartOK
  <2> QED BY <1>4, <2>3, <2>4, StartFrame DEF CountItems
<1>5. CASE Listen
  <2>1. server' \in Servers /\ server.seen \subseteq server'.seen
    BY <1>1, <1>5 DEF Listen, Servers
  <2>2. StartOK'
    BY <1>1, <1>5 DEF Listen, StartOK, Servers
  <2> QED BY <1>5, <2>1, <2>2, StartFrame DEF Listen
<1> QED BY <1>2, <1>3, <1>4, <1>5

\* One entry of the file is inserted, whole, or not at all; and it was not in
\* the table, unless the table could not be read.
LEMMA SeedItemKeeps ==
  ASSUME CatalogInv, SeedItem
  PROVE  /\ CatalogInv'
         /\ \A i \in Items : items[i] # NoRow /\ items'[i] # items[i] => server.unread
<1>1. PICK i \in server.todo :
         /\ items' = [items EXCEPT ![i] = Seeded(server.cfg, i)] \/ UNCHANGED items
         /\ server' = [server EXCEPT !.todo = @ \ {i}]
  BY DEF SeedItem
<1>2. /\ server \in Servers /\ items \in [Items -> Rows \cup {NoRow}]
      /\ server.pc = "seeding" /\ server.cfg \in server.seen
      /\ i \in Items /\ i \in DOMAIN server.cfg.file /\ server.cfg \in Configs
      /\ ~server.unread => items[i] = NoRow
  BY <1>1 DEF CatalogInv, ShapeOK, StartOK, Servers
<1>3. /\ server' \in Servers
      /\ server'.pc = server.pc /\ server'.cfg = server.cfg /\ server'.seen = server.seen
      /\ server'.todo = server.todo \ {i} /\ server'.unread = server.unread
  BY <1>1, <1>2 DEF Servers
<1>4. /\ items' \in [Items -> Rows \cup {NoRow}]
      /\ \A j \in Items : \/ items'[j] = items[j]
                          \/ j = i /\ items'[j] = Seeded(server.cfg, i)
  BY <1>1, <1>2, SeededIsRow
<1>5. ShapeOK'
  BY <1>3, <1>4 DEF SeedItem, CatalogInv, ShapeOK
<1>6. StartOK'
  <2>1. ~server'.unread => \A j \in server'.todo : items'[j] = NoRow
    BY <1>2, <1>3, <1>4 DEF CatalogInv, StartOK, Servers
  <2> QED BY <1>2, <1>3, <2>1 DEF CatalogInv, StartOK
<1>7. SaleOK'
  BY <1>2, <1>3 DEF SeedItem, CatalogInv, SaleOK
<1>8. RowsFromOneStart'
  <2> SUFFICES ASSUME NEW j \in Items, items'[j] # NoRow
               PROVE  \E c \in server.seen : j \in DOMAIN c.file /\ items'[j] = Seeded(c, j)
    BY <1>3 DEF RowsFromOneStart, Seeded
  <2>1. CASE items'[j] = items[j]
    BY <2>1 DEF CatalogInv, RowsFromOneStart
  <2>2. CASE j = i /\ items'[j] = Seeded(server.cfg, i)
    BY <1>2, <2>2
  <2> QED BY <1>4, <2>1, <2>2
<1>9. \A j \in Items : items[j] # NoRow /\ items'[j] # items[j] => server.unread
  BY <1>2, <1>4
<1> QED BY <1>5, <1>6, <1>7, <1>8, <1>9 DEF CatalogInv

\* A price a request is told is a price.
LEMMA PriceIsNat ==
  ASSUME CatalogInv, server.pc = "listening", NEW a \in Asked
  PROVE  PriceOf(a) \in Nat /\ server.cfg.default[a.mode] \in Nat
<1>1. a.item \in Items /\ a.mode \in Modes
  BY CatalogAssumption
<1>2. server.cfg \in Configs
  BY DEF CatalogInv, ShapeOK, StartOK, Servers
<1>3. server.cfg.default[a.mode] \in Nat
  BY <1>1, <1>2, CatalogAssumption
<1>4. items[a.item] # NoRow => items[a.item] \in Rows
  BY <1>1 DEF CatalogInv, ShapeOK
<1> QED BY <1>1, <1>3, <1>4 DEF PriceOf, Rows

\* A price is told while the table does not change.
LEMMA QuoteKeeps ==
  ASSUME CatalogInv, NEW s \in Sales, NEW a \in Asked, Quote(s, a)
  PROVE  CatalogInv'
<1>1. /\ server.pc = "listening" /\ UNCHANGED <<items, server>>
      /\ sale \in [Sales -> Quotes]
  BY DEF Quote, CatalogInv, ShapeOK
<1>2. PICK answered \in BOOLEAN, p \in {PriceOf(a), server.cfg.default[a.mode]} :
         /\ sale' = [sale EXCEPT ![s] = [pc |-> "quoted", of |-> a, answered |-> answered,
                                         price |-> p]]
         /\ answered => p = PriceOf(a)
  <2>1. PICK answered \in {TRUE} \cup (IF "db" \in Faults THEN {FALSE} ELSE {}) :
           sale' = [sale EXCEPT ![s] =
                     [pc |-> "quoted", of |-> a, answered |-> answered,
                      price |-> IF answered /\ items[a.item] # NoRow
                                THEN items[a.item][a.mode] ELSE server.cfg.default[a.mode]]]
    BY DEF Quote
  <2>2. CASE answered
    BY <2>1, <2>2 DEF PriceOf
  <2>3. CASE ~answered
    BY <2>1, <2>3
  <2> QED BY <2>2, <2>3
<1> DEFINE q == [pc |-> "quoted", of |-> a, answered |-> answered, price |-> p]
<1>3. /\ q \in Quotes /\ q.pc = "quoted" /\ q.of = a /\ q.price = p /\ q.answered = answered
  BY <1>1, <1>2, PriceIsNat DEF Quotes
<1> HIDE DEF q
<1>4. /\ sale' \in [Sales -> Quotes] /\ sale'[s] = q
      /\ \A t \in Sales \ {s} : sale'[t] = sale[t]
  BY <1>1, <1>2, <1>3 DEF q
<1>5. SaleOK'
  BY <1>1, <1>2, <1>3, <1>4 DEF CatalogInv, SaleOK, PriceOf
<1> QED BY <1>1, <1>4, <1>5 DEF CatalogInv, ShapeOK, StartOK, RowsFromOneStart, Seeded

\* What is booked keeps its price.
LEMMA BookKeeps ==
  ASSUME CatalogInv, NEW s \in Sales, NEW b \in Buyers, Book(s, b)
  PROVE  CatalogInv'
<1>1. /\ sale[s].pc = "quoted" /\ UNCHANGED <<items, server>> /\ sale \in [Sales -> Quotes]
      /\ sale' = [sale EXCEPT ![s].pc = "done"]
  BY DEF Book, CatalogInv, ShapeOK
<1>2. /\ sale' \in [Sales -> Quotes]
      /\ sale'[s].pc = "done" /\ sale'[s].of = sale[s].of /\ sale'[s].price = sale[s].price
      /\ sale'[s].answered = sale[s].answered
      /\ \A t \in Sales \ {s} : sale'[t] = sale[t]
  BY <1>1 DEF Quotes
<1>3. SaleOK'
  BY <1>1, <1>2 DEF CatalogInv, SaleOK, PriceOf
<1> QED BY <1>1, <1>2, <1>3 DEF CatalogInv, ShapeOK, StartOK, RowsFromOneStart, Seeded

\* The process stops: the table stays, the quotes are forgotten.
LEMMA StopKeeps ==
  ASSUME CatalogInv, Stop
  PROVE  CatalogInv'
<1>1. /\ server' \in Servers /\ server'.pc = "down" /\ server'.todo = {}
      /\ server'.seen = server.seen
  BY DEF Stop, Down, CatalogInv, ShapeOK, Servers
<1>2. /\ sale' \in [Sales -> Quotes]
      /\ \A s \in Sales : sale'[s].pc = "idle" /\ ~sale'[s].answered
  BY DEF Stop, NoSale, Quotes
<1> QED BY <1>1, <1>2 DEF Stop, CatalogInv, ShapeOK, StartOK, SaleOK, RowsFromOneStart, Seeded

\* get_stats only reads.
LEMMA StatsKeep ==
  ASSUME CatalogInv, UNCHANGED <<items, server, sale>>
  PROVE  CatalogInv'
  BY DEF CatalogInv, ShapeOK, StartOK, SaleOK, PriceOf, RowsFromOneStart, Seeded

\* Every step keeps the invariant.
LEMMA CatalogStepInv ==
  ASSUME CatalogInv, [CatalogNext]_vars
  PROVE  CatalogInv'
<1>1. CASE \E q \in Readers : AskStats(q) \/ FetchNext(q)
  BY <1>1, StatsKeep DEF AskStats, FetchNext, Fetch
<1>2. CASE UNCHANGED vars
  BY <1>2, StatsKeep DEF vars
<1> QED
  BY <1>1, <1>2, StartKeeps, SeedItemKeeps, QuoteKeeps, BookKeeps, StopKeeps
  DEF CatalogNext, StartStep

----------------------------------------------------------------------------
\* The invariant holds in every state, whatever fails and whenever the process
\* stops.
THEOREM CatalogInvariance == CatalogSpec => []CatalogInv
<1> QED BY CatalogInitInv, CatalogStepInv, PTL DEF CatalogSpec

\* Both prices of a row are what one start read for the item.
THEOREM RowsOfOneMind == CatalogSpec => []RowsFromOneStart
<1>1. CatalogInv => RowsFromOneStart
  BY DEF CatalogInv
<1> QED BY <1>1, CatalogInvariance, PTL

\* As long as a process lives an item has one price.
THEOREM OnePriceWhileUp == CatalogSpec => []QuotesAgree
<1>1. CatalogInv => QuotesAgree
  BY DEF CatalogInv, SaleOK, QuotesAgree
<1> QED BY <1>1, CatalogInvariance, PTL

\* A row keeps its prices, whatever a later start finds, unless the table could
\* not be read in it.
THEOREM RowsLast == CatalogSpec => RowsSurvive
<1>1. CatalogInv /\ [CatalogNext]_vars
         => [\A i \in Items : items[i] # NoRow /\ items'[i] # items[i] => server.unread]_vars
  <2> SUFFICES ASSUME CatalogInv, [CatalogNext]_vars
               PROVE  \A i \in Items : items[i] # NoRow /\ items'[i] # items[i] => server.unread
    OBVIOUS
  <2>1. CASE SeedItem
    BY <2>1, SeedItemKeeps
  <2>2. CASE UNCHANGED items
    BY <2>2
  <2> QED
    BY <2>1, <2>2
    DEF CatalogNext, StartStep, Boot, OpenDatabase, CountItems, Listen, Quote, Book, AskStats,
        FetchNext, Fetch, Stop, vars
<1> QED BY <1>1, CatalogInvariance, PTL DEF CatalogSpec, RowsSurvive
----------------------------------------------------------------------------
\* The table payments and what a call of get_stats has read of it.

PaymentRows == [item : Items, buyer : Buyers, seller : Sellers, amount : Nat]
ItemStats == [item : Items, payments : Nat, volume : Nat]
StatsCalls == [pc : {"idle", "answered"} \cup StatsRunning,
               payments : Nat, volume : Nat, buyers : Nat, sellers : Nat,
               items : SUBSET ItemStats, from : Nat]

\* A sale under way is of something that was asked for, and bounds are kept.
LedgerOK ==
    /\ payments \in Seq(PaymentRows)
    /\ \A s \in Sales : sale[s].pc # "idle" => sale[s].of \in Asked
    /\ server.nr \in 0..MaxStarts

\* The weight of a list of items by its field f, as InAllItems(q, f) of a call.
Weight(list, f) == SumFunctionOnSet([e \in list |-> e[f]], list)

\* What a call has read so far is not ahead of the table as it is now; what
\* the last query reads is not behind anything read before it.
CallOK(c) ==
    /\ c.from <= Count
    /\ c.payments = 0 \/ c.payments \in c.from..Count
    /\ c.volume <= VolumeOf(DOMAIN payments)
    /\ c.buyers <= Count
    /\ c.pc # "answered" => c.items = {}
    /\ Weight(c.items, "payments") \in 0..Count
    /\ c.items # {} =>
          /\ c.payments <= Weight(c.items, "payments")
          /\ c.volume <= Weight(c.items, "volume")
          /\ c.from <= Weight(c.items, "payments")
          /\ c.buyers <= Weight(c.items, "payments")

StatsOK == /\ stats \in [Readers -> StatsCalls]
           /\ \A q \in Readers : CallOK(stats[q])

StatsInv == CatalogInv /\ LedgerOK /\ StatsOK


\* The rows of the table are finitely many.
LEMMA TableIsFinite ==
  ASSUME payments \in Seq(PaymentRows)
  PROVE  /\ Count \in Nat
         /\ DOMAIN payments = 1..Count
         /\ IsFiniteSet(DOMAIN payments) /\ Cardinality(DOMAIN payments) = Count
         /\ \A n \in DOMAIN payments : payments[n] \in PaymentRows
<1>1. /\ Count \in Nat /\ DOMAIN payments = 1..Count
      /\ \A n \in DOMAIN payments : payments[n] \in PaymentRows
  BY DEF Count
<1>2. IsFiniteSet(1..Count) /\ Cardinality(1..Count) = Count
  BY <1>1, FS_Interval
<1> QED BY <1>1, <1>2

\* Some rows' volume is a number.
LEMMA VolumeType ==
  ASSUME payments \in Seq(PaymentRows), NEW rows \in SUBSET DOMAIN payments
  PROVE  VolumeOf(rows) \in Nat
<1> DEFINE w == [n \in DOMAIN payments |-> payments[n].amount]
<1>1. IsFiniteSet(rows) /\ \A n \in rows : w[n] \in Nat
  BY TableIsFinite, FS_Subset DEF PaymentRows
<1>2. SumFunctionOnSet(w, rows) \in Nat
  <2> HIDE DEF w
  <2> QED BY <1>1, SumType
<1> QED BY <1>2 DEF VolumeOf

\* The table only grows: there are never fewer rows than before, nor is their
\* volume ever less.
LEMMA TableGrows ==
  ASSUME payments \in Seq(PaymentRows),
         payments' = payments \/ \E r \in PaymentRows : payments' = Append(payments, r)
  PROVE  /\ payments' \in Seq(PaymentRows)
         /\ Count' \in Nat /\ Count <= Count'
         /\ VolumeOf(DOMAIN payments) \in Nat /\ VolumeOf(DOMAIN payments)' \in Nat
         /\ VolumeOf(DOMAIN payments) <= VolumeOf(DOMAIN payments)'
<1> DEFINE v == [n \in DOMAIN payments |-> payments[n].amount]
           w == [n \in DOMAIN payments' |-> payments'[n].amount]
<1>1. /\ payments' \in Seq(PaymentRows) /\ Count' \in Nat /\ Count <= Count'
      /\ DOMAIN payments \subseteq DOMAIN payments'
      /\ \A n \in DOMAIN payments : payments'[n] = payments[n]
  BY DEF Count
<1>2. IsFiniteSet(DOMAIN payments') /\ \A n \in DOMAIN payments' : payments'[n] \in PaymentRows
  <2>1. DOMAIN payments' = 1..Count' /\ \A n \in DOMAIN payments' : payments'[n] \in PaymentRows
    BY <1>1 DEF Count
  <2> QED BY <1>1, <2>1, FS_Interval
<1>3. /\ \A n \in DOMAIN payments' : w[n] \in Nat
      /\ \A n \in DOMAIN payments : v[n] \in Nat /\ v[n] <= w[n]
  BY <1>1, <1>2 DEF PaymentRows
<1>4. /\ SumFunctionOnSet(w, DOMAIN payments') \in Nat
      /\ SumFunctionOnSet(v, DOMAIN payments) <= SumFunctionOnSet(w, DOMAIN payments')
  <2> HIDE DEF v, w
  <2> QED BY <1>1, <1>2, <1>3, SumType, SumGrows
<1> QED BY <1>1, <1>4, VolumeType DEF VolumeOf

\* GROUP BY item loses no row and counts none twice: the counts of the groups
\* add up to the rows of the table, their volumes to its volume.
LEMMA PerItemAddsUp ==
  ASSUME payments \in Seq(PaymentRows)
  PROVE  /\ PerItem \in SUBSET ItemStats
         /\ Weight(PerItem, "payments") = Count
         /\ Weight(PerItem, "volume") = VolumeOf(DOMAIN payments)
<1> DEFINE D == DOMAIN payments
           amount == [n \in D |-> payments[n].amount]
           one == [n \in D |-> 1]
           key == [n \in D |-> payments[n].item]
           rec == [i \in Sold |-> [item |-> i, payments |-> Cardinality(RowsOf(i)),
                                   volume |-> VolumeOf(RowsOf(i))]]
           group == [i \in Sold |-> RowsOf(i)]
           field(f) == [e \in PerItem |-> e[f]]
<1>1. /\ IsFiniteSet(D) /\ Cardinality(D) = Count
      /\ \A n \in D : payments[n] \in PaymentRows
  BY TableIsFinite
<1>2. IsFiniteSet(Sold) /\ Sold \subseteq Items
  <2>1. Sold = {key[n] : n \in D}
    BY DEF Sold
  <2>2. IsFiniteSet({key[n] : n \in D})
    <3> HIDE DEF key, D
    <3> QED BY <1>1, ImageIsFinite
  <2> QED BY <1>1, <2>1, <2>2 DEF Sold, PaymentRows
<1>3. \A i \in Sold : /\ RowsOf(i) \in SUBSET D /\ IsFiniteSet(RowsOf(i))
                      /\ \A n : n \in group[i] <=> n \in D /\ key[n] = i
                      /\ Cardinality(RowsOf(i)) \in Nat /\ VolumeOf(RowsOf(i)) \in Nat
  <2> SUFFICES ASSUME NEW i \in Sold
               PROVE  /\ RowsOf(i) \in SUBSET D /\ IsFiniteSet(RowsOf(i))
                      /\ \A n : n \in group[i] <=> n \in D /\ key[n] = i
                      /\ Cardinality(RowsOf(i)) \in Nat /\ VolumeOf(RowsOf(i)) \in Nat
    OBVIOUS
  <2>1. RowsOf(i) \in SUBSET D /\ \A n : n \in group[i] <=> n \in D /\ key[n] = i
    BY DEF RowsOf
  <2>2. IsFiniteSet(RowsOf(i))
    BY <1>1, <2>1, FS_Subset
  <2> QED BY <2>1, <2>2, FS_CardinalityType, VolumeType
<1>4. /\ \A i \in Sold : rec[i] \in PerItem /\ group[i] = RowsOf(i)
      /\ \A r \in PerItem : \E i \in Sold : r = rec[i]
  BY DEF PerItem
<1>5. PerItem \in SUBSET ItemStats
  BY <1>2, <1>3 DEF PerItem, ItemStats
<1>6. \A i \in Sold : /\ rec[i] \in PerItem
                      /\ rec[i].item = i
                      /\ field("payments")[rec[i]] = Cardinality(RowsOf(i))
                      /\ field("volume")[rec[i]] = VolumeOf(RowsOf(i))
  BY <1>4
<1>7. \A i, j \in Sold : rec[i] = rec[j] => i = j
  BY <1>6
<1>8. \A n \in D : key[n] \in Sold /\ one[n] = 1 /\ one[n] \in Nat /\ amount[n] \in Nat
  BY <1>1 DEF Sold, PaymentRows
<1>9. Weight(PerItem, "payments") = Count
  <2>1. \A i \in Sold : field("payments")[rec[i]] = SumFunctionOnSet(one, group[i])
    <3> SUFFICES ASSUME NEW i \in Sold
                 PROVE  field("payments")[rec[i]] = SumFunctionOnSet(one, group[i])
      OBVIOUS
    <3> HIDE DEF one, group, field, rec
    <3>1. SumFunctionOnSet(one, group[i]) = Cardinality(RowsOf(i))
      <4>1. SumFunctionOnSet(one, RowsOf(i)) = Cardinality(RowsOf(i))
        BY <1>3, <1>8, SumOfOnes
      <4> QED BY <1>4, <4>1, Zenon
    <3> QED BY <1>6, <3>1
  <2> HIDE DEF field, one, key, rec, group, D
  <2>2. Grouped(D, one, Sold, key, group, rec, PerItem, field("payments"))
    BY <1>1, <1>2, <1>3, <1>4, <1>7, <1>8, <2>1 DEF Grouped
  <2>3. SumFunctionOnSet(field("payments"), PerItem) = SumFunctionOnSet(one, D)
    BY <2>2, SumByGroup
  <2>4. SumFunctionOnSet(one, D) = Count
    BY <1>1, <1>8, SumOfOnes
  <2> QED BY <2>3, <2>4, Zenon DEF Weight, field
<1>10. Weight(PerItem, "volume") = VolumeOf(DOMAIN payments)
  <2>1. \A i \in Sold : field("volume")[rec[i]] = SumFunctionOnSet(amount, group[i])
    <3> SUFFICES ASSUME NEW i \in Sold
                 PROVE  field("volume")[rec[i]] = SumFunctionOnSet(amount, group[i])
      OBVIOUS
    <3>1. VolumeOf(RowsOf(i)) = SumFunctionOnSet(amount, RowsOf(i))
      BY Zenon DEF VolumeOf
    <3> HIDE DEF field, amount, group, rec
    <3> QED BY <1>4, <1>6, <3>1, Zenon
  <2>2. VolumeOf(DOMAIN payments) = SumFunctionOnSet(amount, D)
    BY Zenon DEF VolumeOf
  <2> HIDE DEF field, amount, key, rec, group, D
  <2>3. Grouped(D, amount, Sold, key, group, rec, PerItem, field("volume"))
    BY <1>1, <1>2, <1>3, <1>4, <1>7, <1>8, <2>1 DEF Grouped
  <2>4. SumFunctionOnSet(field("volume"), PerItem) = SumFunctionOnSet(amount, D)
    BY <2>3, SumByGroup
  <2> QED BY <2>2, <2>4, Zenon DEF Weight, field
<1> QED BY <1>5, <1>9, <1>10

\* A call that has yet to answer reads one more field, or misses it.
LEMMA CallReads ==
  ASSUME payments \in Seq(PaymentRows),
         NEW c \in StatsCalls, CallOK(c), c.pc # "answered",
         NEW d \in StatsCalls, d.from = c.from,
         d.payments \in {c.payments, Count},
         d.volume \in {c.volume, VolumeOf(DOMAIN payments)},
         d.buyers = c.buyers \/ d.buyers <= Count,
         d.items = {} \/ (d.items = PerItem /\ d.pc = "answered")
  PROVE  CallOK(d)
<1>1. /\ Count \in Nat /\ VolumeOf(DOMAIN payments) \in Nat
      /\ {c.from, c.payments, c.volume, c.buyers} \subseteq Nat
      /\ {d.from, d.payments, d.volume, d.buyers} \subseteq Nat
  BY TableIsFinite, VolumeType DEF StatsCalls
<1>2. /\ c.from <= Count /\ (c.payments = 0 \/ c.payments \in c.from..Count)
      /\ c.volume <= VolumeOf(DOMAIN payments) /\ c.buyers <= Count
  BY DEF CallOK
<1>3. /\ d.from <= Count /\ (d.payments = 0 \/ d.payments \in d.from..Count)
      /\ d.volume <= VolumeOf(DOMAIN payments) /\ d.buyers <= Count
      /\ d.payments <= Count
  BY <1>1, <1>2
<1>4. CASE d.items = {}
  <2>1. Weight(d.items, "payments") = 0
    BY <1>4, SumOfNone DEF Weight
  <2> QED BY <1>1, <1>3, <1>4, <2>1 DEF CallOK
<1>5. CASE d.items = PerItem /\ d.pc = "answered"
  <2>1. /\ Weight(d.items, "payments") = Count
        /\ Weight(d.items, "volume") = VolumeOf(DOMAIN payments)
    BY <1>5, PerItemAddsUp
  <2> QED BY <1>1, <1>3, <1>5, <2>1 DEF CallOK
<1> QED BY <1>4, <1>5

\* What a call has read stays in order while the table grows.
LEMMA CallsStand ==
  ASSUME payments \in Seq(PaymentRows), StatsOK,
         payments' = payments \/ \E r \in PaymentRows : payments' = Append(payments, r),
         stats' \in [Readers -> StatsCalls],
         \A q \in Readers : \/ stats'[q] = stats[q]
                            \/ payments' = payments /\ CallOK(stats'[q])
  PROVE  StatsOK'
<1> SUFFICES ASSUME NEW q \in Readers PROVE CallOK(stats[q])'
  BY DEF StatsOK
<1> DEFINE c == stats[q]
           d == stats'[q]
<1>1. c \in StatsCalls /\ d \in StatsCalls /\ CallOK(c)
  BY DEF StatsOK
<1>2. /\ Count \in Nat /\ Count' \in Nat /\ Count <= Count'
      /\ VolumeOf(DOMAIN payments) \in Nat /\ VolumeOf(DOMAIN payments)' \in Nat
      /\ VolumeOf(DOMAIN payments) <= VolumeOf(DOMAIN payments)'
  BY TableGrows, TableIsFinite
<1>3. {d.from, d.payments, d.volume, d.buyers} \subseteq Nat
  BY <1>1 DEF StatsCalls
<1>4. CallOK(d)
  <2>1. CASE stats'[q] = stats[q]
    BY <1>1, <2>1, Zenon
  <2> QED BY <2>1
<1>5. /\ d.from <= Count /\ (d.payments = 0 \/ d.payments \in d.from..Count)
      /\ d.volume <= VolumeOf(DOMAIN payments) /\ d.buyers <= Count
      /\ (d.pc # "answered" => d.items = {})
      /\ Weight(d.items, "payments") \in 0..Count
      /\ (d.items # {} =>
            /\ d.payments <= Weight(d.items, "payments")
            /\ d.volume <= Weight(d.items, "volume")
            /\ d.from <= Weight(d.items, "payments")
            /\ d.buyers <= Weight(d.items, "payments"))
  BY <1>4, Zenon DEF CallOK
<1>6. /\ d.from <= Count' /\ (d.payments = 0 \/ d.payments \in d.from..Count')
      /\ d.volume <= VolumeOf(DOMAIN payments)' /\ d.buyers <= Count'
      /\ Weight(d.items, "payments") \in 0..Count'
  BY <1>2, <1>3, <1>5
<1>7. /\ Weight(stats[q].items, "payments")' = Weight(d.items, "payments")
      /\ Weight(stats[q].items, "volume")' = Weight(d.items, "volume")
  BY Zenon DEF Weight
<1> QED BY <1>5, <1>6, <1>7 DEF CallOK

\* A call not made has read nothing.
LEMMA NoStatsOK ==
  ASSUME payments \in Seq(PaymentRows)
  PROVE  NoStats \in StatsCalls /\ CallOK(NoStats)
<1>1. Weight({}, "payments") = 0
  BY SumOfNone DEF Weight
<1>2. Count \in Nat /\ VolumeOf(DOMAIN payments) \in Nat
  BY TableIsFinite, VolumeType
<1>3. /\ NoStats \in StatsCalls /\ NoStats.items = {} /\ NoStats.from = 0
      /\ NoStats.payments = 0 /\ NoStats.volume = 0 /\ NoStats.buyers = 0
  BY DEF NoStats, StatsCalls, ItemStats
<1> QED BY <1>1, <1>2, <1>3 DEF CallOK

\* The initial state satisfies both.
LEMMA StatsInitInv == CatalogInit => LedgerOK /\ StatsOK
<1> SUFFICES ASSUME CatalogInit PROVE LedgerOK /\ StatsOK
  OBVIOUS
<1>1. payments \in Seq(PaymentRows)
  BY DEF CatalogInit
<1>2. LedgerOK
  BY <1>1, CatalogAssumption DEF CatalogInit, LedgerOK, NoSale, Down
<1>3. stats = [q \in Readers |-> NoStats]
  BY DEF CatalogInit
<1>4. StatsOK
  <2>1. NoStats \in StatsCalls /\ CallOK(NoStats)
    BY <1>1, NoStatsOK
  <2>2. \A q \in Readers : stats[q] = NoStats
    BY <1>3
  <2>3. \A q \in Readers : CallOK(stats[q])
    BY <2>1, <2>2, Zenon
  <2> QED BY <1>3, <2>1, <2>3 DEF StatsOK
<1> QED BY <1>2, <1>4

\* A call starts.
LEMMA AskStatsKeeps ==
  ASSUME StatsInv, NEW q \in Readers, AskStats(q)
  PROVE  StatsOK'
<1> DEFINE d == [NoStats EXCEPT !.pc = "payments", !.from = Count]
<1>1. payments \in Seq(PaymentRows) /\ payments' = payments /\ StatsOK
  BY DEF StatsInv, LedgerOK, AskStats
<1>2. NoStats \in StatsCalls /\ CallOK(NoStats) /\ Count \in Nat
  BY <1>1, NoStatsOK, TableIsFinite
<1>3. /\ d \in StatsCalls /\ d.from = Count /\ d.items = {}
      /\ d.payments = 0 /\ d.volume = 0 /\ d.buyers = 0
  BY <1>2 DEF NoStats, StatsCalls, StatsRunning
<1> HIDE DEF d
<1>4. CallOK(d)
  <2>1. Weight(d.items, "payments") = 0
    BY <1>3, SumOfNone DEF Weight
  <2>2. VolumeOf(DOMAIN payments) \in Nat
    BY <1>1, VolumeType
  <2> QED BY <1>2, <1>3, <2>1, <2>2 DEF CallOK
<1>5. stats \in [Readers -> StatsCalls] /\ stats' = [stats EXCEPT ![q] = d]
  BY <1>1 DEF AskStats, StatsOK, d
<1>6. /\ stats' \in [Readers -> StatsCalls] /\ stats'[q] = d
      /\ \A r \in Readers \ {q} : stats'[r] = stats[r]
  BY <1>3, <1>5
<1>7. \A r \in Readers : \/ stats'[r] = stats[r]
                         \/ payments' = payments /\ CallOK(stats'[r])
  BY <1>1, <1>4, <1>6, Zenon
<1> QED BY <1>1, <1>6, <1>7, CallsStand

\* A query sets one field, or none, and goes on to the next.
LEMMA FetchSets ==
  ASSUME stats \in [Readers -> StatsCalls], NEW q \in Readers,
         NEW f \in StatsRunning, NEW v, NEW next, Fetch(q, f, v, next)
  PROVE  /\ stats[q] \in StatsCalls /\ stats[q].pc = f
         /\ \A r \in Readers \ {q} : stats'[r] = stats[r]
         /\ stats'[q] \in StatsCalls => stats' \in [Readers -> StatsCalls]
         /\ \/ stats'[q] = [stats[q] EXCEPT ![f] = v, !.pc = next]
            \/ stats'[q] = [stats[q] EXCEPT !.pc = next]
<1>1. \E d : /\ stats' = [stats EXCEPT ![q] = d]
             /\ \/ d = [stats[q] EXCEPT ![f] = v, !.pc = next]
                \/ d = [stats[q] EXCEPT !.pc = next]
  BY DEF Fetch
<1>2. stats[q].pc = f
  BY DEF Fetch
<1> QED BY <1>1, <1>2

\* A query answers, or fails.
LEMMA FetchKeeps ==
  ASSUME StatsInv, NEW q \in Readers, FetchNext(q)
  PROVE  StatsOK'
<1> DEFINE c == stats[q]
           d == stats'[q]
           buyers == Cardinality({payments[n].buyer : n \in DOMAIN payments})
           sellers == Cardinality({payments[n].seller : n \in DOMAIN payments})
<1>1. payments \in Seq(PaymentRows) /\ payments' = payments /\ StatsOK
  BY DEF StatsInv, LedgerOK, FetchNext, Fetch
<1>2. c \in StatsCalls /\ CallOK(c) /\ stats \in [Readers -> StatsCalls]
  BY <1>1 DEF StatsOK
<1>3. /\ Count \in Nat /\ VolumeOf(DOMAIN payments) \in Nat /\ PerItem \in SUBSET ItemStats
      /\ buyers \in Nat /\ buyers <= Count /\ sellers \in Nat
  <2> DEFINE buyer == [n \in DOMAIN payments |-> payments[n].buyer]
             seller == [n \in DOMAIN payments |-> payments[n].seller]
  <2>1. IsFiniteSet(DOMAIN payments) /\ Cardinality(DOMAIN payments) = Count /\ Count \in Nat
    BY <1>1, TableIsFinite
  <2>2. /\ {payments[n].buyer : n \in DOMAIN payments} = {buyer[n] : n \in DOMAIN payments}
        /\ {payments[n].seller : n \in DOMAIN payments} = {seller[n] : n \in DOMAIN payments}
    OBVIOUS
  <2>3. /\ IsFiniteSet({buyer[n] : n \in DOMAIN payments})
        /\ Cardinality({buyer[n] : n \in DOMAIN payments}) <= Cardinality(DOMAIN payments)
        /\ IsFiniteSet({seller[n] : n \in DOMAIN payments})
    <3> HIDE DEF buyer, seller
    <3> QED BY <2>1, ImageIsFinite
  <2>4. /\ IsFiniteSet({payments[n].buyer : n \in DOMAIN payments})
        /\ IsFiniteSet({payments[n].seller : n \in DOMAIN payments})
        /\ buyers <= Count
    BY <2>1, <2>2, <2>3, Zenon
  <2>5. buyers \in Nat /\ sellers \in Nat
    BY <2>4, FS_CardinalityType
  <2> QED BY <1>1, <2>1, <2>4, <2>5, VolumeType, PerItemAddsUp
<1> HIDE DEF buyers, sellers
<1>4. /\ stats' \in [Readers -> StatsCalls] /\ c.pc # "answered" /\ d.from = c.from
      /\ d.payments \in {c.payments, Count}
      /\ d.volume \in {c.volume, VolumeOf(DOMAIN payments)}
      /\ d.buyers = c.buyers \/ d.buyers <= Count
      /\ d.items = c.items \/ (d.items = PerItem /\ d.pc = "answered")
      /\ \A r \in Readers \ {q} : stats'[r] = stats[r]
  <2>1. CASE Fetch(q, "payments", Count, "volume")
    <3>1. /\ c.pc = "payments" /\ \A r \in Readers \ {q} : stats'[r] = stats[r]
          /\ d \in StatsCalls => stats' \in [Readers -> StatsCalls]
          /\ d \in {[c EXCEPT !.payments = Count, !.pc = "volume"], [c EXCEPT !.pc = "volume"]}
      BY <1>2, <2>1, FetchSets DEF StatsRunning
    <3> HIDE DEF c, d
    <3> QED BY <1>2, <1>3, <3>1 DEF StatsCalls, StatsRunning
  <2>2. CASE Fetch(q, "volume", VolumeOf(DOMAIN payments), "buyers")
    <3>1. /\ c.pc = "volume" /\ \A r \in Readers \ {q} : stats'[r] = stats[r]
          /\ d \in StatsCalls => stats' \in [Readers -> StatsCalls]
          /\ d \in {[c EXCEPT !.volume = VolumeOf(DOMAIN payments), !.pc = "buyers"], [c EXCEPT !.pc = "buyers"]}
      BY <1>2, <2>2, FetchSets DEF StatsRunning
    <3> HIDE DEF c, d
    <3> QED BY <1>2, <1>3, <3>1 DEF StatsCalls, StatsRunning
  <2>3. CASE Fetch(q, "buyers", buyers, "sellers")
    <3>1. /\ c.pc = "buyers" /\ \A r \in Readers \ {q} : stats'[r] = stats[r]
          /\ d \in StatsCalls => stats' \in [Readers -> StatsCalls]
          /\ d \in {[c EXCEPT !.buyers = buyers, !.pc = "sellers"], [c EXCEPT !.pc = "sellers"]}
      BY <1>2, <2>3, FetchSets DEF StatsRunning
    <3> HIDE DEF c, d
    <3> QED BY <1>2, <1>3, <3>1 DEF StatsCalls, StatsRunning
  <2>4. CASE Fetch(q, "sellers", sellers, "items")
    <3>1. /\ c.pc = "sellers" /\ \A r \in Readers \ {q} : stats'[r] = stats[r]
          /\ d \in StatsCalls => stats' \in [Readers -> StatsCalls]
          /\ d \in {[c EXCEPT !.sellers = sellers, !.pc = "items"], [c EXCEPT !.pc = "items"]}
      BY <1>2, <2>4, FetchSets DEF StatsRunning
    <3> HIDE DEF c, d
    <3> QED BY <1>2, <1>3, <3>1 DEF StatsCalls, StatsRunning
  <2>5. CASE Fetch(q, "items", PerItem, "answered")
    <3>1. /\ c.pc = "items" /\ \A r \in Readers \ {q} : stats'[r] = stats[r]
          /\ d \in StatsCalls => stats' \in [Readers -> StatsCalls]
          /\ d \in {[c EXCEPT !.items = PerItem, !.pc = "answered"], [c EXCEPT !.pc = "answered"]}
      BY <1>2, <2>5, FetchSets DEF StatsRunning
    <3> HIDE DEF c, d
    <3> QED BY <1>2, <1>3, <3>1 DEF StatsCalls, StatsRunning
  <2> QED BY <2>1, <2>2, <2>3, <2>4, <2>5, Zenon DEF FetchNext, buyers, sellers
<1>5. c.items = {} /\ d \in StatsCalls
  BY <1>2, <1>4 DEF CallOK
<1> HIDE DEF c, d
<1>6. CallOK(d)
  BY <1>1, <1>2, <1>4, <1>5, CallReads
<1>7. \A r \in Readers : \/ stats'[r] = stats[r]
                         \/ payments' = payments /\ CallOK(stats'[r])
  BY <1>1, <1>4, <1>6, Zenon DEF d
<1> QED BY <1>1, <1>4, <1>7, CallsStand

\* A sale is booked: a row with the item it was about and the seller of this
\* process.
LEMMA BookAppends ==
  ASSUME StatsInv, NEW s \in Sales, NEW b \in Buyers, Book(s, b)
  PROVE  payments' = payments \/ \E r \in PaymentRows : payments' = Append(payments, r)
<1> DEFINE r == [item |-> sale[s].of.item, buyer |-> b, seller |-> server.cfg.seller,
                 amount |-> sale[s].price]
<1>1. /\ sale[s].pc = "quoted" /\ sale[s].of \in Asked /\ sale[s].price \in Nat
      /\ server.pc = "listening" /\ server.cfg \in server.seen /\ server.seen \subseteq Configs
  BY DEF Book, StatsInv, LedgerOK, CatalogInv, ShapeOK, SaleOK, StartOK, Servers, Quotes
<1>2. sale[s].of.item \in Items /\ server.cfg.seller \in Sellers
  BY <1>1, CatalogAssumption
<1>3. r \in PaymentRows
  BY <1>1, <1>2 DEF PaymentRows
<1> QED BY <1>3 DEF Book

\* The shape of the ledger, step by step.
LEMMA LedgerStep ==
  ASSUME StatsInv, CatalogNext
  PROVE  /\ LedgerOK'
         /\ payments' = payments \/ \E r \in PaymentRows : payments' = Append(payments, r)
<1> USE DEF StatsInv, LedgerOK
<1>0. server \in Servers /\ sale \in [Sales -> Quotes] /\ MaxStarts \in Nat
  BY CatalogAssumption DEF CatalogInv, ShapeOK
<1>1. CASE \E c \in Configs : Boot(c)
  BY <1>0, <1>1 DEF Boot
<1>2. CASE StartStep
  <2>1. server'.nr = server.nr /\ UNCHANGED <<payments, sale>>
    BY <1>0, <1>2 DEF StartStep, OpenDatabase, CountItems, SeedItem, Listen, Servers
  <2> QED BY <2>1
<1>3. CASE \E s \in Sales : \E a \in Asked : Quote(s, a)
  <2>1. PICK s \in Sales, a \in Asked : Quote(s, a)
    BY <1>3
  <2>2. UNCHANGED <<payments, server>> /\ sale'[s].of = a /\ \A t \in Sales \ {s} : sale'[t] = sale[t]
    BY <1>0, <2>1 DEF Quote
  <2> QED BY <2>2
<1>4. CASE \E s \in Sales : \E b \in Buyers : Book(s, b)
  <2>1. PICK s \in Sales, b \in Buyers : Book(s, b)
    BY <1>4
  <2>2. payments' = payments \/ \E r \in PaymentRows : payments' = Append(payments, r)
    BY <2>1, BookAppends
  <2>3. payments' \in Seq(PaymentRows)
    BY <2>2
  <2>4. /\ UNCHANGED server /\ sale[s].pc = "quoted" /\ sale'[s].of = sale[s].of
        /\ \A t \in Sales \ {s} : sale'[t] = sale[t]
    BY <1>0, <2>1 DEF Book, Quotes
  <2> QED BY <2>2, <2>3, <2>4
<1>5. CASE \E q \in Readers : AskStats(q) \/ FetchNext(q)
  BY <1>5 DEF AskStats, FetchNext, Fetch
<1>6. CASE Stop
  BY <1>0, <1>6 DEF Stop, NoSale, Down, Servers
<1> QED BY <1>1, <1>2, <1>3, <1>4, <1>5, <1>6 DEF CatalogNext

\* No step disturbs what the calls have read.
LEMMA StatsStep ==
  ASSUME StatsInv, CatalogNext
  PROVE  StatsOK'
<1>1. /\ payments \in Seq(PaymentRows) /\ StatsOK /\ stats \in [Readers -> StatsCalls]
      /\ payments' = payments \/ \E r \in PaymentRows : payments' = Append(payments, r)
  BY LedgerStep DEF StatsInv, LedgerOK, StatsOK
<1>2. CASE UNCHANGED stats
  <2>1. stats' \in [Readers -> StatsCalls] /\ \A q \in Readers : stats'[q] = stats[q]
    BY <1>1, <1>2
  <2> QED BY <1>1, <2>1, CallsStand
<1>3. CASE \E q \in Readers : AskStats(q) \/ FetchNext(q)
  BY <1>3, AskStatsKeeps, FetchKeeps
<1>4. CASE Stop
  <2>1. NoStats \in StatsCalls /\ CallOK(NoStats) /\ payments' = payments
    BY <1>1, <1>4, NoStatsOK DEF Stop
  <2>2. stats' \in [Readers -> StatsCalls] /\ \A q \in Readers : stats'[q] = NoStats
    BY <1>4, <2>1 DEF Stop
  <2>3. \A q \in Readers : payments' = payments /\ CallOK(stats'[q])
    BY <2>1, <2>2, Zenon
  <2> QED BY <1>1, <2>2, <2>3, CallsStand
<1> QED
  BY <1>2, <1>3, <1>4
  DEF CatalogNext, StartStep, Boot, OpenDatabase, CountItems, SeedItem, Listen, Quote, Book

\* Every step keeps the invariant.
LEMMA StatsStepInv ==
  ASSUME StatsInv, [CatalogNext]_vars
  PROVE  StatsInv'
<1>1. CASE CatalogNext
  BY <1>1, CatalogStepInv, LedgerStep, StatsStep DEF StatsInv
<1>2. CASE UNCHANGED vars
  <2>1. CatalogInv'
    BY <1>2, CatalogStepInv DEF StatsInv
  <2>2. LedgerOK'
    BY <1>2 DEF StatsInv, LedgerOK, vars
  <2>3. StatsOK'
    <3>1. /\ payments \in Seq(PaymentRows) /\ StatsOK /\ payments' = payments
          /\ stats' \in [Readers -> StatsCalls] /\ \A q \in Readers : stats'[q] = stats[q]
      BY <1>2 DEF StatsInv, LedgerOK, StatsOK, vars
    <3> QED BY <3>1, CallsStand
  <2> QED BY <2>1, <2>2, <2>3 DEF StatsInv
<1> QED BY <1>1, <1>2

\* The invariant about the ledger and the calls that read it.
THEOREM StatsInvariance == CatalogSpec => []StatsInv
<1>1. CatalogInit => StatsInv
  BY CatalogInitInv, StatsInitInv DEF StatsInv
<1> QED BY <1>1, StatsStepInv, PTL DEF CatalogSpec

\* The shape of every variable.
THEOREM CatalogTypes == CatalogSpec => []CatalogTypeOK
<1>1. StatsInv => CatalogTypeOK
  <2> SUFFICES ASSUME StatsInv PROVE CatalogTypeOK
    OBVIOUS
  <2>1. server \in [pc : {"down", "listening"} \cup Starting, cfg : Configs \cup {NoConfig},
                    todo : SUBSET Items, seen : SUBSET Configs, nr : 0..MaxStarts,
                    unread : BOOLEAN]
    BY DEF StatsInv, LedgerOK, CatalogInv, ShapeOK, Servers
  <2>2. payments \in Seq([item : Items, buyer : Buyers, seller : Sellers, amount : Nat])
    BY DEF StatsInv, LedgerOK, PaymentRows
  <2>3. stats \in [Readers -> [pc : {"idle", "answered"} \cup StatsRunning,
                               payments : Nat, volume : Nat, buyers : Nat, sellers : Nat,
                               items : SUBSET [item : Items, payments : Nat, volume : Nat],
                               from : Nat]]
    BY Zenon DEF StatsInv, StatsOK, StatsCalls, ItemStats
  <2>4. /\ items \in [Items -> Rows \cup {NoRow}]
        /\ sale \in [Sales -> [pc : {"idle", "quoted", "done"}, of : Asked \cup {NoItem},
                               price : Nat, answered : BOOLEAN]]
    BY Zenon DEF StatsInv, CatalogInv, ShapeOK, Quotes
  <2> QED BY <2>1, <2>2, <2>3, <2>4, Zenon DEF CatalogTypeOK
<1> QED BY <1>1, StatsInvariance, PTL

\* The answer of get_stats, put together from five moments: its parts disagree
\* in one direction only, and none is ahead of the table.
THEOREM StatsParts == CatalogSpec => []StatsAddUp
<1>1. StatsInv => StatsAddUp
  <2> SUFFICES ASSUME StatsInv, NEW q \in Readers
               PROVE  /\ stats[q].items # {} =>
                            /\ stats[q].payments <= InAllItems(q, "payments")
                            /\ stats[q].volume <= InAllItems(q, "volume")
                            /\ stats[q].from <= InAllItems(q, "payments")
                            /\ stats[q].buyers <= InAllItems(q, "payments")
                      /\ InAllItems(q, "payments") <= Count
                      /\ stats[q].payments = 0 \/ stats[q].payments \in stats[q].from..Count
    BY DEF StatsAddUp
  <2>1. CallOK(stats[q]) /\ payments \in Seq(PaymentRows)
    BY DEF StatsInv, StatsOK, LedgerOK
  <2>2. /\ InAllItems(q, "payments") = Weight(stats[q].items, "payments")
        /\ InAllItems(q, "volume") = Weight(stats[q].items, "volume")
    BY Zenon DEF InAllItems, Weight
  <2>3. Count \in Nat
    BY <2>1, TableIsFinite
  <2> QED BY <2>1, <2>2, <2>3 DEF CallOK
<1> QED BY <1>1, StatsInvariance, PTL
=============================================================================

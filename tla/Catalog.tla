------------------------------ MODULE Catalog ------------------------------
(***************************************************************************)
(* The item catalogue of access-gated-server: the table items, filled by   *)
(* seed_from_json when a start finds it empty (main.rs), read by the       *)
(* handlers for every price, and joined with the table payments by         *)
(* get_stats (access.rs).                                                  *)
(*                                                                         *)
(* Both tables outlive the process.  The environment and items.json may be *)
(* edited between two starts.  What lies between a quote and the row in    *)
(* payments, a payment or none, is the subject of BuyAccess and Streaming. *)
(***************************************************************************)
EXTENDS Sequences, FiniteSets, Functions

CONSTANTS
    Items,       \* item ids
    Buyers,
    Sellers,     \* what SELLER_ADDRESS may be
    Configs,     \* what a start may find in its environment and items.json
    NoConfig,
    Unset,       \* a price items.json leaves out
    NoRow,
    NoItem,
    Sales,       \* the purchases one process may see
    Asked,       \* the [item, mode] they are about
    Readers,     \* the calls of get_stats that may run at a time
    MaxStarts,   \* bound on the starts of the process
    MaxRows,     \* bound on the rows of payments
    Faults       \* "db": a SQLite statement fails; "crash": the process stops

Modes == {"buy", "chunk"}     \* buy_price_atomic, chunk_price_atomic

ASSUME CatalogAssumption ==
    /\ \A c \in Configs :
          /\ DOMAIN c.file \subseteq Items
          /\ \A i \in DOMAIN c.file : c.file[i] \in [Modes -> Nat \cup {Unset}]
          /\ c.default \in [Modes -> Nat]
          /\ c.seller \in Sellers
    /\ NoConfig \notin Configs
    /\ Unset \notin Nat
    /\ NoRow \notin [Modes -> Nat]
    /\ Asked \subseteq [item : Items, mode : Modes]
    /\ {MaxStarts, MaxRows} \subseteq Nat
    /\ Faults \subseteq {"db", "crash"}

VARIABLES
    items,       \* the table items: [Items -> prices or NoRow]
    payments,    \* the table payments, in insertion order
    server,      \* the process: how far its start is, what is left to seed
    sale,        \* [Sales -> a quote of this process and what became of it]
    stats        \* [Readers -> a call of get_stats]

vars == <<items, payments, server, sale, stats>>

\* The fields seen, nr, unread, answered and from are for the properties and the
\* bounds: the configurations and the number of the starts so far, whether
\* get_items failed in this one, whether get_item answered, and the length of
\* payments when get_stats was called.
Down == [pc |-> "down", cfg |-> NoConfig, todo |-> {}, seen |-> {}, nr |-> 0,
         unread |-> FALSE]
NoSale == [pc |-> "idle", of |-> NoItem, price |-> 0, answered |-> FALSE]
NoStats == [pc |-> "idle", payments |-> 0, volume |-> 0, buyers |-> 0, sellers |-> 0,
            items |-> {}, from |-> 0]

CatalogInit ==
    /\ items = [i \in Items |-> NoRow]
    /\ payments = <<>>
    /\ server = Down
    /\ sale = [s \in Sales |-> NoSale]
    /\ stats = [q \in Readers |-> NoStats]

----------------------------------------------------------------------------
\* Startup.

\* The process is started with whatever it finds; a missing or unreadable
\* items.json is one without items.
Boot(c) ==
    /\ server.pc = "down"
    /\ server.nr < MaxStarts
    /\ server' = [pc |-> "opening", cfg |-> c, todo |-> {}, seen |-> server.seen \cup {c},
                  nr |-> server.nr + 1, unread |-> FALSE]
    /\ UNCHANGED <<items, payments, sale, stats>>

\* AccessManager::new creates the tables that are missing; if it fails, main
\* returns its error.
OpenDatabase ==
    /\ server.pc = "opening"
    /\ \/ server' = [server EXCEPT !.pc = "counting"]
       \/ "db" \in Faults /\ server' = [server EXCEPT !.pc = "down"]
    /\ UNCHANGED <<items, payments, sale, stats>>

TableEmpty == \A i \in Items : items[i] = NoRow

\* Mutant: what is in the table is not asked.
CountItemsAlwaysSeeds ==
    /\ server.pc = "counting"
    /\ server' = [server EXCEPT !.pc = "seeding", !.todo = DOMAIN server.cfg.file]
    /\ UNCHANGED <<items, payments, sale, stats>>

\* get_items().await.unwrap_or_default(): a query that fails reads as a table
\* without rows.
CountItems ==
    /\ server.pc = "counting"
    /\ \/ /\ TableEmpty
          /\ server' = [server EXCEPT !.pc = "seeding", !.todo = DOMAIN server.cfg.file]
       \/ ~TableEmpty /\ server' = [server EXCEPT !.pc = "seeding"]
       \/ /\ "db" \in Faults
          /\ server' = [server EXCEPT !.pc = "seeding", !.todo = DOMAIN server.cfg.file,
                                      !.unread = TRUE]
    /\ UNCHANGED <<items, payments, sale, stats>>

\* Mutant: without the defaults.
SeededBare(c, i) == c.file[i]

\* The prices of the file, or the defaults of this start.
Seeded(c, i) == [m \in Modes |-> IF c.file[i][m] = Unset THEN c.default[m] ELSE c.file[i][m]]

\* Mutant: an item that is there keeps its chunk price.
SeedItemMerges ==
    /\ \E i \in server.todo :
          /\ \/ items' = [items EXCEPT ![i] =
                            IF @ = NoRow THEN Seeded(server.cfg, i)
                            ELSE [@ EXCEPT !["buy"] = Seeded(server.cfg, i)["buy"]]]
             \/ "db" \in Faults /\ UNCHANGED items
          /\ server' = [server EXCEPT !.todo = @ \ {i}]
    /\ UNCHANGED <<payments, sale, stats>>

\* upsert_item (INSERT OR REPLACE) of one entry; the map has no order, and a
\* failure is logged and passed over.  There is something to seed only between
\* CountItems and Listen.
SeedItem ==
    /\ \E i \in server.todo :
          /\ \/ items' = [items EXCEPT ![i] = Seeded(server.cfg, i)]
             \/ "db" \in Faults /\ UNCHANGED items
          /\ server' = [server EXCEPT !.todo = @ \ {i}]
    /\ UNCHANGED <<payments, sale, stats>>

\* Mutant: the seed is left to a task of its own.
ListenEarly ==
    /\ server.pc = "seeding"
    /\ server' = [server EXCEPT !.pc = "listening"]
    /\ UNCHANGED <<items, payments, sale, stats>>

Listen ==
    /\ server.pc = "seeding"
    /\ server.todo = {}
    /\ server' = [server EXCEPT !.pc = "listening", !.unread = FALSE]
    /\ UNCHANGED <<items, payments, sale, stats>>

----------------------------------------------------------------------------
\* What the handlers do with the two tables.

\* get_item for a price: the item's, or the default if there is no row or no
\* answer.
Quote(s, a) ==
    /\ server.pc = "listening"
    /\ sale[s] = NoSale
    /\ \E answered \in {TRUE} \cup (IF "db" \in Faults THEN {FALSE} ELSE {}) :
          sale' = [sale EXCEPT ![s] =
                    [pc |-> "quoted", of |-> a, answered |-> answered,
                     price |-> IF answered /\ items[a.item] # NoRow
                               THEN items[a.item][a.mode] ELSE server.cfg.default[a.mode]]]
    /\ UNCHANGED <<items, payments, server, stats>>

\* log_payment of a sale that was settled; its error is ignored.
Book(s, b) ==
    /\ sale[s].pc = "quoted"
    /\ \/ /\ Len(payments) < MaxRows
          /\ payments' = Append(payments, [item |-> sale[s].of.item, buyer |-> b,
                                           seller |-> server.cfg.seller,
                                           amount |-> sale[s].price])
       \/ "db" \in Faults /\ UNCHANGED payments
    /\ sale' = [sale EXCEPT ![s].pc = "done"]
    /\ UNCHANGED <<items, server, stats>>

----------------------------------------------------------------------------
\* get_stats: five queries, one after another, each on the table as it then is
\* and each with a value to put in its place if it fails.

Count == Len(payments)
VolumeOf(rows) == SumFunctionOnSet([n \in DOMAIN payments |-> payments[n].amount], rows)
RowsOf(i) == {n \in DOMAIN payments : payments[n].item = i}
Sold == {payments[n].item : n \in DOMAIN payments}

\* Mutant: an inner join with the table items.
PerItemJoined ==
    {[item |-> i, payments |-> Cardinality(RowsOf(i)), volume |-> VolumeOf(RowsOf(i))] :
        i \in {j \in Sold : items[j] # NoRow}}

\* GROUP BY item; the LEFT JOIN keeps items that are not in the catalogue.
PerItem ==
    {[item |-> i, payments |-> Cardinality(RowsOf(i)), volume |-> VolumeOf(RowsOf(i))] :
        i \in Sold}

AskStats(q) ==
    /\ server.pc = "listening"
    /\ stats[q] = NoStats
    /\ stats' = [stats EXCEPT ![q] = [NoStats EXCEPT !.pc = "payments", !.from = Count]]
    /\ UNCHANGED <<items, payments, server, sale>>

\* The query for field f answers v, or it fails and the field stays empty.
Fetch(q, f, v, next) ==
    /\ stats[q].pc = f
    /\ \/ stats' = [stats EXCEPT ![q] = [@ EXCEPT ![f] = v, !.pc = next]]
       \/ "db" \in Faults /\ stats' = [stats EXCEPT ![q].pc = next]
    /\ UNCHANGED <<items, payments, server, sale>>

FetchNext(q) ==
    \/ Fetch(q, "payments", Count, "volume")
    \/ Fetch(q, "volume", VolumeOf(DOMAIN payments), "buyers")
    \/ Fetch(q, "buyers", Cardinality({payments[n].buyer : n \in DOMAIN payments}), "sellers")
    \/ Fetch(q, "sellers", Cardinality({payments[n].seller : n \in DOMAIN payments}), "items")
    \/ Fetch(q, "items", PerItem, "answered")

----------------------------------------------------------------------------
\* The process stops, at any point of its start or later.

Stop ==
    /\ "crash" \in Faults
    /\ server.pc # "down"
    /\ server' = [Down EXCEPT !.seen = server.seen, !.nr = server.nr]
    /\ sale' = [s \in Sales |-> NoSale]
    /\ stats' = [q \in Readers |-> NoStats]
    /\ UNCHANGED <<items, payments>>

StartStep == OpenDatabase \/ CountItems \/ SeedItem \/ Listen

CatalogNext ==
    \/ \E c \in Configs : Boot(c)
    \/ StartStep
    \/ \E s \in Sales : \/ \E a \in Asked : Quote(s, a)
                        \/ \E b \in Buyers : Book(s, b)
    \/ \E q \in Readers : AskStats(q) \/ FetchNext(q)
    \/ Stop

CatalogSpec == CatalogInit /\ [][CatalogNext]_vars

----------------------------------------------------------------------------
\* Properties.

Rows == [Modes -> Nat]
StatsRunning == {"payments", "volume", "buyers", "sellers", "items"}
Starting == {"opening", "counting", "seeding"}

\* The shape of every variable.
CatalogTypeOK ==
    /\ items \in [Items -> Rows \cup {NoRow}]
    /\ payments \in Seq([item : Items, buyer : Buyers, seller : Sellers, amount : Nat])
    /\ server \in [pc : {"down", "listening"} \cup Starting, cfg : Configs \cup {NoConfig},
                   todo : SUBSET Items, seen : SUBSET Configs, nr : 0..MaxStarts,
                   unread : BOOLEAN]
    /\ sale \in [Sales -> [pc : {"idle", "quoted", "done"}, of : Asked \cup {NoItem},
                            price : Nat, answered : BOOLEAN]]
    /\ stats \in [Readers -> [pc : {"idle", "answered"} \cup StatsRunning,
                               payments : Nat, volume : Nat, buyers : Nat, sellers : Nat,
                               items : SUBSET [item : Items, payments : Nat, volume : Nat],
                               from : Nat]]

\* Starts that stop halfway, fail to insert or find other files and defaults
\* than the ones before never leave a row of two minds: both prices of an item
\* are what one start read for it.
RowsFromOneStart ==
    \A i \in Items : items[i] # NoRow =>
        \E c \in server.seen : i \in DOMAIN c.file /\ items[i] = Seeded(c, i)

\* What is in the catalogue keeps its prices, whatever later starts find in
\* their environment, unless get_items failed in one of them.
RowsSurvive ==
    [][\A i \in Items : items[i] # NoRow /\ items'[i] # items[i] => server.unread]_vars

\* The other handlers rely on this: from the first request of a process to its
\* last an item has one price, so the probe and the paid request are told the
\* same, but for a query that fails.
QuotesAgree ==
    \A s, t \in Sales :
        sale[s].answered /\ sale[t].answered /\ sale[s].of = sale[t].of
            => sale[s].price = sale[t].price

InAllItems(q, f) == SumFunctionOnSet([e \in stats[q].items |-> e[f]], stats[q].items)

\* The parts of a Stats are of different moments.  They may disagree in one
\* direction only, the later query knowing more, and no number is older than
\* the call or ahead of the table.
StatsAddUp ==
    \A q \in Readers : stats[q].pc = "answered" =>
        /\ stats[q].items # {} =>
              /\ stats[q].payments <= InAllItems(q, "payments")
              /\ stats[q].volume <= InAllItems(q, "volume")
              /\ stats[q].from <= InAllItems(q, "payments")
              /\ stats[q].buyers <= InAllItems(q, "payments")
        /\ InAllItems(q, "payments") <= Count
        /\ stats[q].payments = 0 \/ stats[q].payments \in stats[q].from..Count
=============================================================================

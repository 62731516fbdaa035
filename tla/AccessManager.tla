--------------------------- MODULE AccessManager ---------------------------
(***************************************************************************)
(* AccessManager (access.rs) over its SQLite cache, MediaAccessClient      *)
(* (media-access/src/lib.rs) and MediaAccess.sol.                          *)
(*                                                                         *)
(* check_access(wallet, content) and grant_and_record(wallet, content) are *)
(* async functions: they run one step up to each .await, and the steps of  *)
(* all calls interleave.  A call is identified by the HTTP request that    *)
(* makes it; a request makes at most one of each.  A grant runs in a task  *)
(* of its own, so it outlives the request.                                 *)
(*                                                                         *)
(* A cache row is abstracted to verified_at: granted_at is never read.     *)
(***************************************************************************)
EXTENDS Environment, Sequences

CONSTANTS
    Contents,     \* content ids (bytes32)
    CacheTtl,     \* cache_ttl_secs, in ticks
    Seller,       \* the account of SELLER_PRIVATE_KEY
    Owners,       \* the accounts that may have deployed the contract
    Genesis,      \* what the contract grants before the run
    NoRow,        \* no cache row
    NoKey         \* the key of a call not made

Keys == Wallets \X Contents        \* primary key of access_cache
Pairs == Addresses \X Contents     \* _access[wallet][contentId]

ASSUME AccessAssumption ==
    /\ CacheTtl \in Nat
    /\ Genesis \subseteq Pairs
    /\ NoRow \notin Nat
    /\ NoKey \notin Keys

VARIABLES
    cache,     \* the access_cache table: [Keys -> verified_at or NoRow]
    access,    \* the contract's _access mapping: the pairs that are true
    txs,       \* the seller's transactions the node accepted, by nonce
    mined,     \* how many of them are in a block
    owner,     \* the contract's immutable owner, the account that deployed it
    check,     \* [Requests -> its call of check_access]
    grant      \* [Requests -> its call of grant_and_record]

chainVars == <<access, txs, mined, owner>>
accessVars == <<now, cache, chainVars, check, grant>>

NoCheck == [pc |-> "idle", key |-> NoKey, started |-> 0]
NoGrant == [pc |-> "idle", key |-> NoKey, nonce |-> 0, at |-> 0]

Pair(k) == <<AddrOf[k[1]], k[2]>>
Owns(k) == Parses(k[1]) /\ Pair(k) \in access

AccessInit ==
    /\ now = 0
    /\ cache = [k \in Keys |-> NoRow]
    /\ access = Genesis
    /\ txs = <<>>
    /\ mined = 0
    /\ owner \in Owners
    /\ check = [r \in Requests |-> NoCheck]
    /\ grant = [r \in Requests |-> NoGrant]

----------------------------------------------------------------------------
\* The contract and the node.

\* grantAccess reverts for every sender but the owner (modifier onlyOwner).
Reverts == Seller # owner

\* The next transaction of the seller's account enters a block.
MineTx ==
    /\ mined < Len(txs)
    /\ mined' = mined + 1
    /\ access' = access \cup (IF Reverts THEN {} ELSE {txs[mined + 1]})
    /\ UNCHANGED <<now, cache, txs, owner, check, grant>>

----------------------------------------------------------------------------
\* check_access

\* The call reads the clock before it first waits.
CheckAccess(r, k) ==
    /\ check[r] = NoCheck
    /\ check' = [check EXCEPT ![r] = [pc |-> "cache", key |-> k, started |-> now]]

\* The locals of a call that has answered are dead.
Answered(r, a) ==
    check' = [check EXCEPT ![r] = [pc |-> a, key |-> @.key, started |-> 0]]
CheckAt(r, pc) == check' = [check EXCEPT ![r].pc = pc]

Fresh(r) ==
    LET row == cache[check[r].key]
    IN  row # NoRow /\ SaturatingSub(check[r].started, row) < CacheTtl

ReadCache(r) ==
    /\ check[r].pc = "cache"
    /\ \/ "db" \in Faults /\ Answered(r, "err")
       \/ Fresh(r) /\ Answered(r, "true")
       \/ ~Fresh(r) /\ ~Parses(check[r].key[1]) /\ Answered(r, "err")
       \/ ~Fresh(r) /\ Parses(check[r].key[1]) /\ CheckAt(r, "chain")
    /\ UNCHANGED <<now, cache, chainVars, grant>>

\* Mutant: has_access(...).unwrap_or(false), a failed call taken for a "no".
AskChainUnwrapOr(r) ==
    /\ check[r].pc = "chain"
    /\ \/ "rpc" \in Faults /\ Answered(r, "false")
       \/ Pair(check[r].key) \in access /\ CheckAt(r, "record")
       \/ Pair(check[r].key) \notin access /\ Answered(r, "false")
    /\ UNCHANGED <<now, cache, chainVars, grant>>

\* Mutant: the row is written whatever the chain said.
AskChainRecordsNo(r) ==
    /\ check[r].pc = "chain"
    /\ CheckAt(r, "record")
    /\ UNCHANGED <<now, cache, chainVars, grant>>

AskChain(r) ==
    /\ check[r].pc = "chain"
    /\ \/ "rpc" \in Faults /\ Answered(r, "err")
       \/ Pair(check[r].key) \in access /\ CheckAt(r, "record")
       \/ Pair(check[r].key) \notin access /\ Answered(r, "false")
    /\ UNCHANGED <<now, cache, chainVars, grant>>

\* write_cache: the row carries the given time, older or newer than before.
WriteCache(k, t) == cache' = [cache EXCEPT ![k] = t]

\* The time written is the one read when the call began; a failed write
\* turns the chain's yes into an error ("unwritten"), which the caller cannot
\* tell from any other.
RecordCheck(r) ==
    /\ check[r].pc = "record"
    /\ \/ "db" \in Faults /\ Answered(r, "unwritten") /\ UNCHANGED cache
       \/ Answered(r, "true") /\ WriteCache(check[r].key, check[r].started)
    /\ UNCHANGED <<now, chainVars, grant>>

----------------------------------------------------------------------------
\* grant_and_record

SpawnGrant(r, k) ==
    /\ grant[r] = NoGrant
    /\ grant' = [grant EXCEPT ![r] = [pc |-> "start", key |-> k, nonce |-> 0, at |-> 0]]

GrantAt(r, pc) == grant' = [grant EXCEPT ![r].pc = pc]

\* Mutant: the transaction counts from one.
GrantPrepareOffByOne(r) ==
    /\ grant[r].pc = "start"
    /\ \/ (~Parses(grant[r].key[1]) \/ Reverts) /\ GrantAt(r, "failed")
       \/ /\ Parses(grant[r].key[1]) /\ ~Reverts
          /\ \E n \in {mined, Len(txs) + 1} :
                grant' = [grant EXCEPT ![r] =
                            [pc |-> "prepared", key |-> @.key, nonce |-> n, at |-> 0]]
    /\ UNCHANGED <<now, cache, chainVars, check>>

\* Parse the wallet, then let the provider's fillers estimate gas (which runs
\* the call) and read the account nonce.  Every call builds a new provider, so
\* concurrent grants read the nonce independently; the node counts either the
\* mined or all accepted transactions.
GrantPrepare(r) ==
    /\ grant[r].pc = "start"
    /\ \/ /\ \/ ~Parses(grant[r].key[1])
             \/ Reverts
             \/ "rpc" \in Faults
          /\ GrantAt(r, "failed")
       \/ /\ Parses(grant[r].key[1])
          /\ ~Reverts
          /\ \E n \in {mined, Len(txs)} :
                grant' = [grant EXCEPT ![r] =
                            [pc |-> "prepared", key |-> @.key, nonce |-> n, at |-> 0]]
    /\ UNCHANGED <<now, cache, chainVars, check>>

\* The node accepts the nonce that follows the transactions it has and rejects
\* a used one; nothing retries a rejected send.
Accepts(n) == n = Len(txs)
\* Mutants: access for the sender instead of the buyer; the wallet not parsed.
AcceptTxForSeller(k) == txs' = Append(txs, <<Seller, k[2]>>)
AcceptTxUnparsed(k) == txs' = Append(txs, k)
AcceptTx(k) == txs' = Append(txs, Pair(k))

GrantSend(r) ==
    /\ grant[r].pc = "prepared"
    /\ \/ Accepts(grant[r].nonce) /\ AcceptTx(grant[r].key) /\ GrantAt(r, "pending")
       \/ ~Accepts(grant[r].nonce) /\ UNCHANGED txs /\ GrantAt(r, "failed")
       \/ /\ "rpc" \in Faults       \* the request or its answer is lost
          /\ \/ UNCHANGED txs
             \/ Accepts(grant[r].nonce) /\ AcceptTx(grant[r].key)
          /\ GrantAt(r, "failed")
    /\ UNCHANGED <<now, cache, access, mined, owner, check>>

\* Mutant: the receipt of the transaction before.
GrantReceiptOffByOne(r) ==
    /\ grant[r].pc = "pending"
    /\ grant[r].nonce <= mined
    /\ grant' = [grant EXCEPT ![r] =
                    [pc |-> "confirmed", key |-> @.key, nonce |-> @.nonce, at |-> now]]
    /\ UNCHANGED <<now, cache, chainVars, check>>

\* get_receipt waits for the transaction to be mined, without a timeout.
GrantReceipt(r) ==
    /\ grant[r].pc = "pending"
    /\ \/ /\ grant[r].nonce < mined
          /\ grant' = [grant EXCEPT ![r] =
                          [pc |-> "confirmed", key |-> @.key, nonce |-> @.nonce, at |-> now]]
       \/ "rpc" \in Faults /\ GrantAt(r, "failed")
    /\ UNCHANGED <<now, cache, chainVars, check>>

GrantRecord(r) ==
    /\ grant[r].pc = "confirmed"
    /\ \/ GrantAt(r, "done") /\ WriteCache(grant[r].key, grant[r].at)
       \/ "db" \in Faults /\ GrantAt(r, "failed") /\ UNCHANGED cache
    /\ UNCHANGED <<now, chainVars, check>>

----------------------------------------------------------------------------
\* The process.

CheckRunning == {"cache", "chain", "record"}
CheckFailed == {"err", "unwritten"}
GrantRunning == {"start", "prepared", "pending", "confirmed"}

Gone(call, running) ==
    [r \in Requests |->
        IF call[r].pc \in running THEN [call[r] EXCEPT !.pc = "gone"] ELSE call[r]]

\* hyper drops the future of a handler whose client is gone, at any await; the
\* grant is a task of its own and goes on.
DropCheck(r) ==
    /\ "disconnect" \in Faults
    /\ check[r].pc \in CheckRunning
    /\ CheckAt(r, "gone")
    /\ UNCHANGED <<now, cache, chainVars, grant>>

\* The process stops and starts again: all calls are gone, the database and
\* the chain stay.
LoseCalls ==
    /\ check' = Gone(check, CheckRunning)
    /\ grant' = Gone(grant, GrantRunning)

Restart == "crash" \in Faults /\ LoseCalls /\ UNCHANGED <<now, cache, chainVars>>

CheckStep(r) == ReadCache(r) \/ AskChain(r) \/ RecordCheck(r)
GrantStep(r) == GrantPrepare(r) \/ GrantSend(r) \/ GrantReceipt(r) \/ GrantRecord(r)

PassTime ==
    /\ Tick \/ ClockSetBack
    /\ UNCHANGED <<cache, chainVars, check, grant>>

CallCheck(r, k) == CheckAccess(r, k) /\ UNCHANGED <<now, cache, chainVars, grant>>
CallGrant(r, k) == SpawnGrant(r, k) /\ UNCHANGED <<now, cache, chainVars, check>>

AccessNext ==
    \/ \E r \in Requests :
          \/ CheckStep(r)
          \/ GrantStep(r)
          \/ DropCheck(r)
          \/ \E k \in Keys : CallCheck(r, k) \/ CallGrant(r, k)
    \/ MineTx
    \/ Restart
    \/ PassTime

AccessSpec == AccessInit /\ [][AccessNext]_accessVars

----------------------------------------------------------------------------
\* Properties.

CheckPcs == {"idle", "true", "false", "gone"} \cup CheckRunning \cup CheckFailed
GrantPcs == {"idle", "done", "failed", "gone"} \cup GrantRunning
CheckCalls == [pc : CheckPcs, key : Keys \cup {NoKey}, started : Nat]
GrantCalls == [pc : GrantPcs, key : Keys \cup {NoKey}, nonce : Nat, at : Nat]

\* The shape of every variable.
AccessTypeOK ==
    /\ ClockTypeOK
    /\ cache \in [Keys -> Nat \cup {NoRow}]
    /\ access \subseteq Pairs
    /\ txs \in Seq(Pairs)
    /\ mined \in 0..Len(txs)
    /\ owner \in Owners
    /\ check \in [Requests -> CheckCalls]
    /\ grant \in [Requests -> GrantCalls]

\* A row of access_cache is a fact of the chain: whoever the fast path admits
\* for a whole TTL without asking owns the content on chain, whichever of the
\* two writers wrote the row, in whatever order, across restarts.
CacheSound == \A k \in Keys : cache[k] # NoRow => Owns(k)

\* A grant that reports a transaction hash is on chain: "confirmed" means
\* mined, not merely accepted by the node.
ConfirmedOnChain ==
    \A r \in Requests : grant[r].pc \in {"confirmed", "done"} => Owns(grant[r].key)

\* Nothing appears on chain that no grant asked for: every new pair is the
\* wallet and content some call of grant_and_record was given.
NothingUngranted ==
    \A p \in access \ Genesis :
        \E r \in Requests : grant[r].pc # "idle" /\ Pair(grant[r].key) = p

\* Without failures outside the code, a grant to a well-formed wallet is lost
\* in one way only: a concurrent grant used the nonce it had read.
LostOnlyToARace ==
    \A r \in Requests :
        /\ grant[r].pc = "failed"
        /\ Parses(grant[r].key[1])
        /\ ~Reverts
        => \E q \in Requests \ {r} :
              /\ grant[q].pc \in {"pending", "confirmed", "done"}
              /\ grant[q].nonce = grant[r].nonce

\* A call in progress: the record behind "record" and the mined transaction
\* behind "confirmed" are on chain, and an accepted transaction is the grant's.
CallsConsistent ==
    /\ \A r \in Requests :
          /\ check[r].pc # "idle" => check[r].key \in Keys
          /\ check[r].pc \in {"chain", "record"} => Parses(check[r].key[1])
          /\ check[r].pc = "record" => Pair(check[r].key) \in access
    /\ \A r \in Requests :
          /\ grant[r].pc # "idle" => grant[r].key \in Keys
          /\ grant[r].pc \in {"prepared", "pending", "confirmed", "done"}
                => Parses(grant[r].key[1]) /\ ~Reverts
          /\ grant[r].pc = "pending"
                => grant[r].nonce < Len(txs) /\ txs[grant[r].nonce + 1] = Pair(grant[r].key)

\* The contract holds what was there before and what was mined since, and
\* every transaction is some grant's.
ChainConsistent ==
    /\ txs # <<>> => ~Reverts
    /\ access = Genesis \cup {txs[i] : i \in 1..mined}
    /\ \A i \in 1..Len(txs) :
          \E r \in Requests : grant[r].pc # "idle" /\ Pair(grant[r].key) = txs[i]

\* The inductive strengthening of the safety properties above.
AccessIInv ==
    /\ AccessTypeOK
    /\ CacheSound
    /\ ConfirmedOnChain
    /\ CallsConsistent
    /\ ChainConsistent

\* check_access seen from outside: see AccessOracle.
OracleState(pc) ==
    CASE pc \in CheckRunning -> "asked"
      [] pc \in CheckFailed -> "err"
      [] OTHER -> pc

Oracle == INSTANCE AccessOracle WITH
    Callers <- Requests, Questions <- Keys, Records <- Pairs,
    Subject <- Pair, NoQuestion <- NoKey, Initially <- Genesis,
    registry <- access,
    call <- [r \in Requests |->
               [state |-> OracleState(check[r].pc), question |-> check[r].key]]

\* Cache, database, RPC and clock never show: every answer agrees with the
\* contract at one moment between the call and the answer.
CheckIsLinearizable == Oracle!OracleSpec
=============================================================================

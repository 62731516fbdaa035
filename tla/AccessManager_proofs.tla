------------------------ MODULE AccessManager_proofs ------------------------
(***************************************************************************)
(* What AccessManager guarantees for any number of requests, wallets and   *)
(* items, any TTL and any mix of failures: AccessIInv is inductive, the    *)
(* safety properties follow from it, and check_access implements           *)
(* AccessOracle.                                                           *)
(***************************************************************************)
EXTENDS AccessManager, TLAPS

\* The initial state satisfies the invariant.
LEMMA AccessInitIInv == AccessInit => AccessIInv
  BY AccessAssumption, EnvironmentAssumption
  DEF AccessInit, AccessIInv, AccessTypeOK, ClockTypeOK, CacheSound, ConfirmedOnChain,
      CallsConsistent, Reverts, ChainConsistent, NoCheck, NoGrant, CheckCalls, GrantCalls, CheckPcs, CheckFailed,
      GrantPcs, CheckRunning

----------------------------------------------------------------------------
\* check_access

\* A step that moves only calls of check_access leaves the cache, the chain
\* and the grants as consistent as they were.
LEMMA ChecksOnly ==
  ASSUME AccessIInv, UNCHANGED <<cache, chainVars, grant>>
  PROVE  CacheSound' /\ ConfirmedOnChain' /\ ChainConsistent'
  BY DEF AccessIInv, CacheSound, ConfirmedOnChain, ChainConsistent, Reverts, Owns, Pair, chainVars

\* Calling check_access claims nothing yet beyond the key.
LEMMA CallCheckIInv ==
  ASSUME AccessIInv, NEW r \in Requests, NEW k \in Keys, CallCheck(r, k)
  PROVE  AccessIInv'
<1>1. AccessTypeOK'
  BY DEF AccessIInv, AccessTypeOK, ClockTypeOK, CallCheck, CheckAccess, CheckCalls, CheckPcs, CheckFailed,
         CheckRunning, chainVars
<1>2. CacheSound' /\ ConfirmedOnChain' /\ ChainConsistent'
  BY ChecksOnly DEF CallCheck
<1>3. CallsConsistent'
  BY DEF AccessIInv, AccessTypeOK, CheckCalls, CallsConsistent, Reverts, Pair, CallCheck, CheckAccess, chainVars
<1> QED BY <1>1, <1>2, <1>3 DEF AccessIInv

\* An answer ends a call that has a key.
LEMMA AnsweredIInv ==
  ASSUME AccessIInv, NEW r \in Requests, NEW a \in {"true", "false", "err", "unwritten"},
         check[r].pc \in CheckRunning, Answered(r, a),
         UNCHANGED <<now, chainVars, grant>>
  PROVE  /\ check' \in [Requests -> CheckCalls]
         /\ CallsConsistent'
<1>1. check' \in [Requests -> CheckCalls]
  BY DEF AccessIInv, AccessTypeOK, Answered, CheckCalls, CheckPcs, CheckFailed, CheckRunning
<1>2. CallsConsistent'
  BY DEF AccessIInv, AccessTypeOK, CheckCalls, CallsConsistent, Reverts, Pair, Answered, CheckRunning, chainVars
<1> QED BY <1>1, <1>2

\* The cache lookup changes one call: it ends, or goes on to ask the chain
\* for a wallet that parses.
LEMMA ReadCacheIInv ==
  ASSUME AccessIInv, NEW r \in Requests, ReadCache(r)
  PROVE  AccessIInv'
<1>1. CacheSound' /\ ConfirmedOnChain' /\ ChainConsistent'
  BY ChecksOnly DEF ReadCache
<1>2. CASE Answered(r, "err")
  <2>1. /\ check' \in [Requests -> CheckCalls]
        /\ CallsConsistent'
    BY <1>2, AnsweredIInv DEF ReadCache, CheckRunning
  <2> QED BY <1>1, <2>1 DEF AccessIInv, AccessTypeOK, ClockTypeOK, ReadCache, chainVars
<1>3. CASE Answered(r, "true")
  <2>1. /\ check' \in [Requests -> CheckCalls]
        /\ CallsConsistent'
    BY <1>3, AnsweredIInv DEF ReadCache, CheckRunning
  <2> QED BY <1>1, <2>1 DEF AccessIInv, AccessTypeOK, ClockTypeOK, ReadCache, chainVars
<1>4. CASE Parses(check[r].key[1]) /\ CheckAt(r, "chain")
  <2>1. AccessTypeOK'
    BY <1>4 DEF AccessIInv, AccessTypeOK, ClockTypeOK, ReadCache, CheckAt, CheckCalls, CheckPcs, CheckFailed,
                CheckRunning, chainVars
  <2>2. CallsConsistent'
    BY <1>4 DEF AccessIInv, AccessTypeOK, CheckCalls, CallsConsistent, Reverts, Pair, ReadCache, CheckAt, chainVars
  <2> QED BY <1>1, <2>1, <2>2 DEF AccessIInv
<1> QED BY <1>2, <1>3, <1>4 DEF ReadCache

\* A call goes on to write its row only for a pair the contract holds.
LEMMA AskChainIInv ==
  ASSUME AccessIInv, NEW r \in Requests, AskChain(r)
  PROVE  AccessIInv'
<1>1. CacheSound' /\ ConfirmedOnChain' /\ ChainConsistent'
  BY ChecksOnly DEF AskChain
<1>2. ASSUME NEW a \in {"err", "false"}, Answered(r, a)
      PROVE  AccessIInv'
  <2>1. /\ check' \in [Requests -> CheckCalls]
        /\ CallsConsistent'
    BY <1>2, AnsweredIInv DEF AskChain, CheckRunning
  <2> QED BY <1>1, <2>1 DEF AccessIInv, AccessTypeOK, ClockTypeOK, AskChain, chainVars
<1>3. CASE Pair(check[r].key) \in access /\ CheckAt(r, "record")
  <2>1. AccessTypeOK'
    BY <1>3 DEF AccessIInv, AccessTypeOK, ClockTypeOK, AskChain, CheckAt, CheckCalls, CheckPcs, CheckFailed,
                CheckRunning, chainVars
  <2>2. CallsConsistent'
    BY <1>3 DEF AccessIInv, AccessTypeOK, CheckCalls, CallsConsistent, Reverts, Pair, AskChain, CheckAt, chainVars
  <2> QED BY <1>1, <2>1, <2>2 DEF AccessIInv
<1> QED BY <1>2, <1>3 DEF AskChain

\* The row written is about a pair the chain confirmed to this very call.
LEMMA RecordCheckIInv ==
  ASSUME AccessIInv, NEW r \in Requests, RecordCheck(r)
  PROVE  AccessIInv'
<1>1. ConfirmedOnChain' /\ ChainConsistent'
  BY DEF AccessIInv, ConfirmedOnChain, ChainConsistent, Reverts, Owns, Pair, RecordCheck, chainVars
<1>2. /\ check[r].key \in Keys /\ check[r].started \in Nat
      /\ Owns(check[r].key)
  BY DEF AccessIInv, AccessTypeOK, CheckCalls, CallsConsistent, Reverts, Owns, RecordCheck
<1>3. /\ check' \in [Requests -> CheckCalls]
      /\ CallsConsistent'
  BY AnsweredIInv DEF RecordCheck, CheckRunning
<1>4. AccessTypeOK'
  BY <1>2, <1>3 DEF AccessIInv, AccessTypeOK, ClockTypeOK, RecordCheck, WriteCache, chainVars
<1>5. CacheSound'
  BY <1>2 DEF AccessIInv, AccessTypeOK, CacheSound, Owns, Pair, RecordCheck, WriteCache, chainVars
<1> QED BY <1>1, <1>3, <1>4, <1>5 DEF AccessIInv

----------------------------------------------------------------------------
\* grant_and_record

\* A call of grant_and_record that moves within its key, each new place
\* meeting what is claimed of calls there, disturbs nothing.
LEMMA GrantMoves ==
  ASSUME AccessIInv, NEW r \in Requests, NEW g \in GrantCalls,
         grant' = [grant EXCEPT ![r] = g],
         UNCHANGED <<chainVars, check>>,
         g.pc # "idle", g.key \in Keys,
         grant[r].pc # "idle" => g.key = grant[r].key,
         g.pc \in {"confirmed", "done"} => Owns(g.key),
         g.pc \in {"prepared", "pending", "confirmed", "done"} => Parses(g.key[1]) /\ ~Reverts,
         g.pc = "pending" => g.nonce < Len(txs) /\ txs[g.nonce + 1] = Pair(g.key)
  PROVE  /\ grant' \in [Requests -> GrantCalls]
         /\ ConfirmedOnChain' /\ CallsConsistent' /\ ChainConsistent'
<1>1. grant \in [Requests -> GrantCalls]
  BY DEF AccessIInv, AccessTypeOK
<1>2. /\ grant' \in [Requests -> GrantCalls]
      /\ grant'[r] = g
      /\ \A q \in Requests \ {r} : grant'[q] = grant[q]
  BY <1>1
<1>3. ConfirmedOnChain'
  BY <1>2 DEF AccessIInv, ConfirmedOnChain, Owns, Pair, chainVars
<1>4. CallsConsistent'
  BY <1>2 DEF AccessIInv, CallsConsistent, Reverts, Owns, Pair, chainVars
<1>5. ChainConsistent'
  <2>1. \A q \in Requests : grant[q].pc # "idle"
            => grant'[q].pc # "idle" /\ Pair(grant'[q].key) = Pair(grant[q].key)
    BY <1>2
  <2> QED BY <2>1 DEF AccessIInv, ChainConsistent, Reverts, Pair, chainVars
<1> QED BY <1>2, <1>3, <1>4, <1>5

\* The same for a move that changes nothing but the program counter.
LEMMA GrantSteps ==
  ASSUME AccessIInv, NEW r \in Requests, NEW pc \in {"failed", "done"}, GrantAt(r, pc),
         grant[r].pc # "idle", pc = "done" => grant[r].pc = "confirmed",
         UNCHANGED <<chainVars, check>>
  PROVE  /\ grant' \in [Requests -> GrantCalls]
         /\ ConfirmedOnChain' /\ CallsConsistent' /\ ChainConsistent'
<1> DEFINE g == [grant[r] EXCEPT !.pc = pc]
<1>1. grant[r] \in GrantCalls
  BY DEF AccessIInv, AccessTypeOK
<1>2. g \in GrantCalls /\ g.pc = pc /\ g.key = grant[r].key
  BY <1>1 DEF GrantCalls, GrantPcs
<1>3. grant' = [grant EXCEPT ![r] = g]
  BY DEF GrantAt
<1>4. g.key \in Keys
  BY <1>2 DEF AccessIInv, CallsConsistent, Reverts
<1>5. pc = "done" => Owns(g.key)
  BY <1>2 DEF AccessIInv, ConfirmedOnChain
<1>6. pc = "done" => Parses(g.key[1]) /\ ~Reverts
  BY <1>2 DEF AccessIInv, CallsConsistent, Reverts
<1> HIDE DEF g
<1> QED BY <1>2, <1>3, <1>4, <1>5, <1>6, GrantMoves

\* A grant that is spawned has a key and has done nothing yet.
LEMMA CallGrantIInv ==
  ASSUME AccessIInv, NEW r \in Requests, NEW k \in Keys, CallGrant(r, k)
  PROVE  AccessIInv'
<1> DEFINE g == [pc |-> "start", key |-> k, nonce |-> 0, at |-> 0]
<1>1. g \in GrantCalls /\ g.pc = "start" /\ g.key = k
  BY DEF GrantCalls, GrantPcs, GrantRunning
<1>2. grant' = [grant EXCEPT ![r] = g] /\ grant[r].pc = "idle"
  BY DEF CallGrant, SpawnGrant, NoGrant
<1> HIDE DEF g
<1>3. /\ grant' \in [Requests -> GrantCalls]
      /\ ConfirmedOnChain' /\ CallsConsistent' /\ ChainConsistent'
  BY <1>1, <1>2, GrantMoves DEF CallGrant
<1>4. AccessTypeOK' /\ CacheSound'
  BY <1>3 DEF AccessIInv, AccessTypeOK, ClockTypeOK, CacheSound, Owns, Pair, CallGrant, chainVars
<1> QED BY <1>3, <1>4 DEF AccessIInv

\* Only a grant to a wallet that parses, by the owner, gets a nonce.
LEMMA GrantPrepareIInv ==
  ASSUME AccessIInv, NEW r \in Requests, GrantPrepare(r)
  PROVE  AccessIInv'
<1>1. mined \in Nat /\ Len(txs) \in Nat /\ grant[r].pc = "start" /\ grant[r].key \in Keys
  BY DEF AccessIInv, AccessTypeOK, CallsConsistent, Reverts, GrantPrepare
<1>2. /\ grant' \in [Requests -> GrantCalls]
      /\ ConfirmedOnChain' /\ CallsConsistent' /\ ChainConsistent'
  <2>1. CASE GrantAt(r, "failed")
    BY <1>1, <2>1, GrantSteps DEF GrantPrepare
  <2>2. ASSUME Parses(grant[r].key[1]), ~Reverts, NEW n \in {mined, Len(txs)},
               grant' = [grant EXCEPT ![r] =
                           [pc |-> "prepared", key |-> @.key, nonce |-> n, at |-> 0]]
        PROVE  /\ grant' \in [Requests -> GrantCalls]
               /\ ConfirmedOnChain' /\ CallsConsistent' /\ ChainConsistent'
    <3> DEFINE g == [pc |-> "prepared", key |-> grant[r].key, nonce |-> n, at |-> 0]
    <3>1. g \in GrantCalls /\ g.pc = "prepared" /\ g.key = grant[r].key
      BY <1>1 DEF GrantCalls, GrantPcs, GrantRunning
    <3>2. grant' = [grant EXCEPT ![r] = g]
      BY <2>2
    <3> HIDE DEF g
    <3> QED BY <1>1, <2>2, <3>1, <3>2, GrantMoves DEF GrantPrepare
  <2> QED BY <2>1, <2>2 DEF GrantPrepare
<1>3. AccessTypeOK' /\ CacheSound'
  BY <1>2 DEF AccessIInv, AccessTypeOK, ClockTypeOK, CacheSound, Owns, Pair, GrantPrepare, chainVars
<1> QED BY <1>2, <1>3 DEF AccessIInv

\* An accepted transaction is the sender's, and follows those there were.
LEMMA AcceptIInv ==
  ASSUME AccessIInv, NEW r \in Requests, NEW pc \in {"pending", "failed"},
         grant[r].pc = "prepared", Accepts(grant[r].nonce), AcceptTx(grant[r].key),
         GrantAt(r, pc), UNCHANGED <<now, cache, access, mined, owner, check>>
  PROVE  AccessIInv'
<1> DEFINE n == grant[r].nonce
<1>1. /\ grant \in [Requests -> GrantCalls] /\ txs \in Seq(Pairs) /\ mined \in 0..Len(txs)
      /\ n = Len(txs) /\ n \in Nat
      /\ grant[r].key \in Keys /\ Parses(grant[r].key[1])
  BY DEF AccessIInv, AccessTypeOK, CallsConsistent, Reverts, Accepts, GrantCalls
<1>2. Pair(grant[r].key) \in Pairs
  BY <1>1, EnvironmentAssumption DEF Pair, Pairs, Keys, Parses
<1>3. /\ txs' \in Seq(Pairs) /\ Len(txs') = n + 1 /\ txs'[n + 1] = Pair(grant[r].key)
      /\ \A i \in 1..n : txs'[i] = txs[i]
  BY <1>1, <1>2 DEF AcceptTx
<1>4. /\ grant' \in [Requests -> GrantCalls]
      /\ grant'[r].pc = pc /\ grant'[r].key = grant[r].key /\ grant'[r].nonce = n
      /\ \A q \in Requests \ {r} : grant'[q] = grant[q]
  BY <1>1 DEF GrantAt, GrantCalls, GrantPcs, GrantRunning
<1>5. AccessTypeOK'
  BY <1>1, <1>3, <1>4 DEF AccessIInv, AccessTypeOK, ClockTypeOK
<1>6. CacheSound'
  BY DEF AccessIInv, CacheSound, Owns, Pair
<1>7. ConfirmedOnChain'
  BY <1>4 DEF AccessIInv, ConfirmedOnChain, Owns, Pair
<1>8. CallsConsistent'
  <2>1. \A q \in Requests : grant'[q].pc = "pending"
           => grant'[q].nonce < Len(txs') /\ txs'[grant'[q].nonce + 1] = Pair(grant'[q].key)
    <3> SUFFICES ASSUME NEW q \in Requests, grant'[q].pc = "pending"
                 PROVE  grant'[q].nonce < Len(txs') /\ txs'[grant'[q].nonce + 1] = Pair(grant'[q].key)
      OBVIOUS
    <3>1. CASE q = r
      BY <1>1, <1>3, <1>4, <3>1
    <3>2. CASE q # r
      <4>1. /\ grant[q].pc = "pending" /\ grant'[q] = grant[q] /\ grant[q].nonce \in Nat
            /\ grant[q].nonce < Len(txs) /\ txs[grant[q].nonce + 1] = Pair(grant[q].key)
        BY <1>1, <1>4, <3>2 DEF AccessIInv, CallsConsistent, Reverts, GrantCalls
      <4> QED BY <1>1, <1>3, <4>1
    <3> QED BY <3>1, <3>2
  <2> QED BY <1>1, <1>4, <2>1 DEF AccessIInv, CallsConsistent, Reverts, Pair
<1>9. ChainConsistent'
  <2>1. ~Reverts
    BY DEF AccessIInv, CallsConsistent, Reverts, ChainConsistent
  <2>2. access' = Genesis \cup {txs'[i] : i \in 1..mined'}
    BY <1>1, <1>3 DEF AccessIInv, ChainConsistent, Reverts
  <2>3. ASSUME NEW i \in 1..Len(txs')
        PROVE  \E q \in Requests : grant'[q].pc # "idle" /\ Pair(grant'[q].key) = txs'[i]
    <3>1. CASE i = n + 1
      BY <1>1, <1>3, <1>4, <3>1
    <3>2. CASE i \in 1..n
      <4>1. PICK q \in Requests : grant[q].pc # "idle" /\ Pair(grant[q].key) = txs[i]
        BY <1>1, <3>2 DEF AccessIInv, ChainConsistent, Reverts
      <4>2. grant'[q].pc # "idle" /\ grant'[q].key = grant[q].key
        BY <1>4, <4>1
      <4> QED BY <1>3, <3>2, <4>1, <4>2
    <3> QED BY <1>1, <1>3, <3>1, <3>2
  <2> QED BY <2>1, <2>2, <2>3 DEF ChainConsistent, Reverts, Pair
<1> QED BY <1>5, <1>6, <1>7, <1>8, <1>9 DEF AccessIInv

\* Whatever becomes of a send, the accepted transactions are those of grants.
LEMMA GrantSendIInv ==
  ASSUME AccessIInv, NEW r \in Requests, GrantSend(r)
  PROVE  AccessIInv'
<1>1. CASE UNCHANGED txs /\ GrantAt(r, "failed")
  <2>1. /\ grant' \in [Requests -> GrantCalls]
        /\ ConfirmedOnChain' /\ CallsConsistent' /\ ChainConsistent'
    BY <1>1, GrantSteps DEF GrantSend, chainVars
  <2>2. AccessTypeOK' /\ CacheSound'
    BY <1>1, <2>1 DEF AccessIInv, AccessTypeOK, ClockTypeOK, CacheSound, Owns, Pair, GrantSend
  <2> QED BY <2>1, <2>2 DEF AccessIInv
<1>2. CASE Accepts(grant[r].nonce) /\ AcceptTx(grant[r].key) /\ GrantAt(r, "pending")
  BY <1>2, AcceptIInv DEF GrantSend
<1>3. CASE Accepts(grant[r].nonce) /\ AcceptTx(grant[r].key) /\ GrantAt(r, "failed")
  BY <1>3, AcceptIInv DEF GrantSend
<1> QED BY <1>1, <1>2, <1>3 DEF GrantSend

\* A transaction below the mined count is in the contract.
LEMMA GrantReceiptIInv ==
  ASSUME AccessIInv, NEW r \in Requests, GrantReceipt(r)
  PROVE  AccessIInv'
<1>1. /\ grant[r] \in GrantCalls /\ grant[r].pc = "pending" /\ grant[r].key \in Keys
      /\ Parses(grant[r].key[1]) /\ ~Reverts
      /\ txs[grant[r].nonce + 1] = Pair(grant[r].key)
      /\ now \in Nat /\ mined \in Nat
  BY DEF AccessIInv, AccessTypeOK, ClockTypeOK, CallsConsistent, Reverts, GrantReceipt
<1>2. /\ grant' \in [Requests -> GrantCalls]
      /\ ConfirmedOnChain' /\ CallsConsistent' /\ ChainConsistent'
  <2>1. CASE GrantAt(r, "failed")
    BY <1>1, <2>1, GrantSteps DEF GrantReceipt
  <2>2. CASE /\ grant[r].nonce < mined
             /\ grant' = [grant EXCEPT ![r] =
                           [pc |-> "confirmed", key |-> @.key, nonce |-> @.nonce, at |-> now]]
    <3> DEFINE g == [pc |-> "confirmed", key |-> grant[r].key, nonce |-> grant[r].nonce,
                     at |-> now]
    <3>1. g \in GrantCalls /\ g.pc = "confirmed" /\ g.key = grant[r].key
      BY <1>1 DEF GrantCalls, GrantPcs, GrantRunning
    <3>2. grant' = [grant EXCEPT ![r] = g]
      BY <2>2
    <3>3. grant[r].nonce + 1 \in 1..mined
      BY <1>1, <2>2 DEF GrantCalls
    <3>4. Owns(g.key)
      BY <1>1, <3>1, <3>3 DEF AccessIInv, ChainConsistent, Reverts, Owns
    <3> HIDE DEF g
    <3> QED BY <1>1, <3>1, <3>2, <3>4, GrantMoves DEF GrantReceipt
  <2> QED BY <2>1, <2>2 DEF GrantReceipt
<1>3. AccessTypeOK' /\ CacheSound'
  BY <1>2 DEF AccessIInv, AccessTypeOK, ClockTypeOK, CacheSound, Owns, Pair, GrantReceipt, chainVars
<1> QED BY <1>2, <1>3 DEF AccessIInv

\* The row a grant writes is about a pair that is mined.
LEMMA GrantRecordIInv ==
  ASSUME AccessIInv, NEW r \in Requests, GrantRecord(r)
  PROVE  AccessIInv'
<1>1. /\ grant[r] \in GrantCalls /\ grant[r].pc = "confirmed" /\ grant[r].key \in Keys
      /\ Owns(grant[r].key)
  BY DEF AccessIInv, AccessTypeOK, CallsConsistent, Reverts, ConfirmedOnChain, GrantRecord
<1>2. PICK pc \in {"failed", "done"} : GrantAt(r, pc)
  BY DEF GrantRecord
<1>3. /\ grant' \in [Requests -> GrantCalls]
      /\ ConfirmedOnChain' /\ CallsConsistent' /\ ChainConsistent'
  BY <1>1, <1>2, GrantSteps DEF GrantRecord
<1>4. AccessTypeOK'
  BY <1>1, <1>3 DEF AccessIInv, AccessTypeOK, ClockTypeOK, GrantCalls, GrantRecord, WriteCache,
                    chainVars
<1>5. CacheSound'
  BY <1>1 DEF AccessIInv, AccessTypeOK, CacheSound, Owns, Pair, GrantRecord, WriteCache, chainVars
<1> QED BY <1>3, <1>4, <1>5 DEF AccessIInv

----------------------------------------------------------------------------
\* The chain, the process and the clock

\* Mining the next transaction adds its pair to the contract, no other.
LEMMA MineTxIInv ==
  ASSUME AccessIInv, MineTx
  PROVE  AccessIInv'
<1>1. /\ txs \in Seq(Pairs) /\ mined \in 0..Len(txs) /\ mined < Len(txs) /\ ~Reverts
      /\ mined' = mined + 1 /\ txs' = txs
  BY DEF AccessIInv, AccessTypeOK, ChainConsistent, Reverts, MineTx
<1>2. access' = access \cup {txs[mined + 1]} /\ txs[mined + 1] \in Pairs
  BY <1>1 DEF MineTx
<1>3. AccessTypeOK'
  BY <1>1, <1>2 DEF AccessIInv, AccessTypeOK, ClockTypeOK, MineTx
<1>4. CacheSound' /\ ConfirmedOnChain' /\ CallsConsistent'
  BY <1>1, <1>2 DEF AccessIInv, CacheSound, ConfirmedOnChain, CallsConsistent, Reverts, Owns, Pair, MineTx
<1>5. ChainConsistent'
  BY <1>1, <1>2 DEF AccessIInv, ChainConsistent, Reverts, Pair, MineTx
<1> QED BY <1>3, <1>4, <1>5 DEF AccessIInv

\* A check that is dropped claims nothing any more.
LEMMA DropCheckIInv ==
  ASSUME AccessIInv, NEW r \in Requests, DropCheck(r)
  PROVE  AccessIInv'
<1>1. CacheSound' /\ ConfirmedOnChain' /\ ChainConsistent'
  BY ChecksOnly DEF DropCheck
<1>2. AccessTypeOK'
  BY DEF AccessIInv, AccessTypeOK, ClockTypeOK, DropCheck, CheckAt, CheckCalls, CheckPcs, CheckFailed,
         CheckRunning, chainVars
<1>3. CallsConsistent'
  BY DEF AccessIInv, AccessTypeOK, CheckCalls, CallsConsistent, Reverts, Pair, DropCheck, CheckAt,
         CheckRunning, chainVars
<1> QED BY <1>1, <1>2, <1>3 DEF AccessIInv

\* Calls that are gone claim nothing; the others are where they were.
LEMMA LoseCallsIInv ==
  ASSUME AccessIInv, LoseCalls, UNCHANGED <<now, cache, chainVars>>
  PROVE  AccessIInv'
<1>1. check \in [Requests -> CheckCalls] /\ grant \in [Requests -> GrantCalls]
  BY DEF AccessIInv, AccessTypeOK
<1>2. /\ check' \in [Requests -> CheckCalls]
      /\ \A r \in Requests : /\ check'[r].key = check[r].key
                             /\ check'[r].pc = "idle" <=> check[r].pc = "idle"
                             /\ check'[r].pc \notin CheckRunning
  BY <1>1 DEF LoseCalls, Gone, CheckCalls, CheckPcs, CheckFailed, CheckRunning
<1>3. /\ grant' \in [Requests -> GrantCalls]
      /\ \A r \in Requests : /\ grant'[r].key = grant[r].key
                             /\ grant'[r].pc = "idle" <=> grant[r].pc = "idle"
                             /\ grant'[r].pc \notin GrantRunning
                             /\ grant'[r].pc = "done" => grant[r].pc = "done"
  BY <1>1 DEF LoseCalls, Gone, GrantCalls, GrantPcs, GrantRunning
<1>4. AccessTypeOK'
  BY <1>2, <1>3 DEF AccessIInv, AccessTypeOK, ClockTypeOK, chainVars
<1>5. CacheSound'
  BY DEF AccessIInv, CacheSound, Owns, Pair, chainVars
<1>6. ConfirmedOnChain'
  BY <1>3 DEF AccessIInv, ConfirmedOnChain, Owns, Pair, GrantRunning, chainVars
<1>7. CallsConsistent'
  BY <1>2, <1>3 DEF AccessIInv, CallsConsistent, Reverts, CheckRunning, GrantRunning, chainVars
<1>8. ChainConsistent'
  <2>1. \A q \in Requests : grant[q].pc # "idle"
            => grant'[q].pc # "idle" /\ Pair(grant'[q].key) = Pair(grant[q].key)
    BY <1>3
  <2> QED BY <2>1 DEF AccessIInv, ChainConsistent, Reverts, chainVars
<1> QED BY <1>4, <1>5, <1>6, <1>7, <1>8 DEF AccessIInv

\* Only the clock moves.
LEMMA ClockIInv ==
  ASSUME AccessIInv, now' \in Nat, UNCHANGED <<cache, chainVars, check, grant>>
  PROVE  AccessIInv'
<1>1. CacheSound' /\ ConfirmedOnChain' /\ ChainConsistent'
  BY ChecksOnly
<1>2. AccessTypeOK'
  BY DEF AccessIInv, AccessTypeOK, ClockTypeOK, chainVars
<1>3. CallsConsistent'
  BY DEF AccessIInv, CallsConsistent, Reverts, Pair, chainVars
<1> QED BY <1>1, <1>2, <1>3 DEF AccessIInv

\* Time passing, or the clock set back, touches nothing else.
LEMMA PassTimeIInv ==
  ASSUME AccessIInv, PassTime
  PROVE  AccessIInv'
<1>1. now' \in Nat
  BY EnvironmentAssumption
  DEF AccessIInv, AccessTypeOK, ClockTypeOK, PassTime, Tick, ClockSetBack
<1> QED BY <1>1, ClockIInv DEF PassTime

\* A step that changes nothing preserves the invariant.
LEMMA StutterIInv ==
  ASSUME AccessIInv, UNCHANGED accessVars
  PROVE  AccessIInv'
<1>1. now' \in Nat
  BY DEF AccessIInv, AccessTypeOK, ClockTypeOK, accessVars
<1> QED BY <1>1, ClockIInv DEF accessVars

----------------------------------------------------------------------------
\* The theorems

\* AccessIInv is inductive: one step per action of AccessNext.
LEMMA AccessStepIInv ==
  ASSUME AccessIInv, [AccessNext]_accessVars
  PROVE  AccessIInv'
<1>1. ASSUME NEW r \in Requests, CheckStep(r)
      PROVE  AccessIInv'
  BY <1>1, ReadCacheIInv, AskChainIInv, RecordCheckIInv DEF CheckStep
<1>2. ASSUME NEW r \in Requests, GrantStep(r)
      PROVE  AccessIInv'
  BY <1>2, GrantPrepareIInv, GrantSendIInv, GrantReceiptIInv, GrantRecordIInv DEF GrantStep
<1>3. ASSUME NEW r \in Requests, NEW k \in Keys, CallCheck(r, k) \/ CallGrant(r, k)
      PROVE  AccessIInv'
  BY <1>3, CallCheckIInv, CallGrantIInv
<1>4. CASE Restart
  BY <1>4, LoseCallsIInv DEF Restart
<1> QED
  BY <1>1, <1>2, <1>3, <1>4, DropCheckIInv, MineTxIInv, PassTimeIInv, StutterIInv
  DEF AccessNext

\* The invariant holds in every state, whatever fails and however calls
\* interleave.
THEOREM AccessInvariance == AccessSpec => []AccessIInv
<1> QED BY AccessInitIInv, AccessStepIInv, PTL DEF AccessSpec

\* Every state has the declared shape.
THEOREM AccessTypeCorrect == AccessSpec => []AccessTypeOK
<1>1. AccessIInv => AccessTypeOK
  BY DEF AccessIInv
<1> QED BY <1>1, AccessInvariance, PTL

\* Whoever the fast path may admit owns the content on chain.
THEOREM CacheIsSound == AccessSpec => []CacheSound
<1>1. AccessIInv => CacheSound
  BY DEF AccessIInv
<1> QED BY <1>1, AccessInvariance, PTL

\* A grant that reports success is mined.
THEOREM SuccessIsOnChain == AccessSpec => []ConfirmedOnChain
<1>1. AccessIInv => ConfirmedOnChain
  BY DEF AccessIInv
<1> QED BY <1>1, AccessInvariance, PTL

\* What is mined is accepted, and what is accepted is some grant's.
LEMMA AskedFor == AccessIInv => NothingUngranted
<1> SUFFICES ASSUME AccessIInv, NEW p \in access \ Genesis
             PROVE  \E r \in Requests : grant[r].pc # "idle" /\ Pair(grant[r].key) = p
  BY DEF NothingUngranted
<1>1. PICK i \in 1..mined : p = txs[i]
  BY DEF AccessIInv, ChainConsistent, Reverts
<1>2. i \in 1..Len(txs)
  BY DEF AccessIInv, AccessTypeOK
<1> QED BY <1>1, <1>2 DEF AccessIInv, ChainConsistent, Reverts

\* The contract holds nothing that no grant asked for.
THEOREM OnlyAskedIsGranted == AccessSpec => []NothingUngranted
<1> QED BY AskedFor, AccessInvariance, PTL

----------------------------------------------------------------------------
\* check_access implements AccessOracle

\* A running call is seen as asked, a failed one as an error, any other as it is.
LEMMA OracleStates ==
  /\ \A pc \in CheckRunning : OracleState(pc) = "asked"
  /\ \A pc \in CheckFailed : OracleState(pc) = "err"
  /\ \A pc \in {"idle", "true", "false", "gone"} : OracleState(pc) = pc
  BY DEF OracleState, CheckRunning, CheckFailed

\* The call of r in the abstract registry.
SeenCall(r) == [state |-> OracleState(check[r].pc), question |-> check[r].key]
SeenCalls == [r \in Requests |-> SeenCall(r)]

\* A step after which no call looks different is a stutter, or an entry in the
\* registry.
LEMMA InvisibleStep ==
  ASSUME UNCHANGED access, check \in [Requests -> CheckCalls],
         check' \in [Requests -> CheckCalls],
         \A r \in Requests : SeenCall(r)' = SeenCall(r)
  PROVE  UNCHANGED Oracle!oracleVars
<1>1. SeenCalls' = SeenCalls
  BY DEF SeenCalls
<1> QED BY <1>1 DEF Oracle!oracleVars, SeenCalls, SeenCall

\* An answer that agrees with the registry is a step of the oracle.
LEMMA AnswerStep ==
  ASSUME AccessIInv, NEW r \in Requests, NEW a \in {"true", "false", "err", "unwritten"},
         check[r].pc \in CheckRunning, Answered(r, a), UNCHANGED access,
         a = "true" => Pair(check[r].key) \in access,
         a = "false" => Pair(check[r].key) \notin access
  PROVE  Oracle!OracleNext
<1>1. check \in [Requests -> CheckCalls] /\ check[r].key \in Keys
  BY DEF AccessIInv, AccessTypeOK, CallsConsistent, Reverts, CheckRunning
<1> PICK k \in Keys : k = check[r].key
  BY <1>1
<1> PICK s \in {"true", "false", "err"} : s = OracleState(a)
  BY OracleStates DEF CheckFailed
<1>2. /\ s = "true" => Pair(k) \in access
      /\ s = "false" => Pair(k) \notin access
  BY OracleStates DEF CheckFailed
<1>3. SeenCalls[r] = Oracle!Asked(k)
  BY OracleStates DEF SeenCalls, SeenCall, Oracle!Asked
<1>4. SeenCalls' = [SeenCalls EXCEPT ![r].state = s]
  <2>1. \A q \in Requests \ {r} : check'[q] = check[q]
    BY <1>1 DEF Answered
  <2>2. check'[r].pc = a /\ check'[r].key = k
    BY <1>1 DEF Answered
  <2>3. SeenCall(r)' = [SeenCall(r) EXCEPT !.state = s]
    BY <2>2 DEF SeenCall
  <2>4. \A q \in Requests \ {r} : SeenCall(q)' = SeenCall(q)
    BY <2>1 DEF SeenCall
  <2> QED BY <2>3, <2>4 DEF SeenCalls
<1>5. Oracle!Answer(r, k)
  BY <1>2, <1>3, <1>4 DEF Oracle!Answer, Oracle!Answers, SeenCalls, SeenCall
<1> QED BY <1>5 DEF Oracle!OracleNext

\* A call that is asked for becomes visible as asked.
LEMMA AskStep ==
  ASSUME AccessIInv, NEW r \in Requests, NEW k \in Keys, CallCheck(r, k)
  PROVE  Oracle!OracleNext
<1>1. check \in [Requests -> CheckCalls] /\ check[r] = NoCheck
  BY DEF AccessIInv, AccessTypeOK, CallCheck, CheckAccess
<1>2. SeenCalls[r] = Oracle!Unasked
  BY <1>1, OracleStates DEF SeenCalls, SeenCall, NoCheck, Oracle!Unasked, CheckRunning
<1>3. SeenCalls' = [SeenCalls EXCEPT ![r] = Oracle!Asked(k)]
  <2>1. SeenCall(r)' = Oracle!Asked(k)
    BY <1>1, OracleStates DEF CallCheck, CheckAccess, SeenCall, CheckRunning, Oracle!Asked
  <2>2. \A q \in Requests \ {r} : SeenCall(q)' = SeenCall(q)
    BY <1>1 DEF CallCheck, CheckAccess, SeenCall
  <2> QED BY <2>1, <2>2 DEF SeenCalls
<1>4. Oracle!Ask(r, k)
  BY <1>2, <1>3 DEF Oracle!Ask, SeenCalls, SeenCall, CallCheck, chainVars
<1> QED BY <1>4 DEF Oracle!OracleNext

\* Calls that end without an answer are given up.
LEMMA GiveUpStep ==
  ASSUME AccessIInv, NEW C \in SUBSET Requests,
         \A r \in C : check[r].pc \in CheckRunning,
         check' = [r \in Requests |->
                     IF r \in C THEN [check[r] EXCEPT !.pc = "gone"] ELSE check[r]],
         UNCHANGED access
  PROVE  Oracle!OracleNext
<1>1. check \in [Requests -> CheckCalls]
  BY DEF AccessIInv, AccessTypeOK
<1>2. \A r \in C : SeenCalls[r].state = "asked"
  BY OracleStates DEF SeenCalls, SeenCall
<1>3. SeenCalls' = [r \in Requests |->
                      IF r \in C THEN [SeenCalls[r] EXCEPT !.state = "gone"] ELSE SeenCalls[r]]
  <2>1. ASSUME NEW r \in C
        PROVE  SeenCall(r)' = [SeenCall(r) EXCEPT !.state = "gone"]
    BY <1>1, OracleStates DEF SeenCall, CheckRunning, CheckCalls
  <2>2. ASSUME NEW r \in Requests \ C
        PROVE  SeenCall(r)' = SeenCall(r)
    BY <1>1 DEF SeenCall
  <2> QED BY <2>1, <2>2 DEF SeenCalls
<1>4. Oracle!GiveUp
  <2>1. C \in SUBSET {r \in Requests : SeenCalls[r].state = "asked"}
    BY <1>2
  <2> QED BY <1>3, <2>1 DEF Oracle!GiveUp, SeenCalls, SeenCall
<1> QED BY <1>4 DEF Oracle!OracleNext

\* Cache, RPC, database, clock and restarts never show in the answers.
THEOREM CheckImplementsOracle == AccessSpec => CheckIsLinearizable
<1>1. AccessInit => Oracle!OracleInit
  BY OracleStates DEF AccessInit, Oracle!OracleInit, NoCheck, Oracle!Unasked
<1>2. AccessIInv /\ AccessIInv' /\ [AccessNext]_accessVars => [Oracle!OracleNext]_Oracle!oracleVars
  <2> SUFFICES ASSUME AccessIInv, AccessIInv', [AccessNext]_accessVars
               PROVE  Oracle!OracleNext \/ UNCHANGED Oracle!oracleVars
    OBVIOUS
  <2> USE DEF chainVars
  <2>1. check \in [Requests -> CheckCalls] /\ check' \in [Requests -> CheckCalls]
    BY DEF AccessIInv, AccessTypeOK
  <2>2. CASE UNCHANGED <<access, check>>
    BY <2>1, <2>2, InvisibleStep DEF SeenCall
  <2>3. ASSUME NEW r \in Requests, ReadCache(r)
        PROVE  Oracle!OracleNext \/ UNCHANGED Oracle!oracleVars
    <3>1. CASE Answered(r, "err")
      BY <2>3, <3>1, AnswerStep DEF ReadCache, CheckRunning
    <3>2. CASE Fresh(r) /\ Answered(r, "true")
      <4>1. Pair(check[r].key) \in access
        BY <2>3, <3>2 DEF AccessIInv, CacheSound, CallsConsistent, Reverts, Owns, Fresh, ReadCache
      <4> QED BY <2>3, <3>2, <4>1, AnswerStep DEF ReadCache, CheckRunning
    <3>3. CASE CheckAt(r, "chain")
      <4>1. \A q \in Requests : SeenCall(q)' = SeenCall(q)
        BY <2>1, <2>3, <3>3, OracleStates DEF ReadCache, CheckAt, SeenCall, CheckRunning, CheckCalls
      <4> QED BY <2>1, <2>3, <4>1, InvisibleStep DEF ReadCache
    <3> QED BY <2>3, <3>1, <3>2, <3>3 DEF ReadCache
  <2>4. ASSUME NEW r \in Requests, AskChain(r)
        PROVE  Oracle!OracleNext \/ UNCHANGED Oracle!oracleVars
    <3>1. CASE Answered(r, "err")
      BY <2>4, <3>1, AnswerStep DEF AskChain, CheckRunning
    <3>2. CASE Pair(check[r].key) \notin access /\ Answered(r, "false")
      BY <2>4, <3>2, AnswerStep DEF AskChain, CheckRunning
    <3>3. CASE CheckAt(r, "record")
      <4>1. \A q \in Requests : SeenCall(q)' = SeenCall(q)
        BY <2>1, <2>4, <3>3, OracleStates DEF AskChain, CheckAt, SeenCall, CheckRunning, CheckCalls
      <4> QED BY <2>1, <2>4, <4>1, InvisibleStep DEF AskChain
    <3> QED BY <2>4, <3>1, <3>2, <3>3 DEF AskChain
  <2>5. ASSUME NEW r \in Requests, RecordCheck(r)
        PROVE  Oracle!OracleNext \/ UNCHANGED Oracle!oracleVars
    <3>1. Pair(check[r].key) \in access
      BY <2>5 DEF AccessIInv, CallsConsistent, Reverts, RecordCheck
    <3> QED BY <2>5, <3>1, AnswerStep DEF RecordCheck, CheckRunning
  <2>6. ASSUME NEW r \in Requests, DropCheck(r)
        PROVE  Oracle!OracleNext \/ UNCHANGED Oracle!oracleVars
    <3> PICK C \in SUBSET Requests : C = {r}
      OBVIOUS
    <3>1. check' = [q \in Requests |->
                      IF q \in C THEN [check[q] EXCEPT !.pc = "gone"] ELSE check[q]]
      BY <2>1, <2>6 DEF DropCheck, CheckAt
    <3>2. \A q \in C : check[q].pc \in CheckRunning
      BY <2>6 DEF DropCheck
    <3> QED BY <2>6, <3>1, <3>2, GiveUpStep DEF DropCheck
  <2>7. ASSUME Restart
        PROVE  Oracle!OracleNext \/ UNCHANGED Oracle!oracleVars
    <3> PICK C \in SUBSET Requests : C = {r \in Requests : check[r].pc \in CheckRunning}
      OBVIOUS
    <3>1. check' = [r \in Requests |->
                      IF r \in C THEN [check[r] EXCEPT !.pc = "gone"] ELSE check[r]]
      BY <2>7 DEF Restart, LoseCalls, Gone
    <3> QED BY <2>7, <3>1, GiveUpStep DEF Restart
  <2>8. ASSUME MineTx
        PROVE  Oracle!OracleNext \/ UNCHANGED Oracle!oracleVars
    <3>1. CASE UNCHANGED access
      BY <2>8, <3>1, <2>2 DEF MineTx
    <3>2. CASE ~Reverts
      <4>1. txs[mined + 1] \in Pairs
        <5>1. txs \in Seq(Pairs) /\ mined \in 0..Len(txs) /\ mined < Len(txs)
          BY <2>8 DEF AccessIInv, AccessTypeOK, MineTx
        <5> QED BY <5>1
      <4> PICK x \in Pairs : x = txs[mined + 1]
        BY <4>1
      <4>2. SeenCalls' = SeenCalls
        BY <2>8 DEF MineTx, SeenCalls, SeenCall
      <4>3. Oracle!Enter(x)
        BY <2>8, <3>2, <4>2 DEF MineTx, Oracle!Enter, SeenCalls, SeenCall
      <4> QED BY <4>3 DEF Oracle!OracleNext
    <3>3. Reverts => UNCHANGED access
      BY <2>8 DEF MineTx
    <3> QED BY <3>1, <3>2, <3>3
  <2>9. ASSUME NEW r \in Requests, GrantStep(r)
        PROVE  UNCHANGED <<access, check>>
    BY <2>9 DEF GrantStep, GrantPrepare, GrantSend, GrantReceipt, GrantRecord
  <2>10. ASSUME NEW r \in Requests, NEW k \in Keys, CallGrant(r, k)
         PROVE  UNCHANGED <<access, check>>
    BY <2>10 DEF CallGrant
  <2> QED
    BY <2>2, <2>3, <2>4, <2>5, <2>6, <2>7, <2>8, <2>9, <2>10, AskStep
    DEF AccessNext, CheckStep, PassTime, accessVars
<1> QED BY <1>1, <1>2, AccessInvariance, PTL
        DEF AccessSpec, CheckIsLinearizable, Oracle!OracleSpec

----------------------------------------------------------------------------
\* Grants that are lost.  While the node and the database answer and the server
\* stays up, every nonce the node has accepted belongs to a grant that goes on.

\* The grant of q has a transaction, which is the n-th.
Holds(q, n) == grant[q].pc \in {"pending", "confirmed", "done"} /\ grant[q].nonce = n

\* Each accepted nonce is held, a nonce that was read is accepted or the next
\* one, and a grant that failed had read one that another holds.
NoncesOK ==
    /\ \A n \in Nat : n < Len(txs) => \E q \in Requests : Holds(q, n)
    /\ \A r \in Requests :
          /\ grant[r].pc = "prepared" => grant[r].nonce <= Len(txs)
          /\ grant[r].pc = "failed" /\ Parses(grant[r].key[1]) /\ ~Reverts
                => \E q \in Requests \ {r} : Holds(q, grant[r].nonce)

\* It stays while the transactions do and each grant that holds one keeps it; for
\* the one grant that moves it has to be shown.
LEMMA NoncesFrame ==
  ASSUME AccessIInv, AccessIInv', NoncesOK, NEW r \in Requests, UNCHANGED <<txs, owner>>,
         \A q \in Requests \ {r} : grant'[q] = grant[q],
         \A n \in Nat : Holds(r, n) => Holds(r, n)',
         grant'[r].pc = "prepared" => grant'[r].nonce <= Len(txs),
         grant'[r].pc = "failed" /\ Parses(grant'[r].key[1]) /\ ~Reverts
            => \E q \in Requests \ {r} : Holds(q, grant'[r].nonce)
  PROVE  NoncesOK'
<1>1. \A q \in Requests, n \in Nat : Holds(q, n) => Holds(q, n)'
  BY DEF Holds
<1>2. \A q \in Requests : grant[q].nonce \in Nat /\ grant'[q].nonce \in Nat
  BY DEF AccessIInv, AccessTypeOK, GrantCalls
<1>3. \A n \in Nat : n < Len(txs') => \E q \in Requests : Holds(q, n)'
  BY <1>1 DEF NoncesOK
<1>4. ASSUME NEW q \in Requests
      PROVE  /\ grant'[q].pc = "prepared" => grant'[q].nonce <= Len(txs')
             /\ grant'[q].pc = "failed" /\ Parses(grant'[q].key[1]) /\ ~Reverts
                   => \E p \in Requests \ {q} : Holds(p, grant[q].nonce)'
  <2>1. CASE q = r
    BY <1>1, <1>2, <2>1
  <2>2. CASE q # r
    BY <1>1, <1>2, <2>2 DEF NoncesOK
  <2> QED BY <2>1, <2>2
<1> QED BY <1>3, <1>4 DEF NoncesOK, Holds, Reverts

\* A transaction that is accepted is held by the grant that sent it.
LEMMA AcceptNonces ==
  ASSUME AccessIInv, AccessIInv', NoncesOK, NEW r \in Requests,
         grant[r].pc = "prepared", Accepts(grant[r].nonce), AcceptTx(grant[r].key),
         GrantAt(r, "pending"), UNCHANGED owner
  PROVE  NoncesOK'
<1> DEFINE n == grant[r].nonce
<1>1. /\ txs \in Seq(Pairs) /\ txs' = Append(txs, Pair(grant[r].key))
      /\ n = Len(txs) /\ n \in Nat /\ grant \in [Requests -> GrantCalls]
      /\ \A q \in Requests : grant[q].nonce \in Nat /\ grant'[q].nonce \in Nat
  BY DEF AccessIInv, AccessTypeOK, GrantCalls, Accepts, AcceptTx
<1>2. Len(txs') = n + 1
  BY <1>1
<1>3. /\ grant'[r].pc = "pending" /\ grant'[r].nonce = n
      /\ \A q \in Requests \ {r} : grant'[q] = grant[q]
  BY <1>1 DEF GrantAt, GrantCalls
<1>4. \A q \in Requests, m \in Nat : Holds(q, m) => Holds(q, m)'
  BY <1>3 DEF Holds
<1>5. \A m \in Nat : m < n + 1 => \E q \in Requests : Holds(q, m)'
  BY <1>1, <1>3, <1>4 DEF NoncesOK, Holds
<1>6. \A q \in Requests : grant'[q].pc = "prepared" => grant'[q].nonce <= n + 1
  BY <1>1, <1>3 DEF NoncesOK
<1>7. \A q \in Requests : grant'[q].pc = "failed" /\ Parses(grant'[q].key[1]) /\ ~Reverts
         => \E p \in Requests \ {q} : Holds(p, grant[q].nonce)'
  BY <1>1, <1>3, <1>4 DEF NoncesOK
<1> QED BY <1>2, <1>5, <1>6, <1>7 DEF NoncesOK, Holds, Reverts

\* A step of a grant: it fails only over a nonce that is taken.
LEMMA GrantNonces ==
  ASSUME Faults \cap {"db", "rpc", "crash"} = {}, AccessIInv, AccessIInv', NoncesOK,
         NEW r \in Requests, GrantStep(r)
  PROVE  NoncesOK'
<1>1. /\ grant \in [Requests -> GrantCalls] /\ grant[r].nonce \in Nat
      /\ mined \in Nat /\ Len(txs) \in Nat /\ mined <= Len(txs) /\ UNCHANGED owner
  BY DEF AccessIInv, AccessTypeOK, GrantCalls, GrantStep, GrantPrepare, GrantSend, GrantReceipt,
         GrantRecord, chainVars
<1>2. \A q \in Requests \ {r} : grant'[q] = grant[q]
  BY <1>1 DEF GrantStep, GrantPrepare, GrantSend, GrantReceipt, GrantRecord, GrantAt
<1>3. CASE GrantPrepare(r)
  <2>1. /\ grant[r].pc = "start" /\ UNCHANGED txs
        /\ \/ /\ grant'[r].pc = "failed" /\ grant'[r].key = grant[r].key
              /\ ~Parses(grant[r].key[1]) \/ Reverts
           \/ grant'[r].pc = "prepared" /\ grant'[r].nonce \in {mined, Len(txs)}
    BY <1>1, <1>3 DEF GrantPrepare, GrantAt, GrantCalls, chainVars
  <2> QED BY <1>1, <1>2, <2>1, NoncesFrame DEF Holds
<1>4. CASE GrantSend(r)
  <2>1. CASE UNCHANGED txs /\ ~Accepts(grant[r].nonce) /\ GrantAt(r, "failed")
    <3>1. /\ grant[r].pc = "prepared" /\ grant'[r].pc = "failed"
          /\ grant'[r].nonce = grant[r].nonce
      BY <1>1, <1>4, <2>1 DEF GrantSend, GrantAt, GrantCalls
    <3>2. grant[r].nonce < Len(txs)
      BY <1>1, <2>1, <3>1 DEF NoncesOK, Accepts
    <3>3. \E q \in Requests \ {r} : Holds(q, grant'[r].nonce)
      BY <1>1, <3>1, <3>2 DEF NoncesOK, Holds
    <3> QED BY <1>1, <1>2, <2>1, <3>1, <3>3, NoncesFrame DEF Holds
  <2>2. CASE Accepts(grant[r].nonce) /\ AcceptTx(grant[r].key) /\ GrantAt(r, "pending")
    BY <1>1, <1>4, <2>2, AcceptNonces DEF GrantSend
  <2> QED BY <1>4, <2>1, <2>2 DEF GrantSend
<1>5. CASE GrantReceipt(r) \/ GrantRecord(r)
  <2>1. /\ UNCHANGED txs /\ grant[r].pc \in {"pending", "confirmed"}
        /\ grant'[r].pc \in {"confirmed", "done"} /\ grant'[r].nonce = grant[r].nonce
    BY <1>1, <1>5 DEF GrantReceipt, GrantRecord, GrantAt, GrantCalls, chainVars
  <2> QED BY <1>1, <1>2, <2>1, NoncesFrame DEF Holds
<1> QED BY <1>3, <1>4, <1>5 DEF GrantStep

\* Every step keeps it.
LEMMA NoncesStep ==
  ASSUME Faults \cap {"db", "rpc", "crash"} = {}, AccessIInv, AccessIInv', NoncesOK,
         [AccessNext]_accessVars
  PROVE  NoncesOK'
<1>1. ASSUME NEW r \in Requests, NEW k \in Keys, CallGrant(r, k) PROVE NoncesOK'
  <2>1. /\ grant[r].pc = "idle" /\ grant'[r].pc = "start" /\ UNCHANGED <<txs, owner>>
        /\ \A q \in Requests \ {r} : grant'[q] = grant[q]
    BY <1>1 DEF CallGrant, SpawnGrant, NoGrant, chainVars, AccessIInv, AccessTypeOK
  <2> QED BY <2>1, NoncesFrame DEF Holds
<1>2. ASSUME UNCHANGED <<txs, owner, grant>> PROVE NoncesOK'
  BY <1>2 DEF NoncesOK, Holds, Reverts
<1>3. ~Restart
  BY DEF Restart
<1> QED
  BY <1>1, <1>2, <1>3, GrantNonces
  DEF AccessNext, CheckStep, ReadCache, AskChain, RecordCheck, DropCheck, CallCheck, MineTx,
      PassTime, accessVars, chainVars

\* If the node and the database answer and the server stays up, a grant to a
\* well-formed wallet is lost in one way only: a concurrent grant used the nonce
\* it had read, however many grants run at once.
THEOREM LostToARaceOnly ==
  ASSUME Faults \cap {"db", "rpc", "crash"} = {}
  PROVE  AccessSpec => []LostOnlyToARace
<1>1. AccessInit => NoncesOK
  BY DEF AccessInit, NoncesOK, NoGrant
<1>2. AccessIInv /\ AccessIInv' /\ NoncesOK /\ [AccessNext]_accessVars => NoncesOK'
  BY NoncesStep
<1>3. NoncesOK => LostOnlyToARace
  BY DEF NoncesOK, LostOnlyToARace, Holds
<1> QED BY <1>1, <1>2, <1>3, AccessInvariance, PTL DEF AccessSpec
=============================================================================

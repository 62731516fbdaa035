---------------------------- MODULE AccessOracle ----------------------------
(***************************************************************************)
(* What AccessManager::check_access promises its callers, without cache,   *)
(* database or RPC: a registry of who owns what, which only grows, and     *)
(* calls that are each answered from the registry as it is at ONE moment   *)
(* between the call and the answer.  A call may instead fail or be given   *)
(* up by its caller; it is never answered wrongly.                         *)
(***************************************************************************)
CONSTANTS
    Callers,       \* who asks
    Questions,     \* what can be asked
    Records,       \* what the registry holds
    Subject(_),    \* the record a question is about
    NoQuestion,    \* of a caller that has not asked yet
    Initially      \* the registry at the start

VARIABLES
    registry,      \* the records that exist
    call           \* [caller -> its call]

oracleVars == <<registry, call>>

Answers == {"true", "false", "err"}

Unasked == [state |-> "idle", question |-> NoQuestion]
Asked(q) == [state |-> "asked", question |-> q]

OracleInit ==
    /\ registry = Initially
    /\ call = [c \in Callers |-> Unasked]

Ask(c, q) ==
    /\ call[c] = Unasked
    /\ call' = [call EXCEPT ![c] = Asked(q)]
    /\ UNCHANGED registry

\* "true" only while the record exists, "false" only while it does not.
Answer(c, q) ==
    /\ call[c] = Asked(q)
    /\ \E a \in Answers :
          /\ a = "true" => Subject(q) \in registry
          /\ a = "false" => Subject(q) \notin registry
          /\ call' = [call EXCEPT ![c].state = a]
    /\ UNCHANGED registry

\* Any set of unfinished calls ends without an answer.
GiveUp ==
    /\ \E C \in SUBSET {c \in Callers : call[c].state = "asked"} :
          call' = [c \in Callers |->
                      IF c \in C THEN [call[c] EXCEPT !.state = "gone"]
                                 ELSE call[c]]
    /\ UNCHANGED registry

Enter(x) ==
    /\ registry' = registry \cup {x}
    /\ UNCHANGED call

OracleNext ==
    \/ \E c \in Callers, q \in Questions : Ask(c, q) \/ Answer(c, q)
    \/ GiveUp
    \/ \E x \in Records : Enter(x)

OracleSpec == OracleInit /\ [][OracleNext]_oracleVars
=============================================================================

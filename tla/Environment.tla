---------------------------- MODULE Environment ----------------------------
(***************************************************************************)
(* What every part of access-gated-server runs in: the wall clock, the     *)
(* strings clients send where a wallet is expected, and the things that    *)
(* can go wrong outside the code.  The clock counts coarse ticks; a module *)
(* that compares ages states its limits in the same ticks.                 *)
(***************************************************************************)
EXTENDS Naturals

CONSTANTS
    Requests,    \* the HTTP requests that will ever be made
    Wallets,     \* strings that occur where a wallet address is expected
    Addresses,   \* 20-byte account addresses
    AddrOf,      \* the address a string parses to, or NoAddress
    NoAddress,
    MaxTime,     \* bound on the clock
    Faults       \* the failures this environment produces, a subset of:

\* "db"         a SQLite statement fails
\* "rpc"        a call to the Arc node fails, or its answer is lost
\* "gateway"    a call to Circle Gateway fails, or its answer is lost
\* "payer"      Gateway settles without naming the payer
\* "disconnect" a client goes away and hyper drops its handler's future
\* "crash"      the process stops and is started again
\* "clock"      the wall clock is set back
FaultKinds == {"db", "rpc", "gateway", "payer", "disconnect", "crash", "clock"}

ASSUME EnvironmentAssumption ==
    /\ NoAddress \notin Addresses
    /\ AddrOf \in [Wallets -> Addresses \cup {NoAddress}]
    /\ MaxTime \in Nat
    /\ Faults \subseteq FaultKinds

VARIABLE now     \* SystemTime::now(), in ticks since the run began

\* Address::from_str(w) is Ok: several strings (lower case, checksummed, with
\* or without 0x) parse to one address.
Parses(w) == AddrOf[w] # NoAddress

\* u64::saturating_sub
SaturatingSub(a, b) == IF a >= b THEN a - b ELSE 0

Tick == now < MaxTime /\ now' = now + 1

\* SystemTime is not monotonic: an operator or NTP may step it back.
ClockSetBack == "clock" \in Faults /\ now > 0 /\ now' = now - 1

ClockTypeOK == now \in Nat
=============================================================================

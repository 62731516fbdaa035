------------------------------- MODULE Money -------------------------------
(***************************************************************************)
(* The three forms money takes on its way: price_to_atomic reads a price   *)
(* text into atomic units (validate.rs), BuyerClient::pay writes an amount *)
(* as text again (client.rs), and cmd_pay reads that text as an f64 and    *)
(* adds (examples/buyer).                                                  *)
(*                                                                         *)
(* A text is a sequence of one-character strings of ASCII.  A double is a  *)
(* number of units of 2^-Scale, small enough to tell the smallest amounts  *)
(* apart as finely as Precision allows.                                    *)
(***************************************************************************)
EXTENDS SequencesExt

CONSTANTS
    Decimals,     \* digits of an atomic unit: 6
    MaxPrice,     \* MAX_PRICE_ATOMIC
    MaxU64,
    Invalid,      \* Err
    Precision,    \* bits of a double's significand: 53
    Scale,
    \* What the properties look at.
    Wholes,       \* dollars
    Places        \* bound on the digits behind the point

\* Powers, by recursion, so that something can be proved about them.
TenTo[k \in Nat] == IF k = 0 THEN 1 ELSE 10 * TenTo[k - 1]
TwoTo[k \in Nat] == IF k = 0 THEN 1 ELSE 2 * TwoTo[k - 1]

One == TenTo[Decimals]     \* a dollar, in atomic units
Unit == TwoTo[Scale]       \* a dollar, as a double

WholeDigits == 9           \* the digits a number of dollars may have

\* A price has fewer bits than a double, and its fraction and its dollars fit
\* in a u64.
ASSUME MoneyAssumption ==
    /\ {Decimals, MaxPrice, MaxU64, Precision, Scale, Places} \subseteq Nat
    /\ Decimals > 1 /\ Precision > 0
    /\ Unit >= One * TwoTo[Precision - 1]
    /\ MaxPrice < MaxU64 /\ One <= MaxU64
    /\ MaxPrice < TwoTo[Precision - 1]
    /\ MaxPrice \div One < TenTo[WholeDigits]
    /\ Wholes \subseteq 0..(TenTo[WholeDigits] - 1)
    /\ Invalid \notin Int

----------------------------------------------------------------------------
\* Texts

Digits == <<"0", "1", "2", "3", "4", "5", "6", "7", "8", "9">>
IsDigit(c) == c \in ToSet(Digits)
DigitOf(c) == SelectInSeq(Digits, LAMBDA d : d = c) - 1
ValueOf(s) ==
    LET v[i \in 0..Len(s)] == IF i = 0 THEN 0 ELSE 10 * v[i - 1] + DigitOf(s[i])
    IN v[Len(s)]

DropLeading(s, c) ==
    LET i == SelectInSeq(s, LAMBDA d : d # c)
    IN IF i = 0 THEN <<>> ELSE SubSeq(s, i, Len(s))
DropTrailing(s, c) == SubSeq(s, 1, SelectLastInSeq(s, LAMBDA d : d # c))

Point(s) == SelectInSeq(s, LAMBDA c : c = ".")
Before(s) == IF Point(s) = 0 THEN s ELSE SubSeq(s, 1, Point(s) - 1)
Behind(s) == IF Point(s) = 0 THEN <<>> ELSE SubSeq(s, Point(s) + 1, Len(s))

\* The last k digits of n.
LastDigits(n, k) == [i \in 1..k |-> Digits[((n \div TenTo[k - i]) % 10) + 1]]
DigitsOf(n) == DropLeading(LastDigits(n, WholeDigits), "0")

----------------------------------------------------------------------------
\* price_to_atomic

\* str::parse::<u64>: digits, with a plus sign before them or not.
ParseU64(s) ==
    LET d == IF Len(s) > 1 /\ s[1] = "+" THEN Tail(s) ELSE s
    IN IF d # <<>> /\ (\A i \in DOMAIN d : IsDigit(d[i])) /\ ValueOf(d) <= MaxU64
       THEN ValueOf(d) ELSE Invalid

\* Mutant: zeros are put before the decimals.
PaddedLeft(d) ==
    LET zeros == IF Len(d) < Decimals THEN Decimals - Len(d) ELSE 0
    IN [i \in 1..Decimals |-> IF i <= zeros THEN "0" ELSE d[i - zeros]]

\* Zeros behind the decimals; what is more than Decimals digits is cut off
\* unread.
Padded(d) == [i \in 1..Decimals |-> IF i <= Len(d) THEN d[i] ELSE "0"]

Trimmed(text) == DropLeading(DropTrailing(DropLeading(text, " "), " "), "$")

PriceToAtomic(text) ==
    LET s == Trimmed(text)
        whole == IF Before(s) = <<>> THEN 0 ELSE ParseU64(Before(s))
        part == ParseU64(Padded(Behind(s)))
        atomic == whole * One + part
    IN IF s = <<>> \/ Invalid \in {whole, part} THEN Invalid
       ELSE IF atomic \in 1..MaxPrice THEN atomic ELSE Invalid

----------------------------------------------------------------------------
\* f64

\* The double next to num/den units, ties to even.
Nearest(num, den) ==
    LET e == CHOOSE k \in 0..Scale :
                /\ num \div den < TwoTo[Precision + k]
                /\ k = 0 \/ num \div den >= TwoTo[Precision + k - 1]
        ulp == den * TwoTo[e]
        down == num \div ulp
        rest == num % ulp
    IN (IF 2 * rest > ulp \/ (2 * rest = ulp /\ down % 2 = 1) THEN down + 1 ELSE down) * TwoTo[e]

\* "...".parse::<f64>() of what amount_paid_usdc writes
ReadF64(s) == Nearest(ValueOf(Before(s) \o Behind(s)) * Unit, TenTo[Len(Behind(s))])

AddF64(x, y) == Nearest(x + y, 1)

\* "{:.6}" of a double, in atomic units.
Shown(x) == (2 * x * One + Unit) \div (2 * Unit)

----------------------------------------------------------------------------
\* amount_paid_usdc

\* Mutant: the whole dollars are left out.
FixedPointCents(a) == <<"0", ".">> \o LastDigits(a, Decimals)

\* "{:.6}" of the amount divided by a dollar, which rounds to a double.
FixedPoint(a) ==
    LET m == Shown(Nearest(a * Unit, One))
    IN (IF m < One THEN <<"0">> ELSE DigitsOf(m \div One)) \o <<".">> \o LastDigits(m, Decimals)

\* Trailing zeros go, then the point, and ".0" comes back if no point is left.
AmountPaidUsdc(a) ==
    LET s == DropTrailing(DropTrailing(FixedPoint(a), "0"), ".")
    IN IF Point(s) = 0 THEN s \o <<".", "0">> ELSE s

----------------------------------------------------------------------------
\* Properties.

\* n dollars and f of the 10^k parts of one.
Numeral(n, k, f) ==
    (IF n = 0 THEN <<"0">> ELSE DigitsOf(n))
        \o (IF k = 0 THEN <<>> ELSE <<".">> \o LastDigits(f, k))
Worth(n, k, f) == n * One + (f * One) \div TenTo[k]

Payable(worth) == IF worth \in 1..MaxPrice THEN worth ELSE Invalid

\* A price is what its text says in whole atomic units, never more, with any
\* number of decimals; it is refused when that is nothing, or too much, or when
\* a minus sign or a letter is among the digits that count.  A plus sign is
\* refused there too, but for two places where u64's parser takes it: before
\* the dollars it says nothing, and right behind the point it says a first
\* decimal 0 ("$1.+5" is one dollar and five cents).
PriceIsExact ==
    \A n \in Wholes, k \in 0..Places : \A f \in 0..(TenTo[k] - 1) :
        LET text == Numeral(n, k, f)
            counts == IF k = 0 THEN Len(text) ELSE Point(text) + (IF k < Decimals THEN k ELSE Decimals)
        IN /\ PriceToAtomic(text) = Payable(Worth(n, k, f))
           /\ PriceToAtomic(<<" ", "$">> \o text) = PriceToAtomic(text)
           /\ \A i \in 1..counts, c \in {"-", "x"} :
                PriceToAtomic(InsertAt(text, i, c)) = Invalid
           /\ \A i \in 1..counts :
                PriceToAtomic(InsertAt(text, i, "+")) =
                    IF i = 1 THEN Payable(Worth(n, k, f))
                    ELSE IF i = Point(text) + 1 THEN Payable(Worth(n, k + 1, f))
                    ELSE Invalid

\* What a buyer is told he paid reads as what was paid: the text is a price
\* text for the very same amount, and as a double it is shown as that amount.
AmountRoundTrips ==
    \A a \in 1..MaxPrice :
        /\ PriceToAtomic(AmountPaidUsdc(a)) = a
        /\ Shown(ReadF64(AmountPaidUsdc(a))) = a
=============================================================================

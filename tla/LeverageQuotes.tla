--------------------------- MODULE LeverageQuotes ---------------------------
(***************************************************************************)
(* What leverage a margin can take, or what margin a size needs: one bank    *)
(* captured, and a search over it in a process of its own                   *)
(* (duskLeverageMaximum.ts, duskLeverageMaximumEngine.ts).                   *)
(*                                                                          *)
(* The chain is a history, fixed but not known.  The program is an oracle:   *)
(* the search may assume nothing of it.                                     *)
(***************************************************************************)
EXTENDS Naturals, FiniteSets, FiniteSetsExt

CONSTANTS
    None,
    Requests,
    Limit,          \* requests in flight (4)
    Attempts,       \* captures in a batch (3)
    MaxMargin,      \* 2^64 - 1
    Grid,           \* the steps of leverage above the lowest
    Programs,       \* upgradeable programs that an open calls
    Chains,         \* [market: slot -> what the program is there]
    Leverages,      \* [market -> the multipliers it takes, of 0..Grid]
    Receipts,       \* [market -> [margin -> the size it opens, None if refused]]
    Inputs          \* [kind, margin, target]

VARIABLES
    chain,
    inFlight,
    known,          \* executableAddresses: programs whose data account is known
    quote           \* [Requests -> the request]

vars == <<chain, inFlight, known, quote>>

Slots == DOMAIN chain.market
Margins == 1..MaxMargin
Idle == [at |-> "idle"]

Running == {r \in Requests : quote[r].at \notin {"idle", "answered"}}

\* Each read executes the complete transaction on the same bank.
Takes(bank, multiplier) == multiplier \in Leverages[chain.market[bank]]
Read(bank, margin) == Receipts[chain.market[bank]][margin]

-----------------------------------------------------------------------------

Init ==
    /\ chain \in Chains
    /\ inFlight = 0
    /\ known = {}
    /\ quote = [r \in Requests |-> Idle]

Becomes(r, state) == quote' = [quote EXCEPT ![r] = state]

\* currentLeverageMaximum: the client names the least bank to be read.  The
\* release it names is compared with the process's own, which no step changes.
Begin(r, input, least) ==
    /\ quote[r].at = "idle"
    /\ inFlight < Limit
    /\ inFlight' = inFlight + 1
    /\ Becomes(r, [at |-> "capture", input |-> input, least |-> least, floor |-> least,
                   left |-> Attempts, keys |-> known])
    /\ UNCHANGED <<chain, known>>

\* The finally of a request, whatever ended it.
End(r) ==
    /\ quote[r].at # "idle"
    /\ inFlight' = IF r \in Running THEN inFlight - 1 ELSE inFlight
    /\ Becomes(r, Idle)
    /\ UNCHANGED <<chain, known>>

\* captureLeverageQuoteBank: accounts of another bank than the slot's are
\* found out by their Clock, and read again a few times.
OfSlot(slot, bank) == slot = bank

\* Executables whose data account was not among the keys are read again with
\* it, in a second complete bank.
Extra(keys) == Programs \ keys

Capture(r, slot, bank) ==
    LET q == quote[r]
        high == IF q.input.kind = "maximum" THEN Grid ELSE q.input.margin
    IN  /\ q.at = "capture" /\ slot >= q.floor
        /\ IF ~OfSlot(slot, bank)
           THEN /\ q.left > 1
                /\ Becomes(r, [q EXCEPT !.left = @ - 1])
                /\ UNCHANGED known
           ELSE /\ known' = known \cup Programs
                /\ IF Extra(q.keys) = {}
                   THEN Becomes(r, [at |-> "search", input |-> q.input, least |-> q.least,
                                    slot |-> slot, bank |-> bank, low |-> 0, high |-> high])
                   ELSE Becomes(r, [q EXCEPT !.floor = slot, !.left = Attempts, !.keys = @ \cup Extra(@)])
    /\ UNCHANGED <<chain, inFlight>>

-----------------------------------------------------------------------------
(* The searches.  One that meets a refusal where it cannot go on answers     *)
(* "capacity".                                                              *)

Found(r, answer) == Becomes(r, [at |-> "found", input |-> quote[r].input, slot |-> quote[r].slot,
                                bank |-> quote[r].bank, least |-> quote[r].least, answer |-> answer])

Narrow(r, low, high) == Becomes(r, [quote[r] EXCEPT !.at = "bisect", !.low = low, !.high = high])

\* searchFrozenLeverageMaximum: the lowest multiplier must be taken.
Lowest(r) ==
    /\ quote[r].at = "search" /\ quote[r].input.kind = "maximum"
    /\ IF Takes(quote[r].bank, 0) THEN Narrow(r, 0, Grid) ELSE Found(r, None)
    /\ UNCHANGED <<chain, inFlight, known>>

Middle(low, high) == (low + high + 1) \div 2

Multiplier(r) ==
    LET q == quote[r]
        middle == Middle(q.low, q.high)
    IN  /\ q.at = "bisect" /\ q.input.kind = "maximum"
        /\ IF q.low = q.high THEN Found(r, q.low)
           ELSE IF Takes(q.bank, middle) THEN Narrow(r, middle, q.high)
           ELSE Narrow(r, q.low, middle - 1)
        /\ UNCHANGED <<chain, inFlight, known>>

\* searchFrozenLeverageSize: the margin is doubled until it reaches the size,
\* is refused, or cannot grow.
Doubled(margin) == IF margin > MaxMargin \div 2 THEN MaxMargin ELSE 2 * margin

Reaches(value, target) == value # None /\ value >= target
Short(value, target) == value # None /\ value < target

Grow(r) ==
    LET q == quote[r]
        value == Read(q.bank, q.high)
    IN  /\ q.at = "search" /\ q.input.kind = "size"
        /\ IF ~Short(value, q.input.target) THEN Narrow(r, q.low, q.high)
           ELSE IF q.high = MaxMargin THEN Found(r, None)
           ELSE Becomes(r, [q EXCEPT !.low = q.high, !.high = Doubled(q.high)])
        /\ UNCHANGED <<chain, inFlight, known>>

\* A refusal counts as too much.
Below_refused(value, target) == ~Reaches(value, target)
Below(value, target) == Short(value, target)

Margin(r) ==
    LET q == quote[r]
        middle == (q.low + q.high) \div 2
    IN  /\ q.at = "bisect" /\ q.input.kind = "size"
        /\ IF q.high - q.low > 1
           THEN IF Below(Read(q.bank, middle), q.input.target)
                THEN Narrow(r, middle, q.high)
                ELSE Narrow(r, q.low, middle)
           ELSE Found(r, IF Reaches(Read(q.bank, q.high), q.input.target) THEN q.high
                         ELSE IF Read(q.bank, q.high) = None THEN None ELSE 0)
        /\ UNCHANGED <<chain, inFlight, known>>

\* 0 stands for a search that did not converge.
Answer(r) ==
    LET q == quote[r]
    IN  /\ q.at = "found" /\ (q.input.kind = "size" => q.answer # 0)
        /\ inFlight' = inFlight - 1
        /\ Becomes(r, [q EXCEPT !.at = "answered"])
        /\ UNCHANGED <<chain, known>>

Next ==
    \E r \in Requests :
        \/ \E input \in Inputs, least \in Slots : Begin(r, input, least)
        \/ quote[r].at = "capture" /\ \E slot, bank \in Slots : Capture(r, slot, bank)
        \/ Lowest(r) \/ Multiplier(r) \/ Grow(r) \/ Margin(r)
        \/ Answer(r) \/ End(r)

Spec == Init /\ [][Next]_vars

-----------------------------------------------------------------------------

\* Larger margins open larger sizes until they are refused.
Ordered(bank) ==
    \A m, n \in Margins : m < n /\ Read(bank, n) # None =>
        Read(bank, m) # None /\ Reaches(Read(bank, n), Read(bank, m))

\* The multiplier is taken and the next is not; the margin reaches the size and
\* one less falls short, whatever the program is like in between.  Where it is
\* ordered, a capacity answer is right for every margin
\* (docs/dusk-leverage-maximum.md:43-45, 64-65).
IsExecutable(q) ==
    IF q.input.kind = "maximum"
    THEN IF q.answer = None THEN ~Takes(q.bank, 0)
         ELSE Takes(q.bank, q.answer) /\ (q.answer = Grid \/ ~Takes(q.bank, q.answer + 1))
    ELSE IF q.answer = None
         THEN Ordered(q.bank) => \A m \in Margins : ~Reaches(Read(q.bank, m), q.input.target)
         ELSE /\ q.answer # 0
              /\ Reaches(Read(q.bank, q.answer), q.input.target)
              /\ q.answer = 1 \/ Short(Read(q.bank, q.answer - 1), q.input.target)

\* An answer is executable in the one bank it names, which is no older than the
\* client asked for, and a request that is over, however it ended, holds no
\* place in the limit.
LeverageIsExecutable ==
    /\ \A r \in Requests : quote[r].at \in {"found", "answered"} =>
          /\ quote[r].bank = quote[r].slot /\ quote[r].bank >= quote[r].least
          /\ IsExecutable(quote[r])
    /\ inFlight = Cardinality(Running) /\ inFlight <= Limit
=============================================================================

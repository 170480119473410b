---------------------------- MODULE WalletChains ----------------------------
(***************************************************************************)
(* The chains that a wallet is captured on: of three slots, each with one   *)
(* thing that happens under a capture's hands.                              *)
(***************************************************************************)
EXTENDS Naturals

CONSTANT None

Always(x) == [s \in 1..3 |-> x]

Leverage(market, opened, margin, collateral, shares) ==
    [market |-> market, opened |-> opened, margin |-> margin, collateral |-> collateral, shares |-> shares]

Event(p, name, slot, debit, credit, collateral, shares) ==
    [position |-> p, name |-> name, slot |-> slot, debit |-> debit, credit |-> credit,
     collateral |-> collateral, shares |-> shares]

Order(kind, market, p, status) ==
    [kind |-> kind, market |-> market, position |-> p, status |-> status,
     mint |-> "v", amount |-> 1, expires |-> 3]

Empty ==
    [markets |-> Always({"m"}), positions |-> [p \in {} |-> None], orders |-> [o \in {} |-> None],
     loans |-> [l \in {} |-> None], shares |-> Always(0), vault |-> Always("v"), events |-> {}]

\* An entry order is executed.
Executed ==
    [Empty EXCEPT
        !.positions = [p \in {"q"} |-> <<None, None, Leverage("m", 3, 2, 1, 1)>>],
        !.orders = [o \in {"e"} |-> <<Order("entry", "m", "q", 0), Order("entry", "m", "q", 0), None>>],
        !.events = {Event("q", "opened", 3, 2, 0, 1, 1)}]

\* A position is changed and changed back.
Changed ==
    [Empty EXCEPT
        !.positions = [p \in {"p"} |-> <<Leverage("m", 1, 1, 2, 1), Leverage("m", 1, 1, 2, 2),
                                         Leverage("m", 1, 1, 2, 1)>>],
        !.events = {Event("p", "opened", 1, 1, 0, 2, 1), Event("p", "updated", 2, 1, 0, 2, 2),
                    Event("p", "updated", 3, 0, 2, 2, 1)}]

\* An entry order is replaced, an exit order and its position go; no debt.
Replaced ==
    [Empty EXCEPT
        !.positions = [p \in {"p", "q"} |->
            IF p = "p" THEN <<Leverage("m", 1, 1, 2, 0), Leverage("m", 1, 1, 2, 0), None>> ELSE Always(None)],
        !.orders = [o \in {"e", "x"} |->
            IF o = "e" THEN <<[Order("entry", "m", "q", 0) EXCEPT !.expires = 2],
                              [Order("entry", "m", "q", 0) EXCEPT !.expires = 2], Order("entry", "m", "q", 0)>>
            ELSE <<Order("exit", "m", "p", 0), Order("exit", "m", "p", 0), None>>]]

\* A market is new, and with it a position and its exit order.
NewMarket ==
    [Empty EXCEPT
        !.markets = <<{"m"}, {"m"}, {"m", "n"}>>,
        !.positions = [p \in {"p"} |-> <<None, None, Leverage("n", 3, 1, 2, 0)>>],
        !.orders = [o \in {"x"} |-> <<None, None, Order("exit", "n", "p", 0)>>],
        !.events = {Event("p", "opened", 3, 1, 0, 2, 0)}]

\* A loan is repaid, a stop is executed, and the vault moves to another mint.
Stopped ==
    [Empty EXCEPT
        !.loans = [l \in {"l"} |-> <<"owed", "owed", None>>],
        !.orders = [o \in {"h", "g"} |->
            IF o = "h" THEN <<Order("hlp", "m", None, 0), Order("hlp", "m", None, 0), Order("hlp", "m", None, 1)>>
            ELSE <<None, Order("hlp", "m", None, 0), Order("hlp", "m", None, 0)>>],
        !.shares = <<2, 1, 1>>,
        !.vault = <<"v", "v", "w">>]

Chains == {Executed, Changed, Replaced, NewMarket, Stopped}
=============================================================================

----------------------------- MODULE MCEventStore -----------------------------
(***************************************************************************)
(* Small instances of EventStore: t1 opens a position and updates it, t2    *)
(* closes it in the same slot, t3 opens it again in a later one. t1's       *)
(* deliveries may differ in facts, t3 carries an order.                     *)
(***************************************************************************)
EXTENDS EventStore

CONSTANTS t1, t2, t3, opened, updated, closed, reopened, position, ws, rpc

MCTxs == {t1, t2, t3}
MCEventsOf == [t \in MCTxs |-> CASE t = t1 -> <<opened, updated>>
                                 [] t = t2 -> <<closed>>
                                 [] t = t3 -> <<reopened>>]
MCHasOrder == {t3}
MCFactsOf == [t \in MCTxs |-> IF t = t1 THEN {ws, rpc} ELSE {ws}]
MCChainIndex == [t \in MCTxs |-> CASE t = t1 -> 1 [] t = t2 -> 2 [] t = t3 -> 3]
MCPositionOf == [e \in {opened, updated, closed, reopened} |-> position]

MCSlotOf == [t \in MCTxs |-> IF t = t3 THEN 2 ELSE 1]
MCSessions == {"daemon", "replay"}
=============================================================================

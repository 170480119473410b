----------------------------- MODULE MCIngestion -----------------------------
(***************************************************************************)
(* Small instances of Ingestion for TLC. Two transactions come before the   *)
(* daemon, t0 below the release's first slot; t2 and t3 are confirmed while *)
(* it runs, t2 in the slot of t1.                                           *)
(***************************************************************************)
EXTENDS Ingestion

CONSTANTS t0, t1, t2, t3

AllTxs == {t0, t1, t2, t3}

ThreeTxs == {t0, t1, t2}

MCSlotOf == [t \in Txs |-> CASE t = t0         -> 0
                             [] t \in {t1, t2} -> 2
                             [] t = t3         -> 3]

\* t1 decodes to two rows, t2 touches the program without any.
MCRowCount == [t \in Txs |-> CASE t = t1 -> 2
                               [] t = t2 -> 0
                               [] OTHER  -> 1]

MCBefore == {t0, t1}
OnePoison == {t2}
=============================================================================

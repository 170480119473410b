----------------------------- MODULE LiveYield ------------------------------
(***************************************************************************)
(* The claimable yield of LP shares (duskYieldAccounting.ts): what the API   *)
(* shows for a holder from the market's account, the vault in it and the     *)
(* holder's yield account, against what the program does to them.            *)
(*                                                                          *)
(* One asset, and of its two lanes the interest, which is the lane of swap   *)
(* fees with the income of old loans beside it.  The program is external,    *)
(* and lazy: a fee waits in the market until an update grows the senior      *)
(* index, the vault's senior shares earn until its checkpoint turns that     *)
(* into growth of its own receipts, and a holder's yield account moves when  *)
(* the holder's balance does.  Income comes epoch by epoch; an account that  *)
(* is epochs behind is caught up before it moves, and the API adds what it   *)
(* is owed from the epochs' archives unless they are too many.               *)
(***************************************************************************)
EXTENDS Integers, FiniteSets, Functions

CONSTANTS
    Seniors,        \* holders of srLP
    Receipts,       \* holders of hLP
    Balance,        \* [holder -> shares at first]
    VaultShares,    \* srLP of the hLP vault
    Q,              \* 2^64: the fixed point of an index
    Reach,          \* 32: epochs of income that are projected
    MaxEpoch,       \* bound on the epochs
    MaxCredit       \* bound on the fees earned

VARIABLES
    fees,       \* the market's senior ledger: [index, unallocated, carry, epoch]
    vault,      \* [index, unallocated, carry, checkpoint, remainder]
    account,    \* yield accounts: [holder -> [balance, checkpoint, remainder, accrued,
                \* epoch, due]]; `due` is what the books and their archives hold
                \* for it (projectHolderIncome, of the SDK)
    credited,   \* history: fees and income earned
    paid        \* history: [holder -> amount harvested]

vars == <<fees, vault, account, credited, paid>>

Holders == Seniors \cup Receipts

-----------------------------------------------------------------------------

\* settleRecordedGrowth, without the guards on widths.
Settle_noRemainder(balance, index, at) ==
    [amount |-> (balance * (index - at.checkpoint)) \div Q, remainder |-> 0]
Settle(balance, index, at) ==
    LET scaled == balance * (index - at.checkpoint) + at.remainder
    IN [amount |-> scaled \div Q, remainder |-> scaled % Q]

\* publishedIndex.
Published(index, amount, supply, carry) ==
    IF supply = 0 THEN index ELSE index + (amount * Q + carry) \div supply

Supply(holders) == SumFunctionOnSet([h \in holders |-> account[h].balance], holders)
SeniorSupply == Supply(Seniors) + VaultShares

\* projectLiveYield: the senior index once what waits is allocated, and for a
\* receipt the vault's index once the vault has been credited by it.
SeniorIndex == Published(fees.index, fees.unallocated, SeniorSupply, fees.carry)
VaultCredit == Settle(VaultShares, SeniorIndex, vault).amount
ReceiptIndex == Published(vault.index, vault.unallocated + VaultCredit, Supply(Receipts), vault.carry)

Index(h) == IF h \in Seniors THEN SeniorIndex ELSE ReceiptIndex

\* captureYieldGroup: more archives than are read leave the income out.
Pending(h) == h \in Seniors /\ fees.epoch - account[h].epoch > Reach
Income(h) == IF Pending(h) THEN 0 ELSE account[h].due

Shown(h) ==
    account[h].accrued + Settle(account[h].balance, Index(h), account[h]).amount + Income(h)

-----------------------------------------------------------------------------
(* The program.                                                             *)

Init ==
    /\ fees = [index |-> 0, unallocated |-> 0, carry |-> 0, epoch |-> 0]
    /\ vault = [index |-> 0, unallocated |-> 0, carry |-> 0, checkpoint |-> 0, remainder |-> 0]
    /\ account = [h \in Holders |-> [balance |-> Balance[h], checkpoint |-> 0, remainder |-> 0,
                                     accrued |-> 0, epoch |-> 0, due |-> 0]]
    /\ credited = 0
    /\ paid = [h \in Holders |-> 0]

\* A swap's fee is a liability until it is allocated.
Credit(n) ==
    /\ credited + n <= MaxCredit
    /\ credited' = credited + n
    /\ fees' = [fees EXCEPT !.unallocated = @ + n]
    /\ UNCHANGED <<vault, account, paid>>

\* A borrower pays interest of a loan that a senior holder is owed a part of.
PayIncome(h, n) ==
    /\ credited + n <= MaxCredit
    /\ credited' = credited + n
    /\ account' = [account EXCEPT ![h].due = @ + n]
    /\ UNCHANGED <<fees, vault, paid>>

\* The book of the epoch is archived.
NextEpoch ==
    /\ fees.epoch < MaxEpoch
    /\ fees' = [fees EXCEPT !.epoch = @ + 1]
    /\ UNCHANGED <<vault, account, credited, paid>>

\* A checkpoint transaction of the Claim flow: an account gets a part of what
\* it is owed, of its oldest epoch.
CatchUp(h, n) ==
    /\ account[h].epoch < fees.epoch
    /\ account' = [account EXCEPT ![h].epoch = @ + 1, ![h].accrued = @ + n, ![h].due = @ - n]
    /\ UNCHANGED <<fees, vault, credited, paid>>

Allocated == fees.unallocated = 0
Checkpointed == Allocated /\ vault.checkpoint = fees.index /\ vault.unallocated = 0

\* The market's lazy update.
UpdateMarket ==
    /\ ~Allocated
    /\ LET scaled == fees.unallocated * Q + fees.carry
       IN fees' = [fees EXCEPT !.index = @ + scaled \div SeniorSupply, !.unallocated = 0,
                               !.carry = scaled % SeniorSupply]
    /\ UNCHANGED <<vault, account, credited, paid>>

\* The vault's: what it earned as a senior holder, and then its own index.
CreditVault ==
    /\ Allocated /\ vault.checkpoint # fees.index
    /\ LET scaled == VaultShares * (fees.index - vault.checkpoint) + vault.remainder
       IN vault' = [vault EXCEPT !.checkpoint = fees.index, !.remainder = scaled % Q,
                                 !.unallocated = @ + scaled \div Q]
    /\ UNCHANGED <<fees, account, credited, paid>>

UpdateVault ==
    /\ vault.unallocated # 0 /\ Supply(Receipts) # 0
    /\ LET scaled == vault.unallocated * Q + vault.carry
       IN vault' = [vault EXCEPT !.index = @ + scaled \div Supply(Receipts), !.unallocated = 0,
                                 !.carry = scaled % Supply(Receipts)]
    /\ UNCHANGED <<fees, account, credited, paid>>

\* A holder's yield account, at the index of its shares.
Settled(h, index) ==
    LET scaled == account[h].balance * (index - account[h].checkpoint) + account[h].remainder
    IN [account[h] EXCEPT !.checkpoint = index, !.remainder = scaled % Q,
                          !.accrued = @ + scaled \div Q + account[h].due, !.due = 0]
AtIndex(h) == Settled(h, IF h \in Seniors THEN fees.index ELSE vault.index)

Current(h) ==
    /\ IF h \in Seniors THEN Allocated ELSE Checkpointed
    /\ h \in Seniors => account[h].epoch = fees.epoch

\* Harvest pays what a settled account has accrued.
Harvest(h) ==
    /\ Current(h) /\ AtIndex(h).accrued > 0
    /\ paid' = [paid EXCEPT ![h] = @ + AtIndex(h).accrued]
    /\ account' = [account EXCEPT ![h] = [AtIndex(h) EXCEPT !.accrued = 0]]
    /\ UNCHANGED <<fees, vault, credited>>

\* A share changes hands: both yield accounts settle at the old balances.
Transfer(h, g) ==
    /\ h # g /\ (h \in Seniors <=> g \in Seniors)
    /\ Current(h) /\ Current(g) /\ account[h].balance > 0
    /\ account' = [account EXCEPT ![h] = [AtIndex(h) EXCEPT !.balance = @ - 1],
                                  ![g] = [AtIndex(g) EXCEPT !.balance = @ + 1]]
    /\ UNCHANGED <<fees, vault, credited, paid>>

Next ==
    \/ \E n \in 1..MaxCredit : Credit(n)
    \/ \E h \in Seniors, n \in 1..MaxCredit : PayIncome(h, n)
    \/ NextEpoch
    \/ \E h \in Seniors : \E n \in 0..account[h].due : CatchUp(h, n)
    \/ UpdateMarket \/ CreditVault \/ UpdateVault
    \/ \E h \in Holders : Harvest(h)
    \/ \E h, g \in Holders : Transfer(h, g)

Spec == Init /\ [][Next]_vars

-----------------------------------------------------------------------------

\* "The amount Harvest would pay now" (duskYieldAccounting.ts:59-62): as long
\* as nothing is earned, nothing that the program does in its own time, an
\* update of the market, of the vault, a new epoch, a catch-up, another
\* holder's harvest or a transfer, changes what a holder has been shown, and a
\* harvest pays that.  A holder more epochs behind than are read is shown less
\* (duskOwnerYield.ts:266-269, "without reporting a complete claim",
\* duskOwnerYield.test.ts:313), and no less as it catches up.
Same(h) == paid[h]' + Shown(h)' = paid[h] + Shown(h)
ShownIsKept ==
    credited' = credited =>
        \A h \in Holders :
            \/ Same(h)
            \/ Pending(h)' /\ ~Pending(h)
            \/ Pending(h) /\ paid[h]' + Shown(h)' > paid[h] + Shown(h)

HarvestPaysShown == [][ShownIsKept]_vars

\* What is shown and paid was earned (duskYieldAccounting.ts:16-26, 52-57).
YieldIsBacked ==
    SumFunctionOnSet([h \in Holders |-> paid[h] + Shown(h)], Holders) <= credited
=============================================================================

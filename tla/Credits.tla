------------------------------ MODULE Credits ------------------------------
(***************************************************************************)
(* The credits of one user and the hold of one of his threads: the row of  *)
(* users, the thread's active row of credit_holds and the consumption      *)
(* entries of credit_transactions, as CreditsService changes them.         *)
(*                                                                         *)
(* Each statement is a transaction of its own: the process may die between *)
(* the three of a settlement, or between the two that create a hold.       *)
(***************************************************************************)
EXTENDS Integers, Sequences

CONSTANTS InitialBalance, HoldAmount,
          DebtLimit,    \* the debt a user may run into: max_debt is -DebtLimit
          Costs,        \* what one model call may cost
          MaxCost       \* and at most

ASSUME CreditsAssumption ==
    /\ InitialBalance \in Nat
    /\ HoldAmount \in Nat
    /\ DebtLimit \in Nat
    /\ MaxCost \in Nat /\ Costs \subseteq 0..MaxCost

VARIABLES
    balance,    \* users.credits_balance
    hold,       \* the active hold of the thread
    spent,      \* the sum of the creation_consume transactions
    granted     \* the sum of the admin_adjust transactions

creditVars == <<balance, hold, spent, granted>>

NoHold == [active |-> FALSE, consumed |-> 0]

CreditsInit ==
    /\ balance = InitialBalance
    /\ hold = NoHold
    /\ spent = 0 /\ granted = 0

MaxDebt == -DebtLimit

IsFrozen == balance <= 0

\* Mutant: only the debt is looked at.
CanHoldFrozen == ~hold.active /\ balance - HoldAmount >= MaxDebt

\* create_hold, when the middleware's checks let it through: the amount leaves the balance,
\* then the row is inserted.
CanHold == ~hold.active /\ ~IsFrozen /\ balance - HoldAmount >= MaxDebt

CreateHold ==
    /\ CanHold
    /\ balance' = balance - HoldAmount
    /\ hold' = [active |-> TRUE, consumed |-> 0]
    /\ UNCHANGED <<spent, granted>>

CreateHoldDies ==
    /\ CanHold
    /\ balance' = balance - HoldAmount
    /\ UNCHANGED <<hold, spent, granted>>

\* Mutant: a hold that was used up is checked against the balance before the hold.
LimitReachedExact(consumed) == balance + HoldAmount - consumed <= MaxDebt

\* check_credit_limit: the balance already lacks the hold.
LimitReached(consumed) == balance - consumed <= MaxDebt

\* add_consumption
Consume(c) ==
    /\ hold.active
    /\ hold' = [hold EXCEPT !.consumed = @ + c]
    /\ UNCHANGED <<balance, spent, granted>>

\* Mutant: only an unused part of the hold is given back, an excess is not charged.
DifferenceRefundOnly == IF hold.consumed < HoldAmount THEN HoldAmount - hold.consumed ELSE 0

\* What settle_hold gives back, or charges on top.
Difference == HoldAmount - hold.consumed

\* Mutant: the transaction keeps the sign of the entry.
SettleNegative ==
    /\ hold.active
    /\ balance' = balance + Difference
    /\ spent' = spent - hold.consumed
    /\ hold' = NoHold
    /\ UNCHANGED granted

\* settle_hold: the balance, the creation_consume transaction, the row.
Settle ==
    /\ hold.active
    /\ balance' = balance + Difference
    /\ spent' = spent + hold.consumed
    /\ hold' = NoHold
    /\ UNCHANGED granted

\* The process dies before the row is closed.
SettleDies ==
    /\ hold.active
    /\ balance' = balance + Difference
    /\ spent' \in {spent, spent + hold.consumed}
    /\ UNCHANGED <<hold, granted>>

\* admin_adjust, from a thread of its own at any time.
AdminAdjust(a) ==
    /\ balance' = balance + a /\ granted' = granted + a
    /\ UNCHANGED <<hold, spent>>

=============================================================================

------------------------------- MODULE Ledger -------------------------------
(***************************************************************************)
(* What a user may expect of his account.  Its worth falls by what a model *)
(* call cost, while a creation lasts, and rises by what an admin grants.   *)
(* A creation begins only on credit; that it begins and how it ends, that  *)
(* an amount is held for it, refunded or charged on top, costs nothing.    *)
(* Only a death of the process between two statements about credits may    *)
(* tear the account.                                                       *)
(*                                                                         *)
(* Generation, with its holds, settlements, streams and crashes,           *)
(* implements this specification.                                          *)
(***************************************************************************)
EXTENDS Integers

CONSTANTS InitialBalance, HoldAmount, DebtLimit, Costs, Grants

VARIABLES worth,        \* what the user has when all is settled
          creating,     \* a creation is under way
          torn

ledgerVars == <<worth, creating, torn>>

LedgerInit == worth = InitialBalance /\ creating = FALSE /\ torn = FALSE

Begin ==
    /\ ~creating /\ worth > 0 /\ worth - HoldAmount >= -DebtLimit
    /\ creating' = TRUE
    /\ UNCHANGED <<worth, torn>>

Use(c) ==
    /\ creating
    /\ worth' = worth - c
    /\ UNCHANGED <<creating, torn>>

Finish ==
    /\ creating
    /\ creating' = FALSE
    /\ UNCHANGED <<worth, torn>>

Grant(a) ==
    /\ worth' = worth + a
    /\ UNCHANGED <<creating, torn>>

Tear ==
    /\ torn' = TRUE
    /\ worth' \in Int
    /\ UNCHANGED creating

LedgerNext ==
    \/ Begin \/ Finish \/ Tear
    \/ \E c \in Costs : Use(c)
    \/ \E a \in Grants : Grant(a)

LedgerSpec == LedgerInit /\ [][LedgerNext]_ledgerVars

=============================================================================

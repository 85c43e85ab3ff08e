------------------------------- MODULE Ledger --------------------------------
(***************************************************************************)
(* The append-only ledger (modules/ledger).  A wallet is never stored: its *)
(* balances are sums over the entries.  An entry's status column follows   *)
(* from its type (pending, settled, held or reversed) and always passes    *)
(* the filters of the sums, so it is left out.                             *)
(***************************************************************************)
EXTENDS Integers, FiniteSets

VARIABLE ledger     \* ledger_entries

EntryTypes ==
    {"commission_pending", "commission_available", "commission_reversed", "clawback",
     "payout_requested", "payout_sent", "payout_failed"}

\* key: the unique idempotency_key, what it is for and the row it refers to.
Entry(kind, ref, type, user, amount) ==
    [key |-> <<kind, ref>>, type |-> type, user |-> user, amount |-> amount]

Written(kind, ref) == \E e \in ledger : e.key = <<kind, ref>>

\* writeEntry, several times in the caller's transaction.  The unique violation
\* of a key that exists aborts that transaction in PostgreSQL, so the look-up in
\* the catch block fails too: the caller rolls back.
CanWrite(entries) == \A e \in entries : ~ \E old \in ledger : old.key = e.key
WriteEntries(entries) == ledger' = ledger \union entries

\* SUM(amount).  A sum counts the units of the entries, those that credit (sign 1)
\* less those that debit (sign -1): sizes of sets can be reasoned about, folds cannot.
Units(entries, sign) == UNION {{e} \X (1..(sign * e.amount)) : e \in entries}
SumOf(entries) == Cardinality(Units(entries, 1)) - Cardinality(Units(entries, -1))

Balance(user, types) == SumOf({e \in ledger : e.user = user /\ e.type \in types})

PendingBalance(user) == Balance(user, {"commission_pending"})

\* Mutant of AvailableBalance: the status filter misses held and sent payouts.
AvailableBalanceNoPayouts(user) ==
    Balance(user, {"commission_available", "clawback", "commission_reversed"})

\* Everything else counts: a payout is debited when requested and when sent.
AvailableBalance(user) == Balance(user, EntryTypes \ {"commission_pending"})
==============================================================================

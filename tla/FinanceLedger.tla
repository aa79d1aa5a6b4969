---------------------------- MODULE FinanceLedger ----------------------------
(***************************************************************************)
(* finance.Ledger: entries of debits and credits and, beside them, the     *)
(* balance of each tenant, which Reconcile compares with the entries.  The *)
(* identifier of an entry is unique over all tenants.                      *)
(***************************************************************************)
EXTENDS Domain, FiniteSetsExt

CONSTANTS EntryIds, LedgerTenants, Cents

ASSUME FinanceAssumption == Cents \subseteq -(MaxInt64 + 1) .. MaxInt64

VARIABLES entries,     \* a set of [id, tenant, debit, credit]
          balances

financeVars == <<entries, balances>>

FinanceInit == entries = {} /\ balances = [t \in LedgerTenants |-> 0]

ValidEntry(e) ==
  /\ e.debit >= 0 /\ e.credit >= 0
  /\ ~(e.debit = 0 /\ e.credit = 0) /\ ~(e.debit > 0 /\ e.credit > 0)

Posted_BalanceFirst(e) ==
  /\ balances' = [balances EXCEPT ![e.tenant] = AddInt64(@, e.credit - e.debit)]
  /\ entries' = IF \E old \in entries : old.id = e.id THEN entries ELSE entries \cup {e}
Posted(e) ==
  /\ \A old \in entries : old.id # e.id
  /\ balances' = [balances EXCEPT ![e.tenant] = AddInt64(@, e.credit - e.debit)]
  /\ entries' = entries \cup {e}

Post(e) == ValidEntry(e) /\ Posted(e)

(* The sum Reconcile makes of the entries, wrapping around where it does.  *)
Added(es) == FoldSet(LAMBDA e, sum : AddInt64(sum, e.credit - e.debit), 0, es)
EntriesOf(tenant) == {e \in entries : e.tenant = tenant}
Total(tenant) == Added(EntriesOf(tenant))

FinanceNext ==
  \E e \in [id : EntryIds, tenant : LedgerTenants, debit : Cents, credit : Cents] : Post(e)

FinanceSpec == FinanceInit /\ [][FinanceNext]_financeVars

-----------------------------------------------------------------------------
(* Reconcile never fails: the balance of every tenant is the sum of its    *)
(* entries, in whatever order they are added, also when the sums of the    *)
(* two pass the largest int64 at different places, and refused postings    *)
(* leave nothing behind.                                                   *)
Reconciles == \A t \in LedgerTenants : Total(t) = balances[t]
=============================================================================

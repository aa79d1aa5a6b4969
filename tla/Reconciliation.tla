--------------------------- MODULE Reconciliation ---------------------------
(***************************************************************************)
(* reconciliation.Compare: the differences of two lists of entries.  An    *)
(* entry is [key, value]: its external identifier, and its kind, amount    *)
(* and time.                                                               *)
(***************************************************************************)
EXTENDS Sorting, Functions

CONSTANTS ExternalIds, EntryValues, MaxEntries, NoEntry

Entry == [key : ExternalIds, value : EntryValues]

ASSUME CompareAssumption == ExternalIds \subseteq Int /\ NoEntry \notin Entry

VARIABLES local, remote      \* the two lists a caller has gathered

compareVars == <<local, remote>>

CompareInit == local = <<>> /\ remote = <<>>

AppendLocal(e) == Len(local) < MaxEntries /\ local' = Append(local, e) /\ UNCHANGED remote
AppendRemote(e) == Len(remote) < MaxEntries /\ remote' = Append(remote, e) /\ UNCHANGED local

CompareNext == \E e \in Entry : AppendLocal(e) \/ AppendRemote(e)

CompareSpec == CompareInit /\ [][CompareNext]_compareVars

-----------------------------------------------------------------------------
(* The map made of a list: of the entries with one identifier the last.    *)
ByKey_First(list) ==
  [k \in {e.key : e \in Range(list)} |-> list[SelectInSeq(list, LAMBDA e : e.key = k)]]
ByKey(list) ==
  [k \in {e.key : e \in Range(list)} |-> list[SelectLastInSeq(list, LAMBDA e : e.key = k)]]

(* The switch: what is reported of an identifier, unless it is on both     *)
(* sides with one value.                                                   *)
Differs(k, l, r) == k \in DOMAIN l \cap DOMAIN r => l[k].value # r[k].value

Difference(k, l, r) ==
  LET a == IF k \in DOMAIN l THEN l[k] ELSE NoEntry
      b == IF k \in DOMAIN r THEN r[k] ELSE NoEntry
      reason == CASE k \notin DOMAIN l -> "missing_local"
                  [] k \notin DOMAIN r -> "missing_remote"
                  [] OTHER -> "different_values"
  IN  [key |-> k, reason |-> reason, local |-> a, remote |-> b]

Compare(a, b) ==
  LET l == ByKey(a)
      r == ByKey(b)
      keys == Ascending({k \in DOMAIN l \cup DOMAIN r : Differs(k, l, r)})
  IN  [i \in DOMAIN keys |-> Difference(keys[i], l, r)]

(* Compare is complete once the lists have no identifier twice: it finds   *)
(* nothing exactly if the lists have the same entries.  Of an identifier   *)
(* that comes twice the last entry stands for all, and the differences     *)
(* hold, in the order of the identifiers, exactly those of these entries   *)
(* that have no equal one on the other side.                               *)
CompareIsComplete ==
  LET diffs == Compare(local, remote)
      Distinct(list) == \A i, j \in DOMAIN list : i # j => list[i].key # list[j].key
      Final(list) == {list[i] : i \in {j \in DOMAIN list :
                        \A k \in DOMAIN list : list[k].key = list[j].key => k <= j}}
  IN  /\ {d.local : d \in Range(diffs)} \ {NoEntry} = Final(local) \ Final(remote)
      /\ {d.remote : d \in Range(diffs)} \ {NoEntry} = Final(remote) \ Final(local)
      /\ \A i, j \in DOMAIN diffs : i < j => diffs[i].key < diffs[j].key
      /\ Distinct(local) /\ Distinct(remote) =>
           (diffs = <<>> <=> Range(local) = Range(remote))
=============================================================================

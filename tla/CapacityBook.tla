---------------------------- MODULE CapacityBook ----------------------------
(***************************************************************************)
(* capacity.Book: versioned buckets of int64 amounts.  A caller reads a    *)
(* bucket with Get and holds with the version it saw; a release needs no   *)
(* version.  Every method runs under the mutex.                            *)
(***************************************************************************)
EXTENDS Domain

CONSTANTS Buckets, Limits, Amounts, Holders, NoBucket,
          MaxBookVersion        \* bound: versions

(* Limits and amounts are int64, and no bucket is one that is there.       *)
ASSUME CapacityBookAssumption ==
  /\ Limits \subseteq Int /\ \A limit \in Limits : limit <= MaxInt64
  /\ Amounts \subseteq Int /\ \A amount \in Amounts : amount <= MaxInt64
  /\ NoBucket \notin [limit : Int, used : Int, version : Int]

VARIABLES
  buckets,   \* key -> [limit, used, version] or NoBucket
  seen,      \* per caller: what its last Get returned: <<key, bucket>>, or <<>>
  net,       \* history: key -> the exact sum held minus the sum released
  bookWrapped    \* history: the buckets whose sum went past the largest int64

bookVars == <<buckets, seen, net, bookWrapped>>

BookInit ==
  /\ buckets = [k \in Buckets |-> NoBucket]
  /\ seen = [c \in Holders |-> <<>>]
  /\ net = [k \in Buckets |-> 0] /\ bookWrapped = {}

Define(k, limit) ==
  /\ limit > 0 /\ buckets[k] = NoBucket
  /\ buckets' = [buckets EXCEPT ![k] = [limit |-> limit, used |-> 0, version |-> 1]]
  /\ UNCHANGED <<seen, net, bookWrapped>>

Get(c, k) ==
  /\ buckets[k] # NoBucket /\ seen' = [seen EXCEPT ![c] = <<k, buckets[k]>>]
  /\ UNCHANGED <<buckets, net, bookWrapped>>

HoldFits(b, amount) == AddInt64(b.used, amount) <= b.limit

Held(b, amount) == [b EXCEPT !.used = AddInt64(b.used, amount), !.version = b.version + 1]

Hold(c, amount) ==
  LET k == seen[c][1] IN
  /\ seen[c] # <<>> /\ amount > 0
  /\ buckets[k].version = seen[c][2].version /\ buckets[k].version < MaxBookVersion
  /\ HoldFits(buckets[k], amount)
  /\ buckets' = [buckets EXCEPT ![k] = Held(@, amount)]
  /\ net' = [net EXCEPT ![k] = @ + amount]
  /\ bookWrapped' = IF buckets[k].used + amount > MaxInt64 THEN bookWrapped \cup {k} ELSE bookWrapped
  /\ UNCHANGED seen

Released_KeepsVersion(b, amount) == [b EXCEPT !.used = @ - amount]
Released(b, amount) == [b EXCEPT !.used = b.used - amount, !.version = b.version + 1]

Release(k, amount) ==
  /\ amount > 0 /\ buckets[k] # NoBucket /\ amount <= buckets[k].used
  /\ buckets[k].version < MaxBookVersion
  /\ buckets' = [buckets EXCEPT ![k] = Released(@, amount)]
  /\ net' = [net EXCEPT ![k] = @ - amount]
  /\ UNCHANGED <<seen, bookWrapped>>

BookNext ==
  \E k \in Buckets :
    \/ \E limit \in Limits : Define(k, limit)
    \/ \E amount \in Amounts : Release(k, amount)
    \/ \E c \in Holders : Get(c, k) \/ \E amount \in Amounts : Hold(c, amount)

BookSpec == BookInit /\ [][BookNext]_bookVars

-----------------------------------------------------------------------------
(* A hold is decided on the bucket its caller saw: a bucket seen and not   *)
(* outdated has not changed, releases included.                            *)
SeenIsCurrent ==
  \A c \in Holders :
    seen[c] # <<>> =>
      LET b == buckets[seen[c][1]] IN b.version = seen[c][2].version => b = seen[c][2]

(* What is used is what was held and not released, between nothing and the *)
(* limit.  Only a hold that takes the sum past the largest int64 breaks    *)
(* that: the sum is then right up to the wrap-around, and still not over   *)
(* the limit, so that more is held than there is.                          *)
HoldsAccounted ==
  \A k \in Buckets :
    buckets[k] # NoBucket =>
      LET b == buckets[k] IN
      /\ b.used <= b.limit
      /\ (b.used - net[k]) % (2 * (MaxInt64 + 1)) = 0
      /\ k \notin bookWrapped => b.used = net[k] /\ net[k] >= 0

(* What the book promises: holds decided on the current bucket, and every  *)
(* hold and release accounted for.                                         *)
BookSound == SeenIsCurrent /\ HoldsAccounted
=============================================================================

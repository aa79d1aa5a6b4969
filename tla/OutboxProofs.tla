---------------------------- MODULE OutboxProofs ----------------------------
(***************************************************************************)
(* Proofs about Outbox, for every set of events and runners, both stores   *)
(* and every value of the bounds.                                          *)
(***************************************************************************)
EXTENDS Outbox, TLAPS

(* What a runner has in hand, by where it is: nothing while it waits or is *)
(* stopped, the rest of its batch between two events, one event at a mark. *)
InHand ==
  \A p \in Runners :
    /\ pc[p] \in {"stopped", "wait"} => todo[p] = {} /\ current[p] = {}
    /\ pc[p] = "batch" => current[p] = {}
    /\ pc[p] \in {"sent", "failed"} => \E e \in Events : current[p] = {e}

(* An event has not been sent while it is free or still to be handled, and *)
(* has been sent once while it is about to be marked published.            *)
SentByPosition ==
  /\ \A e \in Events : e \notin claimed /\ e \notin published => sent[e] = 0
  /\ \A p \in Runners : \A e \in todo[p] : sent[e] = 0
  /\ \A p \in Runners : \A e \in current[p] :
       sent[e] = IF pc[p] = "sent" THEN 1 ELSE 0

(* The inductive invariant.                                                *)
OutboxInv == TypeOK /\ InHand /\ ExclusiveClaim /\ SentByPosition /\ AtMostOncePublish

LEMMA InitOutbox == Init => OutboxInv
BY OutboxAssumption
   DEF Init, OutboxInv, TypeOK, InHand, ExclusiveClaim, SentByPosition, AtMostOncePublish, Holds

(* A claim takes only events that are free.                                *)
LEMMA PicksAreFree ==
  ASSUME NEW S \in Picks, TypeOK
  PROVE  S \subseteq Events /\ S \cap claimed = {} /\ S \cap published = {}
BY DEF Picks, PostgresPicks, MemoryPicks, Ready, TypeOK

LEMMA ClaimedTable ==
  ASSUME TypeOK, NEW S \in Picks, StoreClaim(S)
  PROVE  /\ claimed' = claimed \cup S /\ UNCHANGED <<queued, published, delay>>
         /\ claimed' \subseteq Events /\ attempts' \in [Events -> Nat]
<1>1. S \subseteq Events
  BY PicksAreFree
<1>2. \A e \in Events : attempts[e] + (IF e \in S THEN 1 ELSE 0) \in Nat
  BY DEF TypeOK
<1> QED BY <1>1, <1>2 DEF StoreClaim, TypeOK

LEMMA OutboxStep == OutboxInv /\ [Next]_vars => OutboxInv'
<1> SUFFICES ASSUME OutboxInv, [Next]_vars PROVE OutboxInv'
  OBVIOUS
<1> USE OutboxAssumption
<1>0. CASE UNCHANGED vars
  BY <1>0 DEF vars, state, table, runner, OutboxInv, TypeOK, InHand, ExclusiveClaim,
              SentByPosition, AtMostOncePublish, Holds
<1>a. TypeOK /\ InHand /\ ExclusiveClaim /\ SentByPosition /\ AtMostOncePublish
  BY DEF OutboxInv
<1>b. CASE UNCHANGED backend
  <2> USE <1>b
  (* Steps that change neither what runners hold nor what was sent.        *)
  <2>a. ASSUME TypeOK', UNCHANGED <<claimed, published, pc, todo, current, sent>>
        PROVE  OutboxInv'
    BY <1>a, <2>a DEF OutboxInv, InHand, ExclusiveClaim, SentByPosition,
                      AtMostOncePublish, Holds
  <2>1. ASSUME NEW e \in Events, Enqueue(e) PROVE OutboxInv'
    <3>1. PICK d \in 0 .. MaxDelay : delay' = [delay EXCEPT ![e] = d]
      BY <2>1 DEF Enqueue
    <3>2. delay' \in [Events -> Nat]
      BY <3>1, <1>a DEF TypeOK
    <3>3. TypeOK'
      BY <2>1, <3>2, <1>a DEF Enqueue, TypeOK, runner
    <3> QED BY <2>1, <2>a, <3>3 DEF Enqueue, runner
  <2>2. ASSUME NEW p \in Runners, Claim(p) PROVE OutboxInv'
    <3>1. PICK S \in Picks : StoreClaim(S) /\ todo' = [todo EXCEPT ![p] = S]
      BY <2>2 DEF Claim
    <3>2. /\ pc[p] = "wait" /\ pc' = [pc EXCEPT ![p] = "batch"]
          /\ UNCHANGED <<current, cancelled, sent, shutdowns, faults>>
      BY <2>2 DEF Claim
    <3>3. S \subseteq Events /\ S \cap claimed = {} /\ S \cap published = {}
      BY <1>a, PicksAreFree
    <3>4. /\ claimed' = claimed \cup S /\ UNCHANGED <<queued, published, delay>>
          /\ claimed' \subseteq Events /\ attempts' \in [Events -> Nat]
      BY <1>a, <3>1, ClaimedTable
    <3>5. TypeOK'
      BY <1>a, <3>1, <3>2, <3>3, <3>4 DEF TypeOK
    <3>6. /\ current[p] = {} /\ todo'[p] = S /\ pc'[p] = "batch"
          /\ \A q \in Runners : q # p => todo'[q] = todo[q] /\ pc'[q] = pc[q]
      BY <1>a, <3>1, <3>2 DEF TypeOK, InHand
    <3>7. InHand'
      BY <1>a, <3>2, <3>6 DEF InHand
    <3>8. ExclusiveClaim'
      BY <1>a, <3>2, <3>3, <3>4, <3>6 DEF ExclusiveClaim, Holds
    <3>9. SentByPosition' /\ AtMostOncePublish'
      BY <1>a, <3>2, <3>3, <3>4, <3>6 DEF SentByPosition, AtMostOncePublish
    <3> QED BY <3>5, <3>7, <3>8, <3>9 DEF OutboxInv
  <2>3. ASSUME NEW p \in Runners, ClaimAnswerLost(p) PROVE OutboxInv'
    <3>1. PICK S \in Picks : StoreClaim(S)
      BY <2>3 DEF ClaimAnswerLost
    <3>2. /\ UNCHANGED <<pc, todo, current, cancelled, sent, shutdowns>>
          /\ faults < MaxFaults /\ faults' = faults + 1
      BY <2>3 DEF ClaimAnswerLost, runner
    <3>3. /\ claimed' = claimed \cup S /\ UNCHANGED <<queued, published, delay>>
          /\ claimed' \subseteq Events /\ attempts' \in [Events -> Nat]
      BY <1>a, <3>1, ClaimedTable
    <3>4. TypeOK'
      BY <1>a, <3>2, <3>3 DEF TypeOK
    <3>5. InHand' /\ ExclusiveClaim'
      BY <1>a, <3>2, <3>3 DEF InHand, ExclusiveClaim, Holds
    <3>6. SentByPosition' /\ AtMostOncePublish'
      BY <1>a, <3>2, <3>3 DEF SentByPosition, AtMostOncePublish
    <3> QED BY <3>4, <3>5, <3>6 DEF OutboxInv
  <2>4. ASSUME NEW p \in Runners, Publish(p) PROVE OutboxInv'
    <3>1. PICK e \in todo[p] :
            /\ current' = [current EXCEPT ![p] = {e}]
            /\ todo' = [todo EXCEPT ![p] = @ \ {e}]
            /\ IF p \in cancelled
               THEN pc' = [pc EXCEPT ![p] = "failed"] /\ UNCHANGED sent
               ELSE /\ pc' = [pc EXCEPT ![p] = "sent"]
                    /\ sent' = [sent EXCEPT ![e] = @ + 1]
      BY <2>4 DEF Publish
    <3>2. /\ pc[p] = "batch"
          /\ UNCHANGED <<queued, claimed, published, attempts, delay, cancelled, shutdowns, faults>>
      BY <2>4 DEF Publish, table
    <3>3. e \in Events /\ e \in claimed /\ e \notin published /\ sent[e] = 0
      BY <1>a DEF TypeOK, ExclusiveClaim, Holds, SentByPosition
    <3>4. /\ current[p] = {} /\ current'[p] = {e} /\ todo'[p] = todo[p] \ {e}
          /\ \A q \in Runners : q # p => /\ todo'[q] = todo[q] /\ current'[q] = current[q]
                                         /\ pc'[q] = pc[q]
      BY <1>a, <3>1, <3>2 DEF TypeOK, InHand
    <3>5. /\ pc'[p] \in {"sent", "failed"} /\ sent'[e] = IF pc'[p] = "sent" THEN 1 ELSE 0
          /\ \A f \in Events : f # e => sent'[f] = sent[f]
      BY <1>a, <3>1, <3>3 DEF TypeOK
    <3>6. sent' \in [Events -> Nat] /\ pc' \in [Runners -> {"stopped", "wait", "batch", "sent", "failed"}]
      BY <1>a, <3>1, <3>3 DEF TypeOK
    <3>7. todo' \in [Runners -> SUBSET Events] /\ current' \in [Runners -> SUBSET Events]
      BY <1>a, <3>1, <3>3 DEF TypeOK
    <3>8. TypeOK'
      BY <1>a, <3>2, <3>6, <3>7 DEF TypeOK
    <3>9. InHand'
      BY <1>a, <3>3, <3>4, <3>5 DEF InHand
    <3>10. ExclusiveClaim'
      BY <1>a, <3>2, <3>4 DEF ExclusiveClaim, Holds
    <3>11. SentByPosition'
      <4>1. \A q \in Runners : q # p => e \notin todo[q] /\ e \notin current[q]
        BY <1>a DEF ExclusiveClaim, Holds
      <4>2. \A q \in Runners : todo[q] \subseteq Events /\ current[q] \subseteq Events
        BY <1>a DEF TypeOK
      <4> QED BY <1>a, <3>2, <3>3, <3>4, <3>5, <4>1, <4>2 DEF SentByPosition
    <3>12. AtMostOncePublish'
      BY <1>a, <3>2, <3>3, <3>5 DEF AtMostOncePublish
    <3> QED BY <3>8, <3>9, <3>10, <3>11, <3>12 DEF OutboxInv
  (* A runner at a mark holds one event, and AfterMark takes it away.      *)
  <2>b. ASSUME NEW p \in Runners, pc[p] \in {"sent", "failed"}, AfterMark(p)
        PROVE  /\ current'[p] = {} /\ pc'[p] \in {"wait", "batch"}
               /\ pc'[p] = "wait" => todo[p] = {}
               /\ \A q \in Runners : q # p => pc'[q] = pc[q] /\ current'[q] = current[q]
               /\ pc' \in [Runners -> {"stopped", "wait", "batch", "sent", "failed"}]
               /\ current' \in [Runners -> SUBSET Events]
               /\ UNCHANGED <<todo, cancelled, sent, shutdowns>>
               /\ InHand'
    <3>1. /\ current'[p] = {} /\ pc'[p] \in {"wait", "batch"}
          /\ pc'[p] = "wait" => todo[p] = {}
          /\ \A q \in Runners : q # p => pc'[q] = pc[q] /\ current'[q] = current[q]
      BY <1>a, <2>b DEF AfterMark, TypeOK
    <3>2. /\ pc' \in [Runners -> {"stopped", "wait", "batch", "sent", "failed"}]
          /\ current' \in [Runners -> SUBSET Events]
          /\ UNCHANGED <<todo, cancelled, sent, shutdowns>>
      BY <1>a, <2>b DEF AfterMark, TypeOK
    <3>3. InHand'
      BY <1>a, <3>1, <3>2 DEF InHand
    <3> QED BY <3>1, <3>2, <3>3
  <2>5. ASSUME NEW p \in Runners, MarkPublished(p) PROVE OutboxInv'
    <3>1. PICK e \in current[p] : /\ published' = published \cup {e}
                                  /\ claimed' \in {claimed, claimed \ {e}}
                                  /\ UNCHANGED <<queued, attempts, delay>>
      BY <2>5 DEF MarkPublished, StoreMarkPublished, MemoryMarkPublished
    <3>2. pc[p] = "sent" /\ AfterMark(p) /\ UNCHANGED faults
      BY <2>5 DEF MarkPublished
    <3>3. current[p] = {e} /\ e \in Events /\ sent[e] = 1
      BY <1>a, <3>2 DEF InHand, SentByPosition
    <3>4. TypeOK'
      BY <1>a, <2>b, <3>1, <3>2, <3>3 DEF TypeOK
    <3>5. ExclusiveClaim'
      BY <1>a, <2>b, <3>1, <3>2, <3>3 DEF ExclusiveClaim, Holds
    <3>6. SentByPosition' /\ AtMostOncePublish'
      BY <1>a, <2>b, <3>1, <3>2, <3>3 DEF SentByPosition, AtMostOncePublish
    <3> QED BY <2>b, <3>2, <3>4, <3>5, <3>6 DEF OutboxInv
  <2>6. ASSUME NEW p \in Runners, MarkFailed(p) PROVE OutboxInv'
    <3>1. PICK e \in current[p] : IF backend = "postgres" THEN StoreMarkFailed(e)
                                  ELSE MemoryMarkFailed(e)
      BY <2>6 DEF MarkFailed
    <3>2. pc[p] = "failed" /\ AfterMark(p) /\ UNCHANGED faults
      BY <2>6 DEF MarkFailed
    <3>3. current[p] = {e} /\ e \in Events /\ sent[e] = 0
      BY <1>a, <3>2 DEF InHand, SentByPosition
    <3>4. claimed' = claimed \ {e} /\ UNCHANGED <<queued, published, attempts>>
      BY <3>1 DEF StoreMarkFailed, MemoryMarkFailed
    <3>5. attempts[e] \in Nat
      BY <1>a, <3>3 DEF TypeOK
    <3>6. \E d \in Nat : delay' = [delay EXCEPT ![e] = d]
      BY <3>1, <3>5 DEF StoreMarkFailed, MemoryMarkFailed
    <3>7. delay' \in [Events -> Nat]
      BY <1>a, <3>6 DEF TypeOK
    <3>8. TypeOK'
      BY <1>a, <2>b, <3>2, <3>4, <3>7 DEF TypeOK
    <3>9. ExclusiveClaim'
      BY <1>a, <2>b, <3>2, <3>3, <3>4 DEF ExclusiveClaim, Holds
    <3>10. SentByPosition' /\ AtMostOncePublish'
      BY <1>a, <2>b, <3>2, <3>3, <3>4 DEF SentByPosition, AtMostOncePublish
    <3> QED BY <2>b, <3>2, <3>8, <3>9, <3>10 DEF OutboxInv
  <2>7. ASSUME NEW p \in Runners, MarkRefused(p) PROVE OutboxInv'
    <3>1. /\ pc[p] \in {"sent", "failed"} /\ AfterMark(p)
          /\ UNCHANGED <<queued, claimed, published, attempts, delay>>
          /\ faults' \in 0 .. MaxFaults
      BY <1>a, <2>7 DEF MarkRefused, table, TypeOK
    <3>2. TypeOK'
      BY <1>a, <2>b, <3>1 DEF TypeOK
    <3>3. ExclusiveClaim' /\ SentByPosition' /\ AtMostOncePublish'
      BY <1>a, <2>b, <3>1 DEF ExclusiveClaim, Holds, SentByPosition, AtMostOncePublish
    <3> QED BY <2>b, <3>1, <3>2, <3>3 DEF OutboxInv
  <2>8. ASSUME NEW p \in Runners, Stop(p) \/ Start(p) PROVE OutboxInv'
    <3>1. /\ todo[p] = {} /\ current[p] = {} /\ pc'[p] \in {"stopped", "wait"}
          /\ \A q \in Runners : q # p => pc'[q] = pc[q]
      BY <1>a, <2>8 DEF Stop, Start, TypeOK, InHand
    <3>2. UNCHANGED <<queued, claimed, published, attempts, delay, todo, current, sent>>
      BY <2>8 DEF Stop, Start, table
    <3>3. TypeOK'
      BY <1>a, <2>8 DEF Stop, Start, table, TypeOK
    <3>4. InHand' /\ ExclusiveClaim'
      BY <1>a, <3>1, <3>2 DEF InHand, ExclusiveClaim, Holds
    <3>5. SentByPosition' /\ AtMostOncePublish'
      BY <1>a, <3>1, <3>2 DEF SentByPosition, AtMostOncePublish
    <3> QED BY <3>3, <3>4, <3>5 DEF OutboxInv
  <2>9. ASSUME NEW p \in Runners, Shutdown(p) PROVE OutboxInv'
    BY <1>a, <2>9, <2>a DEF Shutdown, table, TypeOK
  <2>10. ASSUME NEW p \in Runners, Crash(p) PROVE OutboxInv'
    <3>1. /\ todo'[p] = {} /\ current'[p] = {} /\ pc'[p] = "stopped"
          /\ \A q \in Runners : q # p => /\ todo'[q] = todo[q] /\ current'[q] = current[q]
                                         /\ pc'[q] = pc[q]
          /\ UNCHANGED <<claimed, published, sent>>
      BY <1>a, <2>10 DEF Crash, TypeOK, table
    <3>2. TypeOK'
      BY <1>a, <2>10 DEF Crash, TypeOK, table
    <3>3. InHand' /\ ExclusiveClaim'
      BY <1>a, <3>1 DEF InHand, ExclusiveClaim, Holds
    <3>4. SentByPosition' /\ AtMostOncePublish'
      BY <1>a, <3>1 DEF SentByPosition, AtMostOncePublish
    <3> QED BY <3>2, <3>3, <3>4 DEF OutboxInv
  <2>11. ASSUME TimePasses PROVE OutboxInv'
    <3>1. delay' \in [Events -> Nat]
      BY <1>a, <2>11 DEF TimePasses, TypeOK
    <3>2. TypeOK'
      BY <1>a, <2>11, <3>1 DEF TimePasses, TypeOK, runner
    <3> QED BY <2>11, <2>a, <3>2 DEF TimePasses, runner
  <2> QED BY <1>0, <2>1, <2>2, <2>3, <2>4, <2>5, <2>6, <2>7, <2>8, <2>9, <2>10, <2>11
          DEF Next, Work
<1> QED BY <1>0, <1>b DEF Next

LEMMA OutboxInvariance == Spec => []OutboxInv
BY InitOutbox, OutboxStep, PTL DEF Spec

(* However claims, lost answers, failed marks, crashes and restarts        *)
(* interleave, no two runners hold the same event, and what one holds is   *)
(* claimed and not published.                                              *)
THEOREM ClaimsAreExclusive == Spec => []ExclusiveClaim
<1>1. OutboxInv => ExclusiveClaim
  BY DEF OutboxInv
<1> QED BY <1>1, OutboxInvariance, PTL

(* No event is handed to the airline systems twice, and the table never    *)
(* says an event was published that was not.                               *)
THEOREM PublishesAtMostOnce == Spec => []AtMostOncePublish
<1>1. OutboxInv => AtMostOncePublish
  BY DEF OutboxInv
<1> QED BY <1>1, OutboxInvariance, PTL
=============================================================================

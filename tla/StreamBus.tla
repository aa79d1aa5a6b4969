------------------------------ MODULE StreamBus ------------------------------
(***************************************************************************)
(* stream.Bus: Publish sends to the channel of every subscriber, in any    *)
(* order, while it holds the read lock; Subscribe and Unsubscribe take the *)
(* write lock, and a writer that waits for it keeps new readers out (Go's  *)
(* RWMutex).  A send blocks on a full channel until the subscriber reads   *)
(* or the context of the Publish ends; the context of some ends, that of   *)
(* others (context.Background) never does.                                 *)
(***************************************************************************)
EXTENDS Integers, Sequences, Functions

CONSTANTS Publishers, Subscribers, Buffer,
          Background,     \* the publishers that may give a context that never ends
          Messages        \* bound: calls of Publish

VARIABLES
  subscriber,  \* per subscriber: "out", "joins", "in", "leaves", "gone"
  channel,     \* per subscriber: the channel
  received,    \* history: per subscriber what it read
  publisher,   \* per publisher: "idle" or "sends"
  targets,     \* per publisher: the subscribers still to send to
  patient,     \* the publishers in a Publish whose context never ends
  sequenceNo,  \* per publisher: calls of Publish so far
  failed       \* history: the Publish calls <<p, n>> that ended in an error

busVars == <<subscriber, channel, received, publisher, targets, patient, sequenceNo, failed>>

BusInit ==
  /\ subscriber = [s \in Subscribers |-> "out"]
  /\ channel = [s \in Subscribers |-> <<>>] /\ received = [s \in Subscribers |-> <<>>]
  /\ publisher = [p \in Publishers |-> "idle"] /\ targets = [p \in Publishers |-> {}]
  /\ sequenceNo = [p \in Publishers |-> 0] /\ failed = {} /\ patient = {}

Members == {s \in Subscribers : subscriber[s] \in {"in", "leaves"}}
Readers == {p \in Publishers : publisher[p] = "sends"}
WriterWaits == \E s \in Subscribers : subscriber[s] \in {"joins", "leaves"}

(* RLock.                                                                  *)
Publish(p) ==
  /\ publisher[p] = "idle" /\ ~WriterWaits
  /\ FoldFunction(+, 0, sequenceNo) < Messages
  /\ publisher' = [publisher EXCEPT ![p] = "sends"]
  /\ targets' = [targets EXCEPT ![p] = Members]
  /\ patient' \in {patient, patient \cup ({p} \cap Background)}
  /\ sequenceNo' = [sequenceNo EXCEPT ![p] = @ + 1]
  /\ UNCHANGED <<subscriber, channel, received, failed>>

BusSend_DropsIfFull(p, s) ==
  /\ s \in targets[p]
  /\ channel' = IF Len(channel[s]) = Buffer THEN channel
                ELSE [channel EXCEPT ![s] = Append(@, <<p, sequenceNo[p]>>)]
  /\ targets' = [targets EXCEPT ![p] = @ \ {s}]
  /\ UNCHANGED <<subscriber, received, publisher, patient, sequenceNo, failed>>
BusSend(p, s) ==
  /\ s \in targets[p] /\ Len(channel[s]) < Buffer
  /\ channel' = [channel EXCEPT ![s] = Append(@, <<p, sequenceNo[p]>>)]
  /\ targets' = [targets EXCEPT ![p] = @ \ {s}]
  /\ UNCHANGED <<subscriber, received, publisher, patient, sequenceNo, failed>>

(* RUnlock.                                                                *)
PublishReturns(p) ==
  /\ publisher[p] = "sends" /\ targets[p] = {}
  /\ publisher' = [publisher EXCEPT ![p] = "idle"] /\ patient' = patient \ {p}
  /\ UNCHANGED <<subscriber, channel, received, targets, sequenceNo, failed>>

(* The context ends a select that could not send, or could.                *)
PublishExpires_Ignored(p) == FALSE /\ UNCHANGED busVars
PublishExpires(p) ==
  /\ publisher[p] = "sends" /\ targets[p] # {} /\ p \notin patient
  /\ publisher' = [publisher EXCEPT ![p] = "idle"] /\ targets' = [targets EXCEPT ![p] = {}]
  /\ failed' = failed \cup {<<p, sequenceNo[p]>>}
  /\ UNCHANGED <<subscriber, channel, received, patient, sequenceNo>>

(* A call of Subscribe or Unsubscribe comes to Lock, and gets it once the  *)
(* readers before it are done.                                             *)
Lock(s) ==
  /\ subscriber[s] \in {"out", "in"}
  /\ subscriber' = [subscriber EXCEPT ![s] = IF @ = "out" THEN "joins" ELSE "leaves"]
  /\ UNCHANGED <<channel, received, publisher, targets, patient, sequenceNo, failed>>

NoReaders == Readers = {}

Locked(s) ==
  /\ subscriber[s] \in {"joins", "leaves"} /\ NoReaders
  /\ subscriber' = [subscriber EXCEPT ![s] = IF @ = "joins" THEN "in" ELSE "gone"]
  /\ UNCHANGED <<channel, received, publisher, targets, patient, sequenceNo, failed>>

(* The subscriber reads, while it is in and, from the closed channel, what *)
(* is left in it.                                                          *)
Receive(s) ==
  /\ subscriber[s] \in {"in", "gone"} /\ channel[s] # <<>>
  /\ received' = [received EXCEPT ![s] = Append(@, Head(channel[s]))]
  /\ channel' = [channel EXCEPT ![s] = Tail(@)]
  /\ UNCHANGED <<subscriber, publisher, targets, patient, sequenceNo, failed>>

BusNext ==
  \/ \E p \in Publishers : \/ Publish(p) \/ PublishReturns(p) \/ PublishExpires(p)
                           \/ \E s \in Subscribers : BusSend(p, s)
  \/ \E s \in Subscribers : Lock(s) \/ Locked(s) \/ Receive(s)

BusSpec == BusInit /\ [][BusNext]_busVars

Full(s) == Len(channel[s]) = Buffer

(* Goroutines are scheduled: a Publish with room in every channel it has   *)
(* left sends, one that is through returns, and a context that ends does   *)
(* end a Publish; a patient one goes on only if there is room, and that a  *)
(* subscriber reads is not assumed.                                        *)
BusFairness ==
  /\ \A p \in Publishers :
       /\ WF_busVars((\A s \in targets[p] : ~Full(s)) /\ \E s \in Subscribers : BusSend(p, s))
       /\ WF_busVars(PublishReturns(p))
       /\ WF_busVars(PublishExpires(p))
  /\ \A s \in Subscribers : WF_busVars(Locked(s))

-----------------------------------------------------------------------------
Stream(s) == received[s] \o channel[s]
Got(s, p, n) == \E i \in DOMAIN Stream(s) : Stream(s)[i] = <<p, n>>

(* A Publish under way never has a closed channel before it: a send on one *)
(* would panic.                                                            *)
NoSendOnClosed == \A p \in Publishers : targets[p] \subseteq Members

Completed(p) == sequenceNo[p] - (IF publisher[p] = "sends" THEN 1 ELSE 0)

(* The messages of one publisher reach a subscriber in order and without a *)
(* repetition; and from its first one on it gets, as long as it is         *)
(* subscribed, everything that Publish did not report an error for.        *)
NoGaps ==
  \A s \in Subscribers :
    LET stream == Stream(s) IN
    \A i \in DOMAIN stream :
      LET p == stream[i][1] IN
      /\ \A j \in 1 .. i - 1 : stream[j][1] = p => stream[j][2] < stream[i][2]
      /\ s \in Members =>
           \A n \in stream[i][2] .. Completed(p) : Got(s, p, n) \/ <<p, n>> \in failed

(* A Publish that holds the read lock before a full channel, with a        *)
(* context that never ends.                                                *)
Stuck(p) == p \in patient /\ \E s \in targets[p] : Full(s)

(* Subscribe and Unsubscribe return, although publishers block on full     *)
(* channels of subscribers that do not read: a waiting writer keeps new    *)
(* publishers out, and contexts end.  The one thing that keeps them        *)
(* waiting is a Publish with a context that never ends, before a channel   *)
(* that stays full - be it that of the subscriber that wants to leave.     *)
WritersProceed ==
  \A s \in Subscribers :
    \/ (subscriber[s] \in {"joins", "leaves"}) ~> (subscriber[s] \in {"in", "gone"})
    \/ <>[](\E p \in Publishers : Stuck(p))

(* What the bus promises: no panic of Publish, and no gap in what a        *)
(* subscriber gets.                                                        *)
BusSound == NoSendOnClosed /\ NoGaps
=============================================================================

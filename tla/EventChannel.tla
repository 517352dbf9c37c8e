---------------------------- MODULE EventChannel ----------------------------
(***************************************************************************)
(* What an at-least-once channel promises, without rows, transactions,     *)
(* locks or replicas: a consumer takes on events that are owed, hands them *)
(* over as often as it takes, and an event is owed until it has been       *)
(* handed over.  Consumers may compete, and may forget what they took on.  *)
(***************************************************************************)
EXTENDS Naturals

CONSTANTS Events, Consumers, Many

VARIABLES
    sent,      \* the events the channel has accepted
    owed,      \* those it still has to hand over
    holds,     \* consumer -> the event it has taken on; 0 is none
    received   \* how often each event was handed over; Many is that or more

channelVars == <<sent, owed, holds, received>>

ChannelInit ==
    /\ sent = {}
    /\ owed = {}
    /\ holds = [c \in Consumers |-> 0]
    /\ received = [e \in Events |-> 0]

SendEvent(e) ==
    /\ e \notin sent
    /\ sent' = sent \cup {e}
    /\ owed' = owed \cup {e}
    /\ UNCHANGED <<holds, received>>

TakeOn(c) ==
    /\ holds[c] = 0
    /\ \E e \in owed : holds' = [holds EXCEPT ![c] = e]
    /\ UNCHANGED <<sent, owed, received>>

\* The consumer hands its event over, and may not learn that it did.
HandOver(c) ==
    /\ holds[c] # 0
    /\ received' = [received EXCEPT ![holds[c]] = IF @ + 1 < Many THEN @ + 1 ELSE Many]
    /\ holds' \in {holds, [holds EXCEPT ![c] = 0]}
    /\ UNCHANGED <<sent, owed>>

\* Only an event that was handed over is settled.
Settle(c) ==
    /\ holds[c] # 0
    /\ received[holds[c]] > 0
    /\ owed' = owed \ {holds[c]}
    /\ holds' = [holds EXCEPT ![c] = 0]
    /\ UNCHANGED <<sent, received>>

Forget(c) ==
    /\ holds[c] # 0
    /\ holds' = [holds EXCEPT ![c] = 0]
    /\ UNCHANGED <<sent, owed, received>>

ChannelNext ==
    \/ \E e \in Events : SendEvent(e)
    \/ \E c \in Consumers : TakeOn(c) \/ HandOver(c) \/ Settle(c) \/ Forget(c)

Channel == ChannelInit /\ [][ChannelNext]_channelVars
=============================================================================

------------------------------ MODULE EventBus ------------------------------
(***************************************************************************)
(* The in-memory event bus of the JSON-RPC server                          *)
(* (rpc/ethereum/pubsub/pubsub.go).  A topic is a name with a source       *)
(* channel; one publisher goroutine per source channel hands every message *)
(* to the subscribers of the NAME.  Closing the source makes that          *)
(* goroutine close the subscribers of the name and drop the topic of the   *)
(* name.                                                                   *)
(*                                                                         *)
(* A source channel, its publisher and a subscriber channel are named by   *)
(* the subscription that created them: a subscription creates at most one  *)
(* of each.  Every critical section of topicsMux is one step.  The read    *)
(* lock of subscribersMux is held over the steps of a publication, so the  *)
(* sections that take it for writing wait for WriteLockFree.               *)
(***************************************************************************)
EXTENDS FiniteSets, Naturals

CONSTANTS Names,        \* topic names: the CometBFT queries in use
          Subs,         \* subscriptions
          NoSub         \* no channel, no subscription

ASSUME EventBusAssumption == IsFiniteSet(Subs) /\ NoSub \notin Subs

VARIABLES topics,       \* topic name -> its source channel, or NoSub
          subscribers,  \* topic name -> the subscriber channels enlisted
          eventCh,      \* subscriber channel -> "none", "open" or "closed"
          src,          \* source channel -> "none", "open" or "closed"
          pub,          \* its publisher: "none", "receive", "have", "publish",
                        \* "close", "unlist" or "ended"
          msg,          \* the message that publisher holds
          todo          \* the subscribers that publication has still to visit

busVars == <<topics, subscribers, eventCh, src, pub, msg, todo>>

NewEventBus ==
    /\ topics = [n \in Names |-> NoSub]
    /\ subscribers = [n \in Names |-> {}]
    /\ eventCh = [s \in Subs |-> "none"]
    /\ src = [s \in Subs |-> "none"]
    /\ pub = [s \in Subs |-> "none"]
    /\ msg = [s \in Subs |-> 0]
    /\ todo = [s \in Subs |-> {}]

HasTopic(n) == topics[n] # NoSub

(* No publication holds the read lock of subscribersMux.                   *)
WriteLockFree == \A c \in Subs : pub[c] # "publish"

(* A new source channel: refused while the name is listed, otherwise       *)
(* listed, with a publisher of its own.                                    *)
AddTopic(n, c) ==
    IF HasTopic(n)
    THEN UNCHANGED <<topics, src, pub>>
    ELSE /\ topics' = [topics EXCEPT ![n] = c]
         /\ src' = [src EXCEPT ![c] = "open"]
         /\ pub' = [pub EXCEPT ![c] = "receive"]

(* Mutant: the source is closed, the topic left to the publisher to drop.  *)
RemoveTopic_OnlyCloses(n, c) ==
    /\ src' = [src EXCEPT ![c] = "closed"]
    /\ UNCHANGED topics

(* RemoveTopic followed by the close of the source channel.                *)
RemoveTopic(n, c) ==
    /\ topics' = [topics EXCEPT ![n] = NoSub]
    /\ src' = [src EXCEPT ![c] = "closed"]

(* The second half of Subscribe; the first is the caller's HasTopic test.  *)
Enlist(n, s) ==
    /\ WriteLockFree
    /\ subscribers' = [subscribers EXCEPT ![n] = @ \cup {s}]
    /\ eventCh' = [eventCh EXCEPT ![s] = "open"]

(* The UnsubscribeFunc that Subscribe returns.                             *)
Unlist(n, s) ==
    /\ WriteLockFree
    /\ subscribers' = [subscribers EXCEPT ![n] = @ \ {s}]

(* publishTopic receives a message sent to its source channel.             *)
PublisherReceives(c, e) ==
    /\ pub[c] = "receive"
    /\ pub' = [pub EXCEPT ![c] = "have"]
    /\ msg' = [msg EXCEPT ![c] = e]

(* publishAllSubscribers takes the read lock and the subscribers the name  *)
(* has by then.                                                            *)
BeginPublish(n, c) ==
    /\ pub[c] = "have"
    /\ pub' = [pub EXCEPT ![c] = "publish"]
    /\ todo' = [todo EXCEPT ![c] = subscribers[n]]
    /\ UNCHANGED <<topics, subscribers, eventCh, src, msg>>

(* The publication is over when every subscriber was visited.              *)
EndPublish(c) ==
    /\ pub[c] = "publish" /\ todo[c] = {}
    /\ pub' = [pub EXCEPT ![c] = "receive"]
    /\ msg' = [msg EXCEPT ![c] = 0]
    /\ UNCHANGED <<topics, subscribers, eventCh, src, todo>>

(* The publisher sees its source closed ...                                *)
SourceClosed(c) ==
    /\ pub[c] = "receive" /\ src[c] = "closed"
    /\ pub' = [pub EXCEPT ![c] = "close"]
    /\ UNCHANGED <<topics, subscribers, eventCh, src, msg, todo>>

(* Mutant: the subscribers are closed but stay enlisted.                   *)
CloseAllSubscribers_Keeps(n, c) ==
    /\ pub[c] = "close" /\ WriteLockFree
    /\ eventCh' = [s \in Subs |-> IF s \in subscribers[n] THEN "closed" ELSE eventCh[s]]
    /\ pub' = [pub EXCEPT ![c] = "unlist"]
    /\ UNCHANGED <<topics, subscribers, src, msg, todo>>

(* ... closes whoever is enlisted under the name by now ...                *)
CloseAllSubscribers(n, c) ==
    /\ pub[c] = "close" /\ WriteLockFree
    /\ eventCh' = [s \in Subs |-> IF s \in subscribers[n] THEN "closed" ELSE eventCh[s]]
    /\ subscribers' = [subscribers EXCEPT ![n] = {}]
    /\ pub' = [pub EXCEPT ![c] = "unlist"]
    /\ UNCHANGED <<topics, src, msg, todo>>

(* ... and drops whatever topic has the name by now.                       *)
DropTopic(n, c) ==
    /\ pub[c] = "unlist"
    /\ topics' = [topics EXCEPT ![n] = NoSub]
    /\ pub' = [pub EXCEPT ![c] = "ended"]
    /\ UNCHANGED <<subscribers, eventCh, src, msg, todo>>

=============================================================================

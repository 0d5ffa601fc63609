---------------------------- MODULE EventSystem ----------------------------
(***************************************************************************)
(* The event system of the JSON-RPC server                                 *)
(* (rpc/namespaces/ethereum/eth/filters/filter_system.go, subscription.go) *)
(* over the event bus, with its two clients: the polling filter API        *)
(* (filters/api.go), and the WebSocket server (rpc/websockets.go), each of *)
(* which owns an event system and a WebSocket connection to CometBFT.      *)
(* `mode' says which client this system serves.                            *)
(*                                                                         *)
(* The goroutines: the event loop (install, uninstall), the consumer of    *)
(* the CometBFT responses, one publisher per source channel (EventBus),    *)
(* one request per subscription being made, one goroutine per subscription *)
(* made, one per pending Unsubscribe, and the filter timeout loop.  A Go   *)
(* runtime panic ends the process.                                         *)
(***************************************************************************)
EXTENDS EventBus, Sequences

CONSTANTS FilterCaps,    \* values of the configured RPCFilterCap
          MaxEvents,     \* bound: events CometBFT emits
          MaxResponses   \* bound: responses waiting in ResponsesCh

ASSUME EventSystemAssumption ==
    FilterCaps \subseteq Nat /\ MaxEvents \in Nat /\ MaxResponses \in Nat

VARIABLES mode,          \* the client: "filters" or "websocket"
          filterCap,     \* RPCFilterCap: the filters the API may hold
          event,         \* subscription -> the topic name it is about
          req,           \* subscription -> the step of the request making it
          filtersMu,     \* the request that holds filtersMu, or NoSub
          filters,       \* filters that can be polled
          expired,       \* filters whose deadline timer has fired
          hashes,        \* filter -> events collected since the last poll
          polled,        \* filter -> events returned by earlier polls
          index,         \* subscriptions the event loop has installed
          topicChans,    \* topic name -> source channel, or NoSub
          errClosed,     \* subscriptions whose `err' is closed
          uninstalls,    \* subscription -> Unsubscribe goroutines waiting
          routine,       \* subscription -> the step of its goroutine
          held,          \* subscription -> the event its goroutine holds
          comet,         \* topic names subscribed at CometBFT
          emitted,       \* events CometBFT has emitted
          responses,     \* ResponsesCh: <<topic name, event>>
          send,          \* what the consumer is sending, or <<>>
          panic          \* the runtime panic that ended the process, or "none"

apiVars == <<filtersMu, filters, expired, hashes, polled>>
loopVars == <<index, topicChans, errClosed, uninstalls, comet>>
streamVars == <<emitted, responses, send>>
routineVars == <<routine, held>>
constVars == <<mode, filterCap, event>>
vars == <<busVars, apiVars, loopVars, streamVars, routineVars, constVars, req, panic>>

Init ==
    /\ NewEventBus
    /\ mode \in {"filters", "websocket"}
    /\ filterCap \in FilterCaps /\ event \in [Subs -> Names]
    /\ req = [s \in Subs |-> "idle"]
    /\ filtersMu = NoSub /\ filters = {} /\ expired = {}
    /\ hashes = [s \in Subs |-> <<>>] /\ polled = [s \in Subs |-> <<>>]
    /\ index = {} /\ topicChans = [n \in Names |-> NoSub]
    /\ errClosed = {} /\ uninstalls = [s \in Subs |-> 0]
    /\ routine = [s \in Subs |-> "none"] /\ held = [s \in Subs |-> 0]
    /\ comet = {} /\ emitted = 0 /\ responses = <<>> /\ send = <<>>
    /\ panic = "none"

Running == panic = "none"
MutexFree == filtersMu = NoSub

(***************************************************************************)
(* Making a subscription.  A request of the filter API holds filtersMu     *)
(* from the test of the cap to its return; a WebSocket request holds no    *)
(* lock.                                                                   *)
(***************************************************************************)
Step(s, from, to) == req[s] = from /\ req' = [req EXCEPT ![s] = to]

(* Mutant: the cap is tested, but filtersMu is not held while subscribing. *)
NewFilter_NoLock(s) ==
    /\ Running /\ mode = "filters" /\ MutexFree
    /\ Step(s, "idle", IF Cardinality(filters) >= filterCap THEN "refused" ELSE "topics")
    /\ UNCHANGED <<busVars, apiVars, loopVars, streamVars, routineVars, constVars, panic>>

(* NewPendingTransactionFilter, NewBlockFilter, NewFilter: the cap.        *)
NewFilter(s) ==
    /\ Running /\ mode = "filters" /\ MutexFree
    /\ IF Cardinality(filters) >= filterCap
       THEN Step(s, "idle", "refused") /\ UNCHANGED filtersMu
       ELSE Step(s, "idle", "topics") /\ filtersMu' = s
    /\ UNCHANGED <<busVars, filters, expired, hashes, polled, loopVars, streamVars, routineVars, constVars, panic>>

(* readLoop: eth_subscribe.                                                *)
WsSubscribe(s) ==
    /\ Running /\ mode = "websocket"
    /\ Step(s, "idle", "topics")
    /\ UNCHANGED <<busVars, apiVars, loopVars, streamVars, routineVars, constVars, panic>>

(* subscribe: is the topic already on the bus?  Then the subscription      *)
(* rides on it, without being installed.                                   *)
SubscribeTopics(s) ==
    /\ Running
    /\ Step(s, "topics", IF HasTopic(event[s]) THEN "busSubscribe" ELSE "comet")
    /\ UNCHANGED <<busVars, apiVars, loopVars, streamVars, routineVars, constVars, panic>>

Fail(s, from) ==
    /\ Step(s, from, "failed")
    /\ filtersMu' = NoSub
    /\ UNCHANGED <<filters, expired, hashes, polled>>

(* cometWSClient.Subscribe, which fails when the connection is down.       *)
CometSubscribe(s) ==
    /\ Running
    /\ \/ /\ Step(s, "comet", "install")
          /\ comet' = comet \cup {event[s]}
          /\ UNCHANGED apiVars
       \/ /\ Fail(s, "comet")
          /\ UNCHANGED comet
    /\ UNCHANGED <<busVars, index, topicChans, errClosed, uninstalls,
                   streamVars, routineVars, constVars, panic>>

(* eventBus.Subscribe finds the topic, or fails.                           *)
BusSubscribe(s) ==
    /\ Running
    /\ IF HasTopic(event[s])
       THEN Step(s, "busSubscribe", "enlist") /\ UNCHANGED apiVars
       ELSE Fail(s, "busSubscribe")
    /\ UNCHANGED <<busVars, loopVars, streamVars, routineVars, constVars, panic>>

(* eventBus.Subscribe enlists the channel; the caller records the filter,  *)
(* or the connection's subscription, starts its goroutine and returns.     *)
Subscribed(s) ==
    /\ Running
    /\ Step(s, "enlist", "subscribed")
    /\ Enlist(event[s], s)
    /\ filters' = IF mode = "filters" THEN filters \cup {s} ELSE filters
    /\ filtersMu' = NoSub
    /\ routine' = [routine EXCEPT ![s] = "select"]
    /\ UNCHANGED <<topics, src, pub, msg, todo, expired, hashes, polled, loopVars,
                   streamVars, held, constVars, panic>>

(***************************************************************************)
(* eventLoop.  Install is the rendezvous of `es.install <- sub' with the    *)
(* loop up to the close of `installed', for which the request waits.       *)
(***************************************************************************)
(* Mutant: `installed' is closed only when the topic was added.            *)
Install_OnlyAdded(s) ==
    /\ Running
    /\ Step(s, "install", IF HasTopic(event[s]) THEN "forgotten" ELSE "busSubscribe")
    /\ index' = index \cup {s}
    /\ AddTopic(event[s], s)
    /\ topicChans' = IF HasTopic(event[s]) THEN topicChans
                     ELSE [topicChans EXCEPT ![event[s]] = s]
    /\ UNCHANGED <<subscribers, eventCh, msg, todo, apiVars, errClosed, uninstalls, comet,
                   streamVars, routineVars, constVars, panic>>

Install(s) ==
    /\ Running
    /\ Step(s, "install", "busSubscribe")
    /\ index' = index \cup {s}
    /\ AddTopic(event[s], s)
    /\ topicChans' = IF HasTopic(event[s]) THEN topicChans
                     ELSE [topicChans EXCEPT ![event[s]] = s]
    /\ UNCHANGED <<subscribers, eventCh, msg, todo, apiVars, errClosed, uninstalls, comet,
                   streamVars, routineVars, constVars, panic>>

(* The subscriptions of the index keep the topic; one that rides does not. *)
channelInUse(s) == \E t \in index \ {s} : event[t] = event[s]

(* Mutant: `err' is closed only when the topic is removed.                 *)
Uninstall_OnlyRemoved(s) ==
    LET n == event[s]
        c == topicChans[n]
        remove == ~channelInUse(s) /\ c # NoSub
    IN  /\ Running /\ uninstalls[s] > 0
        /\ uninstalls' = [uninstalls EXCEPT ![s] = @ - 1]
        /\ index' = index \ {s}
        /\ comet' = IF channelInUse(s) THEN comet ELSE comet \ {n}
        /\ IF remove
           THEN RemoveTopic(n, c) /\ topicChans' = [topicChans EXCEPT ![n] = NoSub]
           ELSE UNCHANGED <<topics, src, topicChans>>
        /\ errClosed' = IF remove THEN errClosed \cup {s} ELSE errClosed
        /\ UNCHANGED <<subscribers, eventCh, pub, msg, todo, apiVars, panic,
                       streamVars, routineVars, constVars, req>>

Uninstall(s) ==
    LET n == event[s]
        c == topicChans[n]
        remove == ~channelInUse(s) /\ c # NoSub
    IN  /\ Running /\ uninstalls[s] > 0
        /\ uninstalls' = [uninstalls EXCEPT ![s] = @ - 1]
        /\ index' = index \ {s}
        /\ comet' = IF channelInUse(s) THEN comet ELSE comet \ {n}
        /\ IF remove
           THEN RemoveTopic(n, c) /\ topicChans' = [topicChans EXCEPT ![n] = NoSub]
           ELSE UNCHANGED <<topics, src, topicChans>>
        /\ errClosed' = errClosed \cup {s}
        /\ panic' = IF remove /\ src[c] = "closed" THEN "close of closed source"
                    ELSE IF s \in errClosed THEN "close of closed err"
                    ELSE panic
        /\ UNCHANGED <<subscribers, eventCh, pub, msg, todo, apiVars,
                       streamVars, routineVars, constVars, req>>

(***************************************************************************)
(* consumeEvents, and CometBFT's side of the connection.                   *)
(***************************************************************************)
CometEmits(n) ==
    /\ Running /\ n \in comet
    /\ emitted < MaxEvents /\ Len(responses) < MaxResponses
    /\ emitted' = emitted + 1
    /\ responses' = Append(responses, <<n, emitted'>>)
    /\ UNCHANGED <<busVars, apiVars, loopVars, send, routineVars, constVars, req, panic>>

(* Take a response and look its channel up; without one it is dropped.     *)
ConsumeEvents ==
    /\ Running /\ send = <<>> /\ responses # <<>>
    /\ responses' = Tail(responses)
    /\ LET n == Head(responses)[1]
       IN  send' = IF topicChans[n] = NoSub THEN <<>>
                   ELSE <<topicChans[n], Head(responses)[2]>>
    /\ UNCHANGED <<busVars, apiVars, loopVars, emitted, routineVars, constVars, req, panic>>

(* The select: the publisher receives; or the channel has been closed      *)
(* since the look-up, and the send panics ...                              *)
SendEvent ==
    /\ Running /\ send # <<>>
    /\ \/ /\ src[send[1]] = "closed"
          /\ panic' = "send on closed source"
          /\ UNCHANGED <<busVars, send>>
       \/ /\ src[send[1]] = "open"
          /\ PublisherReceives(send[1], send[2])
          /\ send' = <<>>
          /\ UNCHANGED <<topics, subscribers, eventCh, src, todo, panic>>
    /\ UNCHANGED <<apiVars, loopVars, emitted, responses, routineVars, constVars, req>>

(* ... or the one-second timer fires and the event is dropped.             *)
SendTimeout ==
    /\ Running /\ send # <<>>
    /\ send' = <<>>
    /\ UNCHANGED <<busVars, apiVars, loopVars, emitted, responses, routineVars, constVars, req, panic>>

(***************************************************************************)
(* Publishing: the steps of EventBus, and the non-blocking send to one     *)
(* subscriber, which loses the event unless its goroutine waits for it.    *)
(***************************************************************************)
PublishTo(c, s) ==
    /\ Running /\ pub[c] = "publish" /\ s \in todo[c]
    /\ todo' = [todo EXCEPT ![c] = @ \ {s}]
    /\ IF eventCh[s] = "open" /\ routine[s] = "select"
       THEN /\ routine' = [routine EXCEPT ![s] = "handle"]
            /\ held' = [held EXCEPT ![s] = msg[c]]
       ELSE UNCHANGED routineVars
    /\ panic' = IF eventCh[s] = "closed" THEN "send on closed eventCh" ELSE panic
    /\ UNCHANGED <<topics, subscribers, eventCh, src, pub, msg, apiVars, loopVars, streamVars, constVars, req>>

Publisher(c) ==
    /\ Running
    /\ \/ BeginPublish(event[c], c)
       \/ EndPublish(c)
       \/ SourceClosed(c)
       \/ CloseAllSubscribers(event[c], c)
       \/ DropTopic(event[c], c)
    /\ UNCHANGED <<apiVars, loopVars, streamVars, routineVars, constVars, req, panic>>

(***************************************************************************)
(* The goroutine of a subscription.  A filter's waits for an event, for    *)
(* the close of its channel and for the close of its `err'; it takes       *)
(* filtersMu for each, and ends after either close, except that a pending  *)
(* transaction filter goes on after the close of `err'.                    *)
(***************************************************************************)
At(s, from, to) == routine[s] = from /\ routine' = [routine EXCEPT ![s] = to]

FilterCollects(s) ==
    /\ Running /\ mode = "filters" /\ MutexFree
    /\ At(s, "handle", "select")
    /\ hashes' = IF s \in filters THEN [hashes EXCEPT ![s] = Append(@, held[s])] ELSE hashes
    /\ held' = [held EXCEPT ![s] = 0]
    /\ UNCHANGED <<busVars, filtersMu, filters, expired, polled, loopVars, streamVars, constVars, req, panic>>

FilterClosed(s) ==
    /\ Running /\ mode = "filters" /\ MutexFree
    /\ \/ eventCh[s] = "closed" /\ At(s, "select", "cancelSubs")
       \/ s \in errClosed /\ event[s] # "pendingTxs" /\ At(s, "select", "cancelSubs")
       \/ s \in errClosed /\ event[s] = "pendingTxs" /\ At(s, "select", "select")
    /\ filters' = filters \ {s}
    /\ expired' = expired \ {s}
    /\ UNCHANGED <<busVars, filtersMu, hashes, polled, loopVars, streamVars, held, constVars, req, panic>>

(* The deferred cancelSubs.                                                *)
FilterReturns(s) ==
    /\ Running
    /\ At(s, "cancelSubs", "ended")
    /\ Unlist(event[s], s)
    /\ UNCHANGED <<topics, eventCh, src, pub, msg, todo, apiVars, loopVars, streamVars, held, constVars, req, panic>>

(* A WebSocket subscription's goroutine writes the event to the            *)
(* connection.  It would end on a close, but nothing uninstalls it.        *)
WsNotify(s) ==
    /\ Running /\ mode = "websocket"
    /\ At(s, "handle", "select")
    /\ held' = [held EXCEPT ![s] = 0]
    /\ UNCHANGED <<busVars, apiVars, loopVars, streamVars, constVars, req, panic>>

(***************************************************************************)
(* The rest of the filter API, and the end of a WebSocket subscription.    *)
(***************************************************************************)
Unsubscribe(S) == uninstalls' = [s \in Subs |-> uninstalls[s] + IF s \in S THEN 1 ELSE 0]

UninstallFilter(s) ==
    /\ Running /\ MutexFree /\ s \in filters
    /\ filters' = filters \ {s}
    /\ expired' = expired \ {s}
    /\ Unsubscribe({s})
    /\ UNCHANGED <<busVars, filtersMu, hashes, polled, index, topicChans, errClosed, comet,
                   streamVars, routineVars, constVars, req, panic>>

Deadline(s) ==
    /\ Running /\ s \in filters \ expired
    /\ expired' = expired \cup {s}
    /\ UNCHANGED <<busVars, filtersMu, filters, hashes, polled, loopVars, streamVars, routineVars, constVars, req, panic>>

(* One round of timeoutLoop.                                               *)
TimeoutLoop ==
    /\ Running /\ MutexFree /\ expired # {}
    /\ Unsubscribe(expired)
    /\ filters' = filters \ expired
    /\ expired' = {}
    /\ UNCHANGED <<busVars, filtersMu, hashes, polled, index, topicChans, errClosed, comet,
                   streamVars, routineVars, constVars, req, panic>>

(* Mutant: the collected events are returned but not cleared.              *)
GetFilterChanges_Keeps(s) ==
    /\ Running /\ MutexFree /\ s \in filters
    /\ s \in expired \/ hashes[s] # <<>>
    /\ expired' = expired \ {s}
    /\ polled' = [polled EXCEPT ![s] = @ \o hashes[s]]
    /\ UNCHANGED <<busVars, filtersMu, filters, hashes, loopVars, streamVars, routineVars, constVars, req, panic>>

GetFilterChanges(s) ==
    /\ Running /\ MutexFree /\ s \in filters
    /\ s \in expired \/ hashes[s] # <<>>
    /\ expired' = expired \ {s}
    /\ polled' = [polled EXCEPT ![s] = @ \o hashes[s]]
    /\ hashes' = [hashes EXCEPT ![s] = <<>>]
    /\ UNCHANGED <<busVars, filtersMu, filters, loopVars, streamVars, routineVars, constVars, req, panic>>

(* eth_unsubscribe, or the end of the connection: only the bus forgets.    *)
WsUnsubscribe(s) ==
    /\ Running /\ mode = "websocket" /\ s \in subscribers[event[s]] /\ req[s] = "subscribed"
    /\ Unlist(event[s], s)
    /\ UNCHANGED <<topics, eventCh, src, pub, msg, todo, apiVars, loopVars, streamVars, routineVars, constVars, req, panic>>

Request(s) == SubscribeTopics(s) \/ CometSubscribe(s) \/ BusSubscribe(s) \/ Subscribed(s)
Routine(s) == FilterCollects(s) \/ FilterClosed(s) \/ FilterReturns(s) \/ WsNotify(s)

Next ==
    \/ \E s \in Subs : \/ NewFilter(s) \/ WsSubscribe(s) \/ Request(s)
                       \/ Install(s) \/ Uninstall(s)
                       \/ Publisher(s) \/ Routine(s)
                       \/ UninstallFilter(s) \/ Deadline(s) \/ GetFilterChanges(s) \/ WsUnsubscribe(s)
    \/ \E c, s \in Subs : PublishTo(c, s)
    \/ \E n \in Names : CometEmits(n)
    \/ ConsumeEvents \/ SendEvent \/ SendTimeout \/ TimeoutLoop

(* Every goroutine that can go on does: the runtime schedules each, a      *)
(* mutex and a channel serve those that wait.  Nothing obliges a client to *)
(* call, CometBFT to emit, or a timer to fire.                             *)
Fairness ==
    \A s \in Subs :
        /\ WF_vars(Request(s)) /\ WF_vars(Install(s)) /\ WF_vars(Uninstall(s))
        /\ WF_vars(Publisher(s)) /\ WF_vars(\E c \in Subs : PublishTo(c, s)) /\ SF_vars(Routine(s))

Spec == Init /\ [][Next]_vars
FairSpec == Spec /\ Fairness

(***************************************************************************)
(* Properties.                                                             *)
(***************************************************************************)

(* The shapes of the maps; a filter's timer belongs to a filter that is    *)
(* there, and a subscription is uninstalled at most once at a time: only   *)
(* who takes a filter out of the map (UninstallFilter, timeoutLoop)        *)
(* unsubscribes it.                                                        *)
TypeOK ==
    /\ topics \in [Names -> Subs \cup {NoSub}]
    /\ topicChans \in [Names -> Subs \cup {NoSub}]
    /\ subscribers \in [Names -> SUBSET Subs]
    /\ filtersMu \in Subs \cup {NoSub} /\ index \subseteq Subs
    /\ filters \subseteq Subs /\ expired \subseteq filters
    /\ uninstalls \in [Subs -> 0..1]

(* Whatever the interleaving of uninstalls, timeouts, publications and     *)
(* re-created topics, no channel is closed twice and no event is sent to a *)
(* subscriber whose channel is closed: the only panic the goroutines can   *)
(* run into is the consumer's send to a source closed since the look-up    *)
(* (filter_system.go:304).                                                 *)
OnlyConsumerPanics == panic \in {"none", "send on closed source"}

(* The filters that exist and the one being made never exceed the cap:     *)
(* filtersMu is held from the test of the cap to the insertion, across the *)
(* whole of subscribe (api.go:127-140).                                    *)
FilterCapHolds == Cardinality(filters) + Cardinality({filtersMu} \ {NoSub}) <= filterCap

(* What a filter was given: returned by polls, collected, and held.        *)
Seen(s) == polled[s] \o hashes[s] \o (IF held[s] = 0 THEN <<>> ELSE <<held[s]>>)

(* A filter sees an event once: no two polls return it, and no poll        *)
(* returns it twice (GetFilterChanges), even while the publishers of an    *)
(* old and of a new topic of the same name both run.                       *)
PolledOnce ==
    \A s \in Subs : \A i, j \in 1..Len(Seen(s)) : Seen(s)[i] = Seen(s)[j] => i = j

(* A topic the bus lists has an open source channel: a subscription that   *)
(* finds its topic listed is never given one that has ended, although the  *)
(* event loop, and the publisher of an older topic, remove it by name.     *)
ListedTopicServed == \A n \in Names : HasTopic(n) => src[topics[n]] = "open"

(* A filter that can be polled has a goroutine that collects for it: the   *)
(* goroutine takes the filter out before it ends.                          *)
FilterFed == \A s \in filters : routine[s] \in {"select", "handle"}

(* Every request that started making a subscription returns: neither the   *)
(* event loop, the bus nor filtersMu can keep it waiting for ever.         *)
RequestsReturn ==
    \A s \in Subs :
        (req[s] # "idle") ~> (req[s] \in {"subscribed", "failed", "refused"} \/ ~Running)

(* The goroutine of an uninstalled block or log filter ends.  (That of a   *)
(* pending transaction filter ends only with its topic: api.go:180-184     *)
(* goes back to the select, which `err' keeps ready.)                      *)
UninstalledEnds ==
    \A s \in Subs :
        (uninstalls[s] > 0 /\ event[s] # "pendingTxs") ~> (routine[s] = "ended" \/ ~Running)

=============================================================================

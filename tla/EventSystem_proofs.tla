------------------------- MODULE EventSystem_proofs -------------------------
(***************************************************************************)
(* The safety of the event system, for any subscriptions, topic names,     *)
(* cap and number of events.                                               *)
(***************************************************************************)
EXTENDS EventSystem, FiniteSetTheorems, TLAPS

Making == {"topics", "comet", "install", "busSubscribe", "enlist"}
Requests == Making \cup {"idle", "subscribed", "failed", "refused"}

(* The types of the variables the argument is about.                       *)
Shapes ==
    /\ TypeOK
    /\ mode \in {"filters", "websocket"} /\ filterCap \in Nat
    /\ event \in [Subs -> Names]
    /\ req \in [Subs -> Requests]
    /\ errClosed \subseteq Subs
    /\ eventCh \in [Subs -> {"none", "open", "closed"}]
    /\ src \in [Subs -> {"none", "open", "closed"}]
    /\ pub \in [Subs -> {"none", "receive", "have", "publish", "close", "unlist", "ended"}]
    /\ todo \in [Subs -> SUBSET Subs]
    /\ routine \in [Subs -> {"none", "select", "handle", "cancelSubs", "ended"}]

(* A channel found under a name, on the bus or in the event loop's map, is *)
(* a channel of that name and open.                                        *)
Sources ==
    /\ \A n \in Names : topics[n] # NoSub => event[topics[n]] = n /\ src[topics[n]] = "open"
    /\ \A n \in Names : topicChans[n] # NoSub =>
            event[topicChans[n]] = n /\ src[topicChans[n]] = "open"

(* A subscription is in at most one of these stages: being made, a filter, *)
(* waiting to be uninstalled, uninstalled.                                 *)
Stages ==
    /\ \A s \in Subs : req[s] # "subscribed" =>
            s \notin filters /\ uninstalls[s] = 0 /\ s \notin errClosed
    /\ \A s \in filters : uninstalls[s] = 0 /\ s \notin errClosed
    /\ \A s \in errClosed : uninstalls[s] = 0

(* Whoever is enlisted under a name has an open channel, and a publication *)
(* has only enlisted subscribers left to visit.                            *)
Enlisted ==
    /\ \A n \in Names : \A s \in subscribers[n] : event[s] = n /\ eventCh[s] = "open"
    /\ \A c \in Subs : todo[c] \subseteq subscribers[event[c]]
    /\ \A c \in Subs : todo[c] # {} => pub[c] = "publish"
    /\ \A s \in Subs : req[s] \in {"idle", "topics", "comet", "install"} => pub[s] = "none"

(* filtersMu is held by the one request of the filter API being made.      *)
Mutex ==
    /\ mode = "filters" => \A s \in Subs : req[s] \in Making <=> filtersMu = s
    /\ mode = "websocket" => filters = {} /\ filtersMu = NoSub

IInv ==
    /\ Shapes /\ Sources /\ Stages /\ Enlisted /\ Mutex
    /\ FilterFed /\ FilterCapHolds /\ OnlyConsumerPanics

(* Each part of the invariant is about some of the variables only.         *)
LEMMA Frame ==
    /\ Shapes /\ UNCHANGED <<topics, topicChans, subscribers, filtersMu, index, filters,
                 expired, uninstalls, mode, filterCap, event, req, errClosed, eventCh, src,
                 pub, todo, routine>> => Shapes'
    /\ Sources /\ UNCHANGED <<topics, topicChans, event, src>> => Sources'
    /\ Stages /\ UNCHANGED <<req, filters, uninstalls, errClosed>> => Stages'
    /\ Enlisted /\ UNCHANGED <<subscribers, event, eventCh, todo, pub, req>> => Enlisted'
    /\ Mutex /\ UNCHANGED <<mode, req, filtersMu, filters>> => Mutex'
    /\ FilterFed /\ UNCHANGED <<filters, routine>> => FilterFed'
    /\ FilterCapHolds /\ UNCHANGED <<filters, filtersMu, filterCap>> => FilterCapHolds'
    /\ OnlyConsumerPanics /\ UNCHANGED panic => OnlyConsumerPanics'
<1>1. Shapes /\ UNCHANGED <<topics, topicChans, subscribers, filtersMu, index, filters,
                 expired, uninstalls, mode, filterCap, event, req, errClosed, eventCh, src,
                 pub, todo, routine>> => Shapes'
  BY DEF Shapes, TypeOK
<1>2. Sources /\ UNCHANGED <<topics, topicChans, event, src>> => Sources'
  BY DEF Sources
<1>3. Stages /\ UNCHANGED <<req, filters, uninstalls, errClosed>> => Stages'
  BY DEF Stages
<1>4. Enlisted /\ UNCHANGED <<subscribers, event, eventCh, todo, pub, req>> => Enlisted'
  BY DEF Enlisted
<1>5. Mutex /\ UNCHANGED <<mode, req, filtersMu, filters>> => Mutex'
  BY DEF Mutex
<1>6. FilterFed /\ UNCHANGED <<filters, routine>> => FilterFed'
  BY DEF FilterFed
<1>7. FilterCapHolds /\ UNCHANGED <<filters, filtersMu, filterCap>> => FilterCapHolds'
  BY DEF FilterCapHolds
<1>8. OnlyConsumerPanics /\ UNCHANGED panic => OnlyConsumerPanics'
  BY Zenon DEF OnlyConsumerPanics
<1> QED
  BY <1>1, <1>2, <1>3, <1>4, <1>5, <1>6, <1>7, <1>8

(* The filters are finite in number; taking some out, or releasing         *)
(* filtersMu, keeps the cap.                                               *)
LEMMA CapKept ==
    ASSUME Shapes, FilterCapHolds, filters' \subseteq filters, filterCap' = filterCap,
           filtersMu' \in {filtersMu, NoSub}
    PROVE  FilterCapHolds'
<1>1. IsFiniteSet(filters)
  BY FS_Subset, EventBusAssumption DEF Shapes, TypeOK
<1>2. /\ Cardinality(filters) \in Nat /\ Cardinality(filters') \in Nat
      /\ Cardinality(filters') <= Cardinality(filters)
  BY <1>1, FS_Subset, FS_CardinalityType
<1>3. IsFiniteSet({filtersMu} \ {NoSub})
  BY FS_Singleton, FS_Subset, Zenon
<1>4. /\ Cardinality({filtersMu} \ {NoSub}) \in Nat
      /\ Cardinality({filtersMu'} \ {NoSub}) \in Nat
      /\ Cardinality({filtersMu'} \ {NoSub}) <= Cardinality({filtersMu} \ {NoSub})
  <2>1. Cardinality({filtersMu} \ {NoSub}) \in Nat
    BY <1>3, FS_CardinalityType
  <2>2. CASE filtersMu' = filtersMu
    BY <2>1, <2>2
  <2>3. CASE filtersMu' = NoSub
    <3>1. {filtersMu'} \ {NoSub} = {}
      BY <2>3
    <3> QED
      BY <2>1, <3>1, FS_EmptySet
  <2> QED
    BY <2>2, <2>3
<1> QED
  BY <1>2, <1>4 DEF FilterCapHolds, Shapes

(* With filtersMu free there is room for one more as long as the test of   *)
(* the cap says so, and the request that holds it becomes that one.        *)
LEMMA CapTaken ==
    ASSUME Shapes, NEW s \in Subs
    PROVE  /\ ~(Cardinality(filters) >= filterCap) =>
                Cardinality(filters) + Cardinality({s} \ {NoSub}) <= filterCap
           /\ s \notin filters =>
                Cardinality(filters \cup {s}) + Cardinality({NoSub} \ {NoSub})
                    = Cardinality(filters) + Cardinality({s} \ {NoSub})
<1>1. IsFiniteSet(filters) /\ Cardinality(filters) \in Nat
  BY FS_Subset, FS_CardinalityType, EventBusAssumption DEF Shapes, TypeOK
<1>2. {s} \ {NoSub} = {s} /\ {NoSub} \ {NoSub} = {}
  BY EventBusAssumption
<1>3. Cardinality({s} \ {NoSub}) = 1 /\ Cardinality({NoSub} \ {NoSub}) = 0
  BY <1>2, FS_Singleton, FS_EmptySet, Zenon
<1>4. s \notin filters => Cardinality(filters \cup {s}) = Cardinality(filters) + 1
  <2>1. IsFiniteSet(filters)
    BY <1>1
  <2>2. Cardinality(filters \cup {s}) =
            IF s \in filters THEN Cardinality(filters) ELSE Cardinality(filters) + 1
    BY ONLY <2>1, FS_AddElement
  <2> QED
    BY <2>2
<1>5. filterCap \in Nat
  BY DEF Shapes
<1> QED
  BY ONLY <1>1, <1>3, <1>4, <1>5

(* The cap is tested with filtersMu free, and the mutex is taken with it.  *)
LEMMA NewFilterRight ==
    ASSUME IInv, NEW s \in Subs, NewFilter(s)
    PROVE  IInv'
<1> USE EventBusAssumption DEF IInv, NewFilter, Step, MutexFree,
        busVars, apiVars, loopVars, streamVars, routineVars, constVars
<1>1. Sources' /\ FilterFed' /\ OnlyConsumerPanics'
  BY Frame
<1>2. Shapes'
  BY DEF Shapes, TypeOK, Requests, Making
<1>3. Stages'
  BY DEF Shapes, TypeOK, Stages
<1>4. Enlisted'
  BY DEF Shapes, TypeOK, Enlisted
<1>5. Mutex'
  BY DEF Shapes, TypeOK, Mutex, Making, Requests
<1>6. FilterCapHolds'
  BY CapTaken, Zenon DEF FilterCapHolds
<1> QED
  BY ONLY <1>1, <1>2, <1>3, <1>4, <1>5, <1>6 DEF IInv

LEMMA WsSubscribeRight ==
    ASSUME IInv, NEW s \in Subs, WsSubscribe(s)
    PROVE  IInv'
<1> USE EventBusAssumption DEF IInv, WsSubscribe, Step,
        busVars, apiVars, loopVars, streamVars, routineVars, constVars
<1>1. Sources' /\ FilterFed' /\ FilterCapHolds' /\ OnlyConsumerPanics'
  BY Frame
<1>2. Shapes'
  BY DEF Shapes, TypeOK, Requests, Making
<1>3. Stages'
  BY DEF Shapes, TypeOK, Stages
<1>4. Enlisted'
  BY DEF Shapes, TypeOK, Enlisted
<1>5. Mutex'
  BY DEF Shapes, TypeOK, Mutex, Making, Requests
<1> QED
  BY ONLY <1>1, <1>2, <1>3, <1>4, <1>5 DEF IInv

LEMMA SubscribeTopicsRight ==
    ASSUME IInv, NEW s \in Subs, SubscribeTopics(s)
    PROVE  IInv'
<1> USE EventBusAssumption DEF IInv, SubscribeTopics, Step,
        busVars, apiVars, loopVars, streamVars, routineVars, constVars
<1>1. Sources' /\ FilterFed' /\ FilterCapHolds' /\ OnlyConsumerPanics'
  BY Frame
<1>2. Shapes'
  BY DEF Shapes, TypeOK, Requests, Making
<1>3. Stages'
  BY DEF Shapes, TypeOK, Stages
<1>4. Enlisted'
  BY DEF Shapes, TypeOK, Enlisted
<1>5. Mutex'
  BY DEF Shapes, TypeOK, Mutex, Making, Requests
<1> QED
  BY ONLY <1>1, <1>2, <1>3, <1>4, <1>5 DEF IInv

LEMMA CometSubscribeRight ==
    ASSUME IInv, NEW s \in Subs, CometSubscribe(s)
    PROVE  IInv'
<1> USE EventBusAssumption DEF IInv, CometSubscribe, Step, Fail,
        busVars, apiVars, loopVars, streamVars, routineVars, constVars
<1>1. Sources' /\ FilterFed' /\ OnlyConsumerPanics'
  BY Frame
<1>2. Shapes'
  BY DEF Shapes, TypeOK, Requests, Making
<1>3. Stages'
  BY DEF Shapes, TypeOK, Stages
<1>4. Enlisted'
  BY DEF Shapes, TypeOK, Enlisted
<1>5. Mutex'
  BY DEF Shapes, TypeOK, Mutex, Making, Requests
<1>6. FilterCapHolds'
  BY CapKept DEF Shapes, TypeOK
<1> QED
  BY ONLY <1>1, <1>2, <1>3, <1>4, <1>5, <1>6 DEF IInv

LEMMA BusSubscribeRight ==
    ASSUME IInv, NEW s \in Subs, BusSubscribe(s)
    PROVE  IInv'
<1> USE EventBusAssumption DEF IInv, BusSubscribe, Step, Fail,
        busVars, apiVars, loopVars, streamVars, routineVars, constVars
<1>1. Sources' /\ FilterFed' /\ OnlyConsumerPanics'
  BY Frame
<1>2. Shapes'
  BY DEF Shapes, TypeOK, Requests, Making
<1>3. Stages'
  BY DEF Shapes, TypeOK, Stages
<1>4. Enlisted'
  BY DEF Shapes, TypeOK, Enlisted
<1>5. Mutex'
  BY DEF Shapes, TypeOK, Mutex, Making, Requests
<1>6. FilterCapHolds'
  BY CapKept DEF Shapes, TypeOK
<1> QED
  BY ONLY <1>1, <1>2, <1>3, <1>4, <1>5, <1>6 DEF IInv

(* The slot filtersMu reserved becomes a filter.                           *)
LEMMA SubscribedRight ==
    ASSUME IInv, NEW s \in Subs, Subscribed(s)
    PROVE  IInv'
<1> USE EventBusAssumption DEF IInv, Subscribed, Step, Enlist, WriteLockFree,
        busVars, apiVars, loopVars, streamVars, routineVars, constVars
<1>1. Sources' /\ OnlyConsumerPanics'
  BY Frame
<1>2. Shapes'
  BY DEF Shapes, TypeOK, Requests, Making
<1>3. Stages'
  BY DEF Shapes, TypeOK, Stages
<1>4. Enlisted'
  BY DEF Shapes, TypeOK, Enlisted
<1>5. Mutex'
  BY DEF Shapes, TypeOK, Mutex, Making, Requests
<1>6. FilterFed'
  BY DEF Shapes, TypeOK, FilterFed, Stages
<1>7. FilterCapHolds'
  <2>1. CASE mode = "filters"
    <3>1. filtersMu = s /\ s \notin filters
      BY <2>1 DEF Mutex, Stages, Making
    <3> QED
      BY <2>1, <3>1, CapTaken, SMTT(60) DEF FilterCapHolds
  <2>2. CASE mode # "filters"
    BY <2>2, CapKept
  <2> QED
    BY <2>1, <2>2
<1> QED
  BY ONLY <1>1, <1>2, <1>3, <1>4, <1>5, <1>6, <1>7, SMTT(60) DEF IInv

(* A source is opened only for a name that is not listed.                  *)
LEMMA InstallRight ==
    ASSUME IInv, NEW s \in Subs, Install(s)
    PROVE  IInv'
<1> USE EventBusAssumption DEF IInv, Install, Step, AddTopic, HasTopic,
        busVars, apiVars, loopVars, streamVars, routineVars, constVars
<1>1. FilterFed' /\ FilterCapHolds' /\ OnlyConsumerPanics'
  BY Frame
<1>2. Shapes'
  <2>1. req' \in [Subs -> Requests] /\ event[s] \in Names
    BY DEF Shapes, Requests, Making
  <2>2. CASE HasTopic(event[s])
    BY <2>1, <2>2 DEF Shapes, TypeOK
  <2>3. CASE ~HasTopic(event[s])
    BY <2>1, <2>3, SMTT(60) DEF Shapes, TypeOK
  <2> QED
    BY <2>2, <2>3
<1>3. Sources'
  BY DEF Shapes, TypeOK, Sources
<1>4. Stages'
  BY DEF Shapes, TypeOK, Stages
<1>5. Enlisted'
  BY DEF Shapes, TypeOK, Enlisted
<1>6. Mutex'
  BY DEF Shapes, TypeOK, Mutex, Making, Requests
<1> QED
  BY ONLY <1>1, <1>2, <1>3, <1>4, <1>5, <1>6 DEF IInv

(* The source that is closed was open, and so was `err'.                   *)
LEMMA UninstallRight ==
    ASSUME IInv, NEW s \in Subs, Uninstall(s)
    PROVE  IInv'
<1> USE EventBusAssumption DEF IInv, Uninstall, RemoveTopic,
        busVars, apiVars, loopVars, streamVars, routineVars, constVars
<1> DEFINE n == event[s]
           c == topicChans[n]
           remove == ~channelInUse(s) /\ c # NoSub
<1>1. FilterCapHolds' /\ FilterFed' /\ Mutex' /\ Enlisted'
  BY Frame, Zenon
<1>2. /\ uninstalls[s] > 0 /\ uninstalls' = [uninstalls EXCEPT ![s] = @ - 1]
      /\ panic' = IF remove /\ src[c] = "closed" THEN "close of closed source"
                  ELSE IF s \in errClosed THEN "close of closed err"
                  ELSE panic
  BY Zenon
<1>3. IF remove THEN /\ topics' = [topics EXCEPT ![n] = NoSub]
                     /\ topicChans' = [topicChans EXCEPT ![n] = NoSub]
                     /\ src' = [src EXCEPT ![c] = "closed"]
                ELSE UNCHANGED <<topics, src, topicChans>>
  BY Zenon
<1>4. /\ index' = index \ {s} /\ errClosed' = errClosed \cup {s}
      /\ UNCHANGED <<subscribers, filtersMu, filters, expired, mode, filterCap, event, req,
                     eventCh, pub, todo, routine>>
  BY Zenon
<1> HIDE DEF Uninstall
<1>5. uninstalls[s] = 1 /\ uninstalls' = [uninstalls EXCEPT ![s] = 0]
  <2>1. uninstalls[s] \in 0..1
    BY DEF Shapes, TypeOK
  <2>2. uninstalls[s] > 0 /\ uninstalls' = [uninstalls EXCEPT ![s] = uninstalls[s] - 1]
    BY <1>2, Zenon
  <2> HIDE DEF remove, c
  <2>3. uninstalls[s] = 1 /\ uninstalls[s] - 1 = 0
    BY ONLY <2>1, <2>2
  <2> QED
    BY ONLY <2>2, <2>3
<1>6. s \notin filters /\ s \notin errClosed /\ req[s] = "subscribed"
  BY <1>5 DEF Stages
<1>7. n \in Names /\ (remove => c \in Subs /\ event[c] = n /\ src[c] = "open")
  BY DEF Shapes, TypeOK, Sources
<1> HIDE DEF remove, c
<1>8. OnlyConsumerPanics'
  BY <1>2, <1>6, <1>7, Zenon DEF OnlyConsumerPanics
<1>9. uninstalls' \in [Subs -> 0..1]
  BY <1>5 DEF Shapes, TypeOK
<1>10. Shapes'
  BY <1>3, <1>4, <1>7, <1>9, SMTT(60) DEF Shapes, TypeOK
<1>11. Sources'
  <2>1. CASE remove
    <3>1. \A m \in Names : topics'[m] # NoSub => m # n /\ topics'[m] = topics[m]
      BY <1>3, <1>7, <2>1 DEF Shapes, TypeOK
    <3>2. \A m \in Names : topicChans'[m] # NoSub => m # n /\ topicChans'[m] = topicChans[m]
      BY <1>3, <1>7, <2>1 DEF Shapes, TypeOK
    <3>3. \A t \in Subs : event[t] # n => src'[t] = src[t]
      BY <1>3, <1>7, <2>1 DEF Shapes
    <3>4. /\ \A m \in Names : topics[m] \in Subs \cup {NoSub}
          /\ \A m \in Names : topicChans[m] \in Subs \cup {NoSub}
      BY DEF Shapes, TypeOK
    <3>5. ASSUME NEW m \in Names, topics'[m] # NoSub
          PROVE  event[topics[m]] = m /\ src'[topics[m]] = "open"
      <4>1. m # n /\ topics[m] \in Subs
        BY <3>1, <3>4, <3>5
      <4>2. event[topics[m]] = m /\ src[topics[m]] = "open"
        BY <4>1 DEF Sources
      <4> QED
        BY ONLY <3>3, <4>1, <4>2
    <3>6. ASSUME NEW m \in Names, topicChans'[m] # NoSub
          PROVE  event[topicChans[m]] = m /\ src'[topicChans[m]] = "open"
      <4>1. m # n /\ topicChans[m] \in Subs
        BY <3>2, <3>4, <3>6
      <4>2. event[topicChans[m]] = m /\ src[topicChans[m]] = "open"
        BY <4>1 DEF Sources
      <4> QED
        BY ONLY <3>3, <4>1, <4>2
    <3>7. event' = event
      BY <1>4
    <3> QED
      BY ONLY <3>1, <3>2, <3>5, <3>6, <3>7 DEF Sources
  <2>2. CASE ~remove
    BY <1>3, <1>4, <2>2 DEF Sources
  <2> QED
    BY <2>1, <2>2
<1>12. Stages'
  BY <1>4, <1>5, <1>6 DEF Stages, Shapes, TypeOK
<1> QED
  BY ONLY <1>1, <1>8, <1>10, <1>11, <1>12, SMTT(60) DEF IInv

LEMMA FilterCollectsRight ==
    ASSUME IInv, NEW s \in Subs, FilterCollects(s)
    PROVE  IInv'
<1> USE EventBusAssumption DEF IInv, FilterCollects, At, MutexFree,
        busVars, apiVars, loopVars, streamVars, routineVars, constVars
<1>1. Sources' /\ Stages' /\ Enlisted' /\ Mutex' /\ FilterCapHolds' /\ OnlyConsumerPanics'
  BY Frame
<1>2. Shapes'
  BY DEF Shapes, TypeOK, Requests, Making
<1>3. FilterFed'
  BY DEF Shapes, TypeOK, FilterFed, Stages
<1> QED
  BY ONLY <1>1, <1>2, <1>3 DEF IInv

LEMMA FilterClosedRight ==
    ASSUME IInv, NEW s \in Subs, FilterClosed(s)
    PROVE  IInv'
<1> USE EventBusAssumption DEF IInv, FilterClosed, At, MutexFree,
        busVars, apiVars, loopVars, streamVars, routineVars, constVars
<1>1. Sources' /\ Enlisted' /\ OnlyConsumerPanics'
  BY Frame
<1>2. Shapes'
  BY SMTT(60) DEF Shapes, TypeOK, Requests, Making
<1>3. Stages'
  BY DEF Shapes, TypeOK, Stages
<1>4. Mutex'
  BY DEF Shapes, TypeOK, Mutex, Making, Requests
<1>5. FilterFed'
  BY DEF Shapes, TypeOK, FilterFed, Stages
<1>6. FilterCapHolds'
  BY CapKept DEF Shapes, TypeOK
<1> QED
  BY ONLY <1>1, <1>2, <1>3, <1>4, <1>5, <1>6, SMTT(60) DEF IInv

LEMMA FilterReturnsRight ==
    ASSUME IInv, NEW s \in Subs, FilterReturns(s)
    PROVE  IInv'
<1> USE EventBusAssumption DEF IInv, FilterReturns, At, Unlist, WriteLockFree,
        busVars, apiVars, loopVars, streamVars, routineVars, constVars
<1>1. Sources' /\ Stages' /\ Mutex' /\ FilterCapHolds' /\ OnlyConsumerPanics'
  BY Frame
<1>2. Shapes'
  BY DEF Shapes, TypeOK, Requests, Making
<1>3. Enlisted'
  BY DEF Shapes, TypeOK, Enlisted
<1>4. FilterFed'
  BY DEF Shapes, TypeOK, FilterFed, Stages
<1> QED
  BY ONLY <1>1, <1>2, <1>3, <1>4, SMTT(60) DEF IInv

LEMMA WsNotifyRight ==
    ASSUME IInv, NEW s \in Subs, WsNotify(s)
    PROVE  IInv'
<1> USE EventBusAssumption DEF IInv, WsNotify, At,
        busVars, apiVars, loopVars, streamVars, routineVars, constVars
<1>1. Sources' /\ Stages' /\ Enlisted' /\ Mutex' /\ FilterCapHolds' /\ OnlyConsumerPanics'
  BY Frame
<1>2. Shapes'
  BY DEF Shapes, TypeOK, Requests, Making
<1>3. FilterFed'
  BY SMTT(60) DEF Shapes, TypeOK, FilterFed, Stages
<1> QED
  BY ONLY <1>1, <1>2, <1>3 DEF IInv

(* A filter is taken out before it is unsubscribed, so only once.          *)
LEMMA UninstallFilterRight ==
    ASSUME IInv, NEW s \in Subs, UninstallFilter(s)
    PROVE  IInv'
<1> USE EventBusAssumption DEF IInv, UninstallFilter, Unsubscribe, MutexFree,
        busVars, apiVars, loopVars, streamVars, routineVars, constVars
<1>1. Sources' /\ Enlisted' /\ OnlyConsumerPanics'
  BY Frame
<1>2. Shapes'
  <2>1. uninstalls' = [t \in Subs |-> IF t \in {s} THEN 1 ELSE uninstalls[t]]
    BY DEF Stages, Shapes, TypeOK
  <2>2. uninstalls' \in [Subs -> 0..1]
    BY <2>1 DEF Shapes, TypeOK
  <2> QED
    BY <2>2 DEF Shapes, TypeOK, Requests, Making
<1>3. Stages'
  BY DEF Shapes, TypeOK, Stages
<1>4. Mutex'
  BY DEF Shapes, TypeOK, Mutex, Making, Requests
<1>5. FilterFed'
  BY DEF Shapes, TypeOK, FilterFed, Stages
<1>6. FilterCapHolds'
  BY CapKept DEF Shapes, TypeOK
<1> QED
  BY ONLY <1>1, <1>2, <1>3, <1>4, <1>5, <1>6 DEF IInv

LEMMA DeadlineRight ==
    ASSUME IInv, NEW s \in Subs, Deadline(s)
    PROVE  IInv'
<1> USE EventBusAssumption DEF IInv, Deadline,
        busVars, apiVars, loopVars, streamVars, routineVars, constVars
<1>1. Sources' /\ Stages' /\ Enlisted' /\ Mutex' /\ FilterFed' /\ FilterCapHolds'
      /\ OnlyConsumerPanics'
  BY Frame
<1>2. Shapes'
  BY DEF Shapes, TypeOK, Requests, Making
<1> QED
  BY ONLY <1>1, <1>2 DEF IInv

LEMMA GetFilterChangesRight ==
    ASSUME IInv, NEW s \in Subs, GetFilterChanges(s)
    PROVE  IInv'
<1> USE EventBusAssumption DEF IInv, GetFilterChanges, MutexFree,
        busVars, apiVars, loopVars, streamVars, routineVars, constVars
<1>1. Sources' /\ Stages' /\ Enlisted' /\ Mutex' /\ FilterFed' /\ FilterCapHolds'
      /\ OnlyConsumerPanics'
  BY Frame, SMTT(60)
<1>2. Shapes'
  BY DEF Shapes, TypeOK, Requests, Making
<1> QED
  BY ONLY <1>1, <1>2 DEF IInv

LEMMA WsUnsubscribeRight ==
    ASSUME IInv, NEW s \in Subs, WsUnsubscribe(s)
    PROVE  IInv'
<1> USE EventBusAssumption DEF IInv, WsUnsubscribe, Unlist, WriteLockFree,
        busVars, apiVars, loopVars, streamVars, routineVars, constVars
<1>1. Sources' /\ Stages' /\ Mutex' /\ FilterFed' /\ FilterCapHolds' /\ OnlyConsumerPanics'
  BY Frame, SMTT(60)
<1>2. Shapes'
  BY DEF Shapes, TypeOK, Requests, Making
<1>3. Enlisted'
  BY DEF Shapes, TypeOK, Enlisted
<1> QED
  BY ONLY <1>1, <1>2, <1>3, SMTT(60) DEF IInv

(* The publisher of a closed source works by name, under the write lock.   *)
LEMMA PublisherRight ==
    ASSUME IInv, NEW s \in Subs, Publisher(s)
    PROVE  IInv'
<1> USE EventBusAssumption DEF IInv, Publisher, BeginPublish, EndPublish, SourceClosed,
        CloseAllSubscribers, DropTopic, WriteLockFree,
        busVars, apiVars, loopVars, streamVars, routineVars, constVars
<1>1. Stages' /\ Mutex' /\ FilterFed' /\ FilterCapHolds' /\ OnlyConsumerPanics'
  BY Frame, SMTT(60)
<1>2. Shapes'
  BY SMTT(60) DEF Shapes, TypeOK, Requests, Making
<1>3. Sources'
  BY DEF Shapes, TypeOK, Sources
<1>4. Enlisted'
  <2>1. event[s] \in Names /\ UNCHANGED <<event, req>>
    BY SMTT(60) DEF Shapes
  <2>2. CASE BeginPublish(event[s], s)
    BY <2>1, <2>2, SMTT(60) DEF Enlisted, Shapes
  <2>3. CASE EndPublish(s)
    BY <2>1, <2>3, SMTT(60) DEF Enlisted, Shapes
  <2>4. CASE SourceClosed(s)
    BY <2>1, <2>4, SMTT(60) DEF Enlisted, Shapes
  <2>5. CASE CloseAllSubscribers(event[s], s)
    <3>1. \A n \in Names : subscribers'[n] = IF n = event[s] THEN {} ELSE subscribers[n]
      BY <2>1, <2>5, SMTT(60) DEF Shapes, TypeOK
    <3>2. \A n \in Names : \A t \in subscribers'[n] : event[t] = n /\ eventCh'[t] = "open"
      BY <2>1, <2>5, <3>1, SMTT(60) DEF Enlisted, Shapes, TypeOK
    <3>3. \A c \in Subs : todo'[c] = {}
      BY <2>5 DEF Enlisted
    <3>4. \A t \in Subs : pub[t] = "none" => pub'[t] = "none"
      BY <2>5, SMTT(60) DEF Shapes
    <3> QED
      BY <2>1, <3>2, <3>3, <3>4, SMTT(60) DEF Enlisted
  <2>6. CASE DropTopic(event[s], s)
    BY <2>1, <2>6 DEF Enlisted, Shapes
  <2> QED
    BY <2>2, <2>3, <2>4, <2>5, <2>6, SMTT(60)
<1> QED
  BY ONLY <1>1, <1>2, <1>3, <1>4, SMTT(60) DEF IInv

(* Whoever is still to be visited is enlisted, so has an open channel.     *)
LEMMA PublishToRight ==
    ASSUME IInv, NEW c \in Subs, NEW s \in Subs, PublishTo(c, s)
    PROVE  IInv'
<1> USE EventBusAssumption DEF IInv, PublishTo,
        busVars, apiVars, loopVars, streamVars, routineVars, constVars
<1>1. Sources' /\ Stages' /\ Mutex' /\ FilterCapHolds'
  BY Frame, ZenonT(60)
<1>2. Shapes'
  BY ZenonT(60) DEF Shapes, TypeOK, Requests, Making
<1>3. Enlisted'
  <2>1. todo' = [todo EXCEPT ![c] = @ \ {s}] /\ UNCHANGED <<subscribers, event, eventCh, pub, req>>
    BY Zenon
  <2> HIDE DEF PublishTo
  <2>2. \A t \in Subs : todo'[t] \subseteq todo[t]
    BY <2>1, SMTT(60) DEF Shapes
  <2> QED
    BY <2>1, <2>2, SMTT(60) DEF Enlisted
<1>4. FilterFed'
  BY Zenon DEF Shapes, TypeOK, FilterFed, Stages
<1>5. OnlyConsumerPanics'
  <2>1. eventCh[s] = "open"
    <3>1. event[c] \in Names /\ s \in todo[c]
      BY Zenon DEF Shapes
    <3> HIDE DEF PublishTo
    <3> QED
      BY <3>1 DEF Enlisted
  <2> QED
    BY <2>1, Zenon DEF OnlyConsumerPanics
<1> QED
  BY ONLY <1>1, <1>2, <1>3, <1>4, <1>5, SMTT(60) DEF IInv

LEMMA CometEmitsRight ==
    ASSUME IInv, NEW n \in Names, CometEmits(n)
    PROVE  IInv'
<1> USE EventBusAssumption DEF IInv, CometEmits,
        busVars, apiVars, loopVars, streamVars, routineVars, constVars
<1>1. Shapes' /\ Sources' /\ Stages' /\ Enlisted' /\ Mutex' /\ FilterFed' /\ FilterCapHolds'
      /\ OnlyConsumerPanics'
  BY Frame
<1> QED
  BY ONLY <1>1 DEF IInv

LEMMA ConsumeEventsRight ==
    ASSUME IInv, ConsumeEvents
    PROVE  IInv'
<1> USE EventBusAssumption DEF IInv, ConsumeEvents,
        busVars, apiVars, loopVars, streamVars, routineVars, constVars
<1>1. Shapes' /\ Sources' /\ Stages' /\ Enlisted' /\ Mutex' /\ FilterFed' /\ FilterCapHolds'
      /\ OnlyConsumerPanics'
  BY Frame
<1> QED
  BY ONLY <1>1 DEF IInv

LEMMA SendEventRight ==
    ASSUME IInv, SendEvent
    PROVE  IInv'
<1> USE EventBusAssumption DEF IInv, SendEvent, PublisherReceives,
        busVars, apiVars, loopVars, streamVars, routineVars, constVars
<1>1. Sources' /\ Stages' /\ Mutex' /\ FilterFed' /\ FilterCapHolds'
  BY Frame, Zenon
<1>2. Shapes'
  <2>1. pub' \in [Subs -> {"none", "receive", "have", "publish", "close", "unlist", "ended"}]
    BY ZenonT(60) DEF Shapes
  <2> QED
    BY <2>1, Zenon DEF Shapes, TypeOK
<1>3. Enlisted'
  <2>1. UNCHANGED <<subscribers, event, eventCh, todo, req>>
    BY Zenon
  <2>2. \/ pub' = pub
        \/ pub[send[1]] = "receive" /\ pub' = [pub EXCEPT ![send[1]] = "have"]
    BY Zenon
  <2> HIDE DEF SendEvent
  <2>3. \A t \in Subs : todo[t] # {} \/ pub[t] = "none" => pub'[t] = pub[t]
    BY <2>2, SMTT(60) DEF Enlisted, Shapes
  <2> QED
    BY <2>1, <2>3, Zenon DEF Enlisted
<1>4. OnlyConsumerPanics'
  BY Zenon DEF Shapes, TypeOK, OnlyConsumerPanics, Sources, Stages, Enlisted, Running
<1> QED
  BY ONLY <1>1, <1>2, <1>3, <1>4 DEF IInv

LEMMA SendTimeoutRight ==
    ASSUME IInv, SendTimeout
    PROVE  IInv'
<1> USE EventBusAssumption DEF IInv, SendTimeout,
        busVars, apiVars, loopVars, streamVars, routineVars, constVars
<1>1. Shapes' /\ Sources' /\ Stages' /\ Enlisted' /\ Mutex' /\ FilterFed' /\ FilterCapHolds'
      /\ OnlyConsumerPanics'
  BY Frame
<1> QED
  BY ONLY <1>1 DEF IInv

LEMMA TimeoutLoopRight ==
    ASSUME IInv, TimeoutLoop
    PROVE  IInv'
<1> USE EventBusAssumption DEF IInv, TimeoutLoop, Unsubscribe, MutexFree,
        busVars, apiVars, loopVars, streamVars, routineVars, constVars
<1>1. Sources' /\ Enlisted' /\ OnlyConsumerPanics'
  BY Frame
<1>2. Shapes'
  <2>1. uninstalls' = [t \in Subs |-> IF t \in expired THEN 1 ELSE uninstalls[t]]
    BY DEF Stages, Shapes, TypeOK
  <2>2. uninstalls' \in [Subs -> 0..1]
    BY <2>1 DEF Shapes, TypeOK
  <2> QED
    BY <2>2 DEF Shapes, TypeOK, Requests, Making
<1>3. Stages'
  BY DEF Shapes, TypeOK, Stages
<1>4. Mutex'
  BY DEF Shapes, TypeOK, Mutex, Making, Requests
<1>5. FilterFed'
  BY DEF Shapes, TypeOK, FilterFed, Stages
<1>6. FilterCapHolds'
  BY CapKept DEF Shapes, TypeOK
<1> QED
  BY ONLY <1>1, <1>2, <1>3, <1>4, <1>5, <1>6 DEF IInv

LEMMA InitRight == Init => IInv
<1> SUFFICES ASSUME Init PROVE IInv
  OBVIOUS
<1> USE EventBusAssumption, EventSystemAssumption DEF Init, NewEventBus
<1>1. Shapes
  BY DEF Shapes, TypeOK, Requests, Making
<1>2. Sources /\ Stages
  BY DEF Sources, Stages
<1>3. Enlisted
  BY DEF Enlisted
<1>4. Mutex /\ FilterFed /\ OnlyConsumerPanics
  BY DEF Mutex, FilterFed, OnlyConsumerPanics, Making
<1>5. FilterCapHolds
  <2>1. {filtersMu} \ {NoSub} = {} /\ filters = {} /\ filterCap \in Nat
    OBVIOUS
  <2> QED
    BY ONLY <2>1, FS_EmptySet DEF FilterCapHolds
<1> QED
  BY <1>1, <1>2, <1>3, <1>4, <1>5 DEF IInv

LEMMA NextRight == IInv /\ [Next]_vars => IInv'
<1> SUFFICES ASSUME IInv, [Next]_vars PROVE IInv'
  OBVIOUS
<1>1. ASSUME NEW s \in Subs, NewFilter(s) \/ WsSubscribe(s) \/ Request(s) PROVE IInv'
  BY <1>1, NewFilterRight, WsSubscribeRight, SubscribeTopicsRight, CometSubscribeRight,
     BusSubscribeRight, SubscribedRight DEF Request
<1>2. ASSUME NEW s \in Subs, Install(s) \/ Uninstall(s) \/ Publisher(s) PROVE IInv'
  BY <1>2, InstallRight, UninstallRight, PublisherRight
<1>3. ASSUME NEW s \in Subs, Routine(s) PROVE IInv'
  BY <1>3, FilterCollectsRight, FilterClosedRight, FilterReturnsRight, WsNotifyRight DEF Routine
<1>4. ASSUME NEW s \in Subs,
             UninstallFilter(s) \/ Deadline(s) \/ GetFilterChanges(s) \/ WsUnsubscribe(s)
      PROVE  IInv'
  BY <1>4, UninstallFilterRight, DeadlineRight, GetFilterChangesRight, WsUnsubscribeRight, SMTT(60)
<1>5. CASE UNCHANGED vars
  BY <1>5, Frame DEF vars, busVars, apiVars, loopVars, streamVars, routineVars, constVars, IInv
<1> QED
  BY <1>1, <1>2, <1>3, <1>4, <1>5, PublishToRight, CometEmitsRight, ConsumeEventsRight,
     SendEventRight, SendTimeoutRight, TimeoutLoopRight DEF Next

LEMMA Inductive == Spec => []IInv
  BY InitRight, NextRight, PTL DEF Spec

(* No interleaving of any number of requests, uninstalls, time-outs and    *)
(* publications, on any topics, closes a channel twice or sends to a       *)
(* subscriber that was closed (filter_system.go:239-267, pubsub.go:106-144).*)
THEOREM PanicsConfined == Spec => []OnlyConsumerPanics
  BY Inductive, PTL DEF IInv

(* The filters, with the one being made, stay within whatever RPCFilterCap *)
(* is configured, however many requests there are (api.go:127-145).        *)
THEOREM CapHolds == Spec => []FilterCapHolds
  BY Inductive, PTL DEF IInv

(* A subscription that finds its topic listed finds it with an open source *)
(* (filter_system.go:106-146), although removal goes by name.              *)
THEOREM TopicsServed == Spec => []ListedTopicServed
<1>1. IInv => ListedTopicServed
  BY DEF IInv, Sources, ListedTopicServed, HasTopic
<1> QED
  BY <1>1, Inductive, PTL

(* Every filter that can be polled has a live goroutine collecting for it  *)
(* (api.go:147-187): there are no filters left behind.                     *)
THEOREM FiltersFed == Spec => []FilterFed
  BY Inductive, PTL DEF IInv


(***************************************************************************)
(* Events are delivered once.  CometBFT numbers them in the order it emits *)
(* them, and they pass the channel and the consumer in that order, so what *)
(* publishers and filters have is behind what is still to come.            *)
(***************************************************************************)
Items(q) == {q[i] : i \in 1..Len(q)}
Once(q) == \A i, j \in 1..Len(q) : q[i] = q[j] => i = j

Behind(e) ==
    /\ e \in 1..emitted
    /\ send # <<>> => e < send[2]
    /\ \A i \in 1..Len(responses) : e < responses[i][2]

StreamShapes ==
    /\ emitted \in Nat /\ responses \in Seq(Names \X Nat)
    /\ send = <<>> \/ send \in Subs \X Nat
    /\ msg \in [Subs -> Nat] /\ held \in [Subs -> Nat]
    /\ hashes \in [Subs -> Seq(Nat)] /\ polled \in [Subs -> Seq(Nat)]

(* The responses that wait, and the one being sent, are in order.          *)
Ordered ==
    /\ \A i \in 1..Len(responses) : responses[i][2] \in 1..emitted
    /\ \A i, j \in 1..Len(responses) : i < j => responses[i][2] < responses[j][2]
    /\ send # <<>> => /\ send[2] \in 1..emitted
                      /\ \A i \in 1..Len(responses) : send[2] < responses[i][2]

(* A publisher has a message that no other has.                            *)
Busy(c) == pub[c] \in {"have", "publish"}
Messages ==
    /\ \A c \in Subs : Busy(c) => Behind(msg[c])
    /\ \A c, d \in Subs : Busy(c) /\ Busy(d) /\ msg[c] = msg[d] => c = d

(* A goroutine holds an event exactly while it handles it.                 *)
Holding ==
    /\ \A s \in Subs : held[s] # 0 <=> routine[s] = "handle"
    /\ \A s \in Subs : req[s] # "subscribed" => routine[s] = "none"

(* What a filter was given came once, and whoever a publisher has still to *)
(* visit has not had its message.                                          *)
Given ==
    /\ \A s \in Subs : Once(Seen(s)) /\ \A e \in Items(Seen(s)) : Behind(e)
    /\ \A c, s \in Subs : pub[c] = "have" \/ s \in todo[c] => msg[c] \notin Items(Seen(s))

OInv == StreamShapes /\ Ordered /\ Messages /\ Holding /\ Given

(* An event at the end of a sequence.                                      *)
LEMMA OneMore ==
    ASSUME NEW q \in Seq(Nat), NEW e \in Nat
    PROVE  /\ q \o <<e>> \in Seq(Nat) /\ Items(q \o <<e>>) = Items(q) \cup {e}
           /\ Once(q \o <<e>>) <=> Once(q) /\ e \notin Items(q)
<1> DEFINE r == q \o <<e>>
           n == Len(q)
<1>1. r \in Seq(Nat) /\ Len(r) = n + 1 /\ n \in Nat /\ r[n + 1] = e
      /\ \A i \in 1..n : r[i] = q[i]
  OBVIOUS
<1> HIDE DEF r, n
<1>2. 1..(n + 1) = 1..n \cup {n + 1} /\ n + 1 \notin 1..n
  BY <1>1
<1>3. Items(r) = Items(q) \cup {e}
  <2>1. \A x : x \in Items(r) <=> \E i \in 1..(n + 1) : x = r[i]
    BY <1>1 DEF Items
  <2>2. \A x : x \in Items(q) <=> \E i \in 1..n : x = q[i]
    BY DEF Items, n
  <2>3. \A x : x \in Items(r) <=> x \in Items(q) \/ x = e
    <3>1. ASSUME NEW x, x \in Items(r) PROVE x \in Items(q) \/ x = e
      <4>1. PICK i \in 1..(n + 1) : x = r[i]
        BY <2>1, <3>1, Zenon
      <4>2. i \in 1..n \/ i = n + 1
        BY <1>1
      <4> QED
        BY <1>1, <2>2, <4>1, <4>2, Zenon
    <3>2. ASSUME NEW x, x \in Items(q) PROVE x \in Items(r)
      <4>1. PICK i \in 1..n : x = q[i]
        BY <2>2, <3>2, Zenon
      <4>2. i \in 1..(n + 1)
        BY <1>1
      <4> QED
        BY <1>1, <2>1, <4>1, <4>2, Zenon
    <3>3. e \in Items(r)
      <4>1. n + 1 \in 1..(n + 1)
        BY <1>1
      <4> QED
        BY <1>1, <2>1, <4>1, Zenon
    <3> QED
      BY <3>1, <3>2, <3>3, Zenon
  <2> QED
    BY <2>3, Zenon
<1>4. Once(r) <=> \A i, j \in 1..(n + 1) : r[i] = r[j] => i = j
  BY <1>1 DEF Once
<1>5. Once(q) <=> \A i, j \in 1..n : q[i] = q[j] => i = j
  BY DEF Once, n
<1>6. e \notin Items(q) <=> \A i \in 1..n : q[i] # e
  BY DEF Items, n
<1>7. Once(r) <=> Once(q) /\ e \notin Items(q)
  BY <1>1, <1>2, <1>4, <1>5, <1>6
<1> QED
  BY <1>1, <1>3, <1>7 DEF r

(* Sequences put together.                                                 *)
LEMMA Concatenated ==
    ASSUME NEW p \in Seq(Nat), NEW q \in Seq(Nat)
    PROVE  /\ p \o q \in Seq(Nat) /\ (p \o q) \o <<>> = p \o q /\ p \o <<>> = p
           /\ \A e \in Nat : p \o Append(q, e) = (p \o q) \o <<e>>
<1>1. p \o q \in Seq(Nat)
  OBVIOUS
<1>2. \A r \in Seq(Nat) : r \o <<>> = r
  OBVIOUS
<1>3. ASSUME NEW e \in Nat PROVE p \o Append(q, e) = (p \o q) \o <<e>>
  <2> DEFINE a == p \o Append(q, e)
             b == (p \o q) \o <<e>>
  <2>1. a \in Seq(Nat) /\ Len(a) = Len(p) + Len(q) + 1
    OBVIOUS
  <2>2. b \in Seq(Nat) /\ Len(b) = Len(p) + Len(q) + 1
    BY <1>1
  <2>3. ASSUME NEW i \in 1..Len(a) PROVE a[i] = b[i]
    OBVIOUS
  <2> HIDE DEF a, b
  <2>4. a = b
    BY <2>1, <2>2, <2>3
  <2> QED
    BY <2>4 DEF a, b
<1> QED
  BY <1>1, <1>2, <1>3

(* What a filter was given, by whether its goroutine holds an event.       *)
LEMMA SeenIs ==
    ASSUME StreamShapes, NEW s \in Subs
    PROVE  LET base == polled[s] \o hashes[s]
           IN  /\ base \in Seq(Nat)
               /\ held[s] = 0 => Seen(s) = base
               /\ held[s] # 0 => Seen(s) = base \o <<held[s]>>
<1>1. polled[s] \in Seq(Nat) /\ hashes[s] \in Seq(Nat)
  BY DEF StreamShapes
<1> QED
  BY <1>1, Concatenated, Zenon DEF Seen

(* A step that delivers nothing: what a publisher has it had before.       *)
LEMMA QuietStep ==
    ASSUME OInv, Enlisted,
           UNCHANGED <<emitted, responses, send, hashes, polled, held, todo>>,
           msg' \in [Subs -> Nat],
           \A c \in Subs : Busy(c)' => Busy(c) /\ msg'[c] = msg[c],
           \A c \in Subs : pub'[c] = "have" => pub[c] = "have",
           \A c \in Subs : todo[c] # {} => msg'[c] = msg[c],
           Holding'
    PROVE  OInv'
<1> USE DEF OInv
<1>1. StreamShapes' /\ Ordered'
  BY DEF StreamShapes, Ordered
<1>2. \A e : Behind(e)' <=> Behind(e)
  BY DEF Behind
<1>3. \A s \in Subs : Seen(s)' = Seen(s)
  BY DEF Seen
<1>4. Messages'
  BY <1>2, Zenon DEF Messages
<1>5. Given'
  <2>1. \A s \in Subs : Once(Seen(s)') /\ \A e \in Items(Seen(s)') : Behind(e)'
    BY <1>2, <1>3, Zenon DEF Given
  <2>2. ASSUME NEW c \in Subs, NEW s \in Subs, pub'[c] = "have" \/ s \in todo[c]
        PROVE  msg'[c] \notin Items(Seen(s)')
    <3>1. msg'[c] = msg[c] /\ (pub[c] = "have" \/ s \in todo[c])
      BY <2>2, Zenon DEF Busy
    <3> QED
      BY <1>3, <3>1, Zenon DEF Given
  <2> QED
    BY <2>1, <2>2, Zenon DEF Given
<1> QED
  BY <1>1, <1>4, <1>5

(* A step of the stream moves no event back.                               *)
LEMMA StreamStep ==
    ASSUME OInv, UNCHANGED <<hashes, polled, held, todo, msg, pub, routine, req>>,
           emitted' \in Nat, responses' \in Seq(Names \X Nat),
           send' = <<>> \/ send' \in Subs \X Nat, Ordered',
           \A e : Behind(e) => Behind(e)'
    PROVE  OInv'
<1> USE DEF OInv
<1>1. StreamShapes' /\ Holding'
  BY DEF StreamShapes, Holding
<1>2. \A s \in Subs : Seen(s)' = Seen(s)
  BY DEF Seen
<1>3. Messages'
  BY Zenon DEF Messages, Busy
<1>4. Given'
  BY <1>2, Zenon DEF Given
<1> QED
  BY <1>1, <1>3, <1>4

(* CometBFT emits an event: it is the last in line.                        *)
LEMMA CometEmitsOrdered ==
    ASSUME OInv, NEW n \in Names, CometEmits(n)
    PROVE  OInv'
<1>1. /\ emitted' = emitted + 1 /\ responses' = Append(responses, <<n, emitted + 1>>)
      /\ send' = send
      /\ UNCHANGED <<hashes, polled, held, todo, msg, pub, routine, req>>
  BY DEF CometEmits, busVars, apiVars, loopVars, routineVars
<1>2. /\ emitted \in Nat /\ responses \in Seq(Names \X Nat)
      /\ send = <<>> \/ send \in Subs \X Nat
  BY DEF OInv, StreamShapes
<1> DEFINE k == Len(responses)
<1>3. <<n, emitted + 1>> \in Names \X Nat
  BY <1>2
<1>4. /\ responses' \in Seq(Names \X Nat) /\ Len(responses') = k + 1 /\ k \in Nat
      /\ \A i \in 1..k : responses'[i] = responses[i]
      /\ responses'[k + 1] = <<n, emitted + 1>>
  BY <1>1, <1>2, <1>3
<1> DEFINE old(i) == responses[i][2]
           new(i) == responses'[i][2]
<1>5. new(k + 1) = emitted + 1 /\ \A i \in 1..k : new(i) = old(i)
  BY <1>4
<1>6. /\ \A i \in 1..k : old(i) \in 1..emitted
      /\ \A i, j \in 1..k : i < j => old(i) < old(j)
      /\ send # <<>> => send[2] \in 1..emitted /\ \A i \in 1..k : send[2] < old(i)
  BY Zenon DEF OInv, Ordered
<1>7. k \in Nat /\ emitted \in Nat
  BY <1>2, <1>4
<1> HIDE DEF old, new, k
<1>8. Ordered'
  <2>1. \A i \in 1..(k + 1) : new(i) \in 1..(emitted + 1)
    BY ONLY <1>5, <1>6, <1>7
  <2>2. \A i, j \in 1..(k + 1) : i < j => new(i) < new(j)
    BY ONLY <1>5, <1>6, <1>7
  <2>3. ASSUME NEW e, e \in 1..emitted, \A i \in 1..k : e < old(i)
        PROVE  e \in 1..(emitted + 1) /\ \A i \in 1..(k + 1) : e < new(i)
    BY ONLY <1>5, <1>7, <2>3
  <2>4. send # <<>> => send[2] \in 1..(emitted + 1) /\ \A i \in 1..(k + 1) : send[2] < new(i)
    BY <1>6, <2>3, Zenon
  <2> QED
    BY <1>1, <1>4, <2>1, <2>2, <2>4, Zenon DEF Ordered, new
<1>9. ASSUME NEW e, Behind(e) PROVE Behind(e)'
  <2>1. e \in 1..emitted /\ (send # <<>> => e < send[2]) /\ \A i \in 1..k : e < old(i)
    BY <1>9, Zenon DEF Behind, k, old
  <2>2. e \in 1..(emitted + 1) /\ \A i \in 1..(k + 1) : e < new(i)
    BY ONLY <1>5, <1>7, <2>1
  <2> QED
    BY <1>1, <1>4, <2>1, <2>2, Zenon DEF Behind, new
<1>10. emitted' \in Nat /\ (send' = <<>> \/ send' \in Subs \X Nat)
  BY <1>1, <1>2
<1> QED
  BY <1>1, <1>4, <1>8, <1>9, <1>10, StreamStep, Zenon

(* The consumer takes the first response in line.                          *)
LEMMA ConsumeEventsOrdered ==
    ASSUME IInv, OInv, ConsumeEvents
    PROVE  OInv'
<1> DEFINE n == Head(responses)[1]
           e1 == Head(responses)[2]
           k == Len(responses)
<1>1. /\ send = <<>> /\ responses # <<>> /\ responses' = Tail(responses)
      /\ send' = IF topicChans[n] = NoSub THEN <<>> ELSE <<topicChans[n], e1>>
      /\ UNCHANGED <<emitted, hashes, polled, held, todo, msg, pub, routine, req>>
  BY DEF ConsumeEvents, busVars, apiVars, loopVars, routineVars
<1>2. emitted \in Nat /\ responses \in Seq(Names \X Nat)
  BY DEF OInv, StreamShapes
<1>3. k \in Nat /\ k > 0 /\ Head(responses) = responses[1] /\ responses[1] \in Names \X Nat
  BY <1>1, <1>2
<1>4. /\ responses' \in Seq(Names \X Nat) /\ Len(responses') = k - 1
      /\ \A i \in 1..(k - 1) : responses'[i] = responses[i + 1]
  BY <1>1, <1>2
<1>5. n \in Names /\ e1 \in Nat /\ e1 = responses[1][2]
  BY <1>3
<1>6. send' = <<>> \/ (send' \in Subs \X Nat /\ send'[2] = e1)
  <2>1. topicChans[n] \in Subs \cup {NoSub}
    BY <1>5 DEF IInv, Shapes, TypeOK
  <2> HIDE DEF n, e1
  <2> QED
    BY <1>1, <1>5, <2>1
<1> HIDE DEF n, e1, k
<1> DEFINE old(i) == responses[i][2]
           new(i) == responses'[i][2]
<1>7. /\ \A i \in 1..k : old(i) \in 1..emitted
      /\ \A i, j \in 1..k : i < j => old(i) < old(j)
  BY Zenon DEF OInv, Ordered, k
<1>8. \A i \in 1..(k - 1) : new(i) = old(i + 1)
  BY <1>4
<1> HIDE DEF old, new
<1>9. k \in Nat /\ k > 0 /\ emitted \in Nat /\ e1 = old(1)
  BY <1>2, <1>3, <1>5 DEF old
<1>10. Ordered'
  <2>1. \A i \in 1..(k - 1) : new(i) \in 1..emitted /\ e1 < new(i)
    BY ONLY <1>7, <1>8, <1>9
  <2>2. \A i, j \in 1..(k - 1) : i < j => new(i) < new(j)
    BY ONLY <1>7, <1>8, <1>9
  <2>3. e1 \in 1..emitted
    BY ONLY <1>7, <1>9
  <2> QED
    BY <1>1, <1>4, <1>6, <2>1, <2>2, <2>3, Zenon DEF Ordered, new
<1>11. ASSUME NEW e, Behind(e) PROVE Behind(e)'
  <2>1. e \in 1..emitted /\ \A i \in 1..k : e < old(i)
    BY <1>11, Zenon DEF Behind, k, old
  <2>2. e < e1 /\ \A i \in 1..(k - 1) : e < new(i)
    BY ONLY <1>8, <1>9, <2>1
  <2> QED
    BY <1>1, <1>4, <1>6, <2>1, <2>2, Zenon DEF Behind, new
<1> QED
  BY <1>1, <1>2, <1>4, <1>6, <1>10, <1>11, StreamStep, Zenon

(* The consumer gives an event up.                                         *)
LEMMA SendTimeoutOrdered ==
    ASSUME OInv, SendTimeout
    PROVE  OInv'
<1>1. /\ send' = <<>>
      /\ UNCHANGED <<emitted, responses, hashes, polled, held, todo, msg, pub, routine, req>>
  BY DEF SendTimeout, busVars, apiVars, loopVars, routineVars
<1>2. emitted \in Nat /\ responses \in Seq(Names \X Nat)
  BY DEF OInv, StreamShapes
<1>3. Ordered'
  BY <1>1 DEF OInv, Ordered
<1>4. \A e : Behind(e) => Behind(e)'
  BY <1>1 DEF Behind
<1> QED
  BY <1>1, <1>2, <1>3, <1>4, StreamStep, Zenon

(* A publisher receives an event that nobody has had: it is ahead of all   *)
(* the others.                                                             *)
LEMMA SendEventOnce ==
    ASSUME IInv, OInv, SendEvent
    PROVE  OInv'
<1>1. UNCHANGED <<emitted, responses, hashes, polled, held, todo, routine, req>>
  BY Zenon DEF SendEvent, apiVars, loopVars, routineVars, busVars
<1>2. CASE UNCHANGED <<pub, msg, send>>
  <2>1. \A c \in Subs : (Busy(c)' => Busy(c)) /\ (pub'[c] = "have" => pub[c] = "have")
    BY <1>2, Zenon DEF Busy
  <2>2. msg' \in [Subs -> Nat] /\ Holding'
    BY <1>1, <1>2 DEF OInv, StreamShapes, Holding
  <2> QED
    BY <1>1, <1>2, <2>1, <2>2, QuietStep, Zenon DEF IInv
<1>3. ASSUME send # <<>>, PublisherReceives(send[1], send[2]), send' = <<>>
      PROVE  OInv'
  <2>0. PICK c0 \in Subs, e0 \in Nat : send[1] = c0 /\ send[2] = e0
    BY <1>3 DEF OInv, StreamShapes
  <2>1. /\ pub \in [Subs -> {"none", "receive", "have", "publish", "close", "unlist", "ended"}]
        /\ msg \in [Subs -> Nat]
    BY DEF OInv, StreamShapes, IInv, Shapes, TypeOK
  <2>2. pub[c0] = "receive" /\ pub' = [pub EXCEPT ![c0] = "have"] /\ msg' = [msg EXCEPT ![c0] = e0]
    BY <1>3, <2>0 DEF PublisherReceives
  <2>3. Behind(e0)' /\ \A e : Behind(e) => Behind(e)' /\ e # e0
    <3>1. e0 \in 1..emitted /\ \A i \in 1..Len(responses) : e0 < responses[i][2]
      BY <1>3, <2>0, Zenon DEF OInv, Ordered
    <3>2. Behind(e0)'
      BY <1>1, <1>3, <3>1, Zenon DEF Behind
    <3>3. ASSUME NEW e, Behind(e) PROVE Behind(e)' /\ e # e0
      <4>1. e \in 1..emitted /\ e < e0 /\ \A i \in 1..Len(responses) : e < responses[i][2]
        BY <1>3, <2>0, <3>3, Zenon DEF Behind
      <4>2. e # e0
        <5>1. emitted \in Nat
          BY DEF OInv, StreamShapes
        <5> QED
          BY ONLY <4>1, <2>0, <5>1
      <4> QED
        BY <1>1, <1>3, <4>1, <4>2, Zenon DEF Behind
    <3> QED
      BY <3>2, <3>3, Zenon
  <2>4. /\ pub'[c0] = "have" /\ msg'[c0] = e0
        /\ \A c \in Subs : c # c0 => pub'[c] = pub[c] /\ msg'[c] = msg[c]
        /\ msg' \in [Subs -> Nat]
    BY <2>1, <2>2
  <2>5. StreamShapes' /\ Ordered' /\ Holding'
    BY <1>1, <1>3, <2>4, Zenon DEF OInv, StreamShapes, Ordered, Holding
  <2>6. \A s \in Subs : Seen(s)' = Seen(s)
    BY <1>1, Zenon DEF Seen
  <2>7. \A c \in Subs : c # c0 /\ Busy(c)' => Busy(c) /\ msg'[c] = msg[c] /\ Behind(msg[c])
    BY <2>4, Zenon DEF OInv, Messages, Busy
  <2>8. Messages'
    <3>1. \A c \in Subs : Busy(c)' => Behind(msg[c])'
      BY <2>0, <2>3, <2>4, <2>7, Zenon
    <3>2. ASSUME NEW c \in Subs, NEW d \in Subs, Busy(c)', Busy(d)', msg'[c] = msg'[d]
          PROVE  c = d
      <4>1. CASE c # c0 /\ d # c0
        BY <2>7, <3>2, <4>1, Zenon DEF OInv, Messages
      <4>2. CASE c = c0 /\ d # c0
        BY <2>3, <2>4, <2>7, <3>2, <4>2, Zenon
      <4>3. CASE d = c0 /\ c # c0
        BY <2>3, <2>4, <2>7, <3>2, <4>3, Zenon
      <4> QED
        BY <4>1, <4>2, <4>3, Zenon
    <3> QED
      BY <3>1, <3>2, Zenon DEF Messages
  <2>9. Given'
    <3>1. \A s \in Subs : Once(Seen(s)') /\ \A e \in Items(Seen(s)') : Behind(e)'
      BY <2>3, <2>6, Zenon DEF OInv, Given
    <3>2. ASSUME NEW c \in Subs, NEW s \in Subs, pub'[c] = "have" \/ s \in todo[c]
          PROVE  msg'[c] \notin Items(Seen(s)')
      <4>1. CASE c = c0
        BY <2>3, <2>4, <2>6, <4>1, Zenon DEF OInv, Given
      <4>2. CASE c # c0
        BY <2>4, <2>6, <3>2, <4>2, Zenon DEF OInv, Given
      <4> QED
        BY <4>1, <4>2, Zenon
    <3> QED
      BY <1>1, <3>1, <3>2, Zenon DEF Given
  <2> QED
    BY <2>5, <2>8, <2>9, Zenon DEF OInv
<1> QED
  BY <1>2, <1>3, Zenon DEF SendEvent, busVars

(* The steps of a publisher on its own.                                    *)
LEMMA PublisherOnce ==
    ASSUME IInv, OInv, NEW s \in Subs, Publisher(s)
    PROVE  OInv'
<1>1. UNCHANGED <<emitted, responses, send, hashes, polled, held, routine, req>>
  BY Zenon DEF Publisher, apiVars, loopVars, streamVars, routineVars
<1>2. /\ pub \in [Subs -> {"none", "receive", "have", "publish", "close", "unlist", "ended"}]
      /\ msg \in [Subs -> Nat] /\ todo \in [Subs -> SUBSET Subs] /\ Enlisted
      /\ subscribers[event[s]] \subseteq Subs
  BY DEF IInv, Shapes, TypeOK, OInv, StreamShapes
<1>3. Holding'
  BY <1>1, Zenon DEF OInv, Holding
<1>4. ASSUME UNCHANGED <<msg, todo>>, NEW to \in {"close", "unlist", "ended"},
             pub' = [pub EXCEPT ![s] = to]
      PROVE  OInv'
  <2>1. \A c \in Subs : pub'[c] = (IF c = s THEN to ELSE pub[c])
    BY <1>2, <1>4
  <2>2. \A c \in Subs : (Busy(c)' => Busy(c)) /\ (pub'[c] = "have" => pub[c] = "have")
    BY <1>4, <2>1 DEF Busy
  <2> QED
    BY <1>1, <1>2, <1>3, <1>4, <2>2, QuietStep, Zenon
<1>5. CASE SourceClosed(s) \/ CloseAllSubscribers(event[s], s) \/ DropTopic(event[s], s)
  BY <1>4, <1>5, Zenon DEF SourceClosed, CloseAllSubscribers, DropTopic
<1>6. CASE EndPublish(s)
  <2>1. /\ todo[s] = {} /\ pub' = [pub EXCEPT ![s] = "receive"]
        /\ msg' = [msg EXCEPT ![s] = 0] /\ UNCHANGED todo
    BY <1>6, Zenon DEF EndPublish
  <2>2. /\ msg' \in [Subs -> Nat] /\ pub'[s] = "receive"
        /\ \A c \in Subs : c # s => pub'[c] = pub[c] /\ msg'[c] = msg[c]
    BY <1>2, <2>1
  <2>3. /\ \A c \in Subs : Busy(c)' => Busy(c) /\ msg'[c] = msg[c]
        /\ \A c \in Subs : pub'[c] = "have" => pub[c] = "have"
        /\ \A c \in Subs : todo[c] # {} => msg'[c] = msg[c]
    BY <2>1, <2>2 DEF Busy
  <2> QED
    BY <1>1, <1>2, <1>3, <2>1, <2>2, <2>3, QuietStep, Zenon
<1>7. CASE BeginPublish(event[s], s)
  <2>1. /\ pub[s] = "have" /\ pub' = [pub EXCEPT ![s] = "publish"]
        /\ todo' = [todo EXCEPT ![s] = subscribers[event[s]]] /\ msg' = msg
    BY <1>7, Zenon DEF BeginPublish
  <2>2. /\ pub'[s] = "publish" /\ \A c \in Subs : c # s => pub'[c] = pub[c] /\ todo'[c] = todo[c]
        /\ todo'[s] = subscribers[event[s]]
    BY <1>2, <2>1
  <2>3. \A c \in Subs : Busy(c)' <=> Busy(c)
    BY <2>1, <2>2 DEF Busy
  <2>4. \A e : Behind(e)' <=> Behind(e)
    BY <1>1, Zenon DEF Behind
  <2>5. \A t \in Subs : Seen(t)' = Seen(t)
    BY <1>1, Zenon DEF Seen
  <2>6. StreamShapes' /\ Ordered'
    BY <1>1, <2>1, Zenon DEF OInv, StreamShapes, Ordered
  <2>7. Messages'
    BY <2>1, <2>3, <2>4, Zenon DEF OInv, Messages
  <2>8. ASSUME NEW c \in Subs, NEW t \in Subs, pub'[c] = "have" \/ t \in todo'[c]
        PROVE  pub[c] = "have" \/ t \in todo[c]
    BY <2>1, <2>2, <2>8, Zenon
  <2>9. Given'
    BY <2>1, <2>4, <2>5, <2>8, Zenon DEF OInv, Given
  <2> QED
    BY <1>3, <2>6, <2>7, <2>9, Zenon DEF OInv
<1> QED
  BY <1>5, <1>6, <1>7, Zenon DEF Publisher

(* A step after which filter s was given something else than before.       *)
LEMMA ShownStep ==
    ASSUME OInv, NEW s \in Subs, UNCHANGED <<emitted, responses, send, msg, pub>>,
           StreamShapes', Holding', \A d \in Subs : todo'[d] \subseteq todo[d],
           \A t \in Subs : t # s => Seen(t)' = Seen(t),
           Once(Seen(s)'), \A e \in Items(Seen(s)') : Behind(e),
           \A d \in Subs : pub[d] = "have" \/ s \in todo'[d] => msg[d] \notin Items(Seen(s)')
    PROVE  OInv'
<1> USE DEF OInv
<1>1. Ordered'
  BY DEF Ordered
<1>2. \A e : Behind(e)' <=> Behind(e)
  BY Zenon DEF Behind
<1>3. Messages'
  BY <1>2, Zenon DEF Messages, Busy
<1>4. \A t \in Subs : Once(Seen(t)') /\ \A e \in Items(Seen(t)') : Behind(e)'
  BY <1>2, Zenon DEF Given
<1>5. ASSUME NEW d \in Subs, NEW t \in Subs, pub'[d] = "have" \/ t \in todo'[d]
      PROVE  msg'[d] \notin Items(Seen(t)')
  <2>1. pub[d] = "have" \/ (t \in todo'[d] /\ t \in todo[d])
    BY <1>5, Zenon
  <2>2. CASE t = s
    BY <2>1, <2>2, Zenon
  <2>3. CASE t # s
    BY <2>1, <2>3, Zenon DEF Given
  <2> QED
    BY <2>2, <2>3, Zenon
<1>6. Given'
  BY <1>4, <1>5, Zenon DEF Given
<1> QED
  BY <1>1, <1>3, <1>6

(* A publisher visits a filter that has not had its event.                 *)
LEMMA PublishToOnce ==
    ASSUME IInv, OInv, NEW c \in Subs, NEW s \in Subs, PublishTo(c, s)
    PROVE  OInv'
<1>1. /\ UNCHANGED <<emitted, responses, send, msg, pub, hashes, polled, req>>
      /\ pub[c] = "publish" /\ s \in todo[c] /\ todo' = [todo EXCEPT ![c] = @ \ {s}]
  BY Zenon DEF PublishTo, apiVars, streamVars
<1>2. /\ todo \in [Subs -> SUBSET Subs] /\ msg \in [Subs -> Nat] /\ held \in [Subs -> Nat]
      /\ routine \in [Subs -> {"none", "select", "handle", "cancelSubs", "ended"}]
  BY DEF IInv, Shapes, OInv, StreamShapes
<1>3. /\ \A d \in Subs : todo'[d] \subseteq todo[d]
      /\ s \notin todo'[c]
  BY <1>1, <1>2
<1>4. Behind(msg[c])
  BY <1>1, Zenon DEF OInv, Messages, Busy
<1>5. msg[c] \notin Items(Seen(s)) /\ Once(Seen(s)) /\ \A e \in Items(Seen(s)) : Behind(e)
  BY <1>1, Zenon DEF OInv, Given
<1>6. CASE UNCHANGED <<routine, held>>
  <2>1. \A t \in Subs : Seen(t)' = Seen(t)
    BY <1>1, <1>6, Zenon DEF Seen
  <2>2. StreamShapes' /\ Holding'
    BY <1>1, <1>6, Zenon DEF OInv, StreamShapes, Holding
  <2>3. \A d \in Subs : pub[d] = "have" \/ s \in todo'[d] => msg[d] \notin Items(Seen(s)')
    BY <1>3, <2>1, Zenon DEF OInv, Given
  <2> QED
    BY <1>1, <1>3, <1>5, <2>1, <2>2, <2>3, ShownStep, Zenon
<1>7. ASSUME routine[s] = "select", routine' = [routine EXCEPT ![s] = "handle"],
             held' = [held EXCEPT ![s] = msg[c]]
      PROVE  OInv'
  <2>1. msg[c] \in Nat /\ msg[c] # 0
    <3>1. msg[c] \in 1..emitted /\ emitted \in Nat
      BY <1>4, Zenon DEF Behind, OInv, StreamShapes
    <3> QED
      BY ONLY <3>1
  <2>2. /\ held'[s] = msg[c] /\ routine'[s] = "handle" /\ held' \in [Subs -> Nat]
        /\ \A t \in Subs : t # s => held'[t] = held[t] /\ routine'[t] = routine[t]
    BY <1>2, <1>7, <2>1
  <2>3. req[s] = "subscribed"
    BY <1>7 DEF OInv, Holding
  <2>4. StreamShapes'
    BY <1>1, <2>2, Zenon DEF OInv, StreamShapes
  <2>5. Holding'
    <3>1. \A t \in Subs : held'[t] # 0 <=> routine'[t] = "handle"
      BY <2>1, <2>2, Zenon DEF OInv, Holding
    <3>2. \A t \in Subs : req[t] # "subscribed" => routine'[t] = "none"
      BY <2>2, <2>3, Zenon DEF OInv, Holding
    <3> QED
      BY <1>1, <3>1, <3>2, Zenon DEF Holding
  <2>6. \A t \in Subs : t # s => Seen(t)' = Seen(t)
    BY <1>1, <2>2, Zenon DEF Seen
  <2>7. held[s] = 0
    <3>1. routine[s] # "handle"
      BY <1>7
    <3> QED
      BY <3>1, Zenon DEF OInv, Holding
  <2>8. Seen(s)' = Seen(s) \o <<msg[c]>> /\ Seen(s) \in Seq(Nat)
    <3>1. Seen(s) = polled[s] \o hashes[s] /\ Seen(s) \in Seq(Nat)
      BY <2>7, SeenIs, Zenon DEF OInv
    <3>2. Seen(s)' = polled'[s] \o hashes'[s] \o <<held'[s]>>
      BY <2>1, <2>2, Zenon DEF Seen
    <3> QED
      BY <1>1, <2>2, <3>1, <3>2, Zenon
  <2>9. Once(Seen(s)') /\ Items(Seen(s)') = Items(Seen(s)) \cup {msg[c]}
    BY <1>5, <2>1, <2>8, OneMore, Zenon
  <2>10. \A e \in Items(Seen(s)') : Behind(e)
    BY <1>4, <1>5, <2>9, Zenon
  <2>11. ASSUME NEW d \in Subs, pub[d] = "have" \/ s \in todo'[d]
         PROVE  msg[d] \notin Items(Seen(s)')
    <3>1. d # c /\ Busy(d) /\ Busy(c) /\ msg[d] \notin Items(Seen(s))
      <4>1. pub[c] # "have"
        BY <1>1
      <4>2. pub[d] = "have" \/ pub[d] = "publish"
        BY <1>3, <2>11, Zenon DEF IInv, Enlisted
      <4>3. msg[d] \notin Items(Seen(s))
        BY <1>3, <2>11, Zenon DEF OInv, Given
      <4> QED
        BY <1>1, <1>3, <2>11, <4>1, <4>2, <4>3, Zenon DEF Busy
    <3>2. msg[d] # msg[c]
      BY <3>1, Zenon DEF OInv, Messages
    <3> QED
      BY <2>9, <3>1, <3>2, Zenon
  <2> QED
    BY <1>1, <1>3, <2>4, <2>5, <2>6, <2>9, <2>10, <2>11, ShownStep, Zenon
<1> QED
  BY <1>6, <1>7, Zenon DEF PublishTo, routineVars

(* A goroutine puts its event away: into the filter, which had it already  *)
(* in hand, or nowhere.                                                    *)
LEMMA CollectsOnce ==
    ASSUME IInv, OInv, NEW s \in Subs, FilterCollects(s) \/ WsNotify(s)
    PROVE  OInv'
<1>1. /\ UNCHANGED <<emitted, responses, send, msg, pub, todo, polled, req>>
      /\ routine[s] = "handle" /\ routine' = [routine EXCEPT ![s] = "select"]
      /\ held' = [held EXCEPT ![s] = 0]
      /\ \/ hashes' = hashes
         \/ hashes' = [hashes EXCEPT ![s] = Append(@, held[s])]
  BY Zenon DEF FilterCollects, WsNotify, At, busVars, apiVars, streamVars
<1>2. /\ held \in [Subs -> Nat] /\ hashes \in [Subs -> Seq(Nat)] /\ polled \in [Subs -> Seq(Nat)]
      /\ routine \in [Subs -> {"none", "select", "handle", "cancelSubs", "ended"}]
  BY DEF IInv, Shapes, OInv, StreamShapes
<1>3. /\ held'[s] = 0 /\ routine'[s] = "select" /\ held' \in [Subs -> Nat]
      /\ \A t \in Subs : t # s => held'[t] = held[t] /\ routine'[t] = routine[t]
  BY <1>1, <1>2
<1>4. held[s] # 0 /\ held[s] \in Nat /\ req[s] = "subscribed"
  BY <1>1, <1>2 DEF OInv, Holding
<1>5. /\ hashes' \in [Subs -> Seq(Nat)]
      /\ \A t \in Subs : t # s => hashes'[t] = hashes[t]
      /\ hashes'[s] = hashes[s] \/ hashes'[s] = Append(hashes[s], held[s])
  <2>1. CASE hashes' = hashes
    BY <1>2, <2>1, Zenon
  <2>2. CASE hashes' = [hashes EXCEPT ![s] = Append(@, held[s])]
    <3>1. Append(hashes[s], held[s]) \in Seq(Nat)
      BY <1>2, <1>4
    <3> QED
      BY <1>2, <2>2, <3>1, Zenon
  <2> QED
    BY <1>1, <2>1, <2>2, Zenon
<1>6. StreamShapes'
  BY <1>1, <1>3, <1>5, Zenon DEF OInv, StreamShapes
<1>7. Holding'
  <2>1. \A t \in Subs : held'[t] # 0 <=> routine'[t] = "handle"
    <3>1. routine'[s] # "handle"
      BY <1>3
    <3> QED
      BY <1>3, <3>1, Zenon DEF OInv, Holding
  <2>2. \A t \in Subs : req[t] # "subscribed" => routine'[t] = "none"
    BY <1>3, <1>4, Zenon DEF OInv, Holding
  <2> QED
    BY <1>1, <2>1, <2>2, Zenon DEF Holding
<1>8. \A t \in Subs : t # s => Seen(t)' = Seen(t)
  BY <1>1, <1>3, <1>5, Zenon DEF Seen
<1> DEFINE base == polled[s] \o hashes[s]
<1>9. base \in Seq(Nat) /\ Seen(s) = base \o <<held[s]>>
  BY <1>4, SeenIs, Zenon DEF OInv
<1>10. Once(Seen(s)) /\ \A e \in Items(Seen(s)) : Behind(e)
  BY Zenon DEF OInv, Given
<1>11. Seen(s)' = base \/ Seen(s)' = Seen(s)
  <2>1. Seen(s)' = (polled'[s] \o hashes'[s]) \o <<>>
    BY <1>3, Zenon DEF Seen
  <2>2. polled'[s] = polled[s] /\ polled[s] \in Seq(Nat) /\ hashes[s] \in Seq(Nat)
    BY <1>1, <1>2
  <2>3. CASE hashes'[s] = hashes[s]
    BY <2>1, <2>2, <2>3, Concatenated, Zenon
  <2>4. CASE hashes'[s] = Append(hashes[s], held[s])
    <3>1. Append(hashes[s], held[s]) \in Seq(Nat)
      BY <1>4, <2>2
    <3>2. Seen(s)' = polled[s] \o Append(hashes[s], held[s])
      BY <2>1, <2>2, <2>4, <3>1, Concatenated, Zenon
    <3>3. \A e \in Nat : polled[s] \o Append(hashes[s], e) = base \o <<e>>
      BY <2>2, Concatenated
    <3>4. polled[s] \o Append(hashes[s], held[s]) = base \o <<held[s]>>
      BY <1>4, <3>3, Zenon
    <3> QED
      BY <1>9, <3>2, <3>4, Zenon
  <2> QED
    BY <1>5, <2>3, <2>4, Zenon
<1> HIDE DEF base
<1>12. Once(Seen(s)') /\ Items(Seen(s)') \subseteq Items(Seen(s))
  <2>1. /\ Items(base \o <<held[s]>>) = Items(base) \cup {held[s]}
        /\ Once(base \o <<held[s]>>) => Once(base)
    BY <1>4, <1>9, OneMore, Zenon
  <2>2. Once(base) /\ Items(base) \subseteq Items(Seen(s))
    BY <1>9, <1>10, <2>1, Zenon
  <2> QED
    BY <1>10, <1>11, <2>2, Zenon
<1>13. /\ \A e \in Items(Seen(s)') : Behind(e)
       /\ \A d \in Subs : pub[d] = "have" \/ s \in todo'[d] => msg[d] \notin Items(Seen(s)')
  BY <1>1, <1>10, <1>12, Zenon DEF OInv, Given
<1> QED
  BY <1>1, <1>6, <1>7, <1>8, <1>12, <1>13, ShownStep, Zenon

(* A poll moves what was collected to what was polled, in order.           *)
LEMMA GetFilterChangesOnce ==
    ASSUME IInv, OInv, NEW s \in Subs, GetFilterChanges(s)
    PROVE  OInv'
<1>1. /\ UNCHANGED <<emitted, responses, send, msg, pub, todo, held, routine, req>>
      /\ polled' = [polled EXCEPT ![s] = @ \o hashes[s]]
      /\ hashes' = [hashes EXCEPT ![s] = <<>>]
  BY Zenon DEF GetFilterChanges, busVars, streamVars, routineVars
<1>2. hashes \in [Subs -> Seq(Nat)] /\ polled \in [Subs -> Seq(Nat)]
  BY DEF OInv, StreamShapes
<1>3. polled[s] \in Seq(Nat) /\ hashes[s] \in Seq(Nat) /\ polled[s] \o hashes[s] \in Seq(Nat)
  BY <1>2, Concatenated, Zenon
<1>4. <<>> \in Seq(Nat)
  OBVIOUS
<1>5. /\ hashes' \in [Subs -> Seq(Nat)] /\ polled' \in [Subs -> Seq(Nat)]
      /\ hashes'[s] = <<>> /\ polled'[s] = polled[s] \o hashes[s]
      /\ \A t \in Subs : t # s => hashes'[t] = hashes[t] /\ polled'[t] = polled[t]
  BY <1>1, <1>2, <1>3, <1>4, Zenon
<1>6. StreamShapes' /\ Holding'
  BY <1>1, <1>5, Zenon DEF OInv, StreamShapes, Holding
<1>7. polled'[s] \o hashes'[s] = polled[s] \o hashes[s]
  BY <1>3, <1>5, Concatenated, Zenon
<1>8. \A t \in Subs : Seen(t)' = Seen(t)
  BY <1>1, <1>5, <1>7, Zenon DEF Seen
<1>9. /\ Once(Seen(s)') /\ \A e \in Items(Seen(s)') : Behind(e)
      /\ \A d \in Subs : pub[d] = "have" \/ s \in todo'[d] => msg[d] \notin Items(Seen(s)')
  BY <1>1, <1>8, Zenon DEF OInv, Given
<1>10. \A d \in Subs : todo'[d] \subseteq todo[d]
  BY <1>1, Zenon
<1> QED
  BY <1>1, <1>6, <1>8, <1>9, <1>10, ShownStep, Zenon

(* The steps of a request before its subscription is made.                 *)
LEMMA MakingOnceQuiet ==
    ASSUME IInv, OInv, NEW s \in Subs,
           \/ NewFilter(s) \/ WsSubscribe(s) \/ SubscribeTopics(s)
           \/ CometSubscribe(s) \/ BusSubscribe(s) \/ Install(s)
    PROVE  OInv'
<1>1. UNCHANGED <<emitted, responses, send, hashes, polled, held, todo, msg, routine>>
  BY Zenon DEF NewFilter, WsSubscribe, SubscribeTopics, CometSubscribe, BusSubscribe, Install,
     Fail, busVars, apiVars, streamVars, routineVars
<1>2. PICK from, to : Step(s, from, to) /\ from # "subscribed"
  <2>1. \E from \in {"idle", "topics", "comet", "busSubscribe", "install"} : \E to : Step(s, from, to)
    BY Zenon DEF NewFilter, WsSubscribe, SubscribeTopics, CometSubscribe, BusSubscribe, Install, Fail
  <2> QED
    BY <2>1
<1>3. req \in [Subs -> Requests] /\ Enlisted
      /\ pub \in [Subs -> {"none", "receive", "have", "publish", "close", "unlist", "ended"}]
  BY DEF IInv, Shapes
<1>4. \A t \in Subs : req'[t] # "subscribed" => req[t] # "subscribed"
  BY <1>2, <1>3 DEF Step
<1>5. Holding'
  BY <1>1, <1>4, Zenon DEF OInv, Holding
<1>6. \A c \in Subs : pub'[c] = pub[c] \/ pub'[c] = "receive"
  <2>1. pub' = pub \/ pub' = [pub EXCEPT ![s] = "receive"]
    BY Zenon DEF NewFilter, WsSubscribe, SubscribeTopics, CometSubscribe, BusSubscribe, Install,
       AddTopic, busVars
  <2> QED
    BY <1>3, <2>1
<1>7. \A c \in Subs : (Busy(c)' => Busy(c)) /\ (pub'[c] = "have" => pub[c] = "have")
  BY <1>6 DEF Busy
<1>8. msg' \in [Subs -> Nat]
  BY <1>1 DEF OInv, StreamShapes
<1> QED
  BY <1>1, <1>3, <1>5, <1>7, <1>8, QuietStep, Zenon

(* The steps of a goroutine that holds no event, and its start.            *)
LEMMA RoutineQuiet ==
    ASSUME IInv, OInv, NEW s \in Subs, Subscribed(s) \/ FilterClosed(s) \/ FilterReturns(s)
    PROVE  OInv'
<1>1. UNCHANGED <<emitted, responses, send, hashes, polled, held, todo, msg, pub>>
  BY Zenon DEF Subscribed, FilterClosed, FilterReturns, busVars, apiVars, streamVars
<1>2. /\ req \in [Subs -> Requests] /\ Enlisted
      /\ routine \in [Subs -> {"none", "select", "handle", "cancelSubs", "ended"}]
  BY DEF IInv, Shapes
<1>3. PICK to \in {"select", "cancelSubs", "ended"} : routine' = [routine EXCEPT ![s] = to]
  BY Zenon DEF Subscribed, FilterClosed, FilterReturns, At
<1>4. /\ routine'[s] # "handle" /\ \A t \in Subs : t # s => routine'[t] = routine[t]
  BY <1>2, <1>3
<1>5. /\ req'[s] = "subscribed" /\ routine[s] # "handle"
      /\ \A t \in Subs : t # s => req'[t] = req[t]
  <2>1. CASE Subscribed(s)
    <3>1. req[s] = "enlist" /\ req' = [req EXCEPT ![s] = "subscribed"]
      BY <2>1, Zenon DEF Subscribed, Step
    <3>2. routine[s] = "none"
      BY <3>1 DEF OInv, Holding
    <3> QED
      BY <1>2, <3>1, <3>2
  <2>2. CASE FilterClosed(s) \/ FilterReturns(s)
    <3>1. req' = req /\ (routine[s] = "select" \/ routine[s] = "cancelSubs")
      BY <2>2, Zenon DEF FilterClosed, FilterReturns, At
    <3>2. req[s] = "subscribed"
      BY <3>1 DEF OInv, Holding
    <3> QED
      BY <3>1, <3>2
  <2> QED
    BY <2>1, <2>2, Zenon
<1>6. Holding'
  <2>1. \A t \in Subs : held'[t] # 0 <=> routine'[t] = "handle"
    BY <1>1, <1>4, <1>5, Zenon DEF OInv, Holding
  <2>2. \A t \in Subs : req'[t] # "subscribed" => routine'[t] = "none"
    BY <1>4, <1>5, Zenon DEF OInv, Holding
  <2> QED
    BY <2>1, <2>2, Zenon DEF Holding
<1>7. msg' \in [Subs -> Nat]
  BY <1>1 DEF OInv, StreamShapes
<1>8. \A c \in Subs : Busy(c)' => Busy(c)
  BY <1>1, Zenon DEF Busy
<1> QED
  BY <1>1, <1>2, <1>6, <1>7, <1>8, QuietStep, Zenon

(* The other steps leave all of this alone.                                *)
LEMMA OtherQuiet ==
    ASSUME IInv, OInv,
           \/ \E s \in Subs : Uninstall(s) \/ UninstallFilter(s) \/ Deadline(s) \/ WsUnsubscribe(s)
           \/ TimeoutLoop \/ UNCHANGED vars
    PROVE  OInv'
<1>1. UNCHANGED <<emitted, responses, send, hashes, polled, held, todo, msg, pub, routine, req>>
  BY Zenon DEF Uninstall, UninstallFilter, Deadline, WsUnsubscribe, TimeoutLoop, vars, busVars,
     apiVars, streamVars, routineVars
<1>2. msg' \in [Subs -> Nat] /\ Enlisted
  BY <1>1 DEF OInv, StreamShapes, IInv
<1>3. Holding'
  BY <1>1, Zenon DEF OInv, Holding
<1>4. \A c \in Subs : Busy(c)' => Busy(c)
  BY <1>1, Zenon DEF Busy
<1> QED
  BY <1>1, <1>2, <1>3, <1>4, QuietStep, Zenon

(* The invariant holds at the start, with nothing emitted, and every step  *)
(* keeps it.                                                               *)
LEMMA InitOnce == Init => OInv
<1> SUFFICES ASSUME Init PROVE OInv
  OBVIOUS
<1>1. /\ emitted = 0 /\ responses = <<>> /\ send = <<>>
      /\ msg = [s \in Subs |-> 0] /\ todo = [s \in Subs |-> {}] /\ pub = [s \in Subs |-> "none"]
      /\ hashes = [s \in Subs |-> <<>>] /\ polled = [s \in Subs |-> <<>>]
      /\ held = [s \in Subs |-> 0] /\ routine = [s \in Subs |-> "none"]
  BY Zenon DEF Init, NewEventBus
<1>2. StreamShapes
  <2>1. <<>> \in Seq(Nat) /\ <<>> \in Seq(Names \X Nat) /\ 0 \in Nat
    OBVIOUS
  <2> QED
    BY <1>1, <2>1, Zenon DEF StreamShapes
<1>3. Ordered /\ Messages /\ Holding
  BY <1>1 DEF Ordered, Messages, Busy, Holding
<1>4. \A s \in Subs : Seen(s) = <<>>
  BY <1>1 DEF Seen
<1>5. Once(<<>>) /\ Items(<<>>) = {}
  BY DEF Once, Items
<1>6. \A s \in Subs : Once(Seen(s)) /\ Items(Seen(s)) = {}
  BY <1>4, <1>5, Zenon
<1>7. Given
  BY <1>6, Zenon DEF Given
<1> QED
  BY <1>2, <1>3, <1>7, Zenon DEF OInv

LEMMA NextOnce == IInv /\ OInv /\ [Next]_vars => OInv'
<1> SUFFICES ASSUME IInv, OInv, [Next]_vars PROVE OInv'
  OBVIOUS
<1>1. CASE \E s \in Subs : \/ NewFilter(s) \/ WsSubscribe(s) \/ Request(s) \/ Install(s)
                           \/ Publisher(s) \/ Routine(s) \/ GetFilterChanges(s)
  BY <1>1, MakingOnceQuiet, RoutineQuiet, PublisherOnce, CollectsOnce, GetFilterChangesOnce,
     Zenon DEF Request, Routine
<1>2. CASE \/ \E s \in Subs : Uninstall(s) \/ UninstallFilter(s) \/ Deadline(s) \/ WsUnsubscribe(s)
           \/ TimeoutLoop \/ UNCHANGED vars
  BY <1>2, OtherQuiet, Zenon
<1>3. CASE \/ \E c, s \in Subs : PublishTo(c, s)
           \/ \E n \in Names : CometEmits(n)
           \/ ConsumeEvents \/ SendEvent \/ SendTimeout
  BY <1>3, PublishToOnce, CometEmitsOrdered, ConsumeEventsOrdered, SendEventOnce,
     SendTimeoutOrdered, Zenon
<1> QED
  BY <1>1, <1>2, <1>3, Zenon DEF Next

(* No client is given an event twice by its filter, whatever was polled,   *)
(* collected or is in the goroutine's hands.                               *)
THEOREM EventsOnce == Spec => []PolledOnce
<1>1. OInv => PolledOnce
  BY Zenon DEF OInv, Given, Once, PolledOnce
<1> QED
  BY <1>1, InitOnce, NextOnce, Inductive, PTL DEF Spec
=============================================================================

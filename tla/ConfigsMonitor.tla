--------------------------- MODULE ConfigsMonitor ---------------------------
(***************************************************************************)
(* The polling diff monitor of adapter/config/memory/monitor.go.           *)
(*                                                                         *)
(* One goroutine runs run(): a select over the stop channel and the       *)
(* ticker channel.  Each tick runs UpdateConfigRecord(), which for every  *)
(* type of model.IstioConfigTypes, in order, lists the store, normalizes  *)
(* the listing, hands the diff against the cached snapshot to the         *)
(* handlers of that type and then replaces the cached snapshot.  The      *)
(* store is written concurrently by other goroutines, so a store write    *)
(* may fall between the List calls of two types.                          *)
(***************************************************************************)
EXTENDS ConfigDiff

CONSTANTS
    ConfigTypes,  \* model.IstioConfigTypes, in its order (a sequence of model values)
    Handlers,     \* handler functions handed to AppendEventHandler (model values)
    NoConfig,     \* no config under this key (model value)
    MaxWrites     \* bound on the number of store writes in a behaviour

ASSUME /\ IsInjective(ConfigTypes)
       /\ NoConfig \notin Contents
       /\ MaxWrites \in Nat

Types == ToSet(ConfigTypes)

VARIABLES
    store,               \* the ConfigStore: type -> key -> content or NoConfig
    configCachedRecord,  \* m.configCachedRecord: type -> sorted snapshot
    handlers,            \* m.handlers: type -> handlers in registration order
    seen,                \* handler -> key -> content, as the handler's events left it
    started,             \* Start has been called
    tickerActive,        \* m.ticker is running (not yet stopped)
    tickReady,           \* a tick is buffered in m.ticker.C (capacity one)
    stopClosed,          \* the stop channel has been closed
    next,                \* 0: run() is in its select; i > 0: UpdateConfigRecord lists ConfigTypes[i]
    listed,              \* types whose List was called in the current tick
    writes               \* store writes so far

vars == <<store, configCachedRecord, handlers, seen, started, tickerActive,
          tickReady, stopClosed, next, listed, writes>>

ContentOrNone == Contents \cup {NoConfig}

\* The configs ConfigStore.List(t) returns: one per key present, unordered.
Listing(t) == { [key |-> k, content |-> store[t][k]] : k \in {k \in Keys : store[t][k] # NoConfig} }

Registered(t) == ToSet(handlers[t])

\* A handler's view after it has been called with each event, in order.
Replay(view, events) ==
    FoldLeft(LAMBDA v, e : [v EXCEPT ![e.config.key] =
                               IF e.event = EventDelete THEN NoConfig ELSE e.config.content],
             view, events)

\* applyHandlers for every event: each handler of type t, in registration
\* order, is called with the event.
ApplyHandlers(t, events) ==
    seen' = [h \in Handlers |-> IF h \in Registered(t) THEN Replay(seen[h], events) ELSE seen[h]]

Init ==
    /\ store \in [Types -> [Keys -> ContentOrNone]]
    /\ configCachedRecord = [t \in Types |-> <<>>]
    /\ handlers = [t \in Types |-> <<>>]
    /\ seen = [h \in Handlers |-> [k \in Keys |-> NoConfig]]
    /\ started = FALSE
    /\ tickerActive = FALSE
    /\ tickReady = FALSE
    /\ stopClosed = FALSE
    /\ next = 0
    /\ listed = {}
    /\ writes = 0

\* Fault variant of AppendEventHandler: a handler registered after Start.
AppendEventHandler_AfterStart(t, h) ==
    /\ \A u \in Types : h \notin Registered(u)
    /\ handlers' = [handlers EXCEPT ![t] = Append(@, h)]
    /\ UNCHANGED <<store, configCachedRecord, seen, started, tickerActive,
                   tickReady, stopClosed, next, listed, writes>>

(***************************************************************************)
(* AppendEventHandler: appended to the type's list.  Handlers are         *)
(* registered during setup, before Start (the map is not locked).         *)
(***************************************************************************)
AppendEventHandler(t, h) ==
    /\ ~started
    /\ \A u \in Types : h \notin Registered(u)
    /\ handlers' = [handlers EXCEPT ![t] = Append(@, h)]
    /\ UNCHANGED <<store, configCachedRecord, seen, started, tickerActive,
                   tickReady, stopClosed, next, listed, writes>>

\* Start: time.NewTicker(m.period), then run(stop).
Start ==
    /\ ~started
    /\ started' = TRUE
    /\ tickerActive' = TRUE
    /\ UNCHANGED <<store, configCachedRecord, handlers, seen, tickReady,
                   stopClosed, next, listed, writes>>

\* The ticker delivers a tick; ticks are dropped while one is buffered.
TickerFires ==
    /\ tickerActive
    /\ ~tickReady
    /\ tickReady' = TRUE
    /\ UNCHANGED <<store, configCachedRecord, handlers, seen, started,
                   tickerActive, stopClosed, next, listed, writes>>

\* select: case <-m.ticker.C: m.UpdateConfigRecord()
RecvTick ==
    /\ started
    /\ next = 0
    /\ tickReady
    /\ tickReady' = FALSE
    /\ next' = 1
    /\ listed' = {}
    /\ UNCHANGED <<store, configCachedRecord, handlers, seen, started,
                   tickerActive, stopClosed, writes>>

\* Fault variant of RecvStop: the ticker is never stopped.
RecvStop_NoTickerStop ==
    /\ started
    /\ next = 0
    /\ stopClosed
    /\ UNCHANGED vars

\* select: case <-stop: m.ticker.Stop() -- and the for loop goes on.
RecvStop ==
    /\ started
    /\ next = 0
    /\ stopClosed
    /\ tickerActive' = FALSE
    /\ UNCHANGED <<store, configCachedRecord, handlers, seen, started,
                   tickReady, stopClosed, next, listed, writes>>

(***************************************************************************)
(* Fault variants of ListOk.  ListOk_CacheFirst stores the new snapshot   *)
(* before compareToCache reads the cached one, so the diff is empty.      *)
(* ListOk_SkipLast ends the loop one type early (an off-by-one bound).    *)
(***************************************************************************)
ListOk_CacheFirst(i) ==
    /\ next = i
    /\ LET t         == ConfigTypes[i]
           newRecord == Normalize(Listing(t))
       IN  /\ ApplyHandlers(t, CompareToCache(newRecord, newRecord))
           /\ configCachedRecord' = [configCachedRecord EXCEPT ![t] = newRecord]
           /\ listed' = listed \cup {t}
    /\ next' = IF i = Len(ConfigTypes) THEN 0 ELSE i + 1
    /\ UNCHANGED <<store, handlers, started, tickerActive, tickReady,
                   stopClosed, writes>>

ListOk_SkipLast(i) ==
    /\ next = i
    /\ LET t         == ConfigTypes[i]
           newRecord == Normalize(Listing(t))
       IN  /\ ApplyHandlers(t, CompareToCache(configCachedRecord[t], newRecord))
           /\ configCachedRecord' = [configCachedRecord EXCEPT ![t] = newRecord]
           /\ listed' = listed \cup {t}
    /\ next' = IF i >= Len(ConfigTypes) - 1 THEN 0 ELSE i + 1
    /\ UNCHANGED <<store, handlers, started, tickerActive, tickReady,
                   stopClosed, writes>>

(***************************************************************************)
(* One iteration of UpdateConfigRecord's loop when List succeeds:         *)
(* normalize, compareToCache against the cached snapshot (handlers run    *)
(* inside), then store the new snapshot; the loop moves to the next type. *)
(***************************************************************************)
ListOk(i) ==
    /\ next = i
    /\ LET t         == ConfigTypes[i]
           newRecord == Normalize(Listing(t))
       IN  /\ ApplyHandlers(t, CompareToCache(configCachedRecord[t], newRecord))
           /\ configCachedRecord' = [configCachedRecord EXCEPT ![t] = newRecord]
           /\ listed' = listed \cup {t}
    /\ next' = IF i = Len(ConfigTypes) THEN 0 ELSE i + 1
    /\ UNCHANGED <<store, handlers, started, tickerActive, tickReady,
                   stopClosed, writes>>

\* Fault variant of ListFails: the failed type's cached snapshot is dropped.
ListFails_ResetCache(i) ==
    /\ next = i
    /\ configCachedRecord' = [configCachedRecord EXCEPT ![ConfigTypes[i]] = <<>>]
    /\ listed' = listed \cup {ConfigTypes[i]}
    /\ next' = 0
    /\ UNCHANGED <<store, handlers, seen, started, tickerActive, tickReady,
                   stopClosed, writes>>

\* List fails: a warning is logged and UpdateConfigRecord returns.
ListFails(i) ==
    /\ next = i
    /\ listed' = listed \cup {ConfigTypes[i]}
    /\ next' = 0
    /\ UNCHANGED <<store, configCachedRecord, handlers, seen, started,
                   tickerActive, tickReady, stopClosed, writes>>

\* The owner of the monitor closes the stop channel.
CloseStop ==
    /\ ~stopClosed
    /\ stopClosed' = TRUE
    /\ UNCHANGED <<store, configCachedRecord, handlers, seen, started,
                   tickerActive, tickReady, next, listed, writes>>

\* Another goroutine creates, replaces or deletes a config in the store.
StoreWrite(t, k, c) ==
    /\ writes < MaxWrites
    /\ store[t][k] # c
    /\ store' = [store EXCEPT ![t][k] = c]
    /\ writes' = writes + 1
    /\ UNCHANGED <<configCachedRecord, handlers, seen, started, tickerActive,
                   tickReady, stopClosed, next, listed>>

Next ==
    \/ \E t \in Types, h \in Handlers : AppendEventHandler(t, h)
    \/ Start
    \/ TickerFires
    \/ RecvTick
    \/ RecvStop
    \/ \E i \in 1..Len(ConfigTypes) : ListOk(i) \/ ListFails(i)
    \/ CloseStop
    \/ \E t \in Types, k \in Keys, c \in ContentOrNone : StoreWrite(t, k, c)

(***************************************************************************)
(* Fairness: the program calls Start; a running ticker ticks; run() is    *)
(* the only reader of the tick channel; and a store outage is transient:  *)
(* a List that is retried over and over eventually succeeds (spec         *)
(* section 7), which is strong fairness because a failure ends the tick.  *)
(* Go's select picks uniformly among its ready cases, so a closed stop    *)
(* channel, ready whenever run() is back in its select, is eventually     *)
(* chosen: strong fairness on RecvStop.                                  *)
(***************************************************************************)
Fairness ==
    /\ WF_vars(Start)
    /\ WF_vars(TickerFires)
    /\ WF_vars(RecvTick)
    /\ SF_vars(RecvStop)
    /\ \A i \in 1..Len(ConfigTypes) : SF_vars(ListOk(i))

Spec == Init /\ [][Next]_vars

FairSpec == Spec /\ Fairness

-----------------------------------------------------------------------------

TypeOK ==
    /\ store \in [Types -> [Keys -> ContentOrNone]]
    /\ \A t \in Types : configCachedRecord[t] \in Seq(Config) /\ SortedByKey(configCachedRecord[t])
    /\ handlers \in [Types -> Seq(Handlers)]
    /\ seen \in [Handlers -> [Keys -> ContentOrNone]]
    /\ {started, tickerActive, tickReady, stopClosed} \subseteq BOOLEAN
    /\ next \in 0..Len(ConfigTypes)
    /\ listed \subseteq Types
    /\ writes \in 0..MaxWrites

(***************************************************************************)
(* Every registered handler's view, built only from the events            *)
(* compareToCache handed it, equals the monitor's cached snapshot of its  *)
(* type: replaying the events on the old snapshot gives the new one, over *)
(* any sequence of ticks, failed Lists and concurrent store writes.       *)
(***************************************************************************)
HandlersAgreeWithCache ==
    \A t \in Types : \A h \in Registered(t) :
        seen[h] = AsMap(configCachedRecord[t], NoConfig)

(***************************************************************************)
(* Once the store stops changing (and unless the monitor is stopped),     *)
(* every handler eventually sees exactly the store's configs of its type. *)
(***************************************************************************)
HandlersEventuallySeeStore ==
    <>[](stopClosed \/ \A t \in Types : \A h \in Registered(t) : seen[h] = store[t])

(***************************************************************************)
(* run() never returns: after stop it keeps selecting the closed channel  *)
(* and calling m.ticker.Stop().  The spin is harmless only if the stop    *)
(* case eventually stops the ticker and any tick buffered before the stop *)
(* drains, so that from then on no tick and no List happens again.        *)
(***************************************************************************)
StopQuiescesMonitor ==
    stopClosed ~> [](~tickerActive /\ ~tickReady /\ next = 0)

(***************************************************************************)
(* The monitor implements HandlerMirror with each handler's view for the *)
(* abstract views: every tick that lists a type moves all of its         *)
(* handlers to the store's configs of that moment, however the events    *)
(* of compareToCache, failed Lists and concurrent writes fall; every     *)
(* other step (ticks, failures, stop) leaves the views alone.             *)
(***************************************************************************)
Mirror == INSTANCE HandlerMirror WITH views <- seen

ImplementsHandlerMirror == Mirror!Spec

(***************************************************************************)
(* Spec section 4.2: a List error fails only that type's cycle; the other *)
(* types are still listed.  So when a tick ends every type was listed.    *)
(***************************************************************************)
EveryTypeListedEachTick ==
    [][next # 0 /\ next' = 0 => listed' = Types]_vars

(***************************************************************************)
(* Spec section 5: once the monitor has received the stop signal no more  *)
(* events are dispatched to handlers.                                     *)
(***************************************************************************)
NoDispatchAfterStop ==
    [][started /\ ~tickerActive => seen' = seen]_vars
=============================================================================

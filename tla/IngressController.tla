------------------------- MODULE IngressController -------------------------
(***************************************************************************)
(* The read-only ingress config store of adapter/config/ingress/          *)
(* controller.go.                                                          *)
(*                                                                         *)
(* A Kubernetes informer lists and then watches the Ingress resources.    *)
(* Its event handler funcs push a task (object, event) on a kube.Queue;   *)
(* one goroutine pops the tasks and runs the ChainHandler on each: first  *)
(* the gate that fails until the informer has synced, then one step per  *)
(* RegisterEventHandler that converts the ingress into ingress rules and  *)
(* calls the registered function once per rule.  A task whose chain      *)
(* fails is pushed again after the queue's retry delay.                   *)
(*                                                                         *)
(* kube.Queue, kube.ChainHandler, convertIngress and shouldProcessIngress *)
(* live outside this repository's sources; they are modelled from the    *)
(* spec (section 4.3).  The informer is the client library's list+watch.  *)
(***************************************************************************)
EXTENDS Integers, Sequences, SequencesExt, FiniteSets

CONSTANTS
    Names,      \* ingress resources (namespace/name), model values
    RuleIds,    \* rule discriminators inside one ingress (host/path), model values
    Specs,      \* what a derived rule carries (backend service and port), model values
    Classes,    \* values of the ingress class annotation
    IstioClass, \* the class shouldProcessIngress accepts
    None,       \* no object / no rule
    MaxWrites,  \* bound on the API writes after the initial list
    MaxRelists, \* bound on the watch failures the informer recovers from by a relist
    CanStop     \* whether the owner closes the stop channel in the behaviours checked

ASSUME /\ IstioClass \in Classes
       /\ None \notin Specs
       /\ MaxWrites \in Nat
       /\ MaxRelists \in Nat
       /\ CanStop \in BOOLEAN

Ingress == [rules : SUBSET RuleIds, spec : Specs, class : Classes, rv : 0..MaxWrites]

EventAdd    == "EventAdd"
EventUpdate == "EventUpdate"
EventDelete == "EventDelete"

\* Keys of derived rules: the ingress identity plus the rule discriminator.
RuleKeys == Names \X RuleIds

MaxTasks == Cardinality(Names) * (1 + MaxRelists) + MaxWrites

\* tomb: the object is a cache.DeletedFinalStateUnknown wrapping the last
\* known ingress, not an *v1beta1.Ingress.
Notification == [kind : {EventAdd, EventUpdate, EventDelete}, name : Names,
                 obj : Ingress, tomb : BOOLEAN]

Task == [id : 1..MaxTasks, name : Names, obj : Ingress,
         event : {EventAdd, EventUpdate, EventDelete}, tomb : BOOLEAN]

VARIABLES
    api,          \* the API server: name -> ingress or None
    watch,        \* watch notifications not yet handled by the informer, in order
    initPending,  \* items of the initial list not yet popped by the informer
    istore,       \* informer.GetStore(): name -> ingress or None
    queue,        \* kube.Queue: tasks in FIFO order
    delayed,      \* tasks whose chain failed, waiting out the retry delay
    view,         \* registered handler: rule key -> spec, as its events left it
    pushed,       \* ids of the tasks pushed so far (the last id is Cardinality(pushed))
    applied,      \* ids of the tasks the chain applied without error
    lastApplied,  \* name -> id of the last task of that name the chain applied
    writes,       \* API writes so far
    watchUp,      \* the reflector's watch connection is open
    relists,      \* relists so far
    crashed,      \* a handler panicked in the queue goroutine: the process is gone
    running,      \* Run has started the queue and informer goroutines
    stopped       \* the stop channel is closed: both goroutines have returned

vars == <<api, watch, initPending, istore, queue, delayed, view, pushed,
          applied, lastApplied, writes, watchUp, relists, crashed, running, stopped>>

(***************************************************************************)
(* informer.HasSynced: the informer has listed and the items of the       *)
(* initial list have all been popped.                                     *)
(***************************************************************************)
HasSynced == running /\ initPending = 0

\* shouldProcessIngress(mesh, ingress): the ingress class selects this mesh.
ShouldProcessIngress(obj) == obj.class = IstioClass

\* convertIngress(ingress, domainSuffix): rule key -> rule.
ConvertIngress(n, obj) == [key \in {n} \X obj.rules |-> obj.spec]

\* The task the informer's handler func pushes: kube.NewTask(handler.Apply, obj, event).
NewTask(n, obj, e, tomb) ==
    [id |-> Cardinality(pushed) + 1, name |-> n, obj |-> obj, event |-> e, tomb |-> tomb]

Push(t) ==
    /\ queue' = Append(queue, t)
    /\ pushed' = pushed \cup {t.id}

-----------------------------------------------------------------------------
(***************************************************************************)
(* The ConfigStore surface.  ConfigDescriptor names the one type served,  *)
(* model.IngressRule; any other type is foreign to this store.            *)
(***************************************************************************)
IngressRuleType == "ingress-rule"
ConfigTypeNames == {IngressRuleType, "route-rule"}

ConfigDescriptor == <<IngressRuleType>>

ErrUnsupportedOp == "unsupported operation: the ingress config store is a read-only view"

\* Post, Put and Delete: every write fails, whatever its arguments.
Post(config) == [revision |-> "", err |-> ErrUnsupportedOp]
Put(config, revision) == [revision |-> "", err |-> ErrUnsupportedOp]
Delete(typ, key) == [err |-> ErrUnsupportedOp]

(***************************************************************************)
(* List(typ): errUnsupportedOp for a foreign type; otherwise the rules of *)
(* every cached ingress that passes the filter, with the ingress's        *)
(* resource version.                                                      *)
(***************************************************************************)
List(typ) ==
    IF typ # IngressRuleType THEN [ok |-> FALSE, configs |-> {}]
    ELSE [ok |-> TRUE,
          configs |-> { [key |-> <<n, r>>, content |-> istore[n].spec, revision |-> istore[n].rv] :
                          <<n, r>> \in { <<n, r>> \in RuleKeys :
                                           /\ istore[n] # None
                                           /\ ShouldProcessIngress(istore[n])
                                           /\ r \in istore[n].rules } }]

\* Fault variant of Get: the shouldProcessIngress check is left out.
Get_NoFilter(typ, key) ==
    LET n   == key[1]
        obj == istore[n]
    IN  IF typ # IngressRuleType \/ obj = None THEN [found |-> FALSE]
        ELSE LET rules == ConvertIngress(n, obj)
             IN  IF key \in DOMAIN rules
                 THEN [found |-> TRUE, content |-> rules[key], revision |-> obj.rv]
                 ELSE [found |-> FALSE]

(***************************************************************************)
(* Get(typ, key): not found for a foreign type; otherwise decode the      *)
(* ingress identity from the key, look it up in the informer's store,     *)
(* filter, convert, pick the rule.                                        *)
(***************************************************************************)
Get(typ, key) ==
    LET n   == key[1]
        obj == istore[n]
    IN  IF typ # IngressRuleType THEN [found |-> FALSE]
        ELSE IF obj = None THEN [found |-> FALSE]
        ELSE IF ~ShouldProcessIngress(obj) THEN [found |-> FALSE]
        ELSE LET rules == ConvertIngress(n, obj)
             IN  IF key \in DOMAIN rules
                 THEN [found |-> TRUE, content |-> rules[key], revision |-> obj.rv]
                 ELSE [found |-> FALSE]

-----------------------------------------------------------------------------
(***************************************************************************)
(* NewController and RegisterEventHandler have built the queue, the      *)
(* informer and the chain (the gate, then one registered consumer); the  *)
(* API server holds whatever ingresses exist when the process starts.    *)
(***************************************************************************)
Init ==
    /\ api \in [Names -> {o \in Ingress : o.rv = 0} \cup {None}]
    /\ watch = <<>>
    /\ initPending = 0
    /\ istore = [n \in Names |-> None]
    /\ queue = <<>>
    /\ delayed = {}
    /\ view = [k \in RuleKeys |-> None]
    /\ pushed = {}
    /\ applied = {}
    /\ lastApplied = [n \in Names |-> 0]
    /\ writes = 0
    /\ watchUp = FALSE
    /\ relists = 0
    /\ crashed = FALSE
    /\ running = FALSE
    /\ stopped = FALSE

(***************************************************************************)
(* Run(stop): go queue.Run(stop); go informer.Run(stop).  The informer    *)
(* lists the API (its items are popped one by one and count down         *)
(* HasSynced) and opens the watch that carries every later change.        *)
(***************************************************************************)
InitialObjects == { n \in Names : api[n] # None }

Run ==
    /\ ~running
    /\ running' = TRUE
    /\ watch' \in { [i \in DOMAIN order |-> [kind |-> EventAdd, name |-> order[i],
                                               obj |-> api[order[i]], tomb |-> FALSE]]
                      : order \in SetToSeqs(InitialObjects) }
    /\ initPending' = Cardinality(InitialObjects)
    /\ watchUp' = TRUE
    /\ UNCHANGED <<api, istore, queue, delayed, view, pushed, applied, lastApplied,
                   writes, relists, crashed, stopped>>

(***************************************************************************)
(* The owner closes stop: <-stop returns in Run, and queue.Run and        *)
(* informer.Run return, so no notification is popped and no task is run  *)
(* any more.  A retry timer armed earlier still pushes its task.          *)
(***************************************************************************)
Stop ==
    /\ CanStop
    /\ running
    /\ ~stopped
    /\ stopped' = TRUE
    /\ watchUp' = FALSE
    /\ UNCHANGED <<api, watch, initPending, istore, queue, delayed, view, pushed,
                   applied, lastApplied, writes, relists, crashed, running>>

(***************************************************************************)
(* A user creates, updates or deletes an ingress; the API server bumps    *)
(* the resource version and the watch stream carries the change, unless  *)
(* the watch connection is down: then the change reaches the informer    *)
(* only through the next relist.  Writes before Run are part of the      *)
(* initial API state; writes after stop are not observed by the process.  *)
(***************************************************************************)
Notify(w) == watch' = IF watchUp THEN Append(watch, w) ELSE watch

ApiWrite(n, obj) ==
    /\ running /\ ~stopped
    /\ writes < MaxWrites
    /\ \/ /\ obj # None
          /\ api' = [api EXCEPT ![n] = [obj EXCEPT !.rv = writes + 1]]
          /\ Notify([kind |-> IF api[n] = None THEN EventAdd ELSE EventUpdate,
                     name |-> n, obj |-> api'[n], tomb |-> FALSE])
       \/ /\ obj = None
          /\ api[n] # None
          /\ api' = [api EXCEPT ![n] = None]
          /\ Notify([kind |-> EventDelete, name |-> n, obj |-> api[n], tomb |-> FALSE])
    /\ writes' = writes + 1
    /\ UNCHANGED <<initPending, istore, queue, delayed, view, pushed, applied, lastApplied,
                   watchUp, relists, crashed, running, stopped>>

\* The watch ends with an error (API server restart, or 410 Gone for an
\* expired resource version); the reflector will list again.  A watch that
\* merely times out is re-opened from the last resource version without a
\* list, which loses nothing and is not modelled.
WatchBreaks ==
    /\ watchUp
    /\ relists < MaxRelists
    /\ watchUp' = FALSE
    /\ UNCHANGED <<api, watch, initPending, istore, queue, delayed, view, pushed,
                   applied, lastApplied, writes, relists, crashed, running, stopped>>

(***************************************************************************)
(* The reflector lists again and calls DeltaFIFO.Replace: a Sync delta   *)
(* per listed ingress, which the informer hands to UpdateFunc if it has  *)
(* the object cached and to AddFunc if not, then, for every cached      *)
(* ingress the list no longer has, a Deleted delta whose object is a     *)
(* DeletedFinalStateUnknown tombstone.  Only relists made once the FIFO  *)
(* has been drained are modelled (watch = <<>>), so the informer cache  *)
(* is the known-objects set; a Replace onto still-queued deltas, which   *)
(* the reflector may also do, is a sub-case left out.                   *)
(***************************************************************************)
ReplaceDelta(n) ==
    IF api[n] # None
    THEN [kind |-> IF istore[n] = None THEN EventAdd ELSE EventUpdate,
          name |-> n, obj |-> api[n], tomb |-> FALSE]
    ELSE [kind |-> EventDelete, name |-> n, obj |-> istore[n], tomb |-> TRUE]

Relist ==
    /\ running
    /\ ~crashed
    /\ ~stopped
    /\ ~watchUp
    /\ watch = <<>>
    /\ \E listOrder \in SetToSeqs({n \in Names : api[n] # None}),
          goneOrder \in SetToSeqs({n \in Names : api[n] = None /\ istore[n] # None}) :
          watch' = [i \in 1..Len(listOrder \o goneOrder) |-> ReplaceDelta((listOrder \o goneOrder)[i])]
    /\ watchUp' = TRUE
    /\ relists' = relists + 1
    /\ UNCHANGED <<api, initPending, istore, queue, delayed, view, pushed,
                   applied, lastApplied, writes, crashed, running, stopped>>

\* Fault variant of PopInitial: the count is decremented without the guard.
PopInitial_Unguarded == initPending' = initPending - 1

\* DeltaFIFO.Pop: an item of the initial list counts down the initial population.
PopInitial == initPending' = IF initPending > 0 THEN initPending - 1 ELSE 0

(***************************************************************************)
(* The informer pops one notification, updates its store and calls the   *)
(* ResourceEventHandlerFuncs of NewController: AddFunc and DeleteFunc     *)
(* push a task; UpdateFunc pushes one unless old and new are DeepEqual.   *)
(***************************************************************************)
InformerDeliver ==
    /\ ~crashed
    /\ ~stopped
    /\ watch # <<>>
    /\ LET w   == Head(watch)
           old == istore[w.name]
       IN  /\ istore' = [istore EXCEPT ![w.name] = IF w.kind = EventDelete THEN None ELSE w.obj]
           /\ IF w.kind = EventUpdate /\ old = w.obj
              THEN UNCHANGED <<queue, pushed>>
              ELSE Push(NewTask(w.name, w.obj, w.kind, w.tomb))
    /\ watch' = Tail(watch)
    /\ PopInitial
    /\ UNCHANGED <<api, delayed, view, applied, lastApplied, writes, watchUp,
                   relists, crashed, running, stopped>>

-----------------------------------------------------------------------------
(***************************************************************************)
(* The chain steps appended by RegisterEventHandler: unless filtered out, *)
(* f(config, event) for every rule of the converted ingress.  The handler *)
(* f is a consumer that keeps the rules it was told about: Add and Update *)
(* store the rule, Delete removes it.  Rules of one ingress have distinct *)
(* keys, so the map's iteration order does not matter.  The step asserts *)
(* the type of obj to *v1beta1.Ingress without ok: on a tombstone it panics.  *)
(***************************************************************************)
Panics(t) == t.tomb

RegisteredHandler(t) ==
    IF ~ShouldProcessIngress(t.obj) THEN view
    ELSE LET rules == ConvertIngress(t.name, t.obj)
         IN  [k \in RuleKeys |-> IF k \in DOMAIN rules
                                 THEN IF t.event = EventDelete THEN None ELSE rules[k]
                                 ELSE view[k]]

(***************************************************************************)
(* ChainHandler.Apply: the gate of NewController ("waiting till full      *)
(* synchronization") fails while the informer has not synced, and the    *)
(* chain stops at the first error; otherwise every registered step runs.  *)
(* The gate checks its type assertion, so a tombstone passes it.          *)
(***************************************************************************)
ChainApply(t) ==
    IF ~HasSynced THEN [ok |-> FALSE, panic |-> FALSE, view |-> view]
    ELSE [ok |-> TRUE, panic |-> Panics(t), view |-> RegisteredHandler(t)]

\* Fault variant of the queue: a failed task is dropped, not retried.
QueueProcess_NoRetry ==
    /\ ~crashed
    /\ ~stopped
    /\ queue # <<>>
    /\ LET t == Head(queue)
           r == ChainApply(t)
       IN  IF r.panic
           THEN /\ crashed' = TRUE
                /\ UNCHANGED <<api, watch, initPending, istore, queue, delayed, view,
                               pushed, applied, lastApplied, writes, watchUp, relists, running, stopped>>
           ELSE /\ view' = r.view
                /\ IF r.ok
                   THEN /\ applied' = applied \cup {t.id}
                        /\ lastApplied' = [lastApplied EXCEPT ![t.name] = t.id]
                   ELSE UNCHANGED <<applied, lastApplied>>
                /\ queue' = Tail(queue)
                /\ UNCHANGED <<api, watch, initPending, istore, delayed, pushed, writes,
                               watchUp, relists, crashed, running, stopped>>

(***************************************************************************)
(* Queue.Run: pop the head task and apply its chain; on error arm the     *)
(* retry timer (time.AfterFunc(delay, push task)).  A panic in a step is *)
(* not recovered: it ends the goroutine and with it the process.          *)
(***************************************************************************)
QueueProcess ==
    /\ ~crashed
    /\ ~stopped
    /\ queue # <<>>
    /\ LET t == Head(queue)
           r == ChainApply(t)
       IN  IF r.panic
           THEN /\ crashed' = TRUE
                /\ UNCHANGED <<api, watch, initPending, istore, queue, delayed, view,
                               pushed, applied, lastApplied, writes, watchUp, relists, running, stopped>>
           ELSE /\ view' = r.view
                /\ IF r.ok
                   THEN /\ applied' = applied \cup {t.id}
                        /\ lastApplied' = [lastApplied EXCEPT ![t.name] = t.id]
                        /\ UNCHANGED delayed
                   ELSE /\ delayed' = delayed \cup {t}
                        /\ UNCHANGED <<applied, lastApplied>>
                /\ queue' = Tail(queue)
                /\ UNCHANGED <<api, watch, initPending, istore, pushed, writes,
                               watchUp, relists, crashed, running, stopped>>

\* The retry delay of a failed task elapses: it is pushed at the tail.
RetryFires(t) ==
    /\ ~crashed
    /\ t \in delayed
    /\ delayed' = delayed \ {t}
    /\ queue' = Append(queue, t)
    /\ UNCHANGED <<api, watch, initPending, istore, view, pushed, applied,
                   lastApplied, writes, watchUp, relists, crashed, running, stopped>>

Next ==
    \/ Run
    \/ Stop
    \/ \E n \in Names, obj \in {o \in Ingress : o.rv = 0} \cup {None} : ApiWrite(n, obj)
    \/ WatchBreaks
    \/ Relist
    \/ InformerDeliver
    \/ QueueProcess
    \/ \E t \in delayed : RetryFires(t)

(***************************************************************************)
(* Fairness: the program calls Run; the informer goroutine, the queue    *)
(* goroutine and the retry timers then keep running (Run starts them and  *)
(* blocks on stop).  Nothing forces the owner to close stop.              *)
(***************************************************************************)
Fairness ==
    /\ WF_vars(Run)
    /\ WF_vars(InformerDeliver)
    /\ WF_vars(QueueProcess)
    /\ WF_vars(\E t \in delayed : RetryFires(t))

Spec == Init /\ [][Next]_vars

FairSpec == Spec /\ Fairness

-----------------------------------------------------------------------------

TypeOK ==
    /\ api \in [Names -> Ingress \cup {None}]
    /\ watch \in Seq(Notification)
    /\ initPending \in 0..Cardinality(Names)
    /\ istore \in [Names -> Ingress \cup {None}]
    /\ queue \in Seq(Task)
    /\ delayed \subseteq Task
    /\ view \in [RuleKeys -> Specs \cup {None}]
    /\ pushed = 1..Cardinality(pushed)
    /\ applied \subseteq pushed
    /\ lastApplied \in [Names -> 0..MaxTasks]
    /\ writes \in 0..MaxWrites
    /\ {watchUp, crashed, running, stopped} \subseteq BOOLEAN
    /\ relists \in 0..MaxRelists

(***************************************************************************)
(* Get and List read the same informer store through the same type      *)
(* check, filter and conversion: for every type, Get finds a rule exactly *)
(* when List succeeds and returns it, with the same content and the     *)
(* same revision.                                                         *)
(***************************************************************************)
GetAgreesWithList ==
    \A k \in RuleKeys :
        \A typ \in ConfigTypeNames :
            LET g == Get(typ, k)
                l == List(typ)
            IN  IF g.found THEN l.ok /\ [key |-> k, content |-> g.content, revision |-> g.revision] \in l.configs
                ELSE \A c \in l.configs : c.key # k

(***************************************************************************)
(* Spec section 8: once synced, every task (those buffered before the     *)
(* sync included) is eventually applied.                                  *)
(***************************************************************************)
EveryTaskEventuallyApplied ==
    \A id \in 1..MaxTasks : (id \in pushed) ~> (id \in applied)

(***************************************************************************)
(* Spec section 7: a failed list or watch is a transient backend error,  *)
(* retried and never fatal to the process.  A watch that breaks while an *)
(* ingress is deleted makes the relist deliver a DeletedFinalStateUnknown *)
(* tombstone to DeleteFunc; the queue goroutine must survive the task.   *)
(***************************************************************************)
WatchFailureNeverFatal == ~crashed

(***************************************************************************)
(* Spec section 5: per ingress, tasks are applied in the order their      *)
(* notifications arrived (single consumer, FIFO queue).                   *)
(***************************************************************************)
AppliedInArrivalOrder ==
    [][\A n \in Names : lastApplied'[n] >= lastApplied[n]]_vars

(***************************************************************************)
(* Spec sections 4.3 and 9: a handler that applies the events it receives *)
(* holds exactly the rules List returns once every change has been        *)
(* handled.                                                               *)
(***************************************************************************)
Quiescent == watch = <<>> /\ queue = <<>> /\ delayed = {}

ViewMatchesListWhenQuiescent ==
    Quiescent =>
        \A k \in RuleKeys :
            view[k] = IF \E c \in List(IngressRuleType).configs : c.key = k
                      THEN (CHOOSE c \in List(IngressRuleType).configs : c.key = k).content
                      ELSE None
=============================================================================

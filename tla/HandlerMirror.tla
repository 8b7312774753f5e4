---------------------------- MODULE HandlerMirror ----------------------------
(***************************************************************************)
(* What a config store cache promises the handlers registered on it       *)
(* (spec sections 4.2 and 9): every handler of a type holds a copy of the *)
(* store's configs of that type, and the copy only ever moves, for all    *)
(* the handlers of the type at once, to the store's contents at that      *)
(* moment.  A handler never holds a mixture of two store states, a config *)
(* the store never had, or a copy that differs from another handler's of *)
(* the same type.  Handlers join while their type has told them nothing. *)
(*                                                                         *)
(* This is the abstract specification the polling monitor implements;   *)
(* ConfigsMonitor instantiates it with each handler's view for views.     *)
(***************************************************************************)
EXTENDS Sequences, SequencesExt

CONSTANTS
    Types,      \* config types
    Keys,       \* config keys
    Contents,   \* config contents
    Handlers,   \* handler functions
    NoConfig    \* no config under a key

VARIABLES
    store,      \* type -> key -> content or NoConfig
    handlers,   \* type -> handlers in registration order
    views       \* handler -> key -> content or NoConfig

ContentOrNone == Contents \cup {NoConfig}

Registered(t) == ToSet(handlers[t])

EmptyView == [k \in Keys |-> NoConfig]

Init ==
    /\ store \in [Types -> [Keys -> ContentOrNone]]
    /\ handlers = [t \in Types |-> <<>>]
    /\ views = [h \in Handlers |-> EmptyView]

\* A new handler joins a type whose handlers have not been told anything.
Register(t, h) ==
    /\ \A u \in Types : h \notin Registered(u)
    /\ \A g \in Registered(t) : views[g] = EmptyView
    /\ handlers' = [handlers EXCEPT ![t] = Append(@, h)]
    /\ UNCHANGED <<store, views>>

\* The store's content under one key changes.
Write(t, k, c) ==
    /\ store' = [store EXCEPT ![t][k] = c]
    /\ UNCHANGED <<handlers, views>>

\* Every handler of type t takes the store's current configs of t.
Sync(t) ==
    /\ views' = [h \in Handlers |-> IF h \in Registered(t) THEN store[t] ELSE views[h]]
    /\ UNCHANGED <<store, handlers>>

Next ==
    \/ \E t \in Types, h \in Handlers : Register(t, h)
    \/ \E t \in Types, k \in Keys, c \in ContentOrNone : Write(t, k, c)
    \/ \E t \in Types : Sync(t)

Spec == Init /\ [][Next]_<<store, handlers, views>>
=============================================================================

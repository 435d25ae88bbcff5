-------------------------------- MODULE States --------------------------------
(***************************************************************************)
(* The entity registry and the state subscriptions, over several           *)
(* connections: ListEntities and SubscribeStates as application goroutines *)
(* call them, their handlers as the read loop dispatches to them, and the  *)
(* part of reconnectLoop that clears the registry, lists the entities      *)
(* again and subscribes the saved handler again.                           *)
(*                                                                         *)
(* A subscriber is an application goroutine, or the reconnectLoop that     *)
(* made connection k, written k.  Where the code reads one message of the  *)
(* device after another, Read... takes what the device sends next.         *)
(***************************************************************************)
EXTENDS Integers

CONSTANTS
  Apps,       \* application goroutines, each with a handler of its own
  Entities,   \* entities, of any domain that has a state
  Values,     \* their states
  MaxEpochs,  \* bound on the number of connections
  MaxSubs,    \* bound on the SubscribeStates calls of each application
  MaxLists    \* bound on their ListEntities calls

ASSUME StatesAssumption ==
  /\ MaxEpochs \in Nat \ {0} /\ MaxSubs \in Nat /\ MaxLists \in Nat
  /\ Apps \cap Nat = {}
  /\ Values \cap {"absent", "none"} = {}

VARIABLES
  epoch,      \* number of the latest connection
  phase,      \* "up", "down" once it is lost, "cleared" when about to redial
  table,      \* the entities of the device
  iter,       \* the entities that the device has still to list
  feeding,    \* the device sends states on this connection
  owed,       \* the entities whose state it has to send
  cache,      \* EntityRegistry: "absent", "none" before any state, or a state
  message,    \* the state message being dispatched
  pending,    \* Dispatch's copy of the handlers it has still to call
  latest,     \* the state of each entity last dispatched on this connection
  subs,       \* the registered subscriptions
  saved,      \* c.stateHandler: an application's handler, or "nil"
  resumes,    \* resumes[k]: the handler that reconnectLoop k subscribes again
  listing,    \* those whose ListEntities handlers are registered
  pc,         \* pc[x]: where subscriber x is
  calls,      \* calls[a]: number of SubscribeStates calls of application a
  lists       \* number of ListEntities calls of the applications

device == <<epoch, phase, table, iter, feeding, owed>>
read   == <<cache, message, pending, latest>>
local  == <<resumes, listing, pc, calls, lists>>
vars   == <<device, read, subs, saved, local>>

Epochs == 1 .. MaxEpochs
Subscribers == Apps \cup Epochs

NoMsg == [entity |-> "none", value |-> "none"]

HandlerOf(x) == IF x \in Apps THEN x ELSE resumes[x]
Sub(x) == [by |-> x, handler |-> HandlerOf(x)]

Init ==
  /\ epoch = 1 /\ phase = "up"
  /\ table \in (SUBSET Entities) \ {{}}
  /\ iter = {} /\ feeding = FALSE /\ owed = {}
  /\ cache = [e \in Entities |-> "absent"]
  /\ message = NoMsg /\ pending = {}
  /\ latest = [e \in Entities |-> "none"]
  /\ subs = {} /\ saved = "nil"
  /\ resumes = [k \in Epochs |-> "nil"]
  /\ listing = {}
  /\ pc = [x \in Subscribers |-> "idle"]
  /\ calls = [a \in Apps |-> 0]
  /\ lists = 0

-----------------------------------------------------------------------------
(* ListEntities.                                                           *)

\* A write may fail once the connection is lost, but need not.
WriteFails == phase # "up"

\* The handlers are registered and the request written, for the device to
\* list its entities from the first one on.
RequestList(x) ==
  /\ listing' = listing \cup {x}
  /\ iter' = IF phase = "up" THEN table ELSE iter

AppLists(a) ==
  /\ a \notin listing
  /\ lists < MaxLists
  /\ lists' = lists + 1
  /\ RequestList(a)
  /\ UNCHANGED <<epoch, phase, table, feeding, owed, read, subs, saved,
                 resumes, pc, calls>>

\* The end of the list, the timeout, the end of the read loop.
AppListed(a) ==
  /\ a \in listing
  /\ listing' = listing \ {a}
  /\ UNCHANGED <<device, read, subs, saved, resumes, pc, calls, lists>>

\* HandleListEntityMessage, called by every ListEntities that is waiting: a
\* new entity without a state replaces the one of the same key.
ReadEntity(e) ==
  /\ phase = "up" /\ pending = {}
  /\ e \in iter
  /\ iter' = iter \ {e}
  /\ cache' = IF listing # {} THEN [cache EXCEPT ![e] = "none"] ELSE cache
  /\ UNCHANGED <<epoch, phase, table, feeding, owed, message, pending, latest,
                 subs, saved, local>>

-----------------------------------------------------------------------------
(* SubscribeStates, by an application or by reconnectLoop.                 *)

AppSubscribes(a) ==
  /\ pc[a] = "idle"
  /\ calls[a] < MaxSubs
  /\ calls' = [calls EXCEPT ![a] = @ + 1]
  /\ pc' = [pc EXCEPT ![a] = "save"]
  /\ UNCHANGED <<device, read, subs, saved, resumes, listing, lists>>

Save(x) ==
  /\ pc[x] = "save"
  /\ saved' = HandlerOf(x)
  /\ pc' = [pc EXCEPT ![x] = "register"]
  /\ UNCHANGED <<device, read, subs, resumes, listing, calls, lists>>

\* One handler for each type of state message.
Register(x) ==
  /\ pc[x] = "register"
  /\ subs' = subs \cup {Sub(x)}
  /\ pc' = [pc EXCEPT ![x] = "send"]
  /\ UNCHANGED <<device, read, saved, resumes, listing, calls, lists>>

\* The device answers with the states of all its entities.
Send(x) ==
  /\ pc[x] = "send"
  /\ pc' = [pc EXCEPT ![x] = "held"]
  /\ IF phase = "up" THEN feeding' = TRUE /\ owed' = table
                     ELSE UNCHANGED <<feeding, owed>>
  /\ UNCHANGED <<epoch, phase, table, iter, read, subs, saved, resumes,
                 listing, calls, lists>>

\* A failed write undoes the subscription as unsubscribe does.
SendFails(x) ==
  /\ pc[x] = "send"
  /\ WriteFails
  /\ pc' = [pc EXCEPT ![x] = "forget"]
  /\ UNCHANGED <<device, read, subs, saved, resumes, listing, calls, lists>>

\* The unsubscribe function; that of a reconnectLoop is thrown away.
Unsubscribe(a) ==
  /\ pc[a] = "held"
  /\ pc' = [pc EXCEPT ![a] = "forget"]
  /\ UNCHANGED <<device, read, subs, saved, resumes, listing, calls, lists>>

Forget(x) ==
  /\ pc[x] = "forget"
  /\ saved' = "nil"
  /\ pc' = [pc EXCEPT ![x] = "remove"]
  /\ UNCHANGED <<device, read, subs, resumes, listing, calls, lists>>

Remove(x) ==
  /\ pc[x] = "remove"
  /\ subs' = subs \ {Sub(x)}
  /\ pc' = [pc EXCEPT ![x] = IF x \in Apps THEN "idle" ELSE "over"]
  /\ UNCHANGED <<device, read, saved, resumes, listing, calls, lists>>

-----------------------------------------------------------------------------
(* State messages.                                                         *)

\* Dispatch copies the handlers.  A device that no handler listens to is
\* read all the same.
ReadState(e, v) ==
  /\ phase = "up" /\ pending = {}
  /\ e \in owed
  /\ owed' = owed \ {e}
  /\ message' = [entity |-> e, value |-> v]
  /\ pending' = subs
  /\ latest' = IF subs # {} THEN [latest EXCEPT ![e] = v] ELSE latest
  /\ UNCHANGED <<epoch, phase, table, iter, feeding, cache, subs, saved,
                 local>>

\* Mutant: the first state stays.
HandleFirstState(s) ==
  /\ s \in pending
  /\ pending' = pending \ {s}
  /\ cache' = IF cache[message.entity] # "none" THEN cache
              ELSE [cache EXCEPT ![message.entity] = message.value]
  /\ UNCHANGED <<device, message, latest, subs, saved, local>>

\* One handler: HandleStateMessage, which drops the state of an entity that
\* is not registered, and the application's handler.
HandleState(s) ==
  /\ s \in pending
  /\ pending' = pending \ {s}
  /\ cache' = IF cache[message.entity] = "absent" THEN cache
              ELSE [cache EXCEPT ![message.entity] = message.value]
  /\ UNCHANGED <<device, message, latest, subs, saved, local>>

\* The device has another state to report.
Change(e) ==
  /\ phase = "up" /\ feeding
  /\ e \in table \ owed
  /\ owed' = owed \cup {e}
  /\ UNCHANGED <<epoch, phase, table, iter, feeding, read, subs, saved, local>>

-----------------------------------------------------------------------------
(* The connection is lost and made again.                                  *)

\* Mutant: what the device still owed is read from the next connection.
LoseKeepsOwed ==
  /\ phase = "up"
  /\ phase' = "down"
  /\ iter' = {} /\ feeding' = FALSE
  /\ UNCHANGED <<epoch, table, owed, read, subs, saved, local>>

Lose ==
  /\ phase = "up"
  /\ phase' = "down"
  /\ iter' = {} /\ feeding' = FALSE /\ owed' = {}
  /\ UNCHANGED <<epoch, table, read, subs, saved, local>>

\* Mutant: the registry is not cleared.
ClearNot ==
  /\ phase = "down" /\ pending = {}
  /\ phase' = "cleared"
  /\ latest' = [e \in Entities |-> "none"]
  /\ UNCHANGED <<epoch, table, iter, feeding, owed, cache, message, pending,
                 subs, saved, local>>

\* The read loop has ended.
Clear ==
  /\ phase = "down" /\ pending = {}
  /\ phase' = "cleared"
  /\ cache' = [e \in Entities |-> "absent"]
  /\ latest' = [e \in Entities |-> "none"]
  /\ UNCHANGED <<epoch, table, iter, feeding, owed, message, pending, subs,
                 saved, local>>

\* The device may have other entities by now.
Connect ==
  /\ phase = "cleared"
  /\ epoch < MaxEpochs
  /\ epoch' = epoch + 1
  /\ phase' = "up"
  /\ table' \in (SUBSET Entities) \ {{}}
  /\ pc' = [pc EXCEPT ![epoch + 1] = "list"]
  /\ UNCHANGED <<iter, feeding, owed, read, subs, saved, resumes, listing,
                 calls, lists>>

\* reconnectLoop lists the entities; a request that cannot be written, a
\* timeout and a closed done channel are logged and passed over.
Relist(k) ==
  /\ pc[k] = "list"
  /\ RequestList(k)
  /\ pc' = [pc EXCEPT ![k] = "listing"]
  /\ UNCHANGED <<epoch, phase, table, feeding, owed, read, subs, saved,
                 resumes, calls, lists>>

Relisted(k) ==
  /\ pc[k] = "listing"
  /\ listing' = listing \ {k}
  /\ pc' = [pc EXCEPT ![k] = "reload"]
  /\ UNCHANGED <<device, read, subs, saved, resumes, calls, lists>>

\* Mutant: the loop does not look for a handler.
ReloadNot(k) ==
  /\ pc[k] = "reload"
  /\ pc' = [pc EXCEPT ![k] = "over"]
  /\ UNCHANGED <<device, read, subs, saved, resumes, listing, calls, lists>>

Reload(k) ==
  /\ pc[k] = "reload"
  /\ resumes' = [resumes EXCEPT ![k] = saved]
  /\ pc' = [pc EXCEPT ![k] = IF saved = "nil" THEN "over" ELSE "save"]
  /\ UNCHANGED <<device, read, subs, saved, listing, calls, lists>>

-----------------------------------------------------------------------------
SubscribeStep(x) ==
  \/ Save(x) \/ Register(x) \/ Send(x) \/ SendFails(x) \/ Forget(x)
  \/ Remove(x)

Next ==
  \/ \E a \in Apps : AppLists(a) \/ AppListed(a) \/ AppSubscribes(a)
                       \/ Unsubscribe(a)
  \/ \E x \in Subscribers : SubscribeStep(x)
  \/ \E e \in Entities : ReadEntity(e) \/ Change(e)
  \/ \E e \in Entities, v \in Values : ReadState(e, v)
  \/ \E s \in pending : HandleState(s)
  \/ Lose \/ Clear \/ Connect
  \/ \E k \in Epochs : Relist(k) \/ Relisted(k) \/ Reload(k)

Spec == Init /\ [][Next]_vars

-----------------------------------------------------------------------------
PcState == {"idle", "save", "register", "send", "held", "forget", "remove",
            "list", "listing", "reload", "over"}

TypeOK ==
  /\ epoch \in Epochs
  /\ phase \in {"up", "down", "cleared"}
  /\ table \subseteq Entities /\ iter \subseteq table /\ owed \subseteq table
  /\ feeding \in BOOLEAN
  /\ cache \in [Entities -> {"absent", "none"} \cup Values]
  /\ latest \in [Entities -> {"none"} \cup Values]
  /\ \A s \in subs \cup pending : s.by \in Subscribers /\ s.handler \in Apps
  /\ pending # {} => message.entity \in Entities /\ message.value \in Values
  /\ saved \in Apps \cup {"nil"}
  /\ resumes \in [Epochs -> Apps \cup {"nil"}]
  /\ listing \subseteq Subscribers
  /\ pc \in [Subscribers -> PcState]

\* The registry holds entities of the device as it is now, and none from
\* before a reconnection, whoever lists at that time.
NoGhost == phase = "up" => \A e \in Entities : cache[e] # "absent" => e \in table

\* What the registry shows is of this connection: no ghosts, and between two
\* messages an entity has no state yet or the one that was
\* dispatched last on this connection, whatever was listed again meanwhile
\* and however many subscriptions have handled it.
CacheCurrent ==
  /\ NoGhost
  /\ pending = {} => \A e \in Entities : cache[e] \in {"absent", "none", latest[e]}

\* Nobody is in SubscribeStates, in an unsubscribe function or in the last
\* part of a reconnectLoop.
Settled == \A x \in Subscribers : pc[x] \in {"idle", "held", "over"}

\* While a handler is saved, it is registered, and the device has been asked
\* for states on the present connection.
SavedIsSubscribed ==
  Settled /\ phase = "up" /\ saved # "nil" =>
    /\ feeding
    /\ \E s \in subs : s.handler = saved

\* A subscription that its application has not ended survives a reconnection.
SubscriptionSurvives ==
  Settled /\ phase = "up" => \A a \in Apps : pc[a] = "held" => feeding

\* An application that has unsubscribed has no handler registered.
UnsubscribeRemovesAll ==
  Settled => \A a \in Apps : pc[a] = "idle" => \A s \in subs : s.handler # a

\* An entity that is listed has the state that its last message reported.
ReportedIsCached ==
  pending = {} =>
    \A e \in Entities : cache[e] # "absent" /\ latest[e] # "none" =>
      cache[e] = latest[e]

-----------------------------------------------------------------------------
(* The inductive invariant.                                                *)

\* Subscribers that have a handler.
Active == {"save", "register", "send", "held", "forget", "remove"}

\* The device says nothing on a connection that is lost, and no reconnectLoop
\* runs before its connection is made, or subscribes without a handler.
Ordered ==
  /\ phase # "up" => iter = {} /\ owed = {} /\ ~feeding
  /\ phase = "cleared" => pending = {}
  /\ \A k \in Epochs : k > epoch => pc[k] = "idle"
  /\ \A k \in Epochs : pc[k] \in Active => resumes[k] \in Apps

\* What is cached, between two messages and while one is being dispatched.
Cached ==
  /\ \A e \in Entities : cache[e] # "absent" => phase # "cleared" /\ e \in table
  /\ pending # {} => latest[message.entity] = message.value
  /\ \A e \in Entities : pending = {} \/ e # message.entity =>
       cache[e] \in {"absent", "none", latest[e]}

\* The reconnectLoop of the present connection has still to subscribe, or to
\* find that no handler is saved.
Resuming == pc[epoch] \in {"list", "listing", "reload", "save", "register", "send"}

\* x has saved its handler and not forgotten it.
Holds(x) ==
  /\ HandlerOf(x) = saved
  /\ \/ pc[x] = "register"
     \/ pc[x] \in {"send", "held", "forget"} /\ Sub(x) \in subs
  /\ phase = "up" => feeding \/ pc[x] # "held" \/ Resuming

Held ==
  /\ phase = "up" => pc[epoch] \notin {"forget", "remove"}
  /\ phase = "up" /\ pc[epoch] = "held" => feeding
  /\ saved # "nil" => \E x \in Subscribers : Holds(x)

IInv == TypeOK /\ Ordered /\ Cached /\ Held

==============================================================================

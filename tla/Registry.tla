------------------------------- MODULE Registry -------------------------------
(***************************************************************************)
(* The EntityRegistry and the ServiceRegistry in memory: maps from keys    *)
(* and from names to shared objects, filled and updated by the read loop,  *)
(* cleared by reconnectLoop or by the application, and read by application *)
(* goroutines through pointers they keep and through the checks that come  *)
(* before a command.                                                       *)
(*                                                                         *)
(* An object is a number, its place in heap; 0 is the nil pointer.  A      *)
(* state is the number of the message that brought it: a handler writes    *)
(* its fields one after another, first stands for those written early and  *)
(* second for those written last.                                          *)
(***************************************************************************)
EXTENDS Integers, Sequences

CONSTANTS
  Apps,      \* application goroutines
  Domains,   \* "camera" and some whose states have several fields
  Keys,
  Names,
  Profiles   \* what the devices have, what the applications do, and the bounds

\* ESPHome hashes a key from the name, so that entities of two domains may
\* share it; a domain does not use a key twice.
Devices ==
  {d \in [entities : SUBSET [domain : Domains, key : Keys, name : Names],
          services : SUBSET [key : Keys, name : Names]] :
     /\ \A e, f \in d.entities :
          e.domain = f.domain /\ e.key = f.key => e = f
     /\ \A s, t \in d.services : s.key = t.key \/ s.name = t.name => s = t}

ASSUME RegistryAssumption ==
  \A p \in Profiles :
    /\ p.devices \subseteq Devices /\ p.devices # {}
    /\ p.does \subseteq {"read", "command", "execute", "clear"}
    /\ p.objects \in Nat /\ p.reports \in Nat /\ p.epochs \in Nat \ {0}

VARIABLES
  profile,
  device,    \* the device of the latest connection
  epoch,     \* number of that connection
  phase,     \* "up", "lost", "emptied" once the entities are, then "redial"
  heap,      \* the entities ever allocated
  maps,      \* maps[domain, key]: sensors, numbers, cameras, ...
  byKey,
  byName,
  services,  \* ServiceRegistry: services[key] is a name, or "none"
  svcByName, \* ServiceRegistry: svcByName[name] is a key, or 0
  handlers,  \* number of SubscribeStates calls whose handlers are registered
  since,     \* number of the last message before the first of them
  owes,      \* reconnectLoop has to subscribe the saved handler again
  message,   \* the state message dispatched last
  stage,     \* where its handler is: "store", "half", "call", or "idle"
  target,    \* the object it is writing
  pending,   \* number of handlers still to be called
  frames,    \* frames[key]: parts of a camera's image sent so far, last or not
  app        \* app[a]: what goroutine a is doing, and with what

reg  == <<maps, byKey, byName>>
svcs == <<services, svcByName>>
link == <<profile, device, epoch, phase>>
feed == <<handlers, since, owes>>
work == <<message, stage, target, pending, frames>>
vars == <<link, heap, reg, svcs, feed, work, app>>

Slots == Domains \X Keys
Slot(e) == <<e.domain, e.key>>

NoEntity == [domain |-> "none", key |-> 0, name |-> "none"]
Fresh(e) == [entity |-> e, first |-> <<>>, second |-> 0, done |-> FALSE,
             born |-> message.n]

Idle == [at |-> "idle", obj |-> 0, first |-> <<>>, second |-> 0,
         want |-> NoEntity, checked |-> 0, steady |-> FALSE]

Init ==
  /\ profile \in Profiles
  /\ device \in profile.devices
  /\ epoch = 1 /\ phase = "up"
  /\ heap = <<>>
  /\ maps = [s \in Slots |-> 0]
  /\ byKey = [k \in Keys |-> 0] /\ byName = [n \in Names |-> 0]
  /\ services = [k \in Keys |-> "none"] /\ svcByName = [n \in Names |-> 0]
  /\ handlers = 0 /\ since = 0 /\ owes = FALSE
  /\ message = [entity |-> NoEntity, n |-> 0, last |-> FALSE]
  /\ stage = "idle" /\ target = 0 /\ pending = 0
  /\ frames = [k \in Keys |-> [parts |-> <<>>, last |-> TRUE]]
  /\ app = [a \in Apps |-> Idle]

-----------------------------------------------------------------------------
(* The locks, and what their holders may rely on.                          *)

\* A state handler holds mu for writing from its lookup to its last field;
\* all the other holders of mu are single steps.
Free == stage # "half"

\* Exactly this domain shows an entity under this key.
Alone(ms, w) ==
  /\ ms[w.domain, w.key] # 0
  /\ \A d \in Domains \ {w.domain} : ms[d, w.key] = 0

\* For commands that are being checked: their entity was there all along.
Watch ==
  app' = [a \in Apps |->
            IF app[a].at = "counted"
            THEN [app[a] EXCEPT !.steady = @ /\ Alone(maps', app[a].want)]
            ELSE app[a]]

-----------------------------------------------------------------------------
(* The read loop: listing.                                                 *)

\* Mutant: a name stands for one entity: the entity that had it is unregistered.
ListEntityOneName(e) ==
  /\ phase = "up" /\ stage = "idle"
  /\ Len(heap) < profile.objects
  /\ heap' = Append(heap, Fresh(e))
  /\ maps' = [maps EXCEPT ![Slot(e)] = Len(heap')]
  /\ byKey' = [k \in Keys |-> IF k = e.key THEN Len(heap')
                              ELSE IF byKey[k] = byName[e.name] THEN 0
                              ELSE byKey[k]]
  /\ byName' = [byName EXCEPT ![e.name] = Len(heap')]
  /\ Watch
  /\ UNCHANGED <<link, svcs, feed, work>>

\* HandleListEntityMessage, called by any ListEntities that is waiting: a
\* new object replaces the entity of the same domain and key.
ListEntity(e) ==
  /\ phase = "up" /\ stage = "idle"
  /\ Len(heap) < profile.objects
  /\ heap' = Append(heap, Fresh(e))
  /\ maps' = [maps EXCEPT ![Slot(e)] = Len(heap')]
  /\ byKey' = [byKey EXCEPT ![e.key] = Len(heap')]
  /\ byName' = [byName EXCEPT ![e.name] = Len(heap')]
  /\ Watch
  /\ UNCHANGED <<link, svcs, feed, work>>

\* HandleServiceDefinition.
ListService(s) ==
  /\ phase = "up" /\ stage = "idle"
  /\ services' = [services EXCEPT ![s.key] = s.name]
  /\ svcByName' = [svcByName EXCEPT ![s.name] = s.key]
  /\ UNCHANGED <<link, heap, reg, feed, work, app>>

-----------------------------------------------------------------------------
(* The read loop: states.                                                  *)

Subscribe ==
  /\ phase = "up"
  /\ handlers = 0
  /\ handlers' = 1
  /\ since' = message.n
  /\ UNCHANGED <<link, heap, reg, svcs, owes, work, app>>

\* The unsubscribe function of the first subscription is not called here, nor
\* by reconnectLoop when it subscribes the same handler once more.
Resubscribe ==
  /\ owes /\ phase = "up"
  /\ owes' = FALSE
  /\ handlers' = handlers + 1
  /\ UNCHANGED <<link, heap, reg, svcs, since, work, app>>

\* A camera sends an image in parts and says which is the last.
AddPart(f, n, last) ==
  [parts |-> IF f.last THEN <<n>> ELSE Append(f.parts, n), last |-> last]

\* The device sends a state; Dispatch copies the handlers.
Report(e, last) ==
  /\ phase = "up" /\ stage = "idle"
  /\ handlers > 0
  /\ message.n < profile.reports
  /\ last \/ e.domain = "camera"
  /\ message' = [entity |-> e, n |-> message.n + 1, last |-> last]
  /\ stage' = "store" /\ pending' = handlers
  /\ frames' = IF e.domain = "camera"
               THEN [frames EXCEPT ![e.key] = AddPart(@, message'.n, last)]
               ELSE frames
  /\ UNCHANGED <<link, heap, reg, svcs, feed, target, app>>

\* Mutant: the entity is looked up in byKey, whatever its domain.
FoundByKey == byKey[message.entity.key]

\* HandleStateMessage looks the entity up in the map of its domain.
Found == maps[Slot(message.entity)]

\* Mutant: the end of an image is not noticed.
ImageAppended(o) ==
  IF message.entity.domain = "camera" THEN Append(o.first, message.n) ELSE <<message.n>>

\* A part continues an image that has begun and is not complete.
Image(o) ==
  IF message.entity.domain = "camera" /\ ~o.done
  THEN Append(o.first, message.n) ELSE <<message.n>>

\* Mutant: the handler of the application is called before the registry is updated.
WriteFirstLate ==
  /\ stage = "store" /\ Found # 0
  /\ target' = Found
  /\ stage' = "call"
  /\ heap' = [heap EXCEPT ![Found].first = Image(heap[Found])]
  /\ UNCHANGED <<link, reg, svcs, feed, message, pending, frames, app>>

WriteFirst ==
  /\ stage = "store" /\ Found # 0
  /\ target' = Found
  /\ heap' = [heap EXCEPT ![Found].first = Image(heap[Found])]
  /\ stage' = "half"
  /\ UNCHANGED <<link, reg, svcs, feed, message, pending, frames, app>>

WriteSecond ==
  /\ stage = "half"
  /\ heap' = [heap EXCEPT ![target].second = message.n,
                          ![target].done = message.last]
  /\ stage' = "call"
  /\ UNCHANGED <<link, reg, svcs, feed, message, target, pending, frames, app>>

\* A state of an entity that is not there is dropped.
Drop ==
  /\ stage = "store" /\ Found = 0
  /\ stage' = "call"
  /\ UNCHANGED <<link, heap, reg, svcs, feed, message, target, pending,
                 frames, app>>

\* Mutant: the handlers are called once too often.
CallHandlerAgain ==
  /\ stage = "call"
  /\ pending' = IF pending = 0 THEN 0 ELSE pending - 1
  /\ stage' = IF pending = 0 THEN "idle" ELSE "store"
  /\ UNCHANGED <<link, heap, reg, svcs, feed, message, target, frames, app>>

\* Then the handler of the application is called; it may look the entity up.
CallHandler ==
  /\ stage = "call"
  /\ pending' = pending - 1
  /\ stage' = IF pending = 1 THEN "idle" ELSE "store"
  /\ UNCHANGED <<link, heap, reg, svcs, feed, message, target, frames, app>>

-----------------------------------------------------------------------------
(* Clearing.                                                               *)

\* Mutant: clear without the lock.
ClearEntitiesUnlocked ==
  /\ maps' = [s \in Slots |-> 0]
  /\ byKey' = [k \in Keys |-> 0]
  /\ byName' = [n \in Names |-> 0]
  /\ Watch

\* Mutant: clear forgets one of the two indexes.
ClearEntitiesButKeys ==
  /\ Free
  /\ maps' = [s \in Slots |-> 0]
  /\ byName' = [n \in Names |-> 0]
  /\ UNCHANGED byKey
  /\ Watch

ClearServicesButNames ==
  /\ services' = [k \in Keys |-> "none"]
  /\ UNCHANGED svcByName

\* EntityRegistry.Clear
ClearEntities ==
  /\ Free
  /\ maps' = [s \in Slots |-> 0]
  /\ byKey' = [k \in Keys |-> 0]
  /\ byName' = [n \in Names |-> 0]
  /\ Watch

\* ServiceRegistry.Clear
ClearServices ==
  /\ services' = [k \in Keys |-> "none"]
  /\ svcByName' = [n \in Names |-> 0]

AppClears ==
  /\ "clear" \in profile.does
  /\ ClearEntities
  /\ UNCHANGED <<link, heap, svcs, feed, work>>

Lose ==
  /\ phase = "up" /\ stage = "idle"
  /\ epoch < profile.epochs
  /\ phase' = "lost"
  /\ UNCHANGED <<profile, device, epoch, heap, reg, svcs, feed, work, app>>

\* reconnectLoop clears the two registries, each under its own lock, dials,
\* lists the entities and subscribes the saved handler.
Empty ==
  /\ phase = "lost"
  /\ phase' = "emptied"
  /\ ClearEntities
  /\ UNCHANGED <<profile, device, epoch, heap, svcs, feed, work>>

EmptyServices ==
  /\ phase = "emptied"
  /\ phase' = "redial"
  /\ ClearServices
  /\ UNCHANGED <<profile, device, epoch, heap, reg, feed, work, app>>

\* The device may have another firmware by now.
Connect ==
  /\ phase = "redial"
  /\ phase' = "up"
  /\ epoch' = epoch + 1
  /\ device' \in profile.devices
  /\ owes' = (handlers > 0)
  /\ frames' = [k \in Keys |-> [parts |-> <<>>, last |-> TRUE]]
  /\ UNCHANGED <<profile, heap, reg, svcs, handlers, since, message, stage,
                 target, pending, app>>

-----------------------------------------------------------------------------
(* The application goroutines.                                             *)

Goes(a, from, to) == app[a].at = from /\ app' = [app EXCEPT ![a] = to]
Quiet == UNCHANGED <<link, heap, reg, svcs, feed, work>>

\* An accessor copies pointers; ByKey and ByName return one.
Hold(a) ==
  /\ "read" \in profile.does
  /\ Free
  /\ \E s \in Slots :
       maps[s] # 0 /\ Goes(a, "idle", [Idle EXCEPT !.at = "holds", !.obj = maps[s]])
  /\ Quiet

\* Fields are read through it with no lock held.
ReadFirst(a) ==
  /\ Goes(a, "holds", [app[a] EXCEPT !.at = "half", !.first = heap[app[a].obj].first])
  /\ Quiet

ReadSecond(a) ==
  /\ Goes(a, "half", [app[a] EXCEPT !.at = "read", !.second = heap[app[a].obj].second])
  /\ Quiet

\* validateEntity asks whether there is any entity...
Count(a) ==
  /\ "command" \in profile.does
  /\ Free
  /\ \E s \in Slots :
       LET w == [domain |-> s[1], key |-> s[2], name |-> "none"]
           none == \A k \in Keys : byKey[k] = 0
       IN Goes(a, "idle", [Idle EXCEPT !.at = IF none THEN "send" ELSE "counted",
                                       !.want = w, !.steady = Alone(maps, w)])
  /\ Quiet

\* Mutant: the domain of the entity is not compared.
AcceptsAny(o, w) == o # 0

\* ... and then for the entity.
Accepts(o, w) == o # 0 /\ heap[o].entity.domain = w.domain

Check(a) ==
  /\ Free
  /\ LET w == app[a].want
         ok == Accepts(byKey[w.key], w)
     IN Goes(a, "counted", [app[a] EXCEPT !.at = IF ok THEN "send" ELSE "refused",
                                          !.checked = IF ok THEN epoch ELSE 0])
  /\ Quiet

\* ExecuteServiceByName
LookUp(a) ==
  /\ "execute" \in profile.does
  /\ \E n \in Names :
       /\ svcByName[n] # 0
       /\ Goes(a, "idle", [Idle EXCEPT !.at = "execute", !.checked = epoch,
                             !.want = [NoEntity EXCEPT !.key = svcByName[n], !.name = n]])
  /\ Quiet

\* SendMessage: a command or a request to execute a service.
SendRequest(a) ==
  /\ phase = "up"
  /\ \/ Goes(a, "send", [app[a] EXCEPT !.at = "sent"])
     \/ Goes(a, "execute", [app[a] EXCEPT !.at = "executed"])
  /\ Quiet

SendFails(a) ==
  /\ phase # "up"
  /\ app[a].at \in {"send", "execute"}
  /\ app' = [app EXCEPT ![a] = Idle]
  /\ Quiet

Return(a) ==
  /\ app[a].at \in {"read", "refused", "sent", "executed"}
  /\ app' = [app EXCEPT ![a] = Idle]
  /\ Quiet

-----------------------------------------------------------------------------

ReadLoop ==
  \/ \E e \in device.entities : ListEntity(e) \/ \E last \in BOOLEAN : Report(e, last)
  \/ \E s \in device.services : ListService(s)
  \/ WriteFirst \/ WriteSecond \/ Drop \/ CallHandler

Reconnect == Lose \/ Empty \/ EmptyServices \/ Connect \/ Resubscribe

Application(a) ==
  \/ Hold(a) \/ ReadFirst(a) \/ ReadSecond(a)
  \/ Count(a) \/ Check(a) \/ LookUp(a) \/ SendRequest(a) \/ SendFails(a) \/ Return(a)

Next ==
  \/ ReadLoop \/ Reconnect \/ Subscribe \/ AppClears
  \/ \E a \in Apps : Application(a)

Spec == Init /\ [][Next]_vars

-----------------------------------------------------------------------------
(* Properties.                                                             *)

Pointers == 0 .. Len(heap)

TypeOK ==
  /\ profile \in Profiles /\ device \in profile.devices
  /\ epoch \in 1 .. profile.epochs
  /\ phase \in {"up", "lost", "emptied", "redial"}
  /\ Len(heap) <= profile.objects
  /\ maps \in [Slots -> Pointers]
  /\ byKey \in [Keys -> Pointers] /\ byName \in [Names -> Pointers]
  /\ services \in [Keys -> Names \cup {"none"}]
  /\ svcByName \in [Names -> Keys \cup {0}]
  /\ handlers \in Nat /\ since \in 0 .. message.n /\ owes \in BOOLEAN
  /\ message.n \in 0 .. profile.reports
  /\ stage \in {"idle", "store", "half", "call"}
  /\ stage = "half" => target # 0
  /\ pending \in 0 .. handlers
  /\ stage = "idle" <=> pending = 0
  /\ \A a \in Apps : app[a].at \in {"idle", "holds", "half", "read", "counted",
                       "send", "refused", "sent", "execute", "executed"}

Shown == {maps[s] : s \in Slots} \ {0}

\* ByKey and ByName (entities.go:745-757) never return an entity that the map
\* of its domain has dropped or replaced, which no state would reach any more,
\* through key collisions, repeated listings and Clear; and what is shown is of
\* the device of the latest connection, not of its firmware before a
\* reconnection.
IndexesAgree ==
  /\ \A s \in Slots : maps[s] # 0 => heap[maps[s]].entity \in device.entities
  /\ \A k \in Keys : byKey[k] \in Shown \cup {0}
  /\ \A n \in Names : byName[n] \in Shown \cup {0}

\* A state counts as shown once its last field is written.
T == INSTANCE Table WITH
       shown <- [s \in Slots |-> IF maps[s] = 0 THEN -1 ELSE heap[maps[s]].second],
       news  <- [slot |-> IF message.n = 0 THEN "none" ELSE Slot(message.entity),
                 n |-> message.n]

\* What the registry shows is a Table: each row has the last state reported
\* of its own entity, never that of another one with the same key, and a row
\* listed anew starts with no state.
ImplementsTable == T!Spec

\* An entity that is no longer shown is never written again
\* (entities.go:1080-1081): a pointer from before a Clear or a new listing
\* keeps the last state of its own connection.
DetachedStayStill ==
  [][\A o \in 1 .. Len(heap) :
       o \notin Shown /\ o \notin Shown' => heap'[o] = heap[o]]_vars

\* When SubscribeStates calls the handler of the application (client.go:407-410),
\* the registry shows the state in the handler's argument and all of it, unless
\* the entity is not there.
HandlerSeesState ==
  stage = "call" /\ Found # 0 =>
    /\ heap[Found].second = message.n
    /\ heap[Found].first # <<>>
    /\ heap[Found].first[Len(heap[Found].first)] = message.n

\* A camera's image is what its device has sent of it, every part once and in
\* order, and complete exactly when it says so (entities.go:1147-1158), as long
\* as one subscription is registered and the camera was listed and subscribed
\* before the image began.
ImagesWhole ==
  stage = "idle" /\ handlers = 1 =>
    \A k \in Keys :
      LET f == frames[k] IN
      "camera" \in Domains /\ f.parts # <<>> /\ maps["camera", k] # 0 =>
        LET o == heap[maps["camera", k]] IN
        f.parts[1] > since /\ f.parts[1] > o.born =>
          o.first = f.parts /\ o.done = f.last

\* validateEntity (commands.go:378-390) never refuses a command for an entity
\* that the registry has shown from its first step to its last under a key of
\* no other, though other goroutines list, clear and update it meanwhile.
RefusedForCause ==
  \A a \in Apps : app[a].at = "refused" => ~app[a].steady

\* What a command was checked for, or a service looked up for, is still so when
\* it is sent on the same connection (commands.go:378-390, services.go:95-101):
\* the device has an entity of that domain and key, or this very service.
RequestsFit ==
  [][\A a \in Apps :
       LET w == app[a].want IN
       app[a].checked = epoch =>
         /\ app[a].at = "send" /\ app'[a].at = "sent" =>
              \E e \in device.entities : Slot(e) = Slot(w)
         /\ app[a].at = "execute" /\ app'[a].at = "executed" =>
              [key |-> w.key, name |-> w.name] \in device.services]_vars

\* EntityRegistry is "Thread-safe for concurrent access" (entities.go:520): the
\* fields read through a pointer are those of one state.  Camera images apart,
\* which are not states.
ReadIsReported ==
  \A a \in Apps :
    app[a].at = "read" /\ heap[app[a].obj].entity.domain # "camera" =>
      app[a].first = IF app[a].second = 0 THEN <<>> ELSE <<app[a].second>>

-----------------------------------------------------------------------------
(* The inductive invariant.                                                *)

Entities == [domain : Domains, key : Keys, name : Names]
Objects  == [entity : Entities, first : Seq(Nat), second : Nat,
             done : BOOLEAN, born : Nat]
Doings   == [at : {"idle", "holds", "half", "read", "counted", "send",
                   "refused", "sent", "execute", "executed"},
             obj : Nat, first : Seq(Nat), second : Nat,
             want : [domain : Domains \cup {"none"}, key : Keys \cup {0},
                     name : Names \cup {"none"}],
             checked : Nat, steady : BOOLEAN]

Typed ==
  /\ TypeOK
  /\ heap \in Seq(Objects)
  /\ message \in [entity : Entities \cup {NoEntity}, n : Nat, last : BOOLEAN]
  /\ stage # "idle" => message.entity \in Entities /\ message.n > 0
  /\ target \in Pointers
  /\ phase # "up" => epoch < profile.epochs
  /\ app \in [Apps -> Doings]
  /\ \A a \in Apps : /\ app[a].obj \in Pointers
                     /\ app[a].at \in {"holds", "half"} => app[a].obj # 0
                     /\ app[a].at = "counted" => Slot(app[a].want) \in Slots

\* An entity is filed where its domain, key and name say; nothing is filed
\* while reconnectLoop dials.
Filed ==
  /\ \A s \in Slots : maps[s] # 0 =>
       /\ Slot(heap[maps[s]].entity) = s
       /\ byKey[s[2]] # 0
  /\ \A k \in Keys : byKey[k] # 0 => heap[byKey[k]].entity.key = k
  /\ \A n \in Names : byName[n] # 0 => heap[byName[n]].entity.name = n
  /\ phase \in {"emptied", "redial"} => \A s \in Slots : maps[s] = 0
  /\ IndexesAgree

\* Between its two writes the handler holds the object that is shown.
Written ==
  /\ stage = "half" =>
       /\ target # 0 /\ Found = target
       /\ heap[target].first # <<>>
       /\ heap[target].first[Len(heap[target].first)] = message.n
  /\ HandlerSeesState

\* What a goroutine knows of the registry while it checks, and of the device
\* once it has.
Fits(a) ==
  LET w == app[a].want IN
  app[a].checked = epoch =>
    /\ app[a].at = "send" => \E e \in device.entities : Slot(e) = Slot(w)
    /\ app[a].at = "execute" => [key |-> w.key, name |-> w.name] \in device.services

Judged ==
  /\ \A a \in Apps :
       /\ app[a].at = "counted" /\ app[a].steady => Alone(maps, app[a].want)
       /\ app[a].checked <= epoch
       /\ Fits(a)
  /\ RefusedForCause
  /\ \A n \in Names : svcByName[n] # 0 =>
       [key |-> svcByName[n], name |-> n] \in device.services
  /\ phase = "redial" => \A n \in Names : svcByName[n] = 0

\* The message that is being stored, once or again, is a part of this camera.
Storing(k) == stage \in {"store", "half"} /\ Slot(message.entity) = <<"camera", k>>

\* The camera's object has followed its image from the first part on.
Follows(k, o) ==
  /\ handlers = 1 /\ frames[k].parts # <<>>
  /\ frames[k].parts[1] > since /\ frames[k].parts[1] > o.born

\* Between two messages the object of a camera has its image, and is ready for the
\* next one when the image is complete.  While a part is stored, the image with that
\* part is what the first write makes, or has made, of the object.
Pictured(k, o) ==
  IF Storing(k)
  THEN Follows(k, o) => frames[k].parts = IF stage = "half" THEN o.first ELSE Image(o)
  ELSE /\ frames[k].last => o.done \/ o.first = <<>>
       /\ Follows(k, o) => o.first = frames[k].parts /\ o.done = frames[k].last

Imaged ==
  /\ frames \in [Keys -> [parts : Seq(Nat), last : BOOLEAN]]
  /\ \A k \in Keys : IF frames[k].parts = <<>> THEN frames[k].last
                    ELSE frames[k].parts[1] <= message.n
  /\ handlers = 0 => stage = "idle" /\ \A k \in Keys : frames[k].parts = <<>>
  /\ stage \in {"store", "half"} /\ handlers = 1 => pending = 1
  /\ phase # "up" => stage = "idle"
  /\ \A k \in Keys : stage # "idle" /\ Slot(message.entity) = <<"camera", k>> =>
                      frames[k].last = message.last
  /\ \A k \in Keys : <<"camera", k>> \in Slots /\ maps[<<"camera", k>>] # 0 =>
       Pictured(k, heap[maps[<<"camera", k>>]])

IInv == Typed /\ Filed /\ Written /\ Judged /\ Imaged

==============================================================================

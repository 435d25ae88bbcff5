---------------------------- MODULE RegistryProofs ----------------------------
(***************************************************************************)
(* Proofs about Registry, for any devices, any sets of domains, keys and   *)
(* names, and any profile.                                                 *)
(***************************************************************************)
EXTENDS Registry, SequenceTheorems, TLAPS

\* A sequence that is not empty ends with what was appended last.
LEMMA AppendLast ==
  ASSUME NEW S, NEW s \in Seq(S), NEW x \in S
  PROVE  /\ Append(s, x) \in Seq(S)
         /\ Append(s, x) # <<>>
         /\ Append(s, x)[Len(Append(s, x))] = x
BY AppendProperties

\* What Append does to the heap: one object more, the others as they were.
LEMMA Allocation ==
  ASSUME Typed, NEW e \in Entities, heap' = Append(heap, Fresh(e))
  PROVE  /\ heap' \in Seq(Objects)
         /\ Len(heap') = Len(heap) + 1
         /\ heap'[Len(heap')] = Fresh(e)
         /\ \A o \in 1 .. Len(heap) : heap'[o] = heap[o]
<1>1. Fresh(e) \in Objects
  <2>1. message.n \in Nat
    BY DEF Typed
  <2> QED
    BY <2>1 DEF Fresh, Objects
<1>2. heap \in Seq(Objects) /\ Len(heap) \in Nat
  BY DEF Typed
<1> QED
  BY <1>1, <1>2, AppendProperties

\* What a device has are entities, each in a slot of its own.
LEMMA DeviceEntities ==
  ASSUME Typed
  PROVE  /\ device.entities \subseteq Entities
         /\ \A e \in device.entities : Slot(e) \in Slots
         /\ \A e, f \in device.entities : Slot(e) = Slot(f) => e = f
         /\ device.services \subseteq [key : Keys, name : Names]
<1>1. device \in Devices
  BY RegistryAssumption DEF Typed, TypeOK
<1> QED
  BY <1>1 DEF Devices, Entities, Slot, Slots

\* One object written: the heap is as long as before, the others are as they were.
LEMMA Replacing ==
  ASSUME heap \in Seq(Objects), NEW o \in 1 .. Len(heap), NEW x \in Objects,
         heap' = [heap EXCEPT ![o] = x]
  PROVE  /\ heap' \in Seq(Objects) /\ Len(heap') = Len(heap)
         /\ heap'[o] = x
         /\ \A p \in 1 .. Len(heap) : p # o => heap'[p] = heap[p]
BY ExceptSeq

\* Writing a field of an object leaves its other fields and the other objects.
LEMMA WritingFirst ==
  ASSUME Typed, NEW o \in 1 .. Len(heap), NEW f \in Seq(Nat),
         heap' = [heap EXCEPT ![o].first = f]
  PROVE  /\ heap' \in Seq(Objects) /\ Len(heap') = Len(heap)
         /\ heap'[o].first = f
         /\ heap'[o].second = heap[o].second
         /\ heap'[o].entity = heap[o].entity
         /\ heap'[o].done = heap[o].done /\ heap'[o].born = heap[o].born
         /\ \A p \in 1 .. Len(heap) : p # o => heap'[p] = heap[p]
<1>1. heap \in Seq(Objects) /\ heap[o] \in Objects
  BY ElementOfSeq DEF Typed
<1>2. PICK x \in Objects : /\ heap' = [heap EXCEPT ![o] = x]
                          /\ x.entity = heap[o].entity /\ x.first = f
                          /\ x.second = heap[o].second
                          /\ x.done = heap[o].done /\ x.born = heap[o].born
  <2>1. /\ [heap[o] EXCEPT !.first = f] \in Objects
        /\ [heap[o] EXCEPT !.first = f].entity = heap[o].entity
        /\ [heap[o] EXCEPT !.first = f].first = f
        /\ [heap[o] EXCEPT !.first = f].second = heap[o].second
        /\ [heap[o] EXCEPT !.first = f].done = heap[o].done
        /\ [heap[o] EXCEPT !.first = f].born = heap[o].born
    BY <1>1 DEF Objects
  <2> QED
    BY <2>1
<1>3. heap' = [heap EXCEPT ![o] = x]
  BY <1>2
<1>4. /\ heap' \in Seq(Objects) /\ Len(heap') = Len(heap)
      /\ heap'[o] = x
      /\ \A p \in 1 .. Len(heap) : p # o => heap'[p] = heap[p]
  BY <1>1, <1>3, Replacing
<1> QED
  BY <1>2, <1>4

\* The late fields of one object leave its other fields and the other objects.
LEMMA WritingSecond ==
  ASSUME Typed, NEW o \in 1 .. Len(heap), NEW n \in Nat, NEW d \in BOOLEAN,
         heap' = [heap EXCEPT ![o].second = n, ![o].done = d]
  PROVE  /\ heap' \in Seq(Objects) /\ Len(heap') = Len(heap)
         /\ heap'[o].second = n
         /\ heap'[o].first = heap[o].first
         /\ heap'[o].entity = heap[o].entity
         /\ heap'[o].done = d /\ heap'[o].born = heap[o].born
         /\ \A p \in 1 .. Len(heap) : p # o => heap'[p] = heap[p]
<1>1. heap \in Seq(Objects) /\ heap[o] \in Objects
  BY ElementOfSeq DEF Typed
<1>2. PICK x \in Objects : /\ heap' = [heap EXCEPT ![o] = x]
                          /\ x.entity = heap[o].entity /\ x.second = n
                          /\ x.first = heap[o].first
                          /\ x.done = d /\ x.born = heap[o].born
  <2>1. /\ [heap[o] EXCEPT !.second = n, !.done = d] \in Objects
        /\ [heap[o] EXCEPT !.second = n, !.done = d].entity = heap[o].entity
        /\ [heap[o] EXCEPT !.second = n, !.done = d].second = n
        /\ [heap[o] EXCEPT !.second = n, !.done = d].first = heap[o].first
        /\ [heap[o] EXCEPT !.second = n, !.done = d].done = d
        /\ [heap[o] EXCEPT !.second = n, !.done = d].born = heap[o].born
    BY <1>1 DEF Objects
  <2> QED
    BY <2>1
<1>3. heap' = [heap EXCEPT ![o] = x]
  BY <1>2
<1>4. /\ heap' \in Seq(Objects) /\ Len(heap') = Len(heap)
      /\ heap'[o] = x
      /\ \A p \in 1 .. Len(heap) : p # o => heap'[p] = heap[p]
  BY <1>1, <1>3, Replacing
<1> QED
  BY <1>2, <1>4

\* The first write of a state handler: the object that is shown gets an image,
\* or a state, that ends with the message.
LEMMA FirstWritten ==
  ASSUME Typed, WriteFirst
  PROVE  /\ target' = Found /\ Found \in 1 .. Len(heap)
         /\ heap' \in Seq(Objects) /\ Len(heap') = Len(heap)
         /\ heap'[Found].first # <<>>
         /\ heap'[Found].first[Len(heap'[Found].first)] = message.n
         /\ heap'[Found].first = Image(heap[Found])
         /\ heap'[Found].second = heap[Found].second
         /\ heap'[Found].entity = heap[Found].entity
         /\ heap'[Found].done = heap[Found].done /\ heap'[Found].born = heap[Found].born
         /\ \A p \in 1 .. Len(heap) : p # Found => heap'[p] = heap[p]
         /\ UNCHANGED <<link, reg, svcs, feed, message, app>>
<1>1. Found \in 1 .. Len(heap)
  BY LenProperties DEF WriteFirst, Found, Slot, Slots, Entities, Typed, TypeOK, Pointers
<1>2. message.n \in Nat
  BY DEF Typed
<1>3. heap[Found].first \in Seq(Nat)
  <2>1. heap[Found] \in Objects
    BY <1>1, ElementOfSeq DEF Typed
  <2> QED
    BY <2>1 DEF Objects
<1> DEFINE f == Image(heap[Found])
<1>4. f \in Seq(Nat) /\ f # <<>> /\ f[Len(f)] = message.n
  <2>1. CASE f = Append(heap[Found].first, message.n)
    <3> DEFINE g == Append(heap[Found].first, message.n)
    <3>1. g \in Seq(Nat) /\ g # <<>> /\ g[Len(g)] = message.n
      BY <1>2, <1>3, AppendLast
    <3> HIDE DEF f, g
    <3>2. f = g
      BY <2>1 DEF g
    <3> QED
      BY <3>1, <3>2
  <2>2. CASE f = <<message.n>>
    BY <1>2, <2>2
  <2> QED
    BY <2>1, <2>2 DEF Image
<1>5. heap' = [heap EXCEPT ![Found].first = f] /\ target' = Found
  BY DEF WriteFirst
<1> HIDE DEF f
<1>6. /\ heap' \in Seq(Objects) /\ Len(heap') = Len(heap)
      /\ heap'[Found].first = f
      /\ heap'[Found].second = heap[Found].second
      /\ heap'[Found].entity = heap[Found].entity
      /\ heap'[Found].done = heap[Found].done /\ heap'[Found].born = heap[Found].born
      /\ \A p \in 1 .. Len(heap) : p # Found => heap'[p] = heap[p]
  BY <1>1, <1>4, <1>5, WritingFirst
<1>7. UNCHANGED <<link, reg, svcs, feed, message, app>>
  BY DEF WriteFirst
<1> QED
  BY <1>1, <1>4, <1>5, <1>6, <1>7 DEF f

\* The second write makes it the message's.
LEMMA SecondWritten ==
  ASSUME Typed, WriteSecond
  PROVE  /\ target' = target /\ target \in 1 .. Len(heap)
         /\ heap' \in Seq(Objects) /\ Len(heap') = Len(heap)
         /\ heap'[target].second = message.n
         /\ heap'[target].first = heap[target].first
         /\ heap'[target].entity = heap[target].entity
         /\ heap'[target].done = message.last /\ heap'[target].born = heap[target].born
         /\ \A p \in 1 .. Len(heap) : p # target => heap'[p] = heap[p]
         /\ UNCHANGED <<link, reg, svcs, feed, message, app>>
<1>1. target \in 1 .. Len(heap) /\ message.n \in Nat /\ message.last \in BOOLEAN
  BY LenProperties DEF WriteSecond, Typed, TypeOK, Pointers
<1>2. heap' = [heap EXCEPT ![target].second = message.n, ![target].done = message.last]
  BY DEF WriteSecond
<1>3. UNCHANGED <<link, reg, svcs, feed, message, target, app>>
  BY DEF WriteSecond
<1> QED
  BY <1>1, <1>2, <1>3, WritingSecond

\* Every variable but app keeps its type.
LEMMA StoreTypeStep ==
  ASSUME Typed, [Next]_vars, app' \in [Apps -> Doings]
  PROVE  /\ TypeOK'
         /\ heap' \in Seq(Objects)
         /\ (message \in [entity : Entities \cup {NoEntity}, n : Nat, last : BOOLEAN])'
         /\ (stage # "idle" => message.entity \in Entities /\ message.n > 0)'
         /\ (target \in Pointers)'
         /\ (phase # "up" => epoch < profile.epochs)'
         /\ Len(heap) <= Len(heap')
<1> DEFINE Goal ==
      /\ TypeOK'
      /\ heap' \in Seq(Objects)
      /\ (message \in [entity : Entities \cup {NoEntity}, n : Nat, last : BOOLEAN])'
      /\ (stage # "idle" => message.entity \in Entities /\ message.n > 0)'
      /\ (target \in Pointers)'
      /\ (phase # "up" => epoch < profile.epochs)'
      /\ Len(heap) <= Len(heap')
<1>a. \A a \in Apps : app'[a].at \in {"idle", "holds", "half", "read", "counted",
                       "send", "refused", "sent", "execute", "executed"}
  BY DEF Doings
<1>b. Len(heap) \in Nat
  BY LenProperties DEF Typed
<1> USE <1>a, <1>b DEF Typed, TypeOK, Pointers, link, reg, svcs, feed, work
<1>1. ASSUME NEW e \in device.entities, ListEntity(e) PROVE Goal
  <2>1. e \in Entities
    BY DeviceEntities
  <2>2. heap' \in Seq(Objects) /\ Len(heap') = Len(heap) + 1
    BY <1>1, <2>1, Allocation DEF ListEntity
  <2>3. Slot(e) \in Slots /\ e.key \in Keys /\ e.name \in Names
    BY <2>1 DEF Entities, Slot, Slots
  <2>4. /\ Len(heap') <= profile.objects
        /\ UNCHANGED <<link, svcs, feed, work>>
    BY <1>1, <2>2, RegistryAssumption DEF ListEntity
  <2>5. /\ maps' = [maps EXCEPT ![Slot(e)] = Len(heap')]
        /\ byKey' = [byKey EXCEPT ![e.key] = Len(heap')]
        /\ byName' = [byName EXCEPT ![e.name] = Len(heap')]
    BY <1>1 DEF ListEntity
  <2>6. /\ maps \in [Slots -> 0 .. Len(heap)] /\ byKey \in [Keys -> 0 .. Len(heap)]
        /\ byName \in [Names -> 0 .. Len(heap)]
    OBVIOUS
  <2>7. /\ maps' \in [Slots -> 0 .. Len(heap')] /\ byKey' \in [Keys -> 0 .. Len(heap')]
        /\ byName' \in [Names -> 0 .. Len(heap')]
    <3>1. Len(heap') \in 0 .. Len(heap') /\ 0 .. Len(heap) \subseteq 0 .. Len(heap')
      BY <1>b, <2>2
    <3> HIDE DEF Typed, TypeOK
    <3> QED
      BY <2>5, <2>6, <3>1
  <2>8. target' \in 0 .. Len(heap')
    BY <1>b, <2>2, <2>4
  <2> QED
    BY <2>2, <2>4, <2>7, <2>8
<1>2. ASSUME NEW e \in device.entities, NEW last \in BOOLEAN, Report(e, last) PROVE Goal
  <2>1. /\ message' = [entity |-> e, n |-> message.n + 1, last |-> last]
        /\ stage' = "store" /\ pending' = handlers /\ handlers > 0
        /\ UNCHANGED <<link, heap, reg, svcs, feed, target>>
    BY <1>2 DEF Report
  <2>2. e \in Entities
    BY DeviceEntities
  <2>3. message'.n = message.n + 1 /\ message'.n \in 1 .. profile.reports
    BY <1>2, <2>1, RegistryAssumption DEF Report
  <2>4. message' \in [entity : Entities \cup {NoEntity}, n : Nat, last : BOOLEAN]
    <3> HIDE DEF Typed, TypeOK
    <3> QED
      BY <2>1, <2>2, <2>3
  <2>5. since' \in 0 .. message'.n /\ message'.n \in 0 .. profile'.reports
    BY <2>1, <2>3
  <2>6. TypeOK'
    BY <2>1, <2>5
  <2> QED
    BY <2>1, <2>2, <2>3, <2>4, <2>6
<1>3. ASSUME NEW s \in device.services, ListService(s) PROVE Goal
  BY <1>3, DeviceEntities DEF ListService
<1>4. CASE WriteFirst
  <2>1. /\ heap' \in Seq(Objects) /\ Len(heap') = Len(heap)
        /\ target' \in 1 .. Len(heap)
    BY <1>4, FirstWritten
  <2>2. /\ stage = "store" /\ stage' = "half"
        /\ UNCHANGED <<link, reg, svcs, feed, message, pending>>
    BY <1>4 DEF WriteFirst
  <2> QED
    BY <2>1, <2>2
<1>5. CASE WriteSecond
  <2>1. heap' \in Seq(Objects) /\ Len(heap') = Len(heap)
    BY <1>5, SecondWritten
  <2>2. /\ stage = "half" /\ stage' = "call"
        /\ UNCHANGED <<link, reg, svcs, feed, message, target, pending>>
    BY <1>5 DEF WriteSecond
  <2> QED
    BY <2>1, <2>2
<1>6. CASE Drop
  BY <1>6 DEF Drop
<1>7. CASE CallHandler
  BY <1>7 DEF CallHandler
<1>8. CASE Lose \/ Empty \/ EmptyServices \/ AppClears
  <2>1. CASE Lose
    BY <2>1 DEF Lose
  <2>2. CASE Empty
    BY <2>2 DEF Empty, ClearEntities
  <2>3. CASE EmptyServices
    BY <2>3 DEF EmptyServices, ClearServices
  <2>4. CASE AppClears
    BY <2>4 DEF AppClears, ClearEntities
  <2> QED
    BY <1>8, <2>1, <2>2, <2>3, <2>4
<1>9. CASE Connect
  BY <1>9, RegistryAssumption DEF Connect
<1>10. CASE Resubscribe
  <2>1. handlers' = handlers + 1 /\ pending' = pending /\ owes' = FALSE
    BY <1>10 DEF Resubscribe
  <2>3. handlers' \in Nat /\ pending' \in 0 .. handlers'
    <3>1. handlers \in Nat /\ pending \in 0 .. handlers
      OBVIOUS
    <3> HIDE DEF Typed, TypeOK
    <3> QED
      BY <2>1, <3>1
  <2>2. UNCHANGED <<link, heap, reg, svcs, since, work>>
    BY <1>10 DEF Resubscribe
  <2>4. owes' \in BOOLEAN
    BY <2>1 DEF Resubscribe
  <2>5. TypeOK'
    BY <2>2, <2>3, <2>4
  <2> QED
    BY <2>2, <2>5
<1>13. CASE Subscribe
  BY <1>13 DEF Subscribe
<1>11. ASSUME NEW a \in Apps, Application(a) PROVE Goal
  <2>1. UNCHANGED <<link, heap, reg, svcs, feed, work>>
    BY <1>11 DEF Application, Hold, ReadFirst, ReadSecond, Count, Check, LookUp,
                 SendRequest, SendFails, Return, Quiet
  <2> QED
    BY <2>1
<1>12. CASE UNCHANGED vars
  BY <1>12 DEF vars
<1> QED
  BY <1>1, <1>2, <1>3, <1>4, <1>5, <1>6, <1>7, <1>8, <1>9, <1>10, <1>11, <1>12, <1>13
  DEF Next, ReadLoop, Reconnect

\* A goroutine that does nothing holds nothing and has checked nothing.
LEMMA IdleType ==
  /\ Idle \in Doings
  /\ Idle.at = "idle" /\ Idle.obj = 0 /\ Idle.checked = 0 /\ ~Idle.steady
<1>1. <<>> \in Seq(Nat)
  BY EmptySeq
<1> QED
  BY <1>1 DEF Idle, Doings, NoEntity

\* A goroutine remains in its type.
LEMMA AppTypeStep ==
  ASSUME Typed, [Next]_vars
  PROVE  app' \in [Apps -> Doings]
<1> USE DEF Typed
<1>1. ASSUME Watch PROVE app' \in [Apps -> Doings]
  <2>1. ASSUME NEW r \in Doings, NEW b \in BOOLEAN
        PROVE  [r EXCEPT !.steady = @ /\ b] \in Doings
    BY DEF Doings
  <2>2. ASSUME NEW a \in Apps PROVE Alone(maps', app[a].want) \in BOOLEAN
    BY DEF Alone
  <2> QED
    BY <1>1, <2>1, <2>2 DEF Watch
<1>2. ASSUME NEW a \in Apps, Application(a) PROVE app' \in [Apps -> Doings]
  <2> DEFINE Becomes(r) == app' = [app EXCEPT ![a] = r]
  <2>a. app[a] \in Doings /\ Idle \in Doings
    BY IdleType
  <2>b. ASSUME NEW r \in Doings, Becomes(r) PROVE app' \in [Apps -> Doings]
    BY <2>b
  <2>1. CASE Hold(a)
    <3>1. PICK s \in Slots : Becomes([Idle EXCEPT !.at = "holds", !.obj = maps[s]])
      BY <2>1 DEF Hold, Goes
    <3>2. maps[s] \in Nat
      BY LenProperties DEF TypeOK, Pointers
    <3>3. [Idle EXCEPT !.at = "holds", !.obj = maps[s]] \in Doings
      BY <2>a, <3>2 DEF Doings
    <3> QED
      BY <2>b, <3>1, <3>3
  <2>2. CASE ReadFirst(a)
    <3>1. heap[app[a].obj] \in Objects
      BY <2>2, ElementOfSeq, LenProperties DEF ReadFirst, Goes, Pointers
    <3>2. heap[app[a].obj].first \in Seq(Nat)
      BY <3>1 DEF Objects
    <3>3. [app[a] EXCEPT !.at = "half", !.first = heap[app[a].obj].first] \in Doings
      BY <2>a, <3>2 DEF Doings
    <3> QED
      BY <2>2, <2>b, <3>3 DEF ReadFirst, Goes
  <2>3. CASE ReadSecond(a)
    <3>1. heap[app[a].obj] \in Objects
      BY <2>3, ElementOfSeq, LenProperties DEF ReadSecond, Goes, Pointers
    <3>2. heap[app[a].obj].second \in Nat
      BY <3>1 DEF Objects
    <3>3. [app[a] EXCEPT !.at = "read", !.second = heap[app[a].obj].second] \in Doings
      BY <2>a, <3>2 DEF Doings
    <3> QED
      BY <2>3, <2>b, <3>3 DEF ReadSecond, Goes
  <2>4. CASE Count(a)
    <3> DEFINE Want(s) == [domain |-> s[1], key |-> s[2], name |-> "none"]
               None == \A k \in Keys : byKey[k] = 0
    <3>1. PICK s \in Slots :
            Becomes([Idle EXCEPT !.at = IF None THEN "send" ELSE "counted",
                                 !.want = Want(s), !.steady = Alone(maps, Want(s))])
      BY <2>4 DEF Count, Goes
    <3>2. Want(s) \in [domain : Domains \cup {"none"}, key : Keys \cup {0},
                       name : Names \cup {"none"}]
      BY DEF Slots
    <3>3. Alone(maps, Want(s)) \in BOOLEAN
      BY DEF Alone
    <3>4. (IF None THEN "send" ELSE "counted") \in {"send", "counted"}
      OBVIOUS
    <3> HIDE DEF Want, None
    <3>5. ASSUME NEW x \in {"send", "counted"}, NEW b \in BOOLEAN,
                 NEW w \in [domain : Domains \cup {"none"}, key : Keys \cup {0},
                            name : Names \cup {"none"}]
          PROVE  [Idle EXCEPT !.at = x, !.want = w, !.steady = b] \in Doings
      BY <2>a DEF Doings
    <3>6. [Idle EXCEPT !.at = IF None THEN "send" ELSE "counted",
                       !.want = Want(s), !.steady = Alone(maps, Want(s))] \in Doings
      BY <3>2, <3>3, <3>4, <3>5
    <3> QED
      BY <2>b, <3>1, <3>6
  <2>5. CASE Check(a)
    <3> DEFINE Ok == Accepts(byKey[app[a].want.key], app[a].want)
               r  == [app[a] EXCEPT !.at = IF Ok THEN "send" ELSE "refused",
                                    !.checked = IF Ok THEN epoch ELSE 0]
    <3>1. Becomes(r)
      BY <2>5 DEF Check, Goes
    <3>2. epoch \in Nat
      BY RegistryAssumption DEF TypeOK
    <3> HIDE DEF Ok
    <3>3. r \in Doings
      BY <2>a, <3>2 DEF Doings
    <3> QED
      BY <2>b, <3>1, <3>3
  <2>6. CASE LookUp(a)
    <3> DEFINE Want(n) == [NoEntity EXCEPT !.key = svcByName[n], !.name = n]
    <3>1. PICK n \in Names :
            Becomes([Idle EXCEPT !.at = "execute", !.checked = epoch, !.want = Want(n)])
      BY <2>6 DEF LookUp, Goes
    <3>2. epoch \in Nat
      BY RegistryAssumption DEF TypeOK
    <3>3. Want(n) \in [domain : Domains \cup {"none"}, key : Keys \cup {0},
                       name : Names \cup {"none"}]
      BY DEF NoEntity, TypeOK
    <3> HIDE DEF Want
    <3>4. [Idle EXCEPT !.at = "execute", !.checked = epoch, !.want = Want(n)] \in Doings
      BY <2>a, <3>2, <3>3 DEF Doings
    <3> QED
      BY <2>b, <3>1, <3>4
  <2>7. CASE SendRequest(a)
    <3>1. PICK at \in {"sent", "executed"} : Becomes([app[a] EXCEPT !.at = at])
      BY <2>7 DEF SendRequest, Goes
    <3>2. [app[a] EXCEPT !.at = at] \in Doings
      BY <2>a DEF Doings
    <3> QED
      BY <2>b, <3>1, <3>2
  <2>8. CASE SendFails(a) \/ Return(a)
    BY <2>a, <2>8 DEF SendFails, Return
  <2> QED
    BY <1>2, <2>1, <2>2, <2>3, <2>4, <2>5, <2>6, <2>7, <2>8 DEF Application
<1> QED
  BY <1>1, <1>2 DEF Next, ReadLoop, Reconnect, ListEntity, ListService, Report, WriteFirst,
     WriteSecond, Drop, CallHandler, Lose, Empty, EmptyServices, Connect, Subscribe,
     Resubscribe, AppClears, ClearEntities, vars

\* A change of the maps disturbs nothing of a goroutine but its judgement.
LEMMA WatchKeeps ==
  ASSUME Typed, Watch, NEW a \in Apps
  PROVE  /\ app'[a].at = app[a].at /\ app'[a].obj = app[a].obj
         /\ app'[a].want = app[a].want /\ app'[a].checked = app[a].checked
         /\ app[a].at # "counted" => app'[a] = app[a]
         /\ app'[a].steady /\ app[a].at = "counted" =>
              app[a].steady /\ Alone(maps', app[a].want)
<1>1. app[a] \in Doings
  BY DEF Typed
<1>2. ASSUME NEW r \in Doings, NEW b \in BOOLEAN
      PROVE  LET t == [r EXCEPT !.steady = @ /\ b]
             IN /\ t.at = r.at /\ t.obj = r.obj /\ t.want = r.want
                /\ t.checked = r.checked
                /\ t.steady => r.steady /\ b
  BY DEF Doings
<1>3. Alone(maps', app[a].want) \in BOOLEAN
  BY DEF Alone
<1>4. app'[a] = IF app[a].at = "counted"
               THEN [app[a] EXCEPT !.steady = @ /\ Alone(maps', app[a].want)]
               ELSE app[a]
  BY DEF Watch
<1> QED
  BY <1>1, <1>2, <1>3, <1>4

\* What a step of goroutine a makes of it.
LEMMA AppFacts ==
  ASSUME Typed, NEW a \in Apps, Application(a)
  PROVE  /\ UNCHANGED <<link, heap, reg, svcs, feed, work>>
         /\ \A b \in Apps \ {a} : app'[b] = app[b]
         /\ app'[a].obj \in {0, app[a].obj} \/ \E s \in Slots : app'[a].obj = maps[s]
         /\ app'[a].at = "holds" => app'[a].obj # 0
         /\ app'[a].at = "half" => app[a].at = "holds" /\ app'[a].obj = app[a].obj
         /\ app'[a].at = "counted" =>
              /\ Count(a)
              /\ Slot(app'[a].want) \in Slots
              /\ app'[a].checked = 0
              /\ app'[a].steady = Alone(maps, app'[a].want)
         /\ app'[a].at = "refused" =>
              /\ app[a].at = "counted"
              /\ ~Accepts(byKey[app[a].want.key], app[a].want)
              /\ app'[a].want = app[a].want /\ app'[a].steady = app[a].steady
              /\ app'[a].checked = 0
         /\ app'[a].at = "send" /\ app'[a].checked # 0 =>
              /\ app[a].at = "counted"
              /\ Accepts(byKey[app[a].want.key], app[a].want)
              /\ app'[a].want = app[a].want
         /\ app'[a].at = "execute" =>
              /\ app'[a].want.name \in Names
              /\ svcByName[app'[a].want.name] # 0
              /\ app'[a].want.key = svcByName[app'[a].want.name]
         /\ app'[a].checked \in {0, app[a].checked, epoch}
<1> DEFINE Becomes(r) == app' = [app EXCEPT ![a] = r]
<1>a. app \in [Apps -> Doings] /\ app[a] \in Doings
  BY DEF Typed
<1>b. Idle \in Doings /\ Idle.at = "idle" /\ Idle.obj = 0 /\ Idle.checked = 0
  BY IdleType
<1>c. UNCHANGED <<link, heap, reg, svcs, feed, work>>
  BY DEF Application, Hold, ReadFirst, ReadSecond, Count, Check, LookUp,
         SendRequest, SendFails, Return, Quiet
<1>d. \A b \in Apps \ {a} : app'[b] = app[b]
  BY <1>a DEF Application, Hold, ReadFirst, ReadSecond, Count, Check, LookUp,
         SendRequest, SendFails, Return, Goes
<1>e. ASSUME NEW r, Becomes(r) PROVE app'[a] = r
  BY <1>a, <1>e
<1> USE <1>c, <1>d
<1>1. CASE Hold(a)
  <2>1. PICK s \in Slots :
          maps[s] # 0 /\ Becomes([Idle EXCEPT !.at = "holds", !.obj = maps[s]])
    BY <1>1 DEF Hold, Goes
  <2>2. app'[a] = [Idle EXCEPT !.at = "holds", !.obj = maps[s]]
    BY <2>1, <1>e
  <2>3. app'[a].at = "holds" /\ app'[a].obj = maps[s] /\ app'[a].checked = 0
    BY <2>2, <1>b DEF Doings
  <2>4. \E t \in Slots : app'[a].obj = maps[t]
    BY <2>3
  <2> QED
    BY <2>1, <2>3, <2>4
<1>2. CASE ReadFirst(a)
  <2>1. app'[a] = [app[a] EXCEPT !.at = "half", !.first = heap[app[a].obj].first]
    BY <1>2, <1>e DEF ReadFirst, Goes
  <2>2. app'[a].at = "half" /\ app'[a].obj = app[a].obj /\ app'[a].checked = app[a].checked
    BY <2>1, <1>a DEF Doings
  <2> QED
    BY <1>2, <2>2 DEF ReadFirst, Goes
<1>3. CASE ReadSecond(a)
  <2>1. app'[a] = [app[a] EXCEPT !.at = "read", !.second = heap[app[a].obj].second]
    BY <1>3, <1>e DEF ReadSecond, Goes
  <2>2. app'[a].at = "read" /\ app'[a].obj = app[a].obj /\ app'[a].checked = app[a].checked
    BY <2>1, <1>a DEF Doings
  <2> QED
    BY <2>2
<1>4. CASE Count(a)
  <2> DEFINE Want(s) == [domain |-> s[1], key |-> s[2], name |-> "none"]
             None == \A k \in Keys : byKey[k] = 0
  <2>1. PICK s \in Slots :
          Becomes([Idle EXCEPT !.at = IF None THEN "send" ELSE "counted",
                               !.want = Want(s), !.steady = Alone(maps, Want(s))])
    BY <1>4 DEF Count, Goes
  <2>2. app'[a] = [Idle EXCEPT !.at = IF None THEN "send" ELSE "counted",
                               !.want = Want(s), !.steady = Alone(maps, Want(s))]
    BY <2>1, <1>e
  <2>3. Slot(Want(s)) \in Slots
    BY DEF Slot, Slots
  <2> HIDE DEF Want, None
  <2>4. (IF None THEN "send" ELSE "counted") \in {"send", "counted"}
    OBVIOUS
  <2>5. ASSUME NEW x, NEW w, NEW b
        PROVE  LET t == [Idle EXCEPT !.at = x, !.want = w, !.steady = b]
               IN t.at = x /\ t.want = w /\ t.steady = b /\ t.obj = 0 /\ t.checked = 0
    BY <1>b DEF Doings
  <2>6. /\ app'[a].at \in {"send", "counted"} /\ app'[a].want = Want(s)
        /\ app'[a].steady = Alone(maps, Want(s))
        /\ app'[a].obj = 0 /\ app'[a].checked = 0
    BY <2>2, <2>4, <2>5
  <2> QED
    BY <1>4, <2>3, <2>6
<1>5. CASE Check(a)
  <2> DEFINE Ok == Accepts(byKey[app[a].want.key], app[a].want)
  <2>1. app'[a] = [app[a] EXCEPT !.at = IF Ok THEN "send" ELSE "refused",
                                 !.checked = IF Ok THEN epoch ELSE 0]
    BY <1>5, <1>e DEF Check, Goes
  <2>2. app[a].at = "counted"
    BY <1>5 DEF Check, Goes
  <2>3. ASSUME NEW r \in Doings, NEW x, NEW n
        PROVE  LET t == [r EXCEPT !.at = x, !.checked = n]
               IN t.at = x /\ t.checked = n /\ t.want = r.want /\ t.steady = r.steady
                    /\ t.obj = r.obj
    BY DEF Doings
  <2> HIDE DEF Ok
  <2>4. /\ app'[a].at = (IF Ok THEN "send" ELSE "refused")
        /\ app'[a].checked = (IF Ok THEN epoch ELSE 0)
        /\ app'[a].want = app[a].want /\ app'[a].steady = app[a].steady
        /\ app'[a].obj = app[a].obj
    BY <2>1, <2>3, <1>a
  <2>5. CASE Ok
    BY <2>2, <2>4, <2>5 DEF Ok
  <2>6. CASE ~Ok
    BY <2>2, <2>4, <2>6 DEF Ok
  <2> QED
    BY <2>5, <2>6
<1>6. CASE LookUp(a)
  <2> DEFINE Want(n) == [NoEntity EXCEPT !.key = svcByName[n], !.name = n]
  <2>1. PICK n \in Names :
          /\ svcByName[n] # 0
          /\ Becomes([Idle EXCEPT !.at = "execute", !.checked = epoch, !.want = Want(n)])
    BY <1>6 DEF LookUp, Goes
  <2>2. app'[a] = [Idle EXCEPT !.at = "execute", !.checked = epoch, !.want = Want(n)]
    BY <2>1, <1>e
  <2>3. Want(n).key = svcByName[n] /\ Want(n).name = n
    BY DEF NoEntity
  <2> HIDE DEF Want
  <2>4. /\ app'[a].at = "execute" /\ app'[a].want = Want(n)
        /\ app'[a].obj = 0 /\ app'[a].checked = epoch
    BY <2>2, <1>b DEF Doings
  <2> QED
    BY <2>1, <2>3, <2>4
<1>7. CASE SendRequest(a)
  <2>1. PICK x \in {"sent", "executed"} : Becomes([app[a] EXCEPT !.at = x])
    BY <1>7 DEF SendRequest, Goes
  <2>2. app'[a] = [app[a] EXCEPT !.at = x]
    BY <2>1, <1>e
  <2>3. app'[a].at = x /\ app'[a].obj = app[a].obj /\ app'[a].checked = app[a].checked
    BY <2>2, <1>a DEF Doings
  <2> QED
    BY <2>3
<1>8. CASE SendFails(a) \/ Return(a)
  <2>1. app'[a] = Idle
    BY <1>8, <1>a DEF SendFails, Return
  <2> QED
    BY <2>1, <1>b
<1> QED
  BY <1>1, <1>2, <1>3, <1>4, <1>5, <1>6, <1>7, <1>8 DEF Application

\* Who may change what a goroutine is doing.
LEMMA WhoMoves ==
  ASSUME [Next]_vars
  PROVE  \/ Watch /\ UNCHANGED <<device, epoch>>
         \/ UNCHANGED <<app, maps, device, epoch>>
         \/ Connect
         \/ \E a \in Apps : Application(a)
BY DEF link, reg, svcs, feed, work, Next, ReadLoop, Reconnect, ListEntity, ListService, Report, WriteFirst,
   WriteSecond, Drop, CallHandler, Lose, Empty, EmptyServices, Connect, Subscribe,
   Resubscribe, AppClears, ClearEntities, vars

\* Every variable keeps its type.
LEMMA TypeStep ==
  ASSUME Typed, [Next]_vars
  PROVE  Typed'
<1>1. app' \in [Apps -> Doings]
  BY AppTypeStep
<1>2. /\ TypeOK'
      /\ heap' \in Seq(Objects)
      /\ (message \in [entity : Entities \cup {NoEntity}, n : Nat, last : BOOLEAN])'
      /\ (stage # "idle" => message.entity \in Entities /\ message.n > 0)'
      /\ (target \in Pointers)'
      /\ (phase # "up" => epoch < profile.epochs)'
      /\ Len(heap) <= Len(heap')
  BY <1>1, StoreTypeStep
<1>3. \A o \in Pointers : o \in Pointers'
  BY <1>2, LenProperties DEF Pointers, Typed
<1>4. ASSUME NEW a \in Apps
      PROVE  /\ app'[a].obj \in Pointers'
             /\ app'[a].at \in {"holds", "half"} => app'[a].obj # 0
             /\ app'[a].at = "counted" => Slot(app'[a].want) \in Slots
  <2>0. /\ app[a].obj \in Pointers
        /\ app[a].at \in {"holds", "half"} => app[a].obj # 0
        /\ app[a].at = "counted" => Slot(app[a].want) \in Slots
    BY DEF Typed
  <2>1. CASE Watch
    BY <2>0, <2>1, <1>3, WatchKeeps
  <2>2. CASE UNCHANGED app
    BY <2>0, <2>2, <1>3
  <2>4. CASE Connect
    BY <2>2, <2>4 DEF Connect
  <2>3. ASSUME NEW b \in Apps, Application(b)
        PROVE  /\ app'[a].obj \in Pointers'
               /\ app'[a].at \in {"holds", "half"} => app'[a].obj # 0
               /\ app'[a].at = "counted" => Slot(app'[a].want) \in Slots
    <3>1. CASE a = b
      <4>1. \A s \in Slots : maps[s] \in Pointers
        BY DEF Typed, TypeOK
      <4>2. 0 \in Pointers
        BY LenProperties DEF Pointers, Typed
      <4>3. app'[a].obj \in Pointers'
        BY <2>0, <2>3, <3>1, <4>1, <4>2, <1>3, AppFacts
      <4> QED
        BY <2>0, <2>3, <3>1, <4>3, AppFacts
    <3>2. CASE a # b
      BY <2>0, <2>3, <3>2, <1>3, AppFacts
    <3> QED
      BY <3>1, <3>2
  <2> QED
    BY <2>1, <2>2, <2>3, <2>4, WhoMoves
<1> QED
  BY <1>1, <1>2, <1>4 DEF Typed

\* Nothing is filed, nothing is indexed.
LEMMA NothingFiled ==
  ASSUME Filed, \A s \in Slots : maps[s] = 0
  PROVE  (\A k \in Keys : byKey[k] = 0) /\ (\A n \in Names : byName[n] = 0)
BY DEF Filed, IndexesAgree, Shown

\* A new object takes the slot of its entity from the one it replaces, and both
\* indexes with it: the device has one entity in a slot, under one name.
LEMMA ListingFiles ==
  ASSUME Typed, Filed, NEW e \in device.entities, ListEntity(e)
  PROVE  Filed'
<1> DEFINE new == Len(heap')
           At(s) == heap[maps[s]].entity
<1>1. e \in Entities /\ Slot(e) \in Slots /\ e.key \in Keys /\ e.name \in Names
  BY DeviceEntities DEF Entities
<1>2. /\ new = Len(heap) + 1 /\ Len(heap) \in Nat
      /\ heap'[new].entity = e
      /\ \A o \in 1 .. Len(heap) : heap'[o] = heap[o]
  BY <1>1, Allocation, LenProperties DEF ListEntity, Typed, Fresh
<1>3. /\ maps \in [Slots -> 0 .. Len(heap)] /\ byKey \in [Keys -> 0 .. Len(heap)]
      /\ byName \in [Names -> 0 .. Len(heap)]
  BY DEF Typed, TypeOK, Pointers
<1>4. /\ maps' = [maps EXCEPT ![Slot(e)] = new]
      /\ byKey' = [byKey EXCEPT ![e.key] = new]
      /\ byName' = [byName EXCEPT ![e.name] = new]
      /\ device' = device /\ phase' = phase /\ phase = "up"
  BY DEF ListEntity, link
<1> HIDE DEF new
<1>5. new # 0 /\ \A o \in 0 .. Len(heap) : o # new
  BY <1>2
<1>6. \A s \in Slots : maps'[s] = IF s = Slot(e) THEN new ELSE maps[s]
  BY <1>3, <1>4
<1>7. ASSUME NEW s \in Slots, maps'[s] # 0
      PROVE  /\ Slot(heap'[maps'[s]].entity) = s
             /\ heap'[maps'[s]].entity \in device.entities
             /\ byKey'[s[2]] # 0
  <2>1. CASE s = Slot(e)
    <3>1. s[2] = e.key
      BY <2>1 DEF Slot
    <3> QED
      BY <2>1, <3>1, <1>1, <1>2, <1>3, <1>4, <1>5, <1>6
  <2>2. CASE s # Slot(e)
    <3>1. maps[s] # 0 /\ maps[s] \in 1 .. Len(heap) /\ maps'[s] = maps[s]
      BY <2>2, <1>3, <1>6, <1>7
    <3>2. /\ Slot(heap[maps[s]].entity) = s
          /\ heap[maps[s]].entity \in device.entities
          /\ byKey[s[2]] # 0
      BY <3>1 DEF Filed, IndexesAgree
    <3>3. byKey'[s[2]] # 0
      BY <3>2, <1>3, <1>4, <1>5 DEF Slots
    <3> QED
      BY <3>1, <3>2, <3>3, <1>2
  <2> QED
    BY <2>1, <2>2
<1>8. ASSUME NEW k \in Keys, byKey'[k] # 0
      PROVE  heap'[byKey'[k]].entity.key = k /\ byKey'[k] \in Shown'
  <2>1. CASE k = e.key
    BY <2>1, <1>1, <1>2, <1>3, <1>4, <1>5, <1>6 DEF Shown
  <2>2. CASE k # e.key
    <3>1. byKey'[k] = byKey[k] /\ byKey[k] \in 1 .. Len(heap)
      BY <2>2, <1>3, <1>4, <1>8
    <3>2. heap[byKey[k]].entity.key = k /\ byKey[k] \in Shown
      BY <3>1 DEF Filed, IndexesAgree
    <3>3. PICK s \in Slots : maps[s] = byKey[k]
      BY <3>2 DEF Shown
    <3>4. Slot(heap[byKey[k]].entity) = s
      BY <3>1, <3>3 DEF Filed
    <3>5. s # Slot(e)
      BY <2>2, <3>2, <3>4 DEF Slot
    <3> QED
      BY <3>1, <3>2, <3>3, <3>5, <1>2, <1>6 DEF Shown
  <2> QED
    BY <2>1, <2>2
<1>9. ASSUME NEW n \in Names, byName'[n] # 0
      PROVE  heap'[byName'[n]].entity.name = n /\ byName'[n] \in Shown'
  <2>1. CASE n = e.name
    BY <2>1, <1>1, <1>2, <1>3, <1>4, <1>5, <1>6 DEF Shown
  <2>2. CASE n # e.name
    <3>1. byName'[n] = byName[n] /\ byName[n] \in 1 .. Len(heap)
      BY <2>2, <1>3, <1>4, <1>9
    <3>2. heap[byName[n]].entity.name = n /\ byName[n] \in Shown
      BY <3>1 DEF Filed, IndexesAgree
    <3>3. PICK s \in Slots : maps[s] = byName[n]
      BY <3>2 DEF Shown
    <3>4. Slot(heap[byName[n]].entity) = s /\ heap[byName[n]].entity \in device.entities
      BY <3>1, <3>3 DEF Filed, IndexesAgree
    <3>5. s # Slot(e)
      BY <2>2, <3>2, <3>4, DeviceEntities
    <3> QED
      BY <3>1, <3>2, <3>3, <3>5, <1>2, <1>6 DEF Shown
  <2> QED
    BY <2>1, <2>2
<1> QED
  BY <1>4, <1>7, <1>8, <1>9 DEF Filed, IndexesAgree

\* Listing files an entity in its place, clearing leaves nothing filed
\* (entities.go:771-1053, 1227-1249).
LEMMA FiledStep ==
  ASSUME Typed, Filed, [Next]_vars
  PROVE  Filed'
<1> USE DEF reg, svcs, link, feed, work
<1>1. ASSUME NEW e \in device.entities, ListEntity(e) PROVE Filed'
  BY <1>1, ListingFiles
<1>2. ASSUME UNCHANGED <<heap, reg, device>>,
             phase' \in {"emptied", "redial"} => phase \in {"emptied", "redial"}
      PROVE  Filed'
  BY <1>2 DEF Filed, IndexesAgree, Shown
<1>3. CASE WriteFirst \/ WriteSecond
  <2>1. /\ maps \in [Slots -> 0 .. Len(heap)] /\ byKey \in [Keys -> 0 .. Len(heap)]
        /\ byName \in [Names -> 0 .. Len(heap)]
    BY DEF Typed, TypeOK, Pointers
  <2>2. /\ \A p \in 1 .. Len(heap) : heap'[p].entity = heap[p].entity
        /\ UNCHANGED <<link, reg>>
    BY <1>3, FirstWritten, SecondWritten
  <2>3. UNCHANGED <<maps, byKey, byName, device, phase>>
    BY <2>2
  <2>4. \A s \in Slots : maps[s] # 0 =>
          /\ Slot(heap'[maps[s]].entity) = s
          /\ heap'[maps[s]].entity \in device.entities
          /\ byKey[s[2]] # 0
    <3> SUFFICES ASSUME NEW s \in Slots, maps[s] # 0
                 PROVE  /\ Slot(heap'[maps[s]].entity) = s
                        /\ heap'[maps[s]].entity \in device.entities
                        /\ byKey[s[2]] # 0
      OBVIOUS
    <3>1. maps[s] \in 1 .. Len(heap)
      BY <2>1, LenProperties DEF Typed
    <3>2. heap'[maps[s]].entity = heap[maps[s]].entity
      BY <2>2, <3>1
    <3> QED
      BY <3>2 DEF Filed, IndexesAgree
  <2>5. \A k \in Keys : byKey[k] # 0 => heap'[byKey[k]].entity.key = k
    <3> SUFFICES ASSUME NEW k \in Keys, byKey[k] # 0
                 PROVE  heap'[byKey[k]].entity.key = k
      OBVIOUS
    <3>1. byKey[k] \in 1 .. Len(heap)
      BY <2>1, LenProperties DEF Typed
    <3> QED
      BY <2>2, <3>1 DEF Filed
  <2>6. \A n \in Names : byName[n] # 0 => heap'[byName[n]].entity.name = n
    <3> SUFFICES ASSUME NEW n \in Names, byName[n] # 0
                 PROVE  heap'[byName[n]].entity.name = n
      OBVIOUS
    <3>1. byName[n] \in 1 .. Len(heap)
      BY <2>1, LenProperties DEF Typed
    <3> QED
      BY <2>2, <3>1 DEF Filed
  <2>7. IndexesAgree' /\ (phase' \in {"emptied", "redial"} => \A s \in Slots : maps'[s] = 0)
    BY <2>3, <2>4 DEF Filed, IndexesAgree, Shown
  <2> QED
    BY <2>3, <2>4, <2>5, <2>6, <2>7 DEF Filed
<1>4. CASE Empty \/ AppClears
  <2>1. /\ \A s \in Slots : maps'[s] = 0
        /\ \A k \in Keys : byKey'[k] = 0
        /\ \A n \in Names : byName'[n] = 0
    BY <1>4 DEF Empty, AppClears, ClearEntities
  <2> QED
    BY <2>1 DEF Filed, IndexesAgree
<1>5. CASE Connect
  <2>1. \A s \in Slots : maps[s] = 0
    BY <1>5 DEF Connect, Filed
  <2>2. /\ \A k \in Keys : byKey[k] = 0
        /\ \A n \in Names : byName[n] = 0
    BY <2>1, NothingFiled
  <2> QED
    BY <1>5, <2>1, <2>2 DEF Connect, Filed, IndexesAgree
<1>6. ASSUME NEW a \in Apps, Application(a) PROVE Filed'
  BY <1>2, <1>6, AppFacts
<1>7. ASSUME NEW e \in device.entities, NEW last \in BOOLEAN, Report(e, last) PROVE Filed'
  BY <1>2, <1>7 DEF Report
<1>8. ASSUME NEW s \in device.services, ListService(s) PROVE Filed'
  BY <1>2, <1>8 DEF ListService
<1>9. CASE Drop \/ CallHandler \/ Lose \/ EmptyServices \/ Resubscribe \/ Subscribe
  BY <1>2, <1>9 DEF Drop, CallHandler, Lose, EmptyServices, Resubscribe, Subscribe
<1>10. CASE UNCHANGED vars
  BY <1>2, <1>10 DEF vars
<1> QED
  BY <1>1, <1>3, <1>4, <1>5, <1>6, <1>7, <1>8, <1>9, <1>10 DEF Next, ReadLoop, Reconnect

\* From its first write to its last, and in the handlers after it, a report
\* finds the same object (entities.go:1056-1225).
LEMMA WrittenStep ==
  ASSUME Typed, Written, [Next]_vars
  PROVE  Written'
<1> USE DEF reg, svcs, link, feed, work
<1>1. ASSUME stage' \in {"idle", "store"} PROVE Written'
  BY <1>1 DEF Written, HandlerSeesState
<1>2. ASSUME UNCHANGED <<heap, maps, message, stage, target>> PROVE Written'
  BY <1>2 DEF Written, HandlerSeesState, Found
<1>3. CASE WriteFirst
  <2>1. stage' = "half" /\ Found # 0 /\ Found' = Found /\ message' = message
    BY <1>3 DEF WriteFirst, Found
  <2> QED
    BY <1>3, <2>1, FirstWritten DEF Written, HandlerSeesState
<1>4. CASE WriteSecond
  <2>1. /\ stage = "half" /\ stage' = "call" /\ message' = message
        /\ Found' = Found
    BY <1>4 DEF WriteSecond, Found
  <2> QED
    BY <1>4, <2>1, SecondWritten DEF Written, HandlerSeesState
<1>5. CASE Drop
  <2>1. stage' = "call" /\ Found' = 0
    BY <1>5 DEF Drop, Found
  <2> QED
    BY <2>1 DEF Written, HandlerSeesState
<1>6. CASE Empty \/ AppClears
  <2>1. stage' = stage /\ message' = message /\ stage # "half"
    BY <1>6 DEF Empty, AppClears, ClearEntities, Free
  <2>2. \A s \in Slots : maps'[s] = 0
    BY <1>6 DEF Empty, AppClears, ClearEntities
  <2>3. stage = "call" => Slot(message.entity) \in Slots
    BY DEF Typed, Entities, Slot, Slots
  <2>4. stage = "call" => Found' = 0
    BY <2>1, <2>2, <2>3 DEF Found
  <2> QED
    BY <2>1, <2>4 DEF Written, HandlerSeesState
<1>7. ASSUME NEW a \in Apps, Application(a) PROVE Written'
  BY <1>2, <1>7, AppFacts
<1>8. CASE CallHandler
  BY <1>1, <1>8 DEF CallHandler
<1>9. ASSUME NEW e \in device.entities,
             ListEntity(e) \/ \E last \in BOOLEAN : Report(e, last)
      PROVE  Written'
  BY <1>1, <1>9 DEF ListEntity, Report
<1>10. ASSUME NEW s \in device.services, ListService(s) PROVE Written'
  BY <1>2, <1>10 DEF ListService
<1>11. CASE Lose \/ EmptyServices \/ Connect \/ Resubscribe \/ Subscribe
  BY <1>2, <1>11 DEF Lose, EmptyServices, Connect, Resubscribe, Subscribe
<1>12. CASE UNCHANGED vars
  BY <1>2, <1>12 DEF vars
<1> QED
  BY <1>3, <1>4, <1>5, <1>6, <1>7, <1>8, <1>9, <1>10, <1>11, <1>12
  DEF Next, ReadLoop, Reconnect

\* While a goroutine checks a command for an entity that has been there all
\* along, under a key of no other, byKey leads to this entity.
LEMMA SteadyIsAccepted ==
  ASSUME Typed, Filed, NEW w, Slot(w) \in Slots, Alone(maps, w)
  PROVE  Accepts(byKey[w.key], w)
<1> DEFINE o == byKey[w.key]
<1>1. w.domain \in Domains /\ w.key \in Keys
  BY DEF Slot, Slots
<1>2. /\ maps[<<w.domain, w.key>>] # 0
      /\ \A d \in Domains \ {w.domain} : maps[<<d, w.key>>] = 0
  BY DEF Alone
<1>3. o # 0
  <2>1. <<w.domain, w.key>> \in Slots /\ <<w.domain, w.key>>[2] = w.key
    BY <1>1 DEF Slots
  <2> QED
    BY <1>2, <2>1 DEF Filed
<1>4. heap[o].entity.key = w.key /\ o \in Shown
  BY <1>1, <1>3 DEF Filed, IndexesAgree
<1>5. PICK s \in Slots : maps[s] = o
  BY <1>4 DEF Shown
<1>6. Slot(heap[o].entity) = s
  BY <1>3, <1>5 DEF Filed
<1>7. s[1] \in Domains /\ s[2] = w.key /\ s = <<s[1], s[2]>> /\ heap[o].entity.domain = s[1]
  BY <1>4, <1>6 DEF Slot, Slots
<1>8. s[1] = w.domain
  BY <1>2, <1>3, <1>5, <1>7
<1> QED
  BY <1>3, <1>7, <1>8 DEF Accepts

\* The services of the index are those of the device.
LEMMA ServicesStep ==
  ASSUME Typed, Judged, [Next]_vars
  PROVE  /\ \A n \in Names : svcByName'[n] # 0 =>
              [key |-> svcByName'[n], name |-> n] \in device'.services
         /\ phase' = "redial" => \A n \in Names : svcByName'[n] = 0
<1> DEFINE Goal ==
      /\ \A n \in Names : svcByName'[n] # 0 =>
           [key |-> svcByName'[n], name |-> n] \in device'.services
      /\ phase' = "redial" => \A n \in Names : svcByName'[n] = 0
<1>0. /\ \A n \in Names : svcByName[n] # 0 =>
           [key |-> svcByName[n], name |-> n] \in device.services
      /\ phase = "redial" => \A n \in Names : svcByName[n] = 0
  BY DEF Judged
<1> USE DEF reg, svcs, link, feed, work
<1>1. ASSUME UNCHANGED <<svcByName, device>>, phase' = "redial" => phase = "redial"
      PROVE  Goal
  BY <1>0, <1>1
<1>2. ASSUME NEW s \in device.services, ListService(s) PROVE Goal
  <2>1. s \in [key : Keys, name : Names] /\ s = [key |-> s.key, name |-> s.name]
    BY DeviceEntities
  <2>2. svcByName \in [Names -> Keys \cup {0}]
    BY DEF Typed, TypeOK
  <2>3. /\ svcByName' = [svcByName EXCEPT ![s.name] = s.key]
        /\ phase' = "up" /\ device' = device
    BY <1>2 DEF ListService
  <2> QED
    BY <1>0, <2>1, <2>2, <2>3
<1>3. CASE EmptyServices
  BY <1>3 DEF EmptyServices, ClearServices
<1>4. CASE Connect
  BY <1>0, <1>4 DEF Connect
<1>5. ASSUME NEW a \in Apps, Application(a) PROVE Goal
  BY <1>1, <1>5, AppFacts
<1>6. ASSUME NEW e \in device.entities,
             ListEntity(e) \/ \E last \in BOOLEAN : Report(e, last)
      PROVE  Goal
  BY <1>1, <1>6 DEF ListEntity, Report
<1>7. CASE WriteFirst \/ WriteSecond \/ Drop \/ CallHandler
  BY <1>1, <1>7 DEF WriteFirst, WriteSecond, Drop, CallHandler
<1>8. CASE Lose \/ Empty \/ AppClears \/ Resubscribe \/ Subscribe
  BY <1>1, <1>8 DEF Lose, Empty, AppClears, Resubscribe, Subscribe
<1>9. CASE UNCHANGED vars
  BY <1>1, <1>9 DEF vars
<1> QED
  BY <1>2, <1>3, <1>4, <1>5, <1>6, <1>7, <1>8, <1>9 DEF Next, ReadLoop, Reconnect

\* A goroutine between its check and its request is disturbed by no listing,
\* report or Clear in a way that would make its check wrong.
LEMMA JudgedStep ==
  ASSUME Typed, Filed, Judged, [Next]_vars
  PROVE  Judged'
<1> DEFINE Goal(b) ==
      /\ app'[b].at = "counted" /\ app'[b].steady => Alone(maps', app'[b].want)
      /\ app'[b].checked <= epoch'
      /\ Fits(b)'
      /\ app'[b].at = "refused" => ~app'[b].steady
<1>1. SUFFICES ASSUME NEW b \in Apps PROVE Goal(b)
  BY ServicesStep DEF Judged, RefusedForCause
<1>2. /\ app[b].at = "counted" /\ app[b].steady => Alone(maps, app[b].want)
      /\ app[b].checked <= epoch
      /\ Fits(b)
      /\ app[b].at = "refused" => ~app[b].steady
  BY DEF Judged, RefusedForCause
<1>3. epoch \in Nat \ {0} /\ app[b].checked \in Nat
  BY RegistryAssumption DEF Typed, TypeOK, Doings
<1>4. CASE Watch /\ UNCHANGED <<device, epoch>>
  <2>1. /\ app'[b].at = app[b].at /\ app'[b].want = app[b].want
        /\ app'[b].checked = app[b].checked
    BY <1>4, WatchKeeps
  <2>2. app'[b].at = "counted" /\ app'[b].steady => Alone(maps', app'[b].want)
    BY <1>4, <2>1, WatchKeeps
  <2>3. app'[b].at = "refused" => ~app'[b].steady
    BY <1>2, <1>4, WatchKeeps
  <2> QED
    BY <1>2, <1>4, <2>1, <2>2, <2>3 DEF Fits
<1>5. CASE UNCHANGED <<app, maps, device, epoch>>
  BY <1>2, <1>5 DEF Fits
<1>6. CASE Connect
  <2>1. epoch' = epoch + 1 /\ UNCHANGED <<app, maps>>
    BY <1>6 DEF Connect, reg
  <2> QED
    BY <1>2, <1>3, <2>1 DEF Fits
<1>7. ASSUME NEW a \in Apps, Application(a) PROVE Goal(b)
  <2>1. UNCHANGED <<maps, device, epoch>>
    BY <1>7, AppFacts DEF link, reg
  <2>2. CASE b # a
    BY <1>2, <1>7, <2>1, <2>2, AppFacts DEF Fits
  <2>3. CASE b = a
    <3>1. app'[b].at = "counted" /\ app'[b].steady => Alone(maps', app'[b].want)
      BY <1>7, <2>1, <2>3, AppFacts
    <3>2. app'[b].checked <= epoch'
      BY <1>2, <1>3, <1>7, <2>1, <2>3, AppFacts
    <3>3. app'[b].at = "refused" => ~app'[b].steady
      BY <1>2, <1>7, <2>3, SteadyIsAccepted, AppFacts DEF Typed
    <3>4. ASSUME app'[b].checked = epoch', app'[b].at = "send"
          PROVE  \E e \in device.entities : Slot(e) = Slot(app'[b].want)
      <4> DEFINE w == app[b].want
                 o == byKey[w.key]
      <4>1. /\ app[b].at = "counted" /\ app'[b].want = w /\ Accepts(o, w)
        BY <1>3, <1>7, <2>1, <2>3, <3>4, AppFacts
      <4>2. w.key \in Keys
        BY <4>1 DEF Typed, Slot, Slots
      <4>3. o # 0 /\ heap[o].entity.domain = w.domain
        BY <4>1 DEF Accepts
      <4>4. heap[o].entity.key = w.key /\ o \in Shown
        BY <4>2, <4>3 DEF Filed, IndexesAgree
      <4>5. heap[o].entity \in device.entities
        BY <4>4 DEF Shown, Filed, IndexesAgree
      <4>6. Slot(heap[o].entity) = Slot(w)
        BY <4>3, <4>4 DEF Slot
      <4> QED
        BY <4>1, <4>5, <4>6
    <3>5. ASSUME app'[b].at = "execute"
          PROVE  [key |-> app'[b].want.key, name |-> app'[b].want.name] \in device.services
      BY <1>7, <2>3, <3>5, AppFacts DEF Judged
    <3> QED
      BY <2>1, <3>1, <3>2, <3>3, <3>4, <3>5 DEF Fits
  <2> QED
    BY <2>2, <2>3
<1> QED
  BY <1>4, <1>5, <1>6, <1>7, WhoMoves

\* Two slots never show one object.
LEMMA OneSlotEach ==
  ASSUME Filed, NEW s \in Slots, NEW t \in Slots, maps[s] # 0, maps[s] = maps[t]
  PROVE  s = t
BY DEF Filed

\* The frames of a camera, and when there are none.
LEMMA FramesStep ==
  ASSUME Typed, Imaged, [Next]_vars
  PROVE  /\ frames' \in [Keys -> [parts : Seq(Nat), last : BOOLEAN]]
         /\ \A k \in Keys : IF frames'[k].parts = <<>> THEN frames'[k].last
                           ELSE frames'[k].parts[1] <= message'.n
         /\ handlers' = 0 => stage' = "idle" /\ \A k \in Keys : frames'[k].parts = <<>>
         /\ stage' \in {"store", "half"} /\ handlers' = 1 => pending' = 1
         /\ phase' # "up" => stage' = "idle"
         /\ \A k \in Keys : stage' # "idle" /\ Slot(message'.entity) = <<"camera", k>> =>
                             frames'[k].last = message'.last
<1> DEFINE Goal ==
      /\ frames' \in [Keys -> [parts : Seq(Nat), last : BOOLEAN]]
      /\ \A k \in Keys : IF frames'[k].parts = <<>> THEN frames'[k].last
                        ELSE frames'[k].parts[1] <= message'.n
      /\ handlers' = 0 => stage' = "idle" /\ \A k \in Keys : frames'[k].parts = <<>>
      /\ stage' \in {"store", "half"} /\ handlers' = 1 => pending' = 1
      /\ phase' # "up" => stage' = "idle"
      /\ \A k \in Keys : stage' # "idle" /\ Slot(message'.entity) = <<"camera", k>> =>
                          frames'[k].last = message'.last
<1>0. /\ frames \in [Keys -> [parts : Seq(Nat), last : BOOLEAN]]
      /\ \A k \in Keys : IF frames[k].parts = <<>> THEN frames[k].last
                        ELSE frames[k].parts[1] <= message.n
      /\ handlers = 0 => stage = "idle" /\ \A k \in Keys : frames[k].parts = <<>>
      /\ stage \in {"store", "half"} /\ handlers = 1 => pending = 1
      /\ phase # "up" => stage = "idle"
      /\ \A k \in Keys : stage # "idle" /\ Slot(message.entity) = <<"camera", k>> =>
                          frames[k].last = message.last
      /\ handlers \in Nat /\ message.n \in Nat /\ pending \in 0 .. handlers
      /\ stage = "idle" <=> pending = 0
  BY DEF Typed, TypeOK, Imaged
<1> USE DEF reg, svcs, link, feed, work
<1>1. ASSUME UNCHANGED <<frames, message, stage, handlers, pending>>,
             phase' # "up" => phase # "up" \/ stage = "idle"
      PROVE  Goal
  BY <1>0, <1>1
<1>2. ASSUME NEW e \in device.entities, NEW last \in BOOLEAN, Report(e, last) PROVE Goal
  <2>1. e \in Entities /\ e.key \in Keys
    BY DeviceEntities DEF Entities
  <2>2. /\ message'.n = message.n + 1 /\ pending' = handlers /\ handlers' = handlers
        /\ handlers > 0 /\ phase' = "up"
        /\ message'.entity = e /\ message'.last = last
    BY <1>2 DEF Report
  <2>3. CASE frames' = frames /\ e.domain # "camera"
    BY <1>0, <2>2, <2>3 DEF Slot
  <2>4. CASE frames' = [frames EXCEPT ![e.key] = AddPart(frames[e.key], message'.n, last)]
    <3> DEFINE f == frames[e.key]
               g == AddPart(f, message'.n, last)
    <3>1. f.parts \in Seq(Nat) /\ message'.n \in Nat
      BY <1>0, <2>1, <2>2
    <3>2. /\ g \in [parts : Seq(Nat), last : BOOLEAN]
          /\ g.parts # <<>> /\ g.parts[1] <= message'.n
      <4>1. CASE f.last
        BY <3>1, <4>1 DEF AddPart
      <4>2. CASE ~f.last
        <5>1. f.parts # <<>> /\ f.parts[1] <= message.n
          BY <1>0, <2>1, <4>2
        <5>2. /\ Append(f.parts, message'.n) \in Seq(Nat)
              /\ Append(f.parts, message'.n) # <<>>
              /\ Append(f.parts, message'.n)[1] = f.parts[1]
          BY <3>1, <5>1, AppendProperties, EmptySeq, LenProperties
        <5>3. f.parts[1] <= message'.n
          <6>1. f.parts[1] \in Nat
            BY <3>1, <5>1, ElementOfSeq, EmptySeq, LenProperties
          <6> QED
            BY <1>0, <2>2, <5>1, <6>1
        <5> QED
          BY <4>2, <5>2, <5>3 DEF AddPart
      <4> QED
        BY <4>1, <4>2
    <3>4. ASSUME NEW k \in Keys, Slot(message'.entity) = <<"camera", k>>
          PROVE  frames'[k].last = message'.last
      BY <1>0, <2>1, <2>2, <2>4, <3>4 DEF Slot, AddPart
    <3> HIDE DEF g
    <3>3. ASSUME NEW k \in Keys
          PROVE  IF frames'[k].parts = <<>> THEN frames'[k].last
                 ELSE frames'[k].parts[1] <= message'.n
      <4>1. CASE k = e.key
        BY <1>0, <2>1, <2>4, <3>2, <4>1 DEF g
      <4>2. CASE k # e.key
        <5>1. frames'[k] = frames[k]
          BY <1>0, <2>4, <4>2
        <5>2. frames[k].parts # <<>> => frames[k].parts[1] \in Nat
          BY <1>0, ElementOfSeq, EmptySeq, LenProperties
        <5> QED
          BY <1>0, <2>2, <5>1, <5>2
      <4> QED
        BY <4>1, <4>2
    <3> QED
      BY <1>0, <2>1, <2>2, <2>4, <3>2, <3>3, <3>4 DEF g
  <2> QED
    BY <1>2, <2>3, <2>4 DEF Report
<1>3. CASE WriteFirst \/ WriteSecond \/ Drop \/ CallHandler
  BY <1>0, <1>3 DEF WriteFirst, WriteSecond, Drop, CallHandler
<1>4. CASE Connect
  BY <1>0, <1>4, EmptySeq DEF Connect
<1>5. CASE Subscribe \/ Resubscribe
  BY <1>0, <1>5 DEF Subscribe, Resubscribe
<1>6. ASSUME NEW a \in Apps, Application(a) PROVE Goal
  BY <1>1, <1>6, AppFacts
<1>7. ASSUME NEW e \in device.entities, ListEntity(e) PROVE Goal
  BY <1>1, <1>7 DEF ListEntity
<1>8. ASSUME NEW s \in device.services, ListService(s) PROVE Goal
  BY <1>1, <1>8 DEF ListService
<1>9. CASE Lose \/ Empty \/ EmptyServices \/ AppClears \/ UNCHANGED vars
  BY <1>1, <1>9 DEF Lose, Empty, EmptyServices, AppClears, vars
<1> QED
  BY <1>2, <1>3, <1>4, <1>5, <1>6, <1>7, <1>8, <1>9 DEF Next, ReadLoop, Reconnect

\* A part that has come continues the image of an object that has followed it,
\* or begins one.
LEMMA ReportPictures ==
  ASSUME Typed, Imaged, NEW k \in Keys, NEW o \in Objects,
         NEW e \in device.entities, NEW last \in BOOLEAN, Report(e, last),
         Slot(e) = <<"camera", k>>, stage = "idle", Pictured(k, o)
  PROVE  Pictured(k, o)'
<1> DEFINE f == frames[k]
           n == message'.n
           g == frames'[k]
<1>1. /\ f \in [parts : Seq(Nat), last : BOOLEAN]
      /\ IF f.parts = <<>> THEN f.last ELSE f.parts[1] <= message.n
      /\ message.n \in Nat
  BY DEF Imaged, Typed
<1>2. /\ f.last => o.done \/ o.first = <<>>
      /\ Follows(k, o) => o.first = f.parts /\ o.done = f.last
  BY DEF Pictured, Storing
<1>3. e.domain = "camera" /\ e.key = k
  BY DEF Slot
<1>4. /\ message' = [entity |-> e, n |-> message.n + 1, last |-> last]
      /\ stage' = "store" /\ handlers' = handlers /\ since' = since
      /\ g = AddPart(f, n, last)
  BY <1>3 DEF Report, feed, Imaged
<1>5. message'.entity = e /\ n \in Nat /\ message'.last = last /\ Storing(k)'
  BY <1>1, <1>4 DEF Storing
<1>6. g.last = last /\ g.parts = IF f.last THEN <<n>> ELSE Append(f.parts, n)
  BY <1>4 DEF AddPart
<1>7. Image(o)' = IF ~o.done THEN Append(o.first, n) ELSE <<n>>
  BY <1>3, <1>5 DEF Image
<1>8. ASSUME Follows(k, o)' PROVE g.parts = Image(o)'
  <2>1. handlers = 1 /\ g.parts[1] > since /\ g.parts[1] > o.born
    BY <1>4, <1>8 DEF Follows
  <2>2. CASE f.last
    <3>1. Append(<<>>, n) = <<n>>
      OBVIOUS
    <3> QED
      BY <1>2, <1>6, <1>7, <2>2, <3>1
  <2>3. CASE ~f.last
    <3>1. f.parts # <<>> /\ f.parts \in Seq(Nat)
      BY <1>1, <2>3
    <3>2. Append(f.parts, n)[1] = f.parts[1]
      BY <1>5, <3>1, AppendProperties, EmptySeq, LenProperties
    <3>3. Follows(k, o)
      BY <1>6, <2>1, <2>3, <3>1, <3>2 DEF Follows
    <3> QED
      BY <1>2, <1>6, <1>7, <2>3, <3>3
  <2> QED
    BY <2>2, <2>3
<1> QED
  BY <1>5, <1>8, <1>4 DEF Pictured

\* Every part of an image is appended once, and the last part ends it
\* (entities.go:1147-1157).
LEMMA ImagedStep ==
  ASSUME Typed, Filed, Written, Imaged, [Next]_vars
  PROVE  Imaged'
<1> USE DEF reg, svcs, link, feed, work
<1>0. /\ Len(heap) \in Nat /\ maps \in [Slots -> 0 .. Len(heap)]
      /\ heap \in Seq(Objects) /\ message.n \in Nat
  BY LenProperties DEF Typed, TypeOK, Pointers
<1>1. SUFFICES ASSUME NEW k \in Keys, <<"camera", k>> \in Slots, maps'[<<"camera", k>>] # 0
               PROVE  Pictured(k, heap[maps[<<"camera", k>>]])'
  BY FramesStep DEF Imaged
<1> DEFINE cam == <<"camera", k>>
           c == maps[cam]
<1>2. c # 0 => /\ c \in 1 .. Len(heap) /\ heap[c] \in Objects
               /\ Pictured(k, heap[c])
  BY <1>0, <1>1, ElementOfSeq DEF Imaged
<1>3. /\ IF frames[k].parts = <<>> THEN frames[k].last ELSE frames[k].parts[1] <= message.n
      /\ handlers = 0 => stage = "idle" /\ frames[k].parts = <<>>
      /\ stage \in {"store", "half"} /\ handlers = 1 => pending = 1
      /\ stage # "idle" /\ Slot(message.entity) = cam => frames[k].last = message.last
      /\ handlers \in Nat /\ pending \in 0 .. handlers /\ (stage = "idle" <=> pending = 0)
  BY DEF Imaged, Typed, TypeOK
<1>4. ASSUME UNCHANGED <<heap, maps, message, stage, frames, handlers, since>>
      PROVE  Pictured(k, heap[c])'
  BY <1>1, <1>2, <1>4 DEF Pictured, Storing, Follows, Image
<1>5. ASSUME NEW e \in device.entities, ListEntity(e) PROVE Pictured(k, heap[c])'
  <2>1. /\ stage' = "idle" /\ UNCHANGED <<frames, message, handlers, since, stage>>
        /\ maps' = [maps EXCEPT ![Slot(e)] = Len(heap')]
    BY <1>5 DEF ListEntity
  <2>2. /\ heap'[Len(heap')] = Fresh(e) /\ Len(heap') = Len(heap) + 1
        /\ \A o \in 1 .. Len(heap) : heap'[o] = heap[o]
    BY <1>5, DeviceEntities, Allocation DEF ListEntity
  <2>3. CASE Slot(e) = cam
    <3>1. heap'[maps'[cam]] = Fresh(e)
      BY <1>0, <1>1, <2>1, <2>2, <2>3
    <3>2. Fresh(e).first = <<>> /\ Fresh(e).born = message.n
      BY DEF Fresh
    <3>3. ~Follows(k, Fresh(e))'
      <4>1. Fresh(e)'.born = message'.n
        BY DEF Fresh
      <4>2. frames'[k].parts # <<>> => frames'[k].parts[1] \in Nat
        BY FramesStep, ElementOfSeq, EmptySeq, LenProperties
      <4> QED
        BY <1>0, <1>3, <2>1, <4>1, <4>2 DEF Follows
    <3>4. ~Storing(k)'
      BY <2>1 DEF Storing
    <3>5. heap'[maps'[cam]].first = <<>> /\ ~Follows(k, heap[c])'
      BY <2>1, <3>1, <3>2, <3>3 DEF Follows, Fresh
    <3> QED
      BY <3>4, <3>5 DEF Pictured
  <2>4. CASE Slot(e) # cam
    <3>1. maps'[cam] = c /\ c # 0
      BY <1>0, <1>1, <2>1, <2>4
    <3>2. heap'[maps'[cam]] = heap[c]
      BY <1>2, <2>2, <3>1
    <3> QED
      BY <1>2, <2>1, <3>1, <3>2 DEF Pictured, Storing, Follows
  <2> QED
    BY <2>3, <2>4
<1>6. ASSUME NEW e \in device.entities, NEW last \in BOOLEAN, Report(e, last)
      PROVE  Pictured(k, heap[c])'
  <2>1. /\ stage = "idle" /\ stage' = "store" /\ message'.entity = e /\ c # 0
        /\ UNCHANGED <<heap, maps, handlers, since>>
    BY <1>1, <1>6 DEF Report
  <2>2. CASE Slot(e) = cam
    <3>1. Pictured(k, heap[c]) /\ heap[c] \in Objects
      BY <1>2, <2>1
    <3>2. Typed /\ Imaged
      OBVIOUS
    <3> DEFINE o == heap[c]
    <3>3. o' = o
      BY <2>1
    <3> QED
      BY <1>6, <2>1, <2>2, <3>1, <3>2, <3>3, ReportPictures DEF Pictured, Storing, Follows, Image
  <2>3. CASE Slot(e) # cam
    <3>1. ~Storing(k) /\ ~Storing(k)'
      BY <2>1, <2>3 DEF Storing
    <3>2. frames'[k] = frames[k]
      <4>1. e \in Entities
        BY DeviceEntities
      <4>2. e.domain = "camera" => e.key # k
        BY <2>3 DEF Slot
      <4> QED
        BY <1>6, <4>1, <4>2 DEF Report, Imaged
    <3> QED
      BY <1>2, <2>1, <3>1, <3>2 DEF Pictured, Follows
  <2> QED
    BY <2>2, <2>3
<1>7. CASE WriteFirst
  <2>1. /\ stage = "store" /\ stage' = "half" /\ c # 0
        /\ UNCHANGED <<maps, message, frames, handlers, since>>
    BY <1>1, <1>7 DEF WriteFirst
  <2>2. CASE Slot(message.entity) = cam
    <3>1. Found = c /\ Storing(k) /\ Storing(k)'
      BY <2>1, <2>2 DEF Found, Storing
    <3>2. heap'[c].first = Image(heap[c]) /\ heap'[c].born = heap[c].born
      BY <1>7, <3>1, FirstWritten
    <3> QED
      BY <1>2, <2>1, <3>1, <3>2 DEF Pictured, Follows
  <2>3. CASE Slot(message.entity) # cam
    <3>1. Found # c
      <4>1. Slot(message.entity) \in Slots
        BY <2>1 DEF Typed, Entities, Slot, Slots
      <4> QED
        BY <1>1, <2>1, <2>3, <4>1, OneSlotEach DEF Found
    <3>2. heap'[c] = heap[c]
      BY <1>2, <1>7, <2>1, <3>1, FirstWritten
    <3>3. ~Storing(k) /\ ~Storing(k)'
      BY <2>1, <2>3 DEF Storing
    <3> QED
      BY <1>2, <2>1, <3>2, <3>3 DEF Pictured, Follows
  <2> QED
    BY <2>2, <2>3
<1>8. CASE WriteSecond
  <2>1. /\ stage = "half" /\ stage' = "call" /\ c # 0 /\ Found = target
        /\ UNCHANGED <<maps, message, frames, handlers, since>>
    BY <1>1, <1>8 DEF WriteSecond, Written
  <2>2. ~Storing(k)'
    BY <2>1 DEF Storing
  <2>3. CASE Slot(message.entity) = cam
    <3>1. target = c /\ Storing(k)
      BY <2>1, <2>3 DEF Found, Storing
    <3>2. /\ heap'[c].first = heap[c].first /\ heap'[c].born = heap[c].born
          /\ heap'[c].done = message.last
      BY <1>8, <3>1, SecondWritten
    <3>3. /\ frames[k].last = message.last
          /\ Follows(k, heap[c]) => frames[k].parts = heap[c].first
      BY <1>2, <1>3, <2>1, <2>3, <3>1 DEF Pictured
    <3>4. Follows(k, heap[c])' => Follows(k, heap[c])
      BY <2>1, <3>2 DEF Follows
    <3> QED
      BY <2>1, <2>2, <3>2, <3>3, <3>4 DEF Pictured
  <2>4. CASE Slot(message.entity) # cam
    <3>1. target # c
      <4>1. Slot(message.entity) \in Slots
        BY <2>1 DEF Typed, Entities, Slot, Slots
      <4> QED
        BY <1>1, <2>1, <2>4, <4>1, OneSlotEach DEF Found
    <3>2. heap'[c] = heap[c]
      BY <1>2, <1>8, <2>1, <3>1, SecondWritten
    <3>3. ~Storing(k)
      BY <2>4 DEF Storing
    <3> QED
      BY <1>2, <2>1, <2>2, <3>2, <3>3 DEF Pictured, Follows
  <2> QED
    BY <2>3, <2>4
<1>9. CASE Drop
  <2>1. /\ stage = "store" /\ stage' = "call" /\ Found = 0
        /\ UNCHANGED <<heap, maps, message, frames, handlers, since>>
    BY <1>9 DEF Drop
  <2>2. ~Storing(k) /\ ~Storing(k)'
    BY <1>1, <2>1 DEF Storing, Found
  <2> QED
    BY <1>1, <1>2, <2>1, <2>2 DEF Pictured, Follows
<1>10. CASE CallHandler
  <2>1. /\ stage = "call" /\ UNCHANGED <<heap, maps, message, frames, handlers, since>>
        /\ stage' = IF pending = 1 THEN "idle" ELSE "store"
    BY <1>10 DEF CallHandler
  <2>2. ~Storing(k) /\ c # 0
    BY <1>1, <2>1 DEF Storing
  <2>3. CASE stage' = "idle"
    <3>1. ~Storing(k)'
      BY <2>3 DEF Storing
    <3> QED
      BY <1>2, <2>1, <2>2, <3>1 DEF Pictured, Follows
  <2>4. CASE stage' = "store"
    <3>1. handlers # 1
      BY <1>3, <2>1, <2>4
    <3>2. ~Follows(k, heap[c]) /\ ~Follows(k, heap[c])'
      BY <2>1, <3>1 DEF Follows
    <3> QED
      BY <1>2, <2>1, <2>2, <3>2 DEF Pictured
  <2> QED
    BY <2>1, <2>3, <2>4
<1>11. CASE Empty \/ AppClears
  BY <1>1, <1>11 DEF Empty, AppClears, ClearEntities
<1>12. CASE Connect
  <2>1. maps[cam] = 0 /\ maps' = maps
    BY <1>1, <1>12 DEF Connect, Filed
  <2> QED
    BY <1>1, <2>1
<1>13. CASE Subscribe \/ Resubscribe
  <2>1. /\ UNCHANGED <<heap, maps, message, stage, frames>> /\ handlers' = handlers + 1
        /\ c # 0
    BY <1>1, <1>13 DEF Subscribe, Resubscribe
  <2>2. handlers \in Nat
    BY DEF Typed, TypeOK
  <2>3. ~Follows(k, heap[c])'
    BY <1>3, <2>1, <2>2 DEF Follows
  <2> QED
    BY <1>2, <2>1, <2>3 DEF Pictured, Storing
<1>14. ASSUME NEW a \in Apps, Application(a) PROVE Pictured(k, heap[c])'
  BY <1>4, <1>14, AppFacts
<1>15. ASSUME NEW s \in device.services, ListService(s) PROVE Pictured(k, heap[c])'
  BY <1>4, <1>15 DEF ListService
<1>16. CASE Lose \/ EmptyServices \/ UNCHANGED vars
  BY <1>4, <1>16 DEF Lose, EmptyServices, vars
<1> QED
  BY <1>5, <1>6, <1>7, <1>8, <1>9, <1>10, <1>11, <1>12, <1>13, <1>14, <1>15, <1>16
  DEF Next, ReadLoop, Reconnect

-----------------------------------------------------------------------------
(* The invariant holds, and with it the invariants that the runs check.    *)

\* A client that has just been connected has empty registries.
LEMMA InitIInv == Init => IInv
<1> SUFFICES ASSUME Init PROVE IInv
  OBVIOUS
<1>1. profile.epochs \in Nat \ {0} /\ profile.objects \in Nat /\ profile.reports \in Nat
  BY RegistryAssumption DEF Init
<1>2. heap = <<>> /\ heap \in Seq(Objects) /\ Len(heap) = 0
  BY EmptySeq DEF Init
<1>3. NoEntity \in Entities \cup {NoEntity}
  OBVIOUS
<1>4. \A a \in Apps : /\ app[a] \in Doings /\ app[a].at = "idle" /\ app[a].obj = 0
                     /\ app[a].checked = 0
  BY IdleType DEF Init
<1>5. Typed
  <2>1. TypeOK
    <3>1. /\ maps \in [Slots -> Pointers] /\ byKey \in [Keys -> Pointers]
          /\ byName \in [Names -> Pointers]
      BY <1>2 DEF Init, Pointers
    <3>2. message.n = 0 /\ handlers = 0 /\ pending = 0 /\ since = 0 /\ epoch = 1
      BY DEF Init
    <3>3. /\ handlers \in Nat /\ since \in 0 .. message.n /\ pending \in 0 .. handlers
          /\ message.n \in 0 .. profile.reports /\ epoch \in 1 .. profile.epochs
          /\ Len(heap) <= profile.objects
      BY <1>1, <1>2, <3>2
    <3>4. /\ services \in [Keys -> Names \cup {"none"}] /\ svcByName \in [Names -> Keys \cup {0}]
          /\ owes \in BOOLEAN
      BY DEF Init
    <3> QED
      BY <1>4, <3>1, <3>2, <3>3, <3>4 DEF Init, TypeOK
  <2>2. app \in [Apps -> Doings]
    BY IdleType DEF Init
  <2> QED
    BY <1>1, <1>2, <1>3, <1>4, <2>1, <2>2 DEF Init, Typed, Pointers
<1>6. Filed
  BY DEF Init, Filed, IndexesAgree
<1>7. Written
  BY DEF Init, Written, HandlerSeesState
<1>8. Judged
  BY <1>4 DEF Init, Judged, Fits, RefusedForCause
<1>9. Imaged
  BY EmptySeq DEF Init, Imaged
<1> QED
  BY <1>5, <1>6, <1>7, <1>8, <1>9 DEF IInv

\* The inductive invariant holds in every reachable state.
THEOREM Consistency == Spec => []IInv
<1>1. IInv /\ [Next]_vars => IInv'
  BY TypeStep, FiledStep, WrittenStep, JudgedStep, ImagedStep DEF IInv
<1> QED
  BY InitIInv, <1>1, PTL DEF Spec

\* Every variable keeps its type.
THEOREM RegistryTypeCorrect == Spec => []TypeOK
<1>1. IInv => TypeOK
  BY DEF IInv, Typed
<1> QED
  BY Consistency, <1>1, PTL

\* ByKey and ByName return only entities that the map of their domain shows,
\* and the maps show only those of the device of the latest connection
\* (entities.go:745-757, 771-794, 1227-1249).
THEOREM NoStaleIndex == Spec => []IndexesAgree
<1>1. IInv => IndexesAgree
  BY DEF IInv, Filed
<1> QED
  BY Consistency, <1>1, PTL

\* An application's state handler finds the state of its argument in the
\* registry (client.go:407-410), however many handlers there are.
THEOREM HandlerInformed == Spec => []HandlerSeesState
<1>1. IInv => HandlerSeesState
  BY DEF IInv, Written
<1> QED
  BY Consistency, <1>1, PTL

\* validateEntity (commands.go:378-390) refuses no command whose entity was there
\* from its first look to its second.
THEOREM NoFalseRefusal == Spec => []RefusedForCause
<1>1. IInv => RefusedForCause
  BY DEF IInv, Judged
<1> QED
  BY Consistency, <1>1, PTL

\* A camera's object has every part of its image once and in order, and knows
\* whether it is complete (entities.go:1147-1158), as long as one subscription is
\* registered.
THEOREM WholePictures == Spec => []ImagesWhole
<1>1. IInv => ImagesWhole
  <2> SUFFICES ASSUME IInv, stage = "idle", handlers = 1, NEW k \in Keys,
                      "camera" \in Domains, frames[k].parts # <<>>,
                      maps[<<"camera", k>>] # 0,
                      frames[k].parts[1] > since,
                      frames[k].parts[1] > heap[maps[<<"camera", k>>]].born
               PROVE  /\ heap[maps[<<"camera", k>>]].first = frames[k].parts
                      /\ heap[maps[<<"camera", k>>]].done = frames[k].last
    BY DEF ImagesWhole
  <2>1. <<"camera", k>> \in Slots
    BY DEF Slots
  <2>2. Pictured(k, heap[maps[<<"camera", k>>]])
    BY <2>1 DEF IInv, Imaged
  <2> QED
    BY <2>2 DEF Pictured, Storing, Follows
<1> QED
  BY Consistency, <1>1, PTL

\* A command or a service request that was checked on the connection it is sent
\* on is one that the device knows (commands.go:378-390, services.go:95-101).
THEOREM CheckedFits == Spec => RequestsFit
<1>1. IInv /\ [Next]_vars =>
        [\A a \in Apps :
           LET w == app[a].want IN
           app[a].checked = epoch =>
             /\ app[a].at = "send" /\ app'[a].at = "sent" =>
                  \E e \in device.entities : Slot(e) = Slot(w)
             /\ app[a].at = "execute" /\ app'[a].at = "executed" =>
                  [key |-> w.key, name |-> w.name] \in device.services]_vars
  BY DEF IInv, Judged, Fits
<1> QED
  BY Consistency, <1>1, PTL DEF Spec, RequestsFit

\* A pointer that an application kept from before a Clear or a new listing leads
\* to an entity that is never written again (entities.go:1080-1081, 1227-1249).
THEOREM Detachment == Spec => DetachedStayStill
<1>1. ASSUME IInv, [Next]_vars, NEW o \in 1 .. Len(heap), o \notin Shown, o \notin Shown'
      PROVE  heap'[o] = heap[o]
  <2>0. Typed /\ Written
    BY <1>1 DEF IInv
  <2> USE DEF reg, svcs, link, feed, work
  <2>1. CASE UNCHANGED heap
    BY <2>1
  <2>2. ASSUME NEW e \in device.entities, ListEntity(e) PROVE heap'[o] = heap[o]
    BY <2>0, <2>2, DeviceEntities, Allocation DEF ListEntity
  <2>3. CASE WriteFirst
    <3>1. Found # 0 /\ Found \in Shown
      BY <2>0, <2>3 DEF WriteFirst, Found, Shown, Typed, Entities, Slot, Slots
    <3> QED
      BY <1>1, <2>0, <2>3, <3>1, FirstWritten
  <2>4. CASE WriteSecond
    <3>1. Found = target /\ target # 0
      BY <2>0, <2>4 DEF WriteSecond, Written
    <3>2. target \in Shown
      BY <2>0, <2>4, <3>1 DEF WriteSecond, Found, Shown, Typed, Entities, Slot, Slots
    <3> QED
      BY <1>1, <2>0, <2>4, <3>2, SecondWritten
  <2>5. ASSUME NEW a \in Apps, Application(a) PROVE UNCHANGED heap
    BY <2>0, <2>5, AppFacts
  <2>6. ASSUME NEW s \in device.services, ListService(s) PROVE UNCHANGED heap
    BY <2>6 DEF ListService
  <2>7. ASSUME NEW e \in device.entities, NEW last \in BOOLEAN, Report(e, last)
        PROVE  UNCHANGED heap
    BY <2>7 DEF Report
  <2>8. CASE Drop \/ CallHandler \/ Lose \/ Empty \/ EmptyServices \/ Connect \/ Resubscribe
               \/ Subscribe \/ AppClears \/ UNCHANGED vars
    BY <2>1, <2>8 DEF Drop, CallHandler, Lose, Empty, EmptyServices, Connect, Resubscribe,
       Subscribe, AppClears, vars
  <2> QED
    BY <1>1, <2>1, <2>2, <2>3, <2>4, <2>5, <2>6, <2>7, <2>8 DEF Next, ReadLoop, Reconnect
<1>2. IInv /\ [Next]_vars =>
        [\A o \in 1 .. Len(heap) : o \notin Shown /\ o \notin Shown' => heap'[o] = heap[o]]_vars
  BY <1>1
<1> QED
  BY Consistency, <1>2, PTL DEF Spec, DetachedStayStill

-----------------------------------------------------------------------------
(* The registry implements Table.                                          *)

\* What Table sees of the registry.
Row(s) == IF maps[s] = 0 THEN -1 ELSE heap[maps[s]].second
Rows == [s \in Slots |-> Row(s)]
Latest == [slot |-> IF message.n = 0 THEN "none" ELSE Slot(message.entity),
           n |-> message.n]

\* No entity is listed and no state shown at first.
LEMMA InitTable == Init => T!Init
BY DEF Init, T!Init

LEMMA StepTable ==
  ASSUME IInv, [Next]_vars
  PROVE  [T!Next]_<<Rows, Latest>>
<1>0. /\ Typed /\ Filed /\ Written /\ Len(heap) \in Nat
      /\ maps \in [Slots -> 0 .. Len(heap)]
  BY LenProperties DEF IInv, Typed, TypeOK, Pointers
<1> USE DEF reg, svcs, link, feed, work
<1>1. ASSUME UNCHANGED <<heap, maps, message>> PROVE UNCHANGED <<Rows, Latest>>
  BY <1>1 DEF Rows, Row, Latest
<1>2. ASSUME NEW e \in device.entities, ListEntity(e) PROVE T!List
  <2>1. e \in Entities /\ Slot(e) \in Slots
    BY <1>0, DeviceEntities
  <2>2. /\ heap'[Len(heap) + 1].second = 0
        /\ \A o \in 1 .. Len(heap) : heap'[o] = heap[o]
        /\ maps' = [maps EXCEPT ![Slot(e)] = Len(heap) + 1]
    BY <1>0, <1>2, <2>1, Allocation DEF ListEntity, Fresh
  <2>3. ASSUME NEW s \in Slots PROVE Row(s)' = IF s = Slot(e) THEN 0 ELSE Row(s)
    BY <1>0, <2>1, <2>2 DEF Row
  <2>4. Rows' = [Rows EXCEPT ![Slot(e)] = 0]
    BY <2>3 DEF Rows
  <2>5. Latest' = Latest
    BY <1>2 DEF ListEntity, Latest
  <2> QED
    BY <2>1, <2>4, <2>5 DEF T!List, Rows, Row, Latest
<1>3. ASSUME NEW e \in device.entities, NEW last \in BOOLEAN, Report(e, last) PROVE T!Report
  <2>1. Slot(e) \in Slots
    BY <1>0, DeviceEntities
  <2>2. message.n \in Nat /\ message' = [entity |-> e, n |-> message.n + 1, last |-> last]
    BY <1>0, <1>3 DEF Report, Typed
  <2>3. Latest' = [slot |-> Slot(e), n |-> Latest.n + 1]
    BY <2>2 DEF Latest
  <2>4. Rows' = Rows
    BY <1>3 DEF Report, Rows, Row
  <2> QED
    BY <2>1, <2>3, <2>4 DEF T!Report, Rows, Row, Latest
<1>4. CASE WriteFirst
  <2>1. \A o \in 1 .. Len(heap) : heap'[o].second = heap[o].second
    BY <1>0, <1>4, FirstWritten
  <2>2. ASSUME NEW s \in Slots PROVE Row(s)' = Row(s)
    BY <1>0, <1>4, <2>1 DEF WriteFirst, Row
  <2> QED
    BY <1>4, <2>2 DEF WriteFirst, Rows, Latest
<1>5. CASE WriteSecond
  <2> DEFINE slot == Slot(message.entity)
  <2>1. /\ stage = "half" /\ message.n > 0 /\ message.n \in Nat /\ slot \in Slots
        /\ maps' = maps /\ message' = message
    BY <1>0, <1>5 DEF WriteSecond, Typed, Entities, Slot, Slots
  <2>2. maps[slot] = target /\ target # 0
    BY <1>0, <2>1 DEF Written, Found
  <2>3. /\ heap'[target].second = message.n
        /\ \A o \in 1 .. Len(heap) : o # target => heap'[o] = heap[o]
    BY <1>0, <1>5, SecondWritten
  <2>4. ASSUME NEW s \in Slots PROVE Row(s)' = IF s = slot THEN message.n ELSE Row(s)
    <3>1. CASE s = slot
      BY <2>1, <2>2, <2>3, <3>1 DEF Row
    <3>2. CASE s # slot
      <4>1. maps[s] # target
        BY <1>0, <2>1, <2>2, <3>2, OneSlotEach
      <4> QED
        BY <1>0, <2>1, <2>3, <3>2, <4>1 DEF Row
    <3> QED
      BY <3>1, <3>2
  <2>5. Rows' = [Rows EXCEPT ![slot] = message.n]
    BY <2>4 DEF Rows
  <2>6. Row(slot) # -1
    <3>1. heap[target] \in Objects
      BY <1>0, <1>5, SecondWritten, ElementOfSeq DEF Typed
    <3>2. heap[target].second \in Nat
      BY <3>1 DEF Objects
    <3> QED
      BY <2>2, <3>2 DEF Row
  <2>7. Latest' = Latest /\ Latest.n = message.n /\ Latest.slot = slot
    BY <2>1 DEF Latest
  <2>8. T!Store
    BY <2>1, <2>5, <2>6, <2>7 DEF T!Store, Rows, Row, Latest
  <2> QED
    BY <2>8 DEF T!Next
<1>6. CASE Empty \/ AppClears
  <2>1. (\A s \in Slots : maps'[s] = 0) /\ message' = message
    BY <1>6 DEF Empty, AppClears, ClearEntities
  <2>2. T!Clear
    BY <2>1 DEF T!Clear, Rows, Row, Latest
  <2> QED
    BY <2>2 DEF T!Next
<1>7. ASSUME NEW a \in Apps, Application(a) PROVE UNCHANGED <<Rows, Latest>>
  BY <1>0, <1>1, <1>7, AppFacts
<1>8. ASSUME NEW s \in device.services, ListService(s) PROVE UNCHANGED <<Rows, Latest>>
  BY <1>1, <1>8 DEF ListService
<1>9. CASE Drop \/ CallHandler \/ Lose \/ EmptyServices \/ Connect \/ Resubscribe \/ Subscribe
             \/ UNCHANGED vars
  BY <1>1, <1>9 DEF Drop, CallHandler, Lose, EmptyServices, Connect, Resubscribe, Subscribe, vars
<1> QED
  BY <1>2, <1>3, <1>4, <1>5, <1>6, <1>7, <1>8, <1>9 DEF Next, ReadLoop, Reconnect, T!Next

\* The maps and objects together are a Table: each row has the last state of its
\* own entity (entities.go:771-1225).
THEOREM TableRefinement == Spec => ImplementsTable
<1>1. IInv /\ [Next]_vars => [T!Next]_T!vars
  BY StepTable DEF T!vars, Rows, Row, Latest
<1> QED
  BY Consistency, InitTable, <1>1, PTL DEF Spec, ImplementsTable, T!Spec

===============================================================================

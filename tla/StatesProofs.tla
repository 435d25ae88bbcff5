----------------------------- MODULE StatesProofs -----------------------------
(***************************************************************************)
(* Proofs about States, for any applications, entities, values and number  *)
(* of connections.                                                         *)
(***************************************************************************)
EXTENDS States, TLAPS

-----------------------------------------------------------------------------
(* Subscribers.                                                            *)

\* An application is not a reconnectLoop, and the loop of the present
\* connection is a subscriber.
LEMMA Kinds ==
  /\ \A k \in Epochs : k \in Subscribers /\ k \notin Apps
  /\ \A a \in Apps : a \in Subscribers /\ a \notin Epochs
  /\ 1 \in Epochs
BY StatesAssumption DEF Epochs, Subscribers

\* A subscriber that is past the save has an application's handler.
LEMMA HandlerIsApps ==
  ASSUME TypeOK, Ordered, NEW x \in Subscribers, pc[x] \in Active
  PROVE  HandlerOf(x) \in Apps
BY DEF Ordered, HandlerOf, Subscribers

\* A reconnectLoop that subscribes belongs to a connection that was made.
LEMMA ActiveIsBorn ==
  ASSUME TypeOK, Ordered, NEW k \in Epochs, pc[k] # "idle"
  PROVE  k <= epoch
BY DEF TypeOK, Ordered, Epochs

-----------------------------------------------------------------------------
(* The steps of ListEntities.                                              *)

LEMMA AppListsKeeps ==
  ASSUME IInv, NEW a \in Apps, AppLists(a) \/ AppListed(a)
  PROVE  IInv'
<1>1. UNCHANGED <<epoch, phase, table, feeding, owed, read, subs, saved, resumes, pc>>
  BY DEF AppLists, AppListed, device
<1>2. UNCHANGED <<cache, message, pending, latest>>
  BY <1>1 DEF read
<1>3. iter' \in {iter, table} /\ (phase # "up" => iter' = iter)
  BY DEF AppLists, AppListed, RequestList, device
<1>4. listing' \in {listing \cup {a}, listing \ {a}}
  BY DEF AppLists, AppListed, RequestList
<1>5. TypeOK'
  BY <1>1, <1>2, <1>3, <1>4, Kinds DEF IInv, TypeOK
<1>6. Ordered' /\ Cached'
  BY <1>1, <1>2, <1>3 DEF IInv, Ordered, Cached
<1>7. Held'
  BY <1>1 DEF IInv, Held, Holds, HandlerOf, Sub, Resuming
<1> QED
  BY <1>5, <1>6, <1>7 DEF IInv

LEMMA ReadEntityKeeps ==
  ASSUME IInv, NEW e \in Entities, ReadEntity(e)
  PROVE  IInv'
<1>1. UNCHANGED <<epoch, phase, table, feeding, owed, message, pending, latest,
                  subs, saved, resumes, listing, pc>>
  BY DEF ReadEntity, local
<1>2. /\ phase = "up" /\ pending = {} /\ e \in iter /\ iter' = iter \ {e}
      /\ cache' = cache \/ cache' = [cache EXCEPT ![e] = "none"]
  BY DEF ReadEntity
<1>3. TypeOK'
  BY <1>1, <1>2 DEF IInv, TypeOK
<1>4. Ordered'
  BY <1>1, <1>2 DEF IInv, Ordered
<1>5. Cached'
  <2>1. e \in table /\ cache \in [Entities -> {"absent", "none"} \cup Values]
    BY <1>2 DEF IInv, TypeOK
  <2> QED
    BY <1>1, <1>2, <2>1 DEF IInv, Cached
<1>6. Held'
  BY <1>1 DEF IInv, Held, Holds, HandlerOf, Sub, Resuming
<1> QED
  BY <1>3, <1>4, <1>5, <1>6 DEF IInv

-----------------------------------------------------------------------------
(* The steps of SubscribeStates.                                           *)

\* What a subscriber does leaves the registry and, but for a request of
\* states, the device alone.
LEMMA SubscriberCaches ==
  ASSUME IInv,
         UNCHANGED <<epoch, phase, table, iter, cache, message, pending, latest,
                     listing>>,
         \/ UNCHANGED <<feeding, owed>>
         \/ phase = "up" /\ feeding' = TRUE /\ owed' = table
  PROVE  /\ Cached'
         /\ phase # "up" => iter' = {} /\ owed' = {} /\ ~feeding'
         /\ feeding' \in BOOLEAN /\ owed' \subseteq table'
<1>1. Cached'
  BY DEF IInv, Cached
<1>2. phase # "up" => iter' = {} /\ owed' = {} /\ ~feeding'
  BY DEF IInv, Ordered
<1>3. feeding' \in BOOLEAN /\ owed' \subseteq table'
  BY DEF IInv, TypeOK
<1> QED
  BY <1>1, <1>2, <1>3

\* A subscriber that goes on, with its handler, in the order of the code.
LEMMA SubscriberOrdered ==
  ASSUME TypeOK, Ordered, NEW x \in Subscribers, NEW s \in PcState,
         pc' = [pc EXCEPT ![x] = s], pc[x] # "idle" \/ x \in Apps,
         x \in Epochs /\ s \in Active => resumes'[x] \in Apps,
         \A k \in Epochs : k # x => resumes'[k] = resumes[k],
         epoch' = epoch
  PROVE  /\ pc' \in [Subscribers -> PcState]
         /\ \A k \in Epochs : k > epoch' => pc'[k] = "idle"
         /\ \A k \in Epochs : pc'[k] \in Active => resumes'[k] \in Apps
<1>1. pc \in [Subscribers -> PcState]
  BY DEF TypeOK
<1>2. pc' \in [Subscribers -> PcState]
  BY <1>1
<1>3. ASSUME NEW k \in Epochs, k > epoch' PROVE pc'[k] = "idle"
  <2>1. pc[k] = "idle" /\ k \notin Apps
    BY <1>3, Kinds DEF Ordered
  <2> QED
    BY <1>1, <2>1
<1>4. ASSUME NEW k \in Epochs, pc'[k] \in Active PROVE resumes'[k] \in Apps
  <2>1. CASE k = x
    BY <1>1, <1>4, <2>1
  <2>2. CASE k # x
    BY <1>1, <1>4, <2>2, Kinds DEF Ordered
  <2> QED
    BY <2>1, <2>2
<1> QED
  BY <1>2, <1>3, <1>4

\* What a subscriber holds, it holds while others go on.
LEMMA HoldsOn ==
  ASSUME NEW x, Holds(x), pc'[x] = pc[x], HandlerOf(x)' = HandlerOf(x),
         saved' = saved, Sub(x) \in subs => Sub(x) \in subs',
         phase' = "up" => phase = "up" /\ (feeding => feeding')
                            /\ (Resuming => Resuming' \/ feeding')
  PROVE  Holds(x)'
<1>1. Sub(x)' = Sub(x)
  BY DEF Sub
<1> QED
  BY <1>1 DEF Holds

\* The steps of one subscriber that do not depend on who it is.
LEMMA SubscribeKeeps ==
  ASSUME IInv, NEW x \in Subscribers,
         Save(x) \/ Register(x) \/ Send(x) \/ SendFails(x) \/ Forget(x) \/ Remove(x)
  PROVE  IInv'
<1>0. /\ TypeOK /\ Ordered /\ Cached /\ Held
      /\ pc \in [Subscribers -> PcState]
      /\ epoch \in Epochs /\ epoch \in Subscribers /\ epoch \notin Apps
  BY Kinds DEF IInv, TypeOK
<1>1. /\ UNCHANGED <<epoch, phase, table, iter, cache, message, pending, latest,
                     resumes, listing>>
      /\ \/ UNCHANGED <<feeding, owed>>
         \/ phase = "up" /\ feeding' = TRUE /\ owed' = table
  BY DEF Save, Register, Send, SendFails, Forget, Remove, device, read
<1>2. PICK s \in {"register", "send", "held", "forget", "remove", "idle", "over"} :
        /\ pc' = [pc EXCEPT ![x] = s]
        /\ s = "idle" => x \in Apps
  BY DEF Save, Register, Send, SendFails, Forget, Remove
<1>3. pc[x] \in Active
  BY DEF Save, Register, Send, SendFails, Forget, Remove, Active
<1>4. HandlerOf(x) \in Apps
  BY <1>0, <1>3, HandlerIsApps
<1>5. \A y : HandlerOf(y)' = HandlerOf(y) /\ Sub(y)' = Sub(y)
  BY <1>1 DEF HandlerOf, Sub
<1>6. /\ Cached'
      /\ phase # "up" => iter' = {} /\ owed' = {} /\ ~feeding'
      /\ feeding' \in BOOLEAN /\ owed' \subseteq table'
  BY <1>1, SubscriberCaches
<1>7. /\ pc' \in [Subscribers -> PcState]
      /\ \A k \in Epochs : k > epoch' => pc'[k] = "idle"
      /\ \A k \in Epochs : pc'[k] \in Active => resumes'[k] \in Apps
  <2>1. s \in PcState /\ pc[x] # "idle"
    BY <1>3 DEF PcState, Active
  <2>2. x \in Epochs => resumes'[x] \in Apps
    BY <1>0, <1>1, <1>3 DEF Ordered
  <2> QED
    BY <1>0, <1>1, <1>2, <2>1, <2>2, SubscriberOrdered
<1>8. Ordered'
  BY <1>0, <1>1, <1>6, <1>7 DEF Ordered
<1>9. saved' \in Apps \cup {"nil"}
  BY <1>0, <1>4 DEF TypeOK, Save, Register, Send, SendFails, Forget, Remove
<1>10. \A t \in subs' \cup pending' : t.by \in Subscribers /\ t.handler \in Apps
  <2>1. Sub(x).by \in Subscribers /\ Sub(x).handler \in Apps
    BY <1>4 DEF Sub
  <2>2. subs' \subseteq subs \cup {Sub(x)}
    BY DEF Save, Register, Send, SendFails, Forget, Remove
  <2> QED
    BY <1>0, <1>1, <2>1, <2>2 DEF TypeOK
<1>11. TypeOK'
  BY <1>0, <1>1, <1>6, <1>7, <1>9, <1>10 DEF TypeOK
<1>12. feeding => feeding'
  BY <1>1
<1>13. phase = "up" => pc'[epoch] \notin {"forget", "remove"}
  BY <1>0 DEF Save, Register, Send, SendFails, Forget, Remove, WriteFails, Held
<1>14. phase = "up" /\ pc'[epoch] = "held" => feeding'
  BY <1>0, <1>1, <1>12 DEF Save, Register, Send, SendFails, Forget, Remove, Held
<1>15. phase = "up" /\ Resuming => Resuming' \/ feeding'
  BY <1>0, <1>1, <1>12, <1>14
     DEF Save, Register, Send, SendFails, Forget, Remove, Resuming, WriteFails
<1>16. ASSUME saved' # "nil" PROVE \E y \in Subscribers : Holds(y)'
  <2>1. CASE Save(x)
    <3>1. pc'[x] = "register" /\ saved' = HandlerOf(x)
      BY <1>0, <2>1 DEF Save
    <3>2. Holds(x)'
      BY <1>5, <3>1 DEF Holds
    <3> QED
      BY <3>2
  <2>2. CASE Forget(x)
    BY <1>16, <2>2 DEF Forget
  <2>3. CASE Register(x) \/ Send(x) \/ SendFails(x) \/ Remove(x)
    <3>1. saved' = saved
      BY <2>3 DEF Register, Send, SendFails, Remove
    <3>2. PICK y \in Subscribers : Holds(y)
      BY <1>0, <1>16, <3>1 DEF Held
    <3>3. CASE y # x
      <4>1. pc'[y] = pc[y]
        BY <1>0, <1>2, <3>3
      <4>2. Sub(y) \in subs => Sub(y) \in subs'
        BY <2>3, <3>3 DEF Register, Send, SendFails, Remove, Sub
      <4>3. Holds(y)'
        BY <1>1, <1>5, <1>12, <1>15, <3>1, <3>2, <4>1, <4>2, HoldsOn
      <4> QED
        BY <4>3
    <3>4. CASE y = x
      <4>1. CASE Register(x)
        <5>1. pc'[x] = "send" /\ Sub(x) \in subs'
          BY <1>0, <4>1 DEF Register
        <5>2. Holds(x)'
          BY <1>5, <3>1, <3>2, <3>4, <5>1 DEF Holds
        <5> QED
          BY <5>2
      <4>2. CASE Send(x)
        <5>1. /\ pc[x] = "send" /\ pc'[x] = "held" /\ subs' = subs
              /\ phase = "up" => feeding'
          BY <1>0, <4>2 DEF Send
        <5>2. Holds(x)'
          BY <1>1, <1>5, <3>1, <3>2, <3>4, <5>1 DEF Holds
        <5> QED
          BY <5>2
      <4>3. CASE SendFails(x)
        <5>1. pc[x] = "send" /\ pc'[x] = "forget" /\ subs' = subs
          BY <1>0, <4>3 DEF SendFails
        <5>2. Holds(x)'
          BY <1>5, <3>1, <3>2, <3>4, <5>1 DEF Holds
        <5> QED
          BY <5>2
      <4>4. CASE Remove(x)
        BY <3>2, <3>4, <4>4 DEF Remove, Holds
      <4> QED
        BY <2>3, <4>1, <4>2, <4>3, <4>4
    <3> QED
      BY <3>3, <3>4
  <2> QED
    BY <2>1, <2>2, <2>3
<1>17. Held'
  BY <1>1, <1>13, <1>14, <1>16 DEF Held
<1> QED
  BY <1>6, <1>8, <1>11, <1>17 DEF IInv

\* An application subscribes, or calls its unsubscribe function.
LEMMA AppKeeps ==
  ASSUME IInv, NEW a \in Apps, AppSubscribes(a) \/ Unsubscribe(a)
  PROVE  IInv'
<1>0. /\ TypeOK /\ Ordered /\ Cached /\ Held
      /\ pc \in [Subscribers -> PcState]
      /\ epoch \in Epochs /\ epoch \in Subscribers /\ epoch \notin Apps
      /\ a \in Subscribers /\ a \notin Epochs
  BY Kinds DEF IInv, TypeOK
<1>1. UNCHANGED <<epoch, phase, table, iter, feeding, owed, cache, message,
                  pending, latest, resumes, listing, subs, saved>>
  BY DEF AppSubscribes, Unsubscribe, device, read
<1>2. \/ pc[a] = "idle" /\ pc' = [pc EXCEPT ![a] = "save"]
      \/ pc[a] = "held" /\ pc' = [pc EXCEPT ![a] = "forget"]
  BY DEF AppSubscribes, Unsubscribe
<1>3. Cached'
  BY <1>1, SubscriberCaches
<1>4. /\ pc' \in [Subscribers -> PcState]
      /\ \A k \in Epochs : k > epoch' => pc'[k] = "idle"
      /\ \A k \in Epochs : pc'[k] \in Active => resumes'[k] \in Apps
  <2>1. \E s \in PcState : pc' = [pc EXCEPT ![a] = s]
    BY <1>2 DEF PcState
  <2> QED
    BY <1>0, <1>1, <2>1, SubscriberOrdered
<1>5. TypeOK' /\ Ordered'
  BY <1>0, <1>1, <1>4 DEF TypeOK, Ordered
<1>6. pc'[epoch] = pc[epoch]
  BY <1>0, <1>2
<1>7. ASSUME saved' # "nil" PROVE \E y \in Subscribers : Holds(y)'
  <2>1. PICK y \in Subscribers : Holds(y)
    BY <1>0, <1>1, <1>7 DEF Held
  <2>2. HandlerOf(y)' = HandlerOf(y) /\ Sub(y)' = Sub(y) /\ Resuming' = Resuming
    BY <1>1, <1>6 DEF HandlerOf, Sub, Resuming
  <2>3. CASE y # a
    <3>1. pc'[y] = pc[y]
      BY <1>0, <1>2, <2>3
    <3> QED
      BY <1>1, <2>1, <2>2, <3>1 DEF Holds
  <2>4. CASE y = a
    <3>1. pc[a] = "held" /\ pc'[a] = "forget"
      BY <1>0, <1>2, <2>1, <2>4 DEF Holds
    <3>2. Holds(y)'
      BY <1>1, <2>1, <2>2, <2>4, <3>1 DEF Holds
    <3> QED
      BY <3>2
  <2> QED
    BY <2>3, <2>4
<1>8. Held'
  BY <1>0, <1>1, <1>6, <1>7 DEF Held
<1> QED
  BY <1>3, <1>5, <1>8 DEF IInv

-----------------------------------------------------------------------------
(* State messages.                                                         *)

\* Steps that touch no subscription leave what is held as it is.
LEMMA HeldStays ==
  ASSUME IInv, UNCHANGED <<epoch, phase, subs, saved, resumes, pc>>,
         feeding' = feeding
  PROVE  Held'
BY DEF IInv, Held, Holds, HandlerOf, Sub, Resuming

LEMMA ReadStateKeeps ==
  ASSUME IInv, NEW e \in Entities, NEW v \in Values, ReadState(e, v)
  PROVE  IInv'
<1>1. UNCHANGED <<epoch, phase, table, iter, feeding, cache, subs, saved,
                  resumes, listing, pc>>
  BY DEF ReadState, local
<1>2. /\ phase = "up" /\ pending = {} /\ owed' = owed \ {e}
      /\ message' = [entity |-> e, value |-> v] /\ pending' = subs
      /\ latest' = IF subs # {} THEN [latest EXCEPT ![e] = v] ELSE latest
  BY DEF ReadState
<1>3. latest \in [Entities -> {"none"} \cup Values]
  BY DEF IInv, TypeOK
<1>4. TypeOK'
  BY <1>1, <1>2 DEF IInv, TypeOK
<1>5. Ordered'
  BY <1>1, <1>2 DEF IInv, Ordered
<1>6. Cached'
  <2>1. pending' # {} => latest'[message'.entity] = message'.value
    BY <1>2, <1>3
  <2>2. ASSUME NEW f \in Entities, pending' = {} \/ f # message'.entity
        PROVE  cache'[f] \in {"absent", "none", latest'[f]}
    <3>1. latest'[f] = latest[f]
      BY <1>2, <1>3, <2>2
    <3> QED
      BY <1>1, <1>2, <3>1 DEF IInv, Cached
  <2> QED
    BY <1>1, <2>1, <2>2 DEF IInv, Cached
<1> QED
  BY <1>1, <1>4, <1>5, <1>6, HeldStays DEF IInv

LEMMA HandleStateKeeps ==
  ASSUME IInv, NEW s \in pending, HandleState(s)
  PROVE  IInv'
<1>1. UNCHANGED <<epoch, phase, table, iter, feeding, owed, message, latest,
                  subs, saved, resumes, listing, pc>>
  BY DEF HandleState, device, local
<1>2. /\ pending' = pending \ {s} /\ pending # {}
      /\ cache' = IF cache[message.entity] = "absent" THEN cache
                  ELSE [cache EXCEPT ![message.entity] = message.value]
  BY DEF HandleState
<1>3. /\ message.entity \in Entities /\ message.value \in Values
      /\ cache \in [Entities -> {"absent", "none"} \cup Values]
      /\ latest[message.entity] = message.value
      /\ "absent" \notin Values
  BY <1>2, StatesAssumption DEF IInv, TypeOK, Cached
<1>4. TypeOK'
  BY <1>1, <1>2, <1>3 DEF IInv, TypeOK
<1>5. Ordered'
  BY <1>1, <1>2 DEF IInv, Ordered
<1>6. Cached'
  <2>1. ASSUME NEW f \in Entities
        PROVE  /\ cache'[f] # "absent" => cache[f] # "absent"
               /\ cache'[f] \in {"absent", "none", latest[f]}
    <3>1. CASE f = message.entity
      BY <1>2, <1>3, <3>1
    <3>2. CASE f # message.entity
      BY <1>2, <1>3, <3>2 DEF IInv, Cached
    <3> QED
      BY <3>1, <3>2
  <2> QED
    BY <1>1, <1>3, <2>1 DEF IInv, Cached
<1> QED
  BY <1>1, <1>4, <1>5, <1>6, HeldStays DEF IInv

LEMMA ChangeKeeps ==
  ASSUME IInv, NEW e \in Entities, Change(e)
  PROVE  IInv'
<1>1. UNCHANGED <<epoch, phase, table, iter, feeding, cache, message, pending,
                  latest, subs, saved, resumes, listing, pc>>
  BY DEF Change, read, local
<1>2. phase = "up" /\ e \in table /\ owed' = owed \cup {e}
  BY DEF Change
<1>3. TypeOK' /\ Ordered'
  BY <1>1, <1>2 DEF IInv, TypeOK, Ordered
<1>4. Cached'
  BY <1>1 DEF IInv, Cached
<1> QED
  BY <1>1, <1>3, <1>4, HeldStays DEF IInv

-----------------------------------------------------------------------------
(* The connection is lost and made again.                                  *)

LEMMA LoseKeeps ==
  ASSUME IInv, Lose
  PROVE  IInv'
<1>1. UNCHANGED <<epoch, table, cache, message, pending, latest, subs, saved,
                  resumes, listing, pc>>
  BY DEF Lose, read, local
<1>2. /\ phase = "up" /\ phase' = "down" /\ iter' = {} /\ owed' = {}
      /\ feeding' = FALSE
  BY DEF Lose
<1>3. TypeOK' /\ Ordered' /\ Cached'
  BY <1>1, <1>2 DEF IInv, TypeOK, Ordered, Cached
<1>4. Held'
  BY <1>1, <1>2 DEF IInv, Held, Holds, HandlerOf, Sub
<1> QED
  BY <1>3, <1>4 DEF IInv

LEMMA ClearKeeps ==
  ASSUME IInv, Clear
  PROVE  IInv'
<1>1. UNCHANGED <<epoch, table, iter, feeding, owed, message, pending, subs,
                  saved, resumes, listing, pc>>
  BY DEF Clear, local
<1>2. /\ phase = "down" /\ pending = {} /\ phase' = "cleared"
      /\ cache' = [e \in Entities |-> "absent"]
      /\ latest' = [e \in Entities |-> "none"]
  BY DEF Clear
<1>3. TypeOK' /\ Ordered' /\ Cached'
  BY <1>1, <1>2 DEF IInv, TypeOK, Ordered, Cached
<1>4. Held'
  BY <1>1, <1>2 DEF IInv, Held, Holds, HandlerOf, Sub
<1> QED
  BY <1>3, <1>4 DEF IInv

\* The loop of the new connection has everything still to do.
LEMMA ConnectKeeps ==
  ASSUME IInv, Connect
  PROVE  IInv'
<1>1. UNCHANGED <<iter, feeding, owed, cache, message, pending, latest, subs,
                  saved, resumes, listing>>
  BY DEF Connect, read
<1>2. /\ phase = "cleared" /\ epoch < MaxEpochs /\ epoch' = epoch + 1
      /\ phase' = "up" /\ table' \subseteq Entities
      /\ pc' = [pc EXCEPT ![epoch + 1] = "list"]
  BY DEF Connect
<1>3. /\ epoch \in Epochs /\ epoch + 1 \in Epochs /\ epoch + 1 \in Subscribers
      /\ pc \in [Subscribers -> PcState] /\ pc[epoch + 1] = "idle"
  <2>1. epoch \in Epochs
    BY DEF IInv, TypeOK
  <2>2. epoch + 1 \in Epochs /\ epoch + 1 > epoch
    BY <1>2, <2>1, StatesAssumption DEF Epochs
  <2> QED
    BY <2>1, <2>2, Kinds DEF IInv, TypeOK, Ordered
<1>4. TypeOK'
  <2>1. pc' \in [Subscribers -> PcState]
    BY <1>2, <1>3 DEF PcState
  <2>2. iter' \subseteq table' /\ owed' \subseteq table'
    BY <1>1, <1>2 DEF IInv, Ordered
  <2> QED
    BY <1>1, <1>2, <1>3, <2>1, <2>2 DEF IInv, TypeOK
<1>5. Ordered'
  <2>1. ASSUME NEW k \in Epochs, k > epoch' PROVE pc'[k] = "idle"
    <3>1. k > epoch /\ k # epoch + 1
      BY <1>2, <1>3, <2>1 DEF Epochs
    <3> QED
      BY <1>2, <1>3, <3>1, Kinds DEF IInv, Ordered
  <2>2. ASSUME NEW k \in Epochs, pc'[k] \in Active PROVE resumes'[k] \in Apps
    <3>1. pc[k] \in Active
      BY <1>2, <1>3, <2>2, Kinds DEF Active
    <3> QED
      BY <1>1, <3>1 DEF IInv, Ordered
  <2> QED
    BY <1>2, <2>1, <2>2 DEF Ordered
<1>6. Cached'
  BY <1>1, <1>2 DEF IInv, Cached
<1>7. Held'
  <2>1. pc'[epoch'] = "list" /\ Resuming'
    BY <1>2, <1>3 DEF Resuming
  <2>2. ASSUME saved' # "nil" PROVE \E y \in Subscribers : Holds(y)'
    <3>1. PICK y \in Subscribers : Holds(y)
      BY <1>1, <2>2 DEF IInv, Held
    <3>2. pc'[y] = pc[y]
      BY <1>2, <1>3, <3>1 DEF Holds
    <3>3. HandlerOf(y)' = HandlerOf(y) /\ Sub(y)' = Sub(y)
      BY <1>1 DEF HandlerOf, Sub
    <3>4. Holds(y)'
      BY <1>1, <2>1, <3>1, <3>2, <3>3 DEF Holds
    <3> QED
      BY <3>4
  <2> QED
    BY <2>1, <2>2 DEF Held
<1> QED
  BY <1>4, <1>5, <1>6, <1>7 DEF IInv

\* reconnectLoop lists the entities and looks for a saved handler.
LEMMA LoopKeeps ==
  ASSUME IInv, NEW k \in Epochs, Relist(k) \/ Relisted(k) \/ Reload(k)
  PROVE  IInv'
<1>0. /\ TypeOK /\ Ordered /\ Cached /\ Held
      /\ pc \in [Subscribers -> PcState]
      /\ resumes \in [Epochs -> Apps \cup {"nil"}]
      /\ epoch \in Epochs /\ epoch \in Subscribers /\ epoch \notin Apps
      /\ k \in Subscribers /\ k \notin Apps
  BY Kinds DEF IInv, TypeOK
<1>1. UNCHANGED <<epoch, phase, table, feeding, owed, cache, message, pending,
                  latest, subs, saved>>
  BY DEF Relist, Relisted, Reload, device, read
<1>2. iter' \in {iter, table} /\ (phase # "up" => iter' = iter)
  BY DEF Relist, Relisted, Reload, RequestList, device
<1>3. listing' \in {listing, listing \cup {k}, listing \ {k}}
  BY DEF Relist, Relisted, Reload, RequestList
<1>4. PICK s \in {"listing", "reload", "over", "save"} :
        /\ pc' = [pc EXCEPT ![k] = s]
        /\ s = "over" => saved = "nil"
        /\ s = "save" => saved # "nil" /\ resumes' = [resumes EXCEPT ![k] = saved]
  BY DEF Relist, Relisted, Reload
<1>5. pc[k] \in {"list", "listing", "reload"}
  BY DEF Relist, Relisted, Reload
<1>6. resumes' \in {resumes, [resumes EXCEPT ![k] = saved]}
  BY DEF Relist, Relisted, Reload
<1>7. saved \in Apps \cup {"nil"}
  BY <1>0 DEF TypeOK
<1>8. /\ pc' \in [Subscribers -> PcState]
      /\ \A n \in Epochs : n > epoch' => pc'[n] = "idle"
      /\ \A n \in Epochs : pc'[n] \in Active => resumes'[n] \in Apps
  <2>1. s \in PcState /\ (s \in Active => s = "save")
    BY DEF PcState, Active
  <2>2. s \in Active => resumes'[k] \in Apps
    BY <1>0, <1>4, <1>7, <2>1
  <2>3. \A n \in Epochs : n # k => resumes'[n] = resumes[n]
    BY <1>0, <1>6
  <2> QED
    BY <1>0, <1>1, <1>4, <1>5, <2>1, <2>2, <2>3, SubscriberOrdered
<1>9. TypeOK'
  <2>1. resumes' \in [Epochs -> Apps \cup {"nil"}]
    BY <1>0, <1>6, <1>7
  <2> QED
    BY <1>0, <1>1, <1>2, <1>3, <1>8, <2>1 DEF TypeOK
<1>10. Ordered' /\ Cached'
  BY <1>0, <1>1, <1>2, <1>8 DEF Ordered, Cached
<1>11. Held'
  <2>1. pc'[epoch] = pc[epoch] \/ (epoch = k /\ pc'[epoch] = s)
    BY <1>0, <1>4
  <2>2. phase = "up" => pc'[epoch] \notin {"forget", "remove"}
    BY <1>0, <2>1 DEF Held
  <2>3. phase = "up" /\ pc'[epoch] = "held" => feeding
    BY <1>0, <2>1 DEF Held
  <2>4. ASSUME saved # "nil" PROVE \E y \in Subscribers : Holds(y)'
    <3>1. PICK y \in Subscribers : Holds(y)
      BY <1>0, <2>4 DEF Held
    <3>2. y # k /\ pc'[y] = pc[y]
      BY <1>0, <1>4, <1>5, <3>1 DEF Holds
    <3>3. HandlerOf(y)' = HandlerOf(y) /\ Sub(y)' = Sub(y)
      BY <1>0, <1>6, <3>2 DEF HandlerOf, Sub, Subscribers
    <3>4. Resuming => Resuming'
      BY <1>1, <1>4, <2>1, <2>4 DEF Resuming
    <3>5. Holds(y)'
      BY <1>1, <3>1, <3>2, <3>3, <3>4 DEF Holds
    <3> QED
      BY <3>5
  <2> QED
    BY <1>1, <2>2, <2>3, <2>4 DEF Held
<1> QED
  BY <1>9, <1>10, <1>11 DEF IInv

-----------------------------------------------------------------------------
(* The theorems.                                                           *)

LEMMA InitIInv == Init => IInv
<1> SUFFICES ASSUME Init PROVE IInv
  OBVIOUS
<1>1. TypeOK
  BY Kinds DEF Init, TypeOK, PcState
<1>2. Ordered
  BY Kinds DEF Init, Ordered, Active
<1>3. Cached
  BY DEF Init, Cached
<1>4. Held
  BY Kinds DEF Init, Held
<1> QED
  BY <1>1, <1>2, <1>3, <1>4 DEF IInv

LEMMA NextKeepsIInv == IInv /\ [Next]_vars => IInv'
<1> SUFFICES ASSUME IInv, [Next]_vars PROVE IInv'
  OBVIOUS
<1>1. CASE \E a \in Apps : AppLists(a) \/ AppListed(a)
  BY <1>1, AppListsKeeps
<1>2. CASE \E a \in Apps : AppSubscribes(a) \/ Unsubscribe(a)
  BY <1>2, AppKeeps
<1>3. CASE \E x \in Subscribers : SubscribeStep(x)
  BY <1>3, SubscribeKeeps DEF SubscribeStep
<1>4. CASE \E e \in Entities : ReadEntity(e) \/ Change(e)
  BY <1>4, ReadEntityKeeps, ChangeKeeps
<1>5. CASE \E e \in Entities, v \in Values : ReadState(e, v)
  BY <1>5, ReadStateKeeps
<1>6. CASE \E s \in pending : HandleState(s)
  BY <1>6, HandleStateKeeps
<1>7. CASE Lose \/ Clear \/ Connect
  BY <1>7, LoseKeeps, ClearKeeps, ConnectKeeps
<1>8. CASE \E k \in Epochs : Relist(k) \/ Relisted(k) \/ Reload(k)
  BY <1>8, LoopKeeps
<1>9. CASE UNCHANGED vars
  <2>1. UNCHANGED <<epoch, phase, table, iter, feeding, owed, cache, message,
                    pending, latest, subs, saved, resumes, listing, pc>>
    BY <1>9 DEF vars, device, read, local
  <2>2. TypeOK' /\ Ordered' /\ Cached'
    BY <2>1 DEF IInv, TypeOK, Ordered, Cached
  <2> QED
    BY <2>1, <2>2, HeldStays DEF IInv
<1> QED
  BY <1>1, <1>2, <1>3, <1>4, <1>5, <1>6, <1>7, <1>8, <1>9 DEF Next

\* The inductive invariant: whoever has saved the handler keeps it registered,
\* and the device sends states or is about to be asked for them.
THEOREM Continuity == Spec => []IInv
<1>1. Init => IInv
  BY InitIInv
<1>2. IInv /\ [Next]_vars => IInv'
  BY NextKeepsIInv
<1> QED
  BY <1>1, <1>2, PTL DEF Spec

\* Every variable keeps its type.
THEOREM StatesTypeCorrect == Spec => []TypeOK
<1>1. IInv => TypeOK
  BY DEF IInv
<1> QED
  BY <1>1, Continuity, PTL

\* What the registry shows is of the present device, and is its latest state.
THEOREM NothingStale == Spec => []CacheCurrent
<1>1. IInv => CacheCurrent
  BY DEF IInv, Cached, CacheCurrent, NoGhost
<1> QED
  BY <1>1, Continuity, PTL

\* While a handler is saved, it is registered, and the device has been asked
\* for states on the present connection.
THEOREM SubscriptionKept == Spec => []SavedIsSubscribed
<1>1. IInv => SavedIsSubscribed
  <2> SUFFICES ASSUME IInv, Settled, phase = "up", saved # "nil"
               PROVE  feeding /\ \E s \in subs : s.handler = saved
    BY DEF SavedIsSubscribed
  <2>1. PICK x \in Subscribers : Holds(x)
    BY DEF IInv, Held
  <2>2. epoch \in Subscribers
    BY Kinds DEF IInv, TypeOK
  <2>3. pc[x] = "held" /\ ~Resuming
    BY <2>1, <2>2 DEF Settled, Holds, Resuming
  <2>4. Sub(x) \in subs /\ Sub(x).handler = saved
    BY <2>1, <2>3 DEF Holds, Sub
  <2> QED
    BY <2>1, <2>3, <2>4 DEF Holds
<1> QED
  BY <1>1, Continuity, PTL

=============================================================================

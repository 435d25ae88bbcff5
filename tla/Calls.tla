-------------------------------- MODULE Calls --------------------------------
(***************************************************************************)
(* The calls that register handlers with the Router, write a request and   *)
(* wait: requestResponse (BluetoothConnect and BluetoothDisconnect stand   *)
(* for its users), ListEntities and the GATT calls; those that subscribe   *)
(* to what the device goes on sending: logs, advertisements, free slots,   *)
(* GATT notifications; and the read loop, whose Dispatch runs their        *)
(* handlers one after the other, on one connection after another.          *)
(*                                                                         *)
(* A peer stands for a Bluetooth address and the one handle read or        *)
(* written there.  A reconnectLoop that has reconnected lists the entities *)
(* like an application: it is a caller, named by the number of its         *)
(* connection.  The subscription to states that follows is in States.      *)
(***************************************************************************)
EXTENDS Integers, Sequences, FiniteSetsExt

CONSTANTS
  Apps,         \* application goroutines that make calls
  Peers,        \* Bluetooth peers
  MaxCalls,     \* bound on the number of calls of each
  MaxRedials,   \* bound on the connections dialled after the first
  Profiles      \* what the application does: the kinds of calls that each
                \* goroutine makes and their number, whether a call may time
                \* out; and bounds on the messages that the device sends
                \* unasked and on the connections dialled after the first

Subscriptions == {"adverts", "logs", "slots"}

\* The two families of requests with message types of their own for an answer.
Lists == {"list"}
Gatt == {"services", "read", "write", "notify", "mute"}
Requests == {"connect"} \cup Lists \cup Gatt

ASSUME CallsAssumption ==
  /\ MaxCalls \in Nat \ {0} /\ MaxRedials \in Nat /\ Peers # {}
  /\ Apps \cap Nat = {}
  /\ Profiles \subseteq
       [kinds : [Apps -> (SUBSET (Requests \cup Subscriptions)) \ {{}}],
        calls : [Apps -> 0 .. MaxCalls],
        impatient : BOOLEAN, surprises : Nat, redials : 0 .. MaxRedials]

\* The reconnectLoop that made connection e is caller e.
Callers == Apps \cup (2 .. MaxRedials + 1)

VARIABLES
  profile,    \* the profile of this application
  handlers,   \* Router.handlers
  message,    \* the message that Dispatch is delivering
  pending,    \* Dispatch's copy of the handlers it has still to call
  inbox,      \* what the device sent and the read loop has not read
  asked,      \* the requests that the device has not answered
  feeding,    \* the streams, with their peers, that it has been asked for
  reports,    \* number of messages it sent unasked
  linked,     \* the connection stands
  over,       \* its read loop has exited, or not begun
  epoch,      \* c.done: the channel made last
  served,     \* the channels that a read loop closes when it exits
  closed,     \* those that are closed
  panicked,   \* a handler closed a closed channel: the program is gone
  pc,         \* pc[w]: where the call of caller w is
  count,      \* count[w]: number of calls that w has begun
  kind,       \* kind[w], peer[w]: what the latest of them asks for
  peer,
  mine,       \* mine[w]: its handlers that are registered, by their index
  watch,      \* watch[w]: the done channel it waits on
  box,        \* box[c]: the channel of capacity one of call c
  shut,       \* calls whose done channel is closed
  got,        \* got[c]: the messages that call c has collected
  outcome,    \* outcome[w]: how the latest call of w ended
  answer      \* answer[w]: the messages it returned

router  == <<handlers, message, pending>>
device  == <<inbox, asked, feeding, reports, linked>>
done    == <<over, epoch, served, closed>>
results == <<box, shut, got>>
callers == <<pc, count, kind, peer, mine, watch, outcome, answer>>
vars == <<profile, router, device, done, panicked, results, callers>>

Call == Callers \X (1 .. MaxCalls)
current(w) == <<w, count[w]>>

\* What a caller may ask for, and how often.
KindsOf(w) == IF w \in Apps THEN profile.kinds[w] ELSE Lists
CallsOf(w) == IF w \in Apps THEN profile.calls[w]
              ELSE IF w <= profile.redials + 1 THEN 1 ELSE 0

\* A message names its type, its peer and, for what is checked of it, the
\* call it answers and its place in that answer.
Msg(type, p, c, n) == [type |-> type, peer |-> p, of |-> c, n |-> n]

\* The handlers of a call in the order of their registration; their removal
\* is deferred and runs backwards.  The one for adverts stands for both kinds
\* of advertisements.  BluetoothGATTNotify is "notify" when it enables with a
\* handler, and "mute" when it disables or has none.
HandlersOf(k) ==
  CASE k = "connect"  -> << <<"connection", "offer">> >>
    [] k = "list"     -> << <<"done", "close">>, <<"entity", "collect">> >>
    [] k = "services" -> << <<"service", "collect">>, <<"finished", "close">>,
                            <<"error", "fail">> >>
    [] k = "read"     -> << <<"data", "put">>, <<"error", "put">> >>
    [] k = "write"    -> << <<"written", "put">>, <<"error", "put">> >>
    [] k = "notify"   -> << <<"notified", "put">>, <<"error", "put">>,
                            <<"value", "deliver">> >>
    [] k = "mute"     -> << <<"notified", "put">>, <<"error", "put">> >>
    [] k \in Subscriptions -> << <<k, "deliver">> >>

Handler(w, i) == [type   |-> HandlersOf(kind[w])[i][1],
                  effect |-> HandlersOf(kind[w])[i][2],
                  kind   |-> kind[w],
                  peer   |-> peer[w],
                  call   |-> current(w)]

\* Mutant: the GATT handlers do not compare addresses.
TakesAny(h, m) == TRUE

\* The GATT handlers compare addresses; the others take all of their type.
Takes(h, m) ==
  h.kind \in {"connect", "list"} \cup Subscriptions \/ h.peer = m.peer

\* The answers the device may give to a request.
Answers(c, k, p) ==
  CASE k = "connect"  -> {<<Msg("connection", p, c, 1)>>}
    [] k = "list"     -> {<<Msg("entity", p, c, 1), Msg("entity", p, c, 2),
                            Msg("done", p, c, 3)>>}
    [] k = "services" -> {<<Msg("service", p, c, 1), Msg("finished", p, c, 2)>>,
                          <<Msg("error", p, c, 1)>>}
    [] k = "read"     -> {<<Msg("data", p, c, 1)>>, <<Msg("error", p, c, 1)>>}
    [] k = "write"    -> {<<Msg("written", p, c, 1)>>, <<Msg("error", p, c, 1)>>}
    [] k \in {"notify", "mute"} ->
                         {<<Msg("notified", p, c, 1)>>, <<Msg("error", p, c, 1)>>}

NoMsg == [type |-> "none"]

Init ==
  /\ handlers = {} /\ message = NoMsg /\ pending = {}
  /\ profile \in Profiles
  /\ inbox = <<>> /\ asked = {} /\ feeding = {} /\ reports = 0 /\ linked = TRUE
  /\ over = FALSE /\ panicked = FALSE
  /\ epoch = 1 /\ served = {1} /\ closed = {}
  /\ pc = [w \in Callers |-> "idle"]
  /\ count = [w \in Callers |-> 0]
  /\ kind = [w \in Callers |-> CHOOSE k \in KindsOf(w) : TRUE]
  /\ peer = [w \in Callers |-> CHOOSE p \in Peers : TRUE]
  /\ mine = [w \in Callers |-> {}]
  /\ watch = [w \in Callers |-> 0]
  /\ box = [c \in Call |-> <<>>]
  /\ shut = {}
  /\ got = [c \in Call |-> <<>>]
  /\ outcome = [w \in Callers |-> "none"]
  /\ answer = [w \in Callers |-> <<>>]

-----------------------------------------------------------------------------
(* The calls.                                                              *)

\* Goroutine w is there, and the program runs.
At(w, place) == ~panicked /\ pc[w] = place

\* Goroutine w begins a call that asks for k of p.
Enter(w, k, p) ==
  /\ count' = [count EXCEPT ![w] = @ + 1]
  /\ kind' = [kind EXCEPT ![w] = k]
  /\ peer' = [peer EXCEPT ![w] = p]
  /\ pc' = [pc EXCEPT ![w] = "register"]
  /\ outcome' = [outcome EXCEPT ![w] = "none"]
  /\ answer' = [answer EXCEPT ![w] = <<>>]
  /\ UNCHANGED <<mine, watch>>

\* An application's call; that of a reconnectLoop is begun by Reconnect.  Lists
\* and subscriptions are about no peer.
Begin(w) ==
  /\ At(w, "idle")
  /\ count[w] < CallsOf(w)
  /\ \E k \in KindsOf(w), p \in Peers :
       /\ k \in Lists \cup Subscriptions => p = peer[w]
       /\ Enter(w, k, p)
  /\ UNCHANGED <<profile, router, device, done, panicked, results>>

\* One c.On: the Router's lock is held for this step only.
Register(w) ==
  /\ At(w, "register")
  /\ LET i == Cardinality(mine[w]) + 1 IN
       /\ handlers' = handlers \cup {Handler(w, i)}
       /\ mine' = [mine EXCEPT ![w] = @ \cup {i}]
       /\ pc' = [pc EXCEPT ![w] = IF i = Len(HandlersOf(kind[w]))
                                    THEN "send" ELSE "register"]
  /\ UNCHANGED <<profile, message, pending, device, done, panicked, results,
                 count, kind, peer, watch, outcome, answer>>

\* The call returns, with its deferred removals still to run.
Return(w, how, messages) ==
  /\ pc' = [pc EXCEPT ![w] = "remove"]
  /\ outcome' = [outcome EXCEPT ![w] = how]
  /\ answer' = [answer EXCEPT ![w] = messages]
  /\ UNCHANGED <<count, kind, peer, mine, watch>>

\* Mutant: a failed write returns without removing the handlers.
SendFailsLeaving(w) ==
  /\ At(w, "send")
  /\ ~linked
  /\ pc' = [pc EXCEPT ![w] = "idle"]
  /\ outcome' = [outcome EXCEPT ![w] = "unsent"]
  /\ UNCHANGED <<profile, router, device, done, panicked, results, count, kind,
                 peer, mine, watch, answer>>

SendFails(w) ==
  /\ At(w, "send")
  /\ ~linked
  /\ Return(w, "unsent", <<>>)
  /\ UNCHANGED <<profile, router, device, done, panicked, results>>

\* The kernel may take the request though the connection is gone.
Send(w) ==
  /\ At(w, "send")
  /\ kind[w] \in Requests
  /\ pc' = [pc EXCEPT ![w] = "sent"]
  /\ asked' = IF linked THEN asked \cup {<<current(w), kind[w], peer[w]>>}
                        ELSE asked
  /\ UNCHANGED <<profile, router, inbox, feeding, reports, linked, done,
                 panicked, results, count, kind, peer, mine, watch, outcome,
                 answer>>

\* A subscription is made by its request alone.
Subscribe(w) ==
  /\ At(w, "send")
  /\ kind[w] \in Subscriptions
  /\ pc' = [pc EXCEPT ![w] = "held"]
  /\ outcome' = [outcome EXCEPT ![w] = "answered"]
  /\ feeding' = IF linked THEN feeding \cup {<<kind[w], "any">>} ELSE feeding
  /\ UNCHANGED <<profile, router, inbox, asked, reports, linked, done, panicked,
                 results, count, kind, peer, mine, watch, answer>>

\* The select reads c.done only now: it may be that of a later connection.
Await(w) ==
  /\ At(w, "sent")
  /\ pc' = [pc EXCEPT ![w] = "wait"]
  /\ watch' = [watch EXCEPT ![w] = epoch]
  /\ UNCHANGED <<profile, router, device, done, panicked, results, count, kind,
                 peer, mine, outcome, answer>>

\* The select of the waiting call, one action for each case.
TakeResponse(w) ==
  /\ At(w, "wait")
  /\ box[current(w)] # <<>>
  /\ Return(w, "answered", box[current(w)])
  /\ box' = [box EXCEPT ![current(w)] = <<>>]
  /\ UNCHANGED <<profile, router, device, done, panicked, shut, got>>

TakeDone(w) ==
  /\ At(w, "wait")
  /\ current(w) \in shut
  /\ Return(w, "answered", got[current(w)])
  /\ UNCHANGED <<profile, router, device, done, panicked, results>>

\* Mutant: the select has no case for the timeout.
TimeOutNever(w) == FALSE

TimeOut(w) ==
  /\ At(w, "wait")
  /\ profile.impatient
  /\ Return(w, "timeout", <<>>)
  /\ UNCHANGED <<profile, router, device, done, panicked, results>>

\* Mutant: the channel is read from the client again, not the one of the wait.
SeeLatestClosed(w) ==
  /\ At(w, "wait")
  /\ epoch \in closed
  /\ Return(w, "closed", <<>>)
  /\ UNCHANGED <<profile, router, device, done, panicked, results>>

SeeClosed(w) ==
  /\ At(w, "wait")
  /\ watch[w] \in closed
  /\ Return(w, "closed", <<>>)
  /\ UNCHANGED <<profile, router, device, done, panicked, results>>

\* BluetoothGATTNotify, once enabled, returns with its third handler in place.
Enabled(w) ==
  kind[w] = "notify" /\ answer[w] # <<>> /\ answer[w][1].type = "notified"

\* Mutant: the handler for the values outlives a failed BluetoothGATTNotify.
RemoveButValues(w) ==
  /\ At(w, "remove")
  /\ LET drop == mine[w] \ {3} IN
       /\ drop # {}
       /\ handlers' = handlers \ {Handler(w, Max(drop))}
       /\ mine' = [mine EXCEPT ![w] = @ \ {Max(drop)}]
       /\ pc' = [pc EXCEPT ![w] = IF Cardinality(drop) > 1 THEN "remove"
                                  ELSE IF Enabled(w) THEN "held" ELSE "idle"]
  /\ UNCHANGED <<profile, message, pending, device, done, panicked, results,
                 count, kind, peer, watch, outcome, answer>>

\* Mutant: the first removal is not deferred.
RemoveAllButFirst(w) ==
  /\ At(w, "remove")
  /\ LET i == Max(mine[w]) IN
       /\ handlers' = IF i = 1 THEN handlers ELSE handlers \ {Handler(w, i)}
       /\ mine' = [mine EXCEPT ![w] = @ \ {i}]
       /\ pc' = [pc EXCEPT ![w] = IF i = 1 THEN "idle" ELSE "remove"]
  /\ UNCHANGED <<profile, message, pending, device, done, panicked, results,
                 count, kind, peer, watch, outcome, answer>>

\* One removal, the latest registration first.
Remove(w) ==
  /\ At(w, "remove")
  /\ LET drop == IF Enabled(w) THEN mine[w] \ {3} ELSE mine[w] IN
       /\ handlers' = handlers \ {Handler(w, Max(drop))}
       /\ mine' = [mine EXCEPT ![w] = @ \ {Max(drop)}]
       /\ pc' = [pc EXCEPT ![w] = IF Cardinality(drop) > 1 THEN "remove"
                                  ELSE IF Enabled(w) THEN "held" ELSE "idle"]
  /\ UNCHANGED <<profile, message, pending, device, done, panicked, results,
                 count, kind, peer, watch, outcome, answer>>

\* The function that a subscription returned.
Stop(w) ==
  /\ At(w, "held")
  /\ handlers' = handlers \ {Handler(w, i) : i \in mine[w]}
  /\ mine' = [mine EXCEPT ![w] = {}]
  /\ pc' = [pc EXCEPT ![w] = IF kind[w] = "adverts" THEN "part" ELSE "idle"]
  /\ UNCHANGED <<profile, message, pending, device, done, panicked, results,
                 count, kind, peer, watch, outcome, answer>>

\* Mutant: unsubscribing does not tell the device.
PartSilently(w) ==
  /\ At(w, "part")
  /\ pc' = [pc EXCEPT ![w] = "idle"]
  /\ UNCHANGED <<profile, router, device, done, panicked, results, count, kind,
                 peer, mine, watch, outcome, answer>>

\* That for advertisements goes on to tell the device, whoever else listens.
Part(w) ==
  /\ At(w, "part")
  /\ pc' = [pc EXCEPT ![w] = "idle"]
  /\ feeding' = feeding \ {<<"adverts", "any">>}
  /\ UNCHANGED <<profile, router, inbox, asked, reports, linked, done, panicked,
                 results, count, kind, peer, mine, watch, outcome, answer>>

CallStep(w) ==
  \/ Register(w) \/ SendFails(w) \/ Send(w) \/ Subscribe(w) \/ Await(w)
  \/ TakeResponse(w) \/ TakeDone(w) \/ TimeOut(w) \/ SeeClosed(w)
  \/ Remove(w) \/ Part(w)

-----------------------------------------------------------------------------
(* The read loop.                                                          *)

\* The read loop is between two messages.
Free == ~panicked /\ ~over /\ pending = {}

\* RecvMessage and the first part of Dispatch: copy the handlers of the type.
Read ==
  /\ Free
  /\ inbox # <<>>
  /\ message' = Head(inbox)
  /\ inbox' = Tail(inbox)
  /\ pending' = {h \in handlers : h.type = Head(inbox).type}
  /\ UNCHANGED <<profile, handlers, asked, feeding, reports, linked, done,
                 panicked, results, callers>>

\* Mutant: requestResponse's handler blocks like those of the GATT calls.
OfferBlocks(h) ==
  /\ h.effect = "offer"
  /\ box[h.call] = <<>>
  /\ box' = [box EXCEPT ![h.call] = <<message>>]
  /\ UNCHANGED <<shut, got, panicked>>

\* A send with a default case: a full channel drops the message.
Offer(h) ==
  /\ h.effect = "offer"
  /\ box' = IF box[h.call] = <<>> THEN [box EXCEPT ![h.call] = <<message>>]
                                  ELSE box
  /\ UNCHANGED <<shut, got, panicked>>

\* Mutant: a channel without a bound.
PutMore(h) ==
  /\ h.effect = "put"
  /\ box' = [box EXCEPT ![h.call] = Append(@, message)]
  /\ UNCHANGED <<shut, got, panicked>>

\* A plain send: it blocks the read loop while the channel is full.
Put(h) ==
  /\ h.effect = "put"
  /\ box[h.call] = <<>>
  /\ box' = [box EXCEPT ![h.call] = <<message>>]
  /\ UNCHANGED <<shut, got, panicked>>

\* Mutant: each message replaces the one before.
CollectLatest(h) ==
  /\ h.effect = "collect"
  /\ got' = [got EXCEPT ![h.call] = <<message>>]
  /\ UNCHANGED <<box, shut, panicked>>

Collect(h) ==
  /\ h.effect = "collect"
  /\ got' = [got EXCEPT ![h.call] = Append(@, message)]
  /\ UNCHANGED <<box, shut, panicked>>

\* A subscription's handler calls the application's.
Deliver(h) ==
  /\ h.effect = "deliver"
  /\ got' = [got EXCEPT ![h.call] = Append(@, message)]
  /\ UNCHANGED <<box, shut, panicked>>

\* close(done), after the error has been kept: a second one panics.
CloseCall(h) ==
  /\ h.effect \in {"close", "fail"}
  /\ shut' = shut \cup {h.call}
  /\ panicked' = (h.call \in shut)
  /\ got' = IF h.effect = "fail" THEN [got EXCEPT ![h.call] = <<message>>]
                                 ELSE got
  /\ UNCHANGED box

Ignore(h) == UNCHANGED <<box, shut, got, panicked>>

\* Dispatch calls the handlers of its copy in any order, with no lock held:
\* some may have been removed since.
Invoke(h) ==
  /\ ~panicked
  /\ h \in pending
  /\ pending' = pending \ {h}
  /\ IF Takes(h, message)
       THEN Offer(h) \/ Put(h) \/ Collect(h) \/ Deliver(h) \/ CloseCall(h)
       ELSE Ignore(h)
  /\ UNCHANGED <<profile, handlers, message, device, done, callers>>

\* RecvMessage fails: the read loop starts a reconnectLoop and exits.
Exit ==
  /\ Free
  /\ ~linked
  /\ over' = TRUE
  /\ UNCHANGED <<profile, router, device, epoch, served, closed, panicked,
                 results, callers>>

\* The deferred close, which may come after c.done has been replaced.
CloseDone ==
  /\ ~panicked
  /\ \E e \in served \ closed : /\ over \/ e # epoch
                               /\ closed' = closed \cup {e}
  /\ UNCHANGED <<profile, router, device, over, epoch, served, panicked,
                 results, callers>>

ReaderStep == Read \/ (\E h \in pending : Invoke(h)) \/ Exit \/ CloseDone

-----------------------------------------------------------------------------
(* reconnectLoop.                                                          *)

\* Each attempt makes another done channel before it dials.
Redial ==
  /\ ~panicked /\ over
  /\ epoch <= profile.redials
  /\ epoch' = epoch + 1
  /\ UNCHANGED <<profile, router, device, over, served, closed, panicked,
                 results, callers>>

\* The attempt succeeded: a read loop starts, the handlers are still there, and
\* reconnectLoop goes on to call ListEntities.
Reconnect ==
  /\ ~panicked /\ over
  /\ epoch \notin served
  /\ served' = served \cup {epoch}
  /\ over' = FALSE
  /\ linked' = TRUE
  /\ inbox' = <<>>
  /\ Enter(epoch, "list", peer[epoch])
  /\ UNCHANGED <<profile, router, asked, feeding, reports, epoch, closed,
                 panicked, results>>

-----------------------------------------------------------------------------
(* The device.                                                             *)

\* The connection stands, and the program with it.
Up == ~panicked /\ linked

\* Once it has enabled notifications, it feeds values.
Fed(r, ms) ==
  LET values == {<<"value", r[3]>>} IN
  IF ms[1].type # "notified" THEN {feeding}
  ELSE IF r[2] = "notify" THEN {feeding \cup values}
  ELSE {feeding \cup values, feeding \ values}

Answer ==
  /\ Up
  /\ \E r \in asked : \E ms \in Answers(r[1], r[2], r[3]) :
       /\ inbox' = inbox \o ms
       /\ asked' = asked \ {r}
       /\ feeding' \in Fed(r, ms)
  /\ UNCHANGED <<profile, router, reports, linked, done, panicked, results,
                 callers>>

\* The device reports that a peer's connection changed, or feeds a stream.
Emit ==
  /\ Up
  /\ reports < profile.surprises
  /\ reports' = reports + 1
  /\ \E s \in feeding \cup ({"connection"} \X Peers) :
       /\ s[1] = "connection" => \E w \in Apps : "connect" \in profile.kinds[w]
       /\ inbox' = Append(inbox, Msg(s[1], s[2], <<>>, 1))
  /\ UNCHANGED <<profile, router, asked, feeding, linked, done, panicked,
                 results, callers>>

LoseLink ==
  /\ Up
  /\ linked' = FALSE
  /\ asked' = {} /\ feeding' = {}
  /\ UNCHANGED <<profile, router, inbox, reports, done, panicked, results,
                 callers>>

-----------------------------------------------------------------------------
Next ==
  \/ \E w \in Apps : Begin(w)
  \/ \E w \in Callers : CallStep(w) \/ Stop(w)
  \/ ReaderStep \/ Redial \/ Reconnect
  \/ Answer \/ Emit \/ LoseLink

Spec == Init /\ [][Next]_vars

\* The goroutines go on when they can; neither the device nor the network owes
\* anything.
Fairness ==
  /\ \A w \in Callers : WF_vars(CallStep(w))
  /\ WF_vars(ReaderStep)

FairSpec == Spec /\ Fairness

-----------------------------------------------------------------------------
TypeOK ==
  /\ \A h \in handlers \cup pending :
       h.call \in Call /\ h.kind \in KindsOf(h.call[1])
  /\ asked \subseteq Call \X Requests \X Peers
  /\ pc \in [Callers -> {"idle", "register", "send", "sent", "wait", "remove",
                         "held", "part"}]
  /\ count \in [Callers -> 0 .. MaxCalls]
  /\ kind \in [Callers -> Requests \cup Subscriptions]
  /\ \A w \in Callers : kind[w] \in KindsOf(w)
  /\ peer \in [Callers -> Peers]
  /\ \A w \in Callers : mine[w] \subseteq DOMAIN HandlersOf(kind[w])
  /\ closed \subseteq served /\ served \subseteq 1 .. epoch
  /\ \A c \in Call : Len(box[c]) <= 1
  /\ shut \subseteq Call
  /\ {over, panicked, linked} \subseteq BOOLEAN

\* No done channel is closed twice: that would panic in the read loop and end
\* the program.
NoPanic == ~panicked

\* Caller w may make calls of family g.
Uses(w, g) == CallsOf(w) > 0 /\ KindsOf(w) \cap g # {}

\* One goroutine at most makes GATT calls, and one at most lists, reconnectLoops
\* among them: there is one reconnection at most, and none for an application
\* that lists.  Each waits for its answers.
Solo ==
  /\ ~profile.impatient
  /\ \A g \in {Lists, Gatt}, v, w \in Callers : Uses(v, g) /\ Uses(w, g) => v = w

\* One goroutine that lists and one that makes GATT calls never bring the
\* program down, over a reconnection too when only its reconnectLoop lists.
SoloNoPanic == Solo => NoPanic

\* A caller that has returned has left no handler behind, however it returned.
HandlersReleased ==
  \A w \in Callers : pc[w] = "idle" => \A h \in handlers : h.call[1] # w

\* The answer to a call about one peer is not about another, nor is a value
\* that the handler of a notification is called with.
OwnPeer ==
  \A w \in Callers :
    /\ kind[w] \in Gatt =>
         \A i \in DOMAIN answer[w] : answer[w][i].peer = peer[w]
    /\ kind[w] = "notify" /\ pc[w] # "idle" =>
         \A i \in DOMAIN got[current(w)] : got[current(w)][i].peer = peer[w]

\* ListEntities, of an application or of the reconnectLoop, returns every entity
\* of the answer to its request, in order, and nothing else, as long as no other
\* goroutine lists.
ListComplete ==
  Solo => \A w \in Callers :
    kind[w] = "list" /\ outcome[w] = "answered" =>
      answer[w] = <<Msg("entity", peer[w], current(w), 1),
                    Msg("entity", peer[w], current(w), 2)>>

\* The device sends advertisements only as long as somebody has subscribed to
\* them, or is about to say that he no longer does.
QuietWhenUnheard ==
  <<"adverts", "any">> \in feeding =>
    \E w \in Callers : kind[w] = "adverts" /\ pc[w] \in {"held", "part"}

\* Every call that may time out returns, whatever the device does.
CallReturns ==
  profile.impatient =>
    \A w \in Callers : pc[w] # "idle" ~> pc[w] \in {"idle", "held"} \/ panicked

\* Every message read is delivered: no handler blocks the read loop for good.
DispatchEnds == pending # {} ~> pending = {} \/ panicked

\* So it is for one goroutine that makes GATT calls and waits for its answers.
SoloDispatchEnds == Solo => DispatchEnds

\* Caller w watches the done channel of a connection that is lost.
Doomed(w) == watch[w] \in served /\ (watch[w] # epoch \/ ~linked)

\* A call that waits on the done channel of a connection ends with that
\* connection, without its timeout, though c.done may be another by then.
LossEndsWaits ==
  Solo =>
    (\E w \in Callers : pc[w] = "wait" /\ Doomed(w))
      ~> ~(\E w \in Callers : pc[w] = "wait" /\ Doomed(w))

\* A call ends with the connection that its request was written to.
LostRequestsEnd ==
  Solo => \A w \in Callers : pc[w] \in {"sent", "wait"} /\ ~linked ~> pc[w] # "wait"

-----------------------------------------------------------------------------
(* The inductive invariant.                                                *)

\* Messages that only answer a request of family g, as against those that the
\* device may send at any time.
RepliesTo(g) ==
  IF g = Lists THEN {"entity", "done"}
  ELSE {"service", "finished", "error", "data", "written", "notified"}
Reply(g, m) == m.type \in RepliesTo(g)

Messages == [type : RepliesTo(Lists) \cup RepliesTo(Gatt) \cup Subscriptions
                       \cup {"connection", "value"},
             peer : Peers \cup {"any"}, of : Call \cup {<<>>}, n : 1 .. 3]

Typed ==
  /\ TypeOK
  /\ profile \in Profiles
  /\ inbox \in Seq(Messages)
  /\ feeding \subseteq (Subscriptions \X {"any"}) \cup ({"value"} \X Peers)
  /\ epoch \in 1 .. profile.redials + 1
  /\ box \in [Call -> Seq(Messages)] /\ got \in [Call -> Seq(Messages)]
  /\ mine \in [Callers -> SUBSET (1 .. 3)] /\ watch \in [Callers -> Nat]
  /\ outcome \in [Callers -> {"none", "unsent", "answered", "timeout", "closed"}]
  /\ answer \in [Callers -> Seq(Messages)]

\* The connection, its read loop and its done channel.
Loops ==
  /\ over => ~linked /\ pending = {}
  /\ ~linked => asked = {}
  /\ ~over => epoch \notin closed
  /\ 1 \in served

\* The Router holds the handlers that the callers believe to be registered,
\* and how many these are depends on where a caller is.
Registered ==
  /\ \A w \in Callers : \A i \in mine[w] : Handler(w, i) \in handlers
  /\ \A h \in handlers : \E w \in Callers : \E i \in mine[w] : h = Handler(w, i)

Standing(w) ==
  LET n == Len(HandlersOf(kind[w])) IN
  /\ count[w] <= CallsOf(w)
  /\ w \notin Apps /\ count[w] > 0 => w \in served
  /\ pc[w] # "idle" => count[w] > 0
  /\ pc[w] \in {"sent", "wait"} => kind[w] \in Requests
  /\ pc[w] \in {"idle", "part"} => mine[w] = {}
  /\ pc[w] = "register" => \E k \in 0 .. n - 1 : mine[w] = 1 .. k
  /\ pc[w] \in {"send", "sent", "wait"} => mine[w] = 1 .. n
  /\ pc[w] = "remove" =>
       IF Enabled(w) THEN \E k \in 1 .. 2 : mine[w] = (1 .. k) \cup {3}
                     ELSE \E k \in 1 .. n : mine[w] = 1 .. k

\* Dispatch's copy may hold handlers of earlier calls, but none of a later one.
Copied ==
  \A h \in pending :
    /\ message \in Messages /\ h.type = message.type
    /\ \E i \in DOMAIN HandlersOf(h.kind) :
         HandlersOf(h.kind)[i] = <<h.type, h.effect>>
    /\ LET w == h.call[1] IN
         /\ h.call[2] \in 1 .. count[w]
         /\ h.call = current(w) => h.kind = kind[w] /\ h.peer = peer[w]

\* Nothing has come for a call before it begins.
Fresh ==
  \A c \in Call : c[2] > count[c[1]] => box[c] = <<>> /\ got[c] = <<>> /\ c \notin shut

\* What a GATT call has been sent is about its own peer.
Own(w) ==
  kind[w] \in Gatt /\ count[w] > 0 =>
    /\ \A i \in DOMAIN box[current(w)] : box[current(w)][i].peer = peer[w]
    /\ \A i \in DOMAIN got[current(w)] : got[current(w)][i].peer = peer[w]

Apart ==
  /\ Typed /\ Loops /\ Registered
  /\ \A w \in Callers : Standing(w) /\ Own(w)
  /\ Copied /\ Fresh
  /\ OwnPeer /\ QuietWhenUnheard

\* The rest is about a family g that one caller uses.  A reply is being
\* delivered.
Delivering(g) == pending # {} /\ Reply(g, message)

\* A request is on its way.
Requested(g) == \E r \in asked : r[2] \in g

\* A reply, or a request for one, is on its way.
Outstanding(g) ==
  Requested(g) \/ Delivering(g) \/ \E i \in 1 .. Len(inbox) : Reply(g, inbox[i])

\* Then w waits for it, and not on the done channel of another connection.
Awaits(g, w) ==
  /\ pc[w] \in {"sent", "wait"} /\ kind[w] \in g
  /\ pc[w] = "wait" => watch[w] = epoch
  /\ \A r \in asked : r[2] \in g => r = <<current(w), kind[w], peer[w]>>

\* The replies in q are those of ms that come after the first t, in order.
Continues(g, q, ms, t) ==
  /\ \A i \in 1 .. Len(q) : Reply(g, q[i]) =>
       \E v \in t + 1 .. Len(ms) :
         /\ q[i] = ms[v]
         /\ \A u \in t + 1 .. v - 1 : \E j \in 1 .. i - 1 : q[j] = ms[u]
  /\ \A i, j \in 1 .. Len(q) : i < j /\ Reply(g, q[i]) => q[i] # q[j]

\* The call of w has been handed the first n of the replies ms.
Handed(w, ms, n) ==
  /\ current(w) \in shut \/ box[current(w)] # <<>> => n = Len(ms)
  /\ kind[w] = "list" =>
       /\ box[current(w)] = <<>>
       /\ Len(got[current(w)]) = IF n < 2 THEN n ELSE 2
       /\ \A i \in 1 .. Len(got[current(w)]) : got[current(w)][i] = ms[i]

\* The read loop has taken t of the replies ms to the request of w.
Exchange(g, w, ms, t) ==
  /\ Requested(g) \/ pc[w] \in {"register", "send"} => t = 0
  /\ Requested(g) => \A i \in 1 .. Len(inbox) : ~Reply(g, inbox[i])
  /\ ~over => Continues(g, inbox, ms, t)
  /\ Delivering(g) => /\ t > 0 /\ message = ms[t]
                      /\ \A h \in pending : pending = {h} /\ h.call = current(w)
  /\ Handed(w, ms, IF Delivering(g) THEN t - 1 ELSE t)

Alone(g) ==
  /\ ~over /\ Outstanding(g) => \E w \in Callers : Awaits(g, w)
  /\ \A w \in Callers :
       pc[w] \in {"register", "send", "sent", "wait"} /\ kind[w] \in g =>
         \E ms \in Answers(current(w), kind[w], peer[w]) :
           \E t \in 0 .. Len(ms) : Exchange(g, w, ms, t)

IInv ==
  /\ Apart /\ SoloNoPanic /\ ListComplete
  /\ Solo => \A g \in {Lists, Gatt} : Alone(g)

==============================================================================

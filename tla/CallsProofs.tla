------------------------------ MODULE CallsProofs ------------------------------
(***************************************************************************)
(* Proofs about Calls, for any applications, peers and profiles, and any   *)
(* number of calls and of connections.                                     *)
(***************************************************************************)
EXTENDS Calls, SequenceTheorems, FiniteSetTheorems, TLAPS

Kinds == Requests \cup Subscriptions

-----------------------------------------------------------------------------
(* Handlers and types.                                                     *)

\* What is registered for a call: up to three handlers, each for another type,
\* and those that close the call are for replies.
LEMMA HandlersFacts ==
  ASSUME NEW k \in Kinds
  PROVE  /\ Len(HandlersOf(k)) \in 1 .. 3
         /\ DOMAIN HandlersOf(k) = 1 .. Len(HandlersOf(k))
         /\ k = "notify" => Len(HandlersOf(k)) = 3
         /\ \A i \in 1 .. Len(HandlersOf(k)) :
              HandlersOf(k)[i] = <<HandlersOf(k)[i][1], HandlersOf(k)[i][2]>>
         /\ \A i, j \in 1 .. Len(HandlersOf(k)) :
              HandlersOf(k)[i][1] = HandlersOf(k)[j][1] => i = j
<1>1. CASE k \in Subscriptions
  <2>1. HandlersOf(k) = << <<k, "deliver">> >>
    BY <1>1 DEF HandlersOf, Subscriptions
  <2> QED
    BY <1>1, <2>1 DEF Subscriptions
<1>2. CASE k = "connect"
  BY <1>2 DEF HandlersOf, Subscriptions
<1>3. CASE k = "list"
  BY <1>3 DEF HandlersOf, Subscriptions
<1>4. CASE k = "services"
  BY <1>4 DEF HandlersOf, Subscriptions
<1>5. CASE k = "read"
  BY <1>5 DEF HandlersOf, Subscriptions
<1>6. CASE k = "write"
  BY <1>6 DEF HandlersOf, Subscriptions
<1>7. CASE k = "notify"
  BY <1>7 DEF HandlersOf, Subscriptions
<1>8. CASE k = "mute"
  BY <1>8 DEF HandlersOf, Subscriptions
<1> QED
  BY <1>1, <1>2, <1>3, <1>4, <1>5, <1>6, <1>7, <1>8 DEF Kinds, Requests, Lists, Gatt

\* A handler that closes its call is for a reply.
LEMMA ClosersAreForReplies ==
  ASSUME NEW k \in Kinds, NEW i \in DOMAIN HandlersOf(k),
         HandlersOf(k)[i][2] \in {"close", "fail"}
  PROVE  HandlersOf(k)[i][1] \in RepliesTo(Lists) \cup RepliesTo(Gatt)
<1>0. "entity" \in RepliesTo(Lists) /\ "done" \in RepliesTo(Lists)
      /\ RepliesTo(Gatt) = {"service", "finished", "error", "data", "written", "notified"}
  BY DEF RepliesTo, Lists, Gatt
<1>1. CASE k \in {"connect"} \cup Subscriptions
  BY <1>1 DEF HandlersOf, Subscriptions
<1>2. CASE k \in {"list", "read", "write", "mute"}
  BY <1>0, <1>2 DEF HandlersOf, Subscriptions
<1>3. CASE k = "services"
  BY <1>0, <1>3 DEF HandlersOf, Subscriptions
<1>4. CASE k = "notify"
  BY <1>4 DEF HandlersOf, Subscriptions
<1> QED
  BY <1>1, <1>2, <1>3, <1>4 DEF Kinds, Requests, Lists, Gatt

\* What a caller may do, and how often.
LEMMA ProfileFacts ==
  ASSUME profile \in Profiles, NEW w \in Callers
  PROVE  /\ KindsOf(w) \subseteq Kinds /\ KindsOf(w) # {}
         /\ CallsOf(w) \in 0 .. MaxCalls
         /\ MaxCalls \in Nat \ {0}
<1>1. /\ profile.kinds \in [Apps -> (SUBSET Kinds) \ {{}}]
      /\ profile.calls \in [Apps -> 0 .. MaxCalls]
      /\ MaxCalls \in Nat \ {0}
  BY CallsAssumption DEF Kinds
<1>2. Lists \subseteq Kinds /\ Lists # {}
  BY DEF Kinds, Requests, Lists
<1>3. 0 \in 0 .. MaxCalls /\ 1 \in 0 .. MaxCalls
  BY <1>1
<1> QED
  BY <1>1, <1>2, <1>3 DEF KindsOf, CallsOf

\* As long as the profile is what it is.
LEMMA SameProfile ==
  ASSUME UNCHANGED profile
  PROVE  \A w : KindsOf(w)' = KindsOf(w) /\ CallsOf(w)' = CallsOf(w)
BY DEF KindsOf, CallsOf

LEMMA CallerFacts ==
  ASSUME Typed, NEW w \in Callers
  PROVE  /\ kind[w] \in KindsOf(w) /\ kind[w] \in Kinds /\ peer[w] \in Peers
         /\ count[w] \in 0 .. MaxCalls /\ count[w] \in Nat
         /\ mine[w] \subseteq 1 .. Len(HandlersOf(kind[w]))
         /\ count[w] > 0 => current(w) \in Call
         /\ current(w)[1] = w /\ current(w)[2] = count[w]
<1>1. kind[w] \in KindsOf(w) /\ kind[w] \in Kinds /\ peer[w] \in Peers
  BY DEF Typed, TypeOK, Kinds
<1>2. count[w] \in 0 .. MaxCalls /\ count[w] \in Nat
  BY ProfileFacts DEF Typed, TypeOK
<1>3. mine[w] \subseteq 1 .. Len(HandlersOf(kind[w]))
  BY <1>1, HandlersFacts DEF Typed, TypeOK
<1>4. count[w] > 0 => current(w) \in Call
  BY <1>2 DEF current, Call
<1> QED
  BY <1>1, <1>2, <1>3, <1>4 DEF current

\* Handlers of different callers, or at different places of a call, differ.
LEMMA HandlersDiffer ==
  ASSUME Typed, NEW v \in Callers, NEW w \in Callers,
         NEW i \in 1 .. Len(HandlersOf(kind[v])), NEW j \in 1 .. Len(HandlersOf(kind[w])),
         Handler(v, i) = Handler(w, j)
  PROVE  v = w /\ i = j
<1>1. v = w
  BY DEF Handler, current
<1>2. HandlersOf(kind[w])[i][1] = HandlersOf(kind[w])[j][1]
  BY <1>1 DEF Handler
<1> QED
  BY <1>1, <1>2, CallerFacts, HandlersFacts

\* One more or one less of the numbers up to k.
LEMMA UpTo ==
  ASSUME NEW k \in Nat
  PROVE  /\ Cardinality(1 .. k) = k
         /\ (1 .. k) \cup {k + 1} = 1 .. k + 1
         /\ k > 0 => Max(1 .. k) = k /\ (1 .. k) \ {k} = 1 .. k - 1
<1>1. Cardinality(1 .. k) = k
  BY FS_Interval
<1>2. k > 0 => Max(1 .. k) = k
  BY DEF Max
<1> QED
  BY <1>1, <1>2

-----------------------------------------------------------------------------
(* The parts of the invariant that hold of any callers, step by step.      *)

\* Nothing that concerns the Router moves.
LEMMA RouterStays ==
  ASSUME Apart, UNCHANGED <<handlers, mine, kind, peer, count>>
  PROVE  Registered' /\ \A w \in Callers, i \in 1 .. 3 : Handler(w, i)' = Handler(w, i)
<1>1. \A w, i : Handler(w, i)' = Handler(w, i)
  BY DEF Handler, current
<1> QED
  BY <1>1 DEF Apart, Registered

\* A call that has been begun has messages of its own.
LEMMA OwnStays ==
  ASSUME Apart, NEW w \in Callers, UNCHANGED <<kind, peer, count, got>>,
         box'[current(w)] \in {<<>>, box[current(w)]}
  PROVE  Own(w)'
<1>1. current(w)' = current(w)
  BY DEF current
<1>2. DOMAIN <<>> = {}
  BY EmptySeq, LenProperties
<1> QED
  BY <1>1, <1>2 DEF Apart, Own

\* The step of a caller between its registrations and its removals.
Waits(w) ==
  \/ SendFails(w) \/ Send(w) \/ Subscribe(w) \/ Await(w) \/ TakeResponse(w)
  \/ TakeDone(w) \/ TimeOut(w) \/ SeeClosed(w) \/ Part(w)

\* What such a step leaves as it is, and where it takes the caller.
LEMMA WaitsFacts ==
  ASSUME Apart, NEW w \in Callers, Waits(w)
  PROVE  /\ UNCHANGED <<profile, handlers, message, pending, inbox, reports,
                        linked, over, epoch, served, closed, panicked, shut, got,
                        count, kind, peer, mine>>
         /\ \E s \in {"remove", "sent", "held", "wait", "idle"} :
              pc' = [pc EXCEPT ![w] = s]
         /\ \/ pc[w] = "send" /\ pc'[w] = "sent" /\ kind[w] \in Requests
            \/ pc[w] = "send" /\ pc'[w] = "held"
            \/ pc[w] = "sent" /\ pc'[w] = "wait"
            \/ pc[w] \in {"send", "wait"} /\ pc'[w] = "remove"
            \/ pc[w] = "part" /\ pc'[w] = "idle"
         /\ box' \in {box, [box EXCEPT ![current(w)] = <<>>]}
         /\ \/ answer' = answer /\ pc'[w] # "remove"
            \/ \E a \in {<<>>, box[current(w)], got[current(w)]} :
                 answer' = [answer EXCEPT ![w] = a] /\ pc'[w] = "remove"
<1>0. pc \in [Callers -> {"idle", "register", "send", "sent", "wait", "remove",
                         "held", "part"}]
  BY DEF Apart, Typed, TypeOK
<1>1. CASE SendFails(w)
  BY <1>0, <1>1 DEF SendFails, Return, At, router, device, done, results
<1>2. CASE Send(w)
  BY <1>0, <1>2 DEF Send, At, router, done, results
<1>3. CASE Subscribe(w)
  BY <1>0, <1>3 DEF Subscribe, At, router, done, results
<1>4. CASE Await(w)
  BY <1>0, <1>4 DEF Await, At, router, device, done, results
<1>5. CASE TakeResponse(w)
  BY <1>0, <1>5 DEF TakeResponse, Return, At, router, device, done
<1>6. CASE TakeDone(w)
  BY <1>0, <1>6 DEF TakeDone, Return, At, router, device, done, results
<1>7. CASE TimeOut(w) \/ SeeClosed(w)
  BY <1>0, <1>7 DEF TimeOut, SeeClosed, Return, At, router, device, done, results
<1>8. CASE Part(w)
  BY <1>0, <1>8 DEF Part, At, router, done, results
<1> QED
  BY <1>1, <1>2, <1>3, <1>4, <1>5, <1>6, <1>7, <1>8 DEF Waits

LEMMA WaitsTyped ==
  ASSUME Apart, NEW w \in Callers, Waits(w)
  PROVE  Typed'
<1>0. Typed /\ kind[w] \in Kinds /\ peer[w] \in Peers
      /\ (count[w] > 0 => current(w) \in Call)
      /\ (pc[w] # "idle" => count[w] > 0)
  BY CallerFacts DEF Apart, Standing
<1>1. /\ UNCHANGED <<profile, handlers, message, pending, inbox, reports,
                     linked, over, epoch, served, closed, panicked, shut, got,
                     count, kind, peer, mine>>
      /\ \E s \in {"remove", "sent", "held", "wait", "idle"} :
           pc' = [pc EXCEPT ![w] = s]
      /\ box' \in {box, [box EXCEPT ![current(w)] = <<>>]}
      /\ \/ answer' = answer
         \/ \E a \in {<<>>, box[current(w)], got[current(w)]} :
              answer' = [answer EXCEPT ![w] = a]
      /\ pc[w] # "idle"
  BY WaitsFacts
<1>2. pc' \in [Callers -> {"idle", "register", "send", "sent", "wait", "remove",
                          "held", "part"}]
  BY <1>0, <1>1 DEF Typed, TypeOK
<1>3. current(w) \in Call /\ <<>> \in Seq(Messages) /\ Len(<<>>) = 0
  BY <1>0, <1>1, EmptySeq
<1>4. box' \in [Call -> Seq(Messages)] /\ \A c \in Call : Len(box'[c]) <= 1
  <2>1. box \in [Call -> Seq(Messages)] /\ \A c \in Call : Len(box[c]) <= 1
    BY <1>0 DEF Typed, TypeOK
  <2>2. CASE box' = [box EXCEPT ![current(w)] = <<>>]
    <3>1. ASSUME NEW c \in Call PROVE box'[c] \in {<<>>, box[c]}
      BY <2>1, <2>2
    <3>2. box' \in [Call -> Seq(Messages)]
      BY <1>3, <2>1, <2>2
    <3>3. ASSUME NEW c \in Call PROVE Len(box'[c]) <= 1
      <4>1. CASE box'[c] = <<>>
        BY <1>3, <4>1
      <4>2. CASE box'[c] = box[c]
        BY <2>1, <4>2
      <4> QED
        BY <3>1, <4>1, <4>2
    <3> QED
      BY <3>2, <3>3
  <2> QED
    BY <1>1, <2>1, <2>2
<1>5. answer' \in [Callers -> Seq(Messages)]
  <2>1. /\ box[current(w)] \in Seq(Messages) /\ got[current(w)] \in Seq(Messages)
        /\ answer \in [Callers -> Seq(Messages)]
    BY <1>0, <1>3 DEF Typed
  <2> QED
    BY <1>1, <1>3, <2>1
<1>6. asked' \subseteq Call \X Requests \X Peers
  <2>1. \/ asked' = asked
        \/ /\ kind[w] \in Requests
           /\ asked' \subseteq asked \cup {<<current(w), kind[w], peer[w]>>}
    BY DEF Waits, SendFails, Send, Subscribe, Await, TakeResponse, TakeDone, TimeOut,
           SeeClosed, Part, device
  <2>2. asked \subseteq Call \X Requests \X Peers
    BY <1>0 DEF Typed, TypeOK
  <2> QED
    BY <1>0, <1>3, <2>1, <2>2
<1>7. feeding' \subseteq (Subscriptions \X {"any"}) \cup ({"value"} \X Peers)
  <2>1. \/ feeding' \subseteq feeding
        \/ kind[w] \in Subscriptions /\ feeding' = feeding \cup {<<kind[w], "any">>}
    <3>1. CASE Subscribe(w)
      BY <3>1 DEF Subscribe
    <3>2. CASE Part(w)
      BY <3>2 DEF Part
    <3> QED
      BY <3>1, <3>2 DEF Waits, SendFails, Send, Await, TakeResponse, TakeDone, TimeOut,
                        SeeClosed, device
  <2>2. feeding \subseteq (Subscriptions \X {"any"}) \cup ({"value"} \X Peers)
    BY <1>0 DEF Typed
  <2> QED
    BY <2>1, <2>2
<1>8. watch' \in [Callers -> Nat]
  <2>1. watch' \in {watch, [watch EXCEPT ![w] = epoch]}
    BY DEF Waits, SendFails, Send, Subscribe, Await, TakeResponse, TakeDone, TimeOut,
           SeeClosed, Part, Return
  <2> QED
    BY <1>0, <2>1 DEF Typed
<1>9. outcome' \in [Callers -> {"none", "unsent", "answered", "timeout", "closed"}]
  <2>1. outcome' = outcome \/ \E o \in {"unsent", "answered", "timeout", "closed"} :
          outcome' = [outcome EXCEPT ![w] = o]
    BY DEF Waits, SendFails, Send, Subscribe, Await, TakeResponse, TakeDone, TimeOut,
           SeeClosed, Part, Return
  <2> QED
    BY <1>0, <2>1 DEF Typed
<1>10. TypeOK'
  BY <1>0, <1>1, <1>2, <1>4, <1>6, SameProfile DEF Typed, TypeOK
<1> QED
  BY <1>0, <1>1, <1>4, <1>5, <1>7, <1>8, <1>9, <1>10 DEF Typed

\* The device feeds values, for notifications that have been asked for.
LEMMA FedFacts ==
  ASSUME NEW r \in Call \X Requests \X Peers, NEW ms, NEW F \in Fed(r, ms)
  PROVE  F \subseteq feeding \cup ({"value"} \X Peers)
BY DEF Fed

\* The reconnectLoop of a new connection has listed nothing yet.
LEMMA NewLister ==
  ASSUME Apart, Reconnect
  PROVE  /\ epoch \in Callers /\ epoch \notin Apps
         /\ KindsOf(epoch) = {"list"} /\ CallsOf(epoch) = 1
         /\ pc[epoch] = "idle" /\ count[epoch] = 0 /\ peer[epoch] \in Peers
<1>0. /\ Typed /\ profile \in Profiles /\ epoch \in 1 .. profile.redials + 1
      /\ Loops /\ epoch \notin served
  BY DEF Apart, Typed, Reconnect
<1>1. profile.redials \in 0 .. MaxRedials /\ MaxRedials \in Nat /\ Apps \cap Nat = {}
  BY <1>0, CallsAssumption
<1>2. epoch \in 2 .. MaxRedials + 1 /\ epoch <= profile.redials + 1
  <2>1. epoch # 1
    BY <1>0 DEF Loops
  <2> QED
    BY <1>0, <1>1, <2>1
<1>3. epoch \in Callers /\ epoch \notin Apps
  BY <1>1, <1>2 DEF Callers
<1>4. KindsOf(epoch) = {"list"} /\ CallsOf(epoch) = 1
  BY <1>2, <1>3 DEF KindsOf, CallsOf, Lists
<1>5. count[epoch] \in Nat /\ peer[epoch] \in Peers /\ Standing(epoch)
  BY <1>0, <1>3, CallerFacts DEF Apart
<1>6. count[epoch] = 0 /\ pc[epoch] = "idle"
  BY <1>0, <1>3, <1>5 DEF Standing
<1> QED
  BY <1>3, <1>4, <1>5, <1>6

\* Who hears the advertisements.
LEMMA QuietStep ==
  ASSUME Apart, [Next]_vars
  PROVE  QuietWhenUnheard'
<1> SUFFICES ASSUME <<"adverts", "any">> \in feeding'
             PROVE  \E v \in Callers : kind'[v] = "adverts" /\ pc'[v] \in {"held", "part"}
  BY DEF QuietWhenUnheard
<1>0. /\ pc \in [Callers -> {"idle", "register", "send", "sent", "wait", "remove",
                            "held", "part"}]
      /\ kind \in [Callers -> Requests \cup Subscriptions]
      /\ \A v \in Callers : pc[v] # "idle" => count[v] > 0
      /\ asked \subseteq Call \X Requests \X Peers
  BY DEF Apart, Typed, TypeOK, Standing
<1>1. CASE <<"adverts", "any">> \notin feeding
  <2>1. CASE \E v \in Callers : Subscribe(v)
    <3>1. PICK v \in Callers : Subscribe(v)
      BY <2>1
    <3>2. kind[v] = "adverts" /\ kind' = kind /\ pc'[v] = "held"
      BY <1>0, <1>1, <3>1 DEF Subscribe
    <3> QED
      BY <3>2
  <2>2. CASE Answer
    <3>1. feeding' \subseteq feeding \cup ({"value"} \X Peers)
      BY <1>0, <2>2, FedFacts DEF Answer
    <3> QED
      BY <1>1, <3>1
  <2>3. CASE ~Answer /\ ~(\E v \in Callers : Subscribe(v))
    BY <1>1, <2>3 DEF Next, CallStep, ReaderStep, Begin, Register, SendFails, Send,
       Await, TakeResponse, TakeDone, TimeOut, SeeClosed, Remove, Part, Stop, Read,
       Invoke, Exit, CloseDone, Redial, Reconnect, Emit, LoseLink, vars, device
  <2> QED
    BY <2>1, <2>2, <2>3
<1>2. CASE <<"adverts", "any">> \in feeding
  <2>1. PICK v \in Callers : kind[v] = "adverts" /\ pc[v] \in {"held", "part"}
    BY <1>2 DEF Apart, QuietWhenUnheard
  <2>2. ASSUME NEW w \in Callers, NEW k, NEW p, pc[w] = "idle", Enter(w, k, p)
        PROVE  kind'[v] = "adverts" /\ pc'[v] \in {"held", "part"}
    BY <1>0, <2>1, <2>2 DEF Enter
  <2>3. CASE \E w \in Callers : Stop(w)
    BY <1>0, <2>1, <2>3 DEF Stop, At
  <2>4. CASE \E w \in Callers : Part(w)
    BY <2>4 DEF Part
  <2>5. CASE \E w \in Callers : Register(w) \/ Remove(w)
    BY <1>0, <2>1, <2>5 DEF Register, Remove, At
  <2>6. CASE \E w \in Callers : SendFails(w) \/ Send(w) \/ Subscribe(w) \/ Await(w)
                                  \/ TakeResponse(w) \/ TakeDone(w) \/ TimeOut(w)
                                  \/ SeeClosed(w)
    BY <1>0, <2>1, <2>6 DEF SendFails, Send, Subscribe, Await, TakeResponse, TakeDone,
       TimeOut, SeeClosed, Return, At
  <2>7. CASE UNCHANGED <<kind, pc>>
    BY <2>1, <2>7
  <2>8. CASE ReaderStep \/ Redial \/ Answer \/ Emit \/ LoseLink \/ UNCHANGED vars
    <3>1. UNCHANGED <<kind, pc>>
      BY <2>8 DEF ReaderStep, Read, Invoke, Exit, CloseDone, Redial,
                  Answer, Emit, LoseLink, vars, callers
    <3> QED
      BY <2>7, <3>1
  <2>9. CASE \E w \in Apps : Begin(w)
    <3>1. PICK w \in Apps : Begin(w)
      BY <2>9
    <3>2. w \in Callers
      BY DEF Callers
    <3> QED
      BY <2>1, <2>2, <3>1, <3>2 DEF Begin, At
  <2>10. CASE Reconnect
    <3>1. epoch \in Callers /\ pc[epoch] = "idle"
      BY <2>10, NewLister
    <3> QED
      BY <2>1, <2>2, <2>10, <3>1 DEF Reconnect
  <2> QED
    BY <2>3, <2>4, <2>5, <2>6, <2>8, <2>9, <2>10 DEF Next, CallStep
<1> QED
  BY <1>1, <1>2

LEMMA WaitsApart ==
  ASSUME Apart, NEW w \in Callers, Waits(w), QuietWhenUnheard'
  PROVE  Apart'
<1>0. /\ Typed /\ Loops /\ Registered /\ Copied /\ Fresh /\ OwnPeer
      /\ \A v \in Callers : Standing(v) /\ Own(v)
  BY DEF Apart
<1>1. /\ UNCHANGED <<profile, handlers, message, pending, inbox, reports,
                     linked, over, epoch, served, closed, panicked, shut, got,
                     count, kind, peer, mine>>
      /\ \E s \in {"remove", "sent", "held", "wait", "idle"} :
           pc' = [pc EXCEPT ![w] = s]
      /\ \/ pc[w] = "send" /\ pc'[w] = "sent" /\ kind[w] \in Requests
         \/ pc[w] = "send" /\ pc'[w] = "held"
         \/ pc[w] = "sent" /\ pc'[w] = "wait"
         \/ pc[w] \in {"send", "wait"} /\ pc'[w] = "remove"
         \/ pc[w] = "part" /\ pc'[w] = "idle"
      /\ box' \in {box, [box EXCEPT ![current(w)] = <<>>]}
      /\ \/ answer' = answer /\ pc'[w] # "remove"
         \/ \E a \in {<<>>, box[current(w)], got[current(w)]} :
              answer' = [answer EXCEPT ![w] = a] /\ pc'[w] = "remove"
  BY WaitsFacts
<1>2. /\ pc \in [Callers -> {"idle", "register", "send", "sent", "wait", "remove",
                            "held", "part"}]
      /\ box \in [Call -> Seq(Messages)] /\ answer \in [Callers -> Seq(Messages)]
  BY <1>0 DEF Typed, TypeOK
<1>3. /\ count[w] > 0 /\ current(w) \in Call
      /\ \A v : current(v)' = current(v) /\ CallsOf(v)' = CallsOf(v)
  BY <1>0, <1>1, CallerFacts, SameProfile DEF Standing, current
<1>4. Typed'
  BY WaitsTyped
<1>5. Loops'
  <2>1. asked' = asked \/ linked
    BY DEF Waits, SendFails, Send, Subscribe, Await, TakeResponse, TakeDone, TimeOut,
           SeeClosed, Part, device
  <2> QED
    BY <1>0, <1>1, <2>1 DEF Loops
<1>6. Registered'
  BY <1>1, RouterStays
<1>7. ASSUME NEW v \in Callers PROVE Standing(v)'
  <2>1. CASE v # w
    <3>1. pc'[v] = pc[v] /\ answer'[v] = answer[v]
      BY <1>1, <1>2, <2>1
    <3> QED
      BY <1>0, <1>1, <1>3, <3>1 DEF Standing, Enabled
  <2>2. CASE v = w
    <3> DEFINE n == Len(HandlersOf(kind[w]))
    <3>1. n \in 1 .. 3 /\ (kind[w] = "notify" => n = 3)
      BY <1>0, CallerFacts, HandlersFacts
    <3>2. CASE pc'[w] = "remove"
      <4>1. mine'[w] = 1 .. n /\ pc[w] \in {"send", "wait"}
        BY <1>0, <1>1, <3>2 DEF Standing
      <4>2. Enabled(w)' => mine'[w] = (1 .. 2) \cup {3}
        <5>1. Enabled(w)' => n = 3
          BY <1>1, <3>1 DEF Enabled
        <5>2. 1 .. 3 = (1 .. 2) \cup {3}
          OBVIOUS
        <5> QED
          BY <4>1, <5>1, <5>2
      <4>3. n \in 1 .. n /\ 2 \in 1 .. 2
        BY <3>1
      <4> QED
        BY <1>0, <1>1, <1>3, <2>2, <3>2, <4>1, <4>2, <4>3 DEF Standing
    <3>3. CASE pc'[w] # "remove"
      BY <1>0, <1>1, <1>3, <2>2, <3>3 DEF Standing
    <3> QED
      BY <3>2, <3>3
  <2> QED
    BY <2>1, <2>2
<1>8. ASSUME NEW v \in Callers PROVE Own(v)'
  <2>1. CASE count[v] > 0
    <3>1. current(v) \in Call
      BY <1>0, <2>1, CallerFacts
    <3>2. box'[current(v)] \in {<<>>, box[current(v)]}
      BY <1>1, <1>2, <3>1
    <3> QED
      BY <1>1, <3>2, OwnStays
  <2>2. CASE ~(count[v] > 0)
    BY <1>1, <2>2 DEF Own
  <2> QED
    BY <2>1, <2>2
<1>9. Copied'
  BY <1>0, <1>1, <1>3 DEF Copied
<1>10. Fresh'
  <2>1. ASSUME NEW c \in Call, box[c] = <<>> PROVE box'[c] = <<>>
    BY <1>1, <1>2, <1>3, <2>1
  <2> QED
    BY <1>0, <1>1, <2>1 DEF Fresh
<1>11. OwnPeer'
  <2>1. ASSUME NEW v \in Callers,
               kind[v] \in Gatt,
               NEW i \in DOMAIN answer'[v]
        PROVE  answer'[v][i].peer = peer[v]
    <3>1. CASE answer'[v] = answer[v]
      BY <1>0, <2>1, <3>1 DEF OwnPeer
    <3>2. CASE answer'[v] # answer[v]
      <4>1. v = w /\ answer'[w] \in {<<>>, box[current(w)], got[current(w)]}
        BY <1>1, <1>2, <3>2
      <4>2. DOMAIN <<>> = {}
        BY EmptySeq, LenProperties
      <4> QED
        BY <1>0, <1>3, <2>1, <4>1, <4>2 DEF Own
    <3> QED
      BY <3>1, <3>2
  <2>2. ASSUME NEW v \in Callers, kind[v] = "notify", pc'[v] # "idle",
               NEW i \in DOMAIN got[current(v)]
        PROVE  got[current(v)][i].peer = peer[v]
    <3>1. pc[v] # "idle"
      BY <1>1, <1>2, <2>2
    <3> QED
      BY <1>0, <2>2, <3>1 DEF OwnPeer
  <2> QED
    BY <1>1, <1>3, <2>1, <2>2 DEF OwnPeer
<1> QED
  BY <1>4, <1>5, <1>6, <1>7, <1>8, <1>9, <1>10, <1>11 DEF Apart

\* A new call has no handlers yet and no messages.
LEMMA EnterApart ==
  ASSUME Apart, NEW w \in Callers, pc[w] = "idle", count[w] < CallsOf(w),
         NEW k \in KindsOf(w), NEW p \in Peers, Enter(w, k, p),
         UNCHANGED <<profile, handlers, message, pending, asked, feeding, epoch, closed,
                     panicked, box, shut, got>>,
         inbox' \in Seq(Messages), {over', linked'} \subseteq BOOLEAN,
         served \subseteq served', served' \subseteq 1 .. epoch,
         w \in Apps \cup served', Loops', QuietWhenUnheard'
  PROVE  Apart'
<1>0. /\ Typed /\ Registered /\ Copied /\ Fresh /\ OwnPeer
      /\ \A v \in Callers : Standing(v) /\ Own(v)
  BY DEF Apart
<1>1. /\ pc[w] = "idle" /\ count[w] < CallsOf(w)
      /\ count' = [count EXCEPT ![w] = @ + 1]
      /\ pc' = [pc EXCEPT ![w] = "register"]
      /\ outcome' = [outcome EXCEPT ![w] = "none"]
      /\ answer' = [answer EXCEPT ![w] = <<>>]
      /\ UNCHANGED <<profile, handlers, message, pending, asked, feeding, epoch, closed,
                     panicked, box, shut, got, mine, watch>>
      /\ \A v : KindsOf(v)' = KindsOf(v) /\ CallsOf(v)' = CallsOf(v)
  BY SameProfile DEF Enter
<1>2. kind' = [kind EXCEPT ![w] = k] /\ peer' = [peer EXCEPT ![w] = p]
  BY DEF Enter
<1>3. /\ pc \in [Callers -> {"idle", "register", "send", "sent", "wait", "remove",
                            "held", "part"}]
      /\ kind \in [Callers -> Kinds] /\ peer \in [Callers -> Peers]
      /\ count \in [Callers -> 0 .. MaxCalls] /\ MaxCalls \in Nat
      /\ CallsOf(w) \in 0 .. MaxCalls /\ k \in Kinds
      /\ answer \in [Callers -> Seq(Messages)]
  BY <1>0, ProfileFacts DEF Typed, TypeOK, Kinds
<1>4. /\ mine[w] = {} /\ kind'[w] = k /\ peer'[w] = p
      /\ count'[w] = count[w] + 1 /\ pc'[w] = "register" /\ answer'[w] = <<>>
      /\ count'[w] \in 0 .. MaxCalls /\ count[w] \in Nat
  BY <1>0, <1>1, <1>2, <1>3 DEF Standing
<1>5. \A v \in Callers : v # w =>
        /\ kind'[v] = kind[v] /\ peer'[v] = peer[v] /\ count'[v] = count[v]
        /\ pc'[v] = pc[v] /\ answer'[v] = answer[v] /\ current(v)' = current(v)
  BY <1>1, <1>2, <1>3 DEF current
<1>6. \A v \in Callers : v # w => \A i : Handler(v, i)' = Handler(v, i)
  BY <1>5 DEF Handler
<1>7. /\ current(w)' \in Call /\ current(w)'[1] = w /\ current(w)'[2] = count[w] + 1
      /\ box[current(w)'] = <<>> /\ got[current(w)'] = <<>>
  <2>1. current(w)' = <<w, count[w] + 1>>
    BY <1>4 DEF current
  <2>2. current(w)' \in Call /\ current(w)'[1] = w /\ current(w)'[2] = count[w] + 1
    BY <1>3, <1>4, <2>1 DEF Call
  <2> QED
    BY <1>0, <1>4, <2>2 DEF Fresh
<1>8. DOMAIN <<>> = {} /\ <<>> \in Seq(Messages)
  BY EmptySeq, LenProperties
<1>9. Typed'
  <2>1. /\ kind' \in [Callers -> Requests \cup Subscriptions]
        /\ peer' \in [Callers -> Peers]
        /\ \A v \in Callers : kind'[v] \in KindsOf(v)
        /\ count' \in [Callers -> 0 .. MaxCalls]
        /\ pc' \in [Callers -> {"idle", "register", "send", "sent", "wait", "remove",
                                "held", "part"}]
        /\ answer' \in [Callers -> Seq(Messages)]
        /\ outcome' \in [Callers -> {"none", "unsent", "answered", "timeout", "closed"}]
    BY <1>0, <1>1, <1>2, <1>3, <1>4, <1>5, <1>8 DEF Typed, TypeOK, Kinds
  <2>2. \A v \in Callers : mine[v] \subseteq DOMAIN HandlersOf(kind'[v])
    BY <1>0, <1>4, <1>5 DEF Typed, TypeOK
  <2>3. TypeOK'
    BY <1>0, <1>1, <2>1, <2>2 DEF Typed, TypeOK
  <2> QED
    BY <1>0, <1>1, <2>1, <2>3 DEF Typed
<1>11. Registered'
  BY <1>0, <1>1, <1>4, <1>6 DEF Registered
<1>12. ASSUME NEW v \in Callers PROVE Standing(v)' /\ Own(v)'
  <2>1. CASE v # w
    <3>1. /\ kind'[v] = kind[v] /\ peer'[v] = peer[v] /\ count'[v] = count[v]
          /\ pc'[v] = pc[v] /\ answer'[v] = answer[v] /\ current(v)' = current(v)
          /\ CallsOf(v)' = CallsOf(v) /\ mine' = mine /\ box' = box /\ got' = got
      BY <1>1, <1>5, <2>1
    <3>2. Enabled(v)' = Enabled(v)
      BY <3>1 DEF Enabled
    <3>3. Standing(v)'
      BY <1>0, <3>1, <3>2 DEF Standing
    <3>4. Own(v)'
      BY <1>0, <3>1 DEF Own
    <3> QED
      BY <3>3, <3>4
  <2>2. CASE v = w
    <3>1. Len(HandlersOf(k)) \in 1 .. 3
      BY <1>3, HandlersFacts
    <3>2. 0 \in 0 .. Len(HandlersOf(k)) - 1 /\ 1 .. 0 = {}
      <4>1. 1 .. 0 = {}
        OBVIOUS
      <4> DEFINE n == Len(HandlersOf(k))
      <4>2. n \in 1 .. 3
        BY <3>1
      <4> HIDE DEF n
      <4>3. 0 \in 0 .. n - 1
        BY <4>2
      <4> QED
        BY <4>1, <4>3 DEF n
    <3>3. count'[w] <= CallsOf(w) /\ count'[w] > 0
      BY <1>1, <1>3, <1>4
    <3>4. Standing(w)'
      BY <1>1, <1>4, <3>2, <3>3 DEF Standing
    <3>5. Own(w)'
      BY <1>1, <1>7, <1>8 DEF Own
    <3> QED
      BY <2>2, <3>4, <3>5
  <2> QED
    BY <2>1, <2>2
<1>13. Copied'
  <2> SUFFICES ASSUME NEW h \in pending
               PROVE  /\ message \in Messages /\ h.type = message.type
                      /\ \E i \in DOMAIN HandlersOf(h.kind) :
                           HandlersOf(h.kind)[i] = <<h.type, h.effect>>
                      /\ h.call[2] \in 1 .. count'[h.call[1]]
                      /\ h.call = current(h.call[1])' =>
                           /\ h.kind = kind'[h.call[1]]
                           /\ h.peer = peer'[h.call[1]]
    BY <1>1 DEF Copied
  <2> DEFINE v == h.call[1]
  <2>1. /\ message \in Messages /\ h.type = message.type
        /\ \E i \in DOMAIN HandlersOf(h.kind) :
             HandlersOf(h.kind)[i] = <<h.type, h.effect>>
        /\ h.call[2] \in 1 .. count[v]
        /\ h.call = current(v) => h.kind = kind[v] /\ h.peer = peer[v]
    BY <1>0 DEF Copied
  <2>2. v \in Callers
    BY <1>0 DEF Typed, TypeOK, Call
  <2>3. CASE v # w
    BY <1>5, <2>1, <2>2, <2>3
  <2>4. CASE v = w
    <3>1. h.call[2] \in 1 .. count[w] + 1 /\ h.call[2] # count[w] + 1
      BY <1>4, <2>1, <2>4
    <3> QED
      BY <1>4, <1>7, <2>1, <2>4, <3>1
  <2> QED
    BY <2>1, <2>3, <2>4
<1>14. Fresh'
  <2>1. ASSUME NEW d \in Call, d[2] > count'[d[1]] PROVE d[2] > count[d[1]]
    <3>1. d[1] \in Callers /\ d[2] \in Nat
      BY <1>3 DEF Call
    <3>2. CASE d[1] = w
      BY <1>4, <2>1, <3>1, <3>2
    <3>3. CASE d[1] # w
      BY <1>5, <2>1, <3>1, <3>3
    <3> QED
      BY <3>2, <3>3
  <2> QED
    BY <1>0, <1>1, <2>1 DEF Fresh
<1>15. OwnPeer'
  <2>1. ASSUME NEW v \in Callers, v # w
        PROVE /\ kind'[v] \in Gatt =>
                    \A i \in DOMAIN answer'[v] : answer'[v][i].peer = peer'[v]
              /\ kind'[v] = "notify" /\ pc'[v] # "idle" =>
                    \A i \in DOMAIN got[current(v)'] : got[current(v)'][i].peer = peer'[v]
    BY <1>0, <1>5, <2>1 DEF OwnPeer
  <2> QED
    BY <1>1, <1>4, <1>7, <1>8, <2>1 DEF OwnPeer
<1> QED
  BY <1>9, <1>11, <1>12, <1>13, <1>14, <1>15 DEF Apart

LEMMA BeginApart ==
  ASSUME Apart, NEW w \in Apps, Begin(w), QuietWhenUnheard'
  PROVE  Apart'
<1>1. /\ Typed /\ Loops /\ inbox \in Seq(Messages) /\ served \subseteq 1 .. epoch
      /\ {over, linked} \subseteq BOOLEAN
  BY DEF Apart, Typed, TypeOK
<1>2. /\ pc[w] = "idle" /\ count[w] < CallsOf(w) /\ w \in Callers
      /\ UNCHANGED <<profile, handlers, message, pending, inbox, asked, feeding,
                     linked, over, epoch, served, closed, panicked, box, shut, got>>
  BY DEF Begin, At, router, device, done, results, Callers
<1>3. PICK k \in KindsOf(w), p \in Peers : Enter(w, k, p)
  BY DEF Begin
<1>4. Loops'
  BY <1>1, <1>2 DEF Loops
<1> QED
  BY <1>1, <1>2, <1>3, <1>4, EnterApart

\* What a caller's own changes to the Router leave as it is.
Rest == <<profile, message, pending, device, done, panicked, results, count, kind,
          peer, watch, outcome, answer>>

\* A caller that adds or removes handlers of its own, in agreement with what it
\* knows of them.
LEMMA RouterStep ==
  ASSUME Apart, NEW w \in Callers, UNCHANGED Rest, QuietWhenUnheard',
         NEW s \in {"idle", "register", "send", "remove", "held", "part"},
         pc' = [pc EXCEPT ![w] = s], pc[w] # "idle",
         NEW M \in SUBSET (1 .. Len(HandlersOf(kind[w]))),
         mine' = [mine EXCEPT ![w] = M],
         Registered', Standing(w)'
  PROVE  Apart'
<1>0. /\ Typed /\ Loops /\ Registered /\ Copied /\ Fresh /\ OwnPeer
      /\ \A v \in Callers : Standing(v) /\ Own(v)
  BY DEF Apart
<1>1. UNCHANGED <<profile, message, pending, inbox, asked, feeding, reports,
                  linked, over, epoch, served, closed, panicked, box, shut, got,
                  count, kind, peer, watch, outcome, answer>>
  BY DEF Rest, device, done, results
<1>2. /\ pc \in [Callers -> {"idle", "register", "send", "sent", "wait", "remove",
                            "held", "part"}]
      /\ mine \in [Callers -> SUBSET (1 .. 3)]
  BY <1>0 DEF Typed, TypeOK
<1>3. \A v \in Callers : v # w => pc'[v] = pc[v] /\ mine'[v] = mine[v]
  BY <1>2
<1>4. \A v : /\ current(v)' = current(v)
             /\ KindsOf(v)' = KindsOf(v) /\ CallsOf(v)' = CallsOf(v)
  BY <1>1, SameProfile DEF current
<1>5. ASSUME NEW v \in Callers PROVE Standing(v)' /\ Own(v)'
  <2>1. Own(v)'
    BY <1>0, <1>1, <1>4 DEF Own
  <2>2. v # w => Standing(v)'
    BY <1>0, <1>1, <1>3, <1>4 DEF Standing, Enabled
  <2> QED
    BY <2>1, <2>2
<1>6. ASSUME NEW h \in handlers' PROVE h.call \in Call /\ h.kind \in KindsOf(h.call[1])
  <2>1. PICK v \in Callers : \E i \in mine'[v] : h = Handler(v, i)'
    BY DEF Registered
  <2>2. h.call = current(v) /\ h.kind = kind[v]
    BY <1>1, <1>4, <2>1 DEF Handler
  <2>3. count[v] > 0
    BY <1>1, <1>5, <2>1 DEF Standing
  <2> QED
    BY <1>0, <2>2, <2>3, CallerFacts
<1>7. Typed'
  <2>1. Len(HandlersOf(kind[w])) \in 1 .. 3
        /\ DOMAIN HandlersOf(kind[w]) = 1 .. Len(HandlersOf(kind[w]))
    BY <1>0, CallerFacts, HandlersFacts
  <2>2. mine' \in [Callers -> SUBSET (1 .. 3)]
    <3> DEFINE n == Len(HandlersOf(kind[w]))
    <3>1. n \in 1 .. 3 /\ M \subseteq 1 .. n
      BY <2>1
    <3> HIDE DEF n
    <3>2. M \subseteq 1 .. 3
      BY <3>1
    <3> QED
      BY <1>2, <3>2
  <2>3. \A v \in Callers : mine'[v] \subseteq DOMAIN HandlersOf(kind[v])
    BY <1>0, <1>2, <1>3, <2>1 DEF Typed, TypeOK
  <2>4. pc' \in [Callers -> {"idle", "register", "send", "sent", "wait", "remove",
                            "held", "part"}]
    BY <1>2
  <2>5. TypeOK'
    BY <1>0, <1>1, <1>4, <1>6, <2>3, <2>4 DEF Typed, TypeOK
  <2> QED
    BY <1>0, <1>1, <2>2, <2>5 DEF Typed
<1>8. Loops'
  BY <1>0, <1>1 DEF Loops
<1>9. Copied' /\ Fresh'
  BY <1>0, <1>1, <1>4 DEF Copied, Fresh
<1>10. OwnPeer'
  BY <1>0, <1>1, <1>2, <1>4 DEF OwnPeer
<1> QED
  BY <1>5, <1>7, <1>8, <1>9, <1>10 DEF Apart

LEMMA RegisterApart ==
  ASSUME Apart, NEW w \in Callers, Register(w), QuietWhenUnheard'
  PROVE  Apart'
<1> DEFINE n == Len(HandlersOf(kind[w]))
           i == Cardinality(mine[w]) + 1
<1>0. /\ Typed /\ Registered /\ Standing(w)
      /\ pc \in [Callers -> {"idle", "register", "send", "sent", "wait", "remove",
                             "held", "part"}]
      /\ mine \in [Callers -> SUBSET (1 .. 3)]
      /\ n \in 1 .. 3
  BY CallerFacts, HandlersFacts DEF Apart, Typed, TypeOK
<1>1. /\ pc[w] = "register" /\ UNCHANGED Rest
      /\ handlers' = handlers \cup {Handler(w, i)}
      /\ mine' = [mine EXCEPT ![w] = @ \cup {i}]
      /\ pc' = [pc EXCEPT ![w] = IF i = n THEN "send" ELSE "register"]
  BY DEF Register, At, Rest
<1>2. PICK k \in 0 .. n - 1 : mine[w] = 1 .. k
  BY <1>0, <1>1 DEF Standing
<1>3. i = k + 1 /\ mine[w] \cup {i} = 1 .. k + 1 /\ k \in Nat
  BY <1>0, <1>2, UpTo
<1>4. /\ \A v, j : Handler(v, j)' = Handler(v, j)
      /\ UNCHANGED <<kind, count, peer, served>> /\ (CallsOf(w)' = CallsOf(w))
  BY <1>1, SameProfile DEF Handler, current, Rest, done
<1>5. Registered'
  <2>1. \A v \in Callers : v # w => mine'[v] = mine[v]
    BY <1>0, <1>1
  <2>2. mine'[w] = mine[w] \cup {i}
    BY <1>0, <1>1
  <2> HIDE DEF i
  <2> QED
    BY <1>0, <1>1, <1>4, <2>1, <2>2 DEF Registered
<1>6. mine' = [mine EXCEPT ![w] = 1 .. k + 1] /\ mine'[w] = 1 .. k + 1
      /\ pc'[w] = (IF k + 1 = n THEN "send" ELSE "register")
  BY <1>0, <1>1, <1>3
<1>7. Standing(w)'
  <2>1. CASE k + 1 = n
    BY <1>0, <1>1, <1>4, <1>6, <2>1 DEF Standing
  <2>2. CASE k + 1 # n
    <3>1. k + 1 \in 0 .. n - 1
      BY <1>0, <2>2
    <3> QED
      BY <1>0, <1>1, <1>4, <1>6, <2>2, <3>1 DEF Standing
  <2> QED
    BY <2>1, <2>2
<1>8. 1 .. k + 1 \in SUBSET (1 .. n)
  BY <1>0, <1>2
<1>9. pc' = [pc EXCEPT ![w] = IF k + 1 = n THEN "send" ELSE "register"]
      /\ (IF k + 1 = n THEN "send" ELSE "register")
           \in {"idle", "register", "send", "remove", "held", "part"}
      /\ pc[w] # "idle"
  BY <1>1, <1>3
<1> QED
  BY <1>1, <1>5, <1>6, <1>7, <1>8, <1>9, RouterStep

\* Some of a caller's handlers are removed, and none of another.
LEMMA RemovedAgree ==
  ASSUME Apart, NEW w \in Callers, UNCHANGED Rest,
         NEW M \in SUBSET mine[w],
         handlers' = handlers \ {Handler(w, i) : i \in M},
         mine' = [mine EXCEPT ![w] = @ \ M]
  PROVE  Registered'
<1>0. Typed /\ Registered
  BY DEF Apart
<1>1. \A v, j : Handler(v, j)' = Handler(v, j)
  BY DEF Handler, current, Rest
<1>2. /\ \A v \in Callers : v # w => mine'[v] = mine[v]
      /\ mine'[w] = mine[w] \ M
  BY <1>0 DEF Typed
<1>3. ASSUME NEW v \in Callers, NEW i \in mine'[v] PROVE Handler(v, i) \in handlers'
  <2>1. i \in mine[v] /\ Handler(v, i) \in handlers
    BY <1>0, <1>2, <1>3 DEF Registered
  <2>2. ASSUME NEW j \in M, Handler(v, i) = Handler(w, j) PROVE FALSE
    <3>1. i \in 1 .. Len(HandlersOf(kind[v])) /\ j \in 1 .. Len(HandlersOf(kind[w]))
      BY <1>0, <2>1, CallerFacts
    <3>2. v = w /\ i = j
      BY <1>0, <2>2, <3>1, HandlersDiffer
    <3> QED
      BY <1>2, <1>3, <3>2
  <2> QED
    BY <2>1, <2>2
<1>4. ASSUME NEW h \in handlers'
      PROVE \E v \in Callers : \E i \in mine'[v] : h = Handler(v, i)
  <2>1. PICK v \in Callers : \E i \in mine[v] : h = Handler(v, i)
    BY <1>0 DEF Registered
  <2>2. PICK i \in mine[v] : h = Handler(v, i)
    BY <2>1
  <2>3. v # w \/ i \notin M
    BY <1>4, <2>2
  <2> QED
    BY <1>2, <2>2, <2>3
<1> QED
  BY <1>1, <1>3, <1>4 DEF Registered

LEMMA StopApart ==
  ASSUME Apart, NEW w \in Callers, Stop(w), QuietWhenUnheard'
  PROVE  Apart'
<1>0. /\ Typed /\ Standing(w)
      /\ pc \in [Callers -> {"idle", "register", "send", "sent", "wait", "remove",
                             "held", "part"}]
      /\ mine \in [Callers -> SUBSET (1 .. 3)]
  BY DEF Apart, Typed, TypeOK
<1>1. /\ pc[w] = "held" /\ UNCHANGED Rest
      /\ handlers' = handlers \ {Handler(w, i) : i \in mine[w]}
      /\ mine' = [mine EXCEPT ![w] = {}]
      /\ pc' = [pc EXCEPT ![w] = IF kind[w] = "adverts" THEN "part" ELSE "idle"]
  BY DEF Stop, At, Rest
<1>2. mine' = [mine EXCEPT ![w] = @ \ mine[w]]
  BY <1>0, <1>1
<1>3. Registered'
  BY <1>1, <1>2, RemovedAgree
<1>4. PICK s \in {"part", "idle"} : pc' = [pc EXCEPT ![w] = s] /\ pc'[w] = s
  BY <1>0, <1>1
<1>5. Standing(w)'
  <2>1. mine'[w] = {}
    BY <1>0, <1>1
  <2>2. UNCHANGED <<count, kind, served>> /\ (CallsOf(w)' = CallsOf(w))
    BY <1>1, SameProfile DEF Rest, done
  <2> QED
    BY <1>0, <1>1, <1>4, <2>1, <2>2 DEF Standing
<1> QED
  BY <1>1, <1>3, <1>4, <1>5, RouterStep

\* The last of one, two or three handlers goes.
LEMMA Topmost ==
  ASSUME NEW k \in 1 .. 3
  PROVE  /\ Max(1 .. k) = k /\ Cardinality(1 .. k) = k
         /\ (1 .. k) \ {k} = 1 .. k - 1
         /\ k < 3 => ((1 .. k) \cup {3}) \ {3} = 1 .. k
                     /\ ((1 .. k) \cup {3}) \ {k} = (1 .. k - 1) \cup {3}
<1>1. Max(1 .. k) = k /\ Cardinality(1 .. k) = k /\ (1 .. k) \ {k} = 1 .. k - 1
  BY UpTo
<1>2. k < 3 => ((1 .. k) \cup {3}) \ {3} = 1 .. k
  OBVIOUS
<1>3. k < 3 => ((1 .. k) \cup {3}) \ {k} = (1 .. k - 1) \cup {3}
  OBVIOUS
<1> QED
  BY <1>1, <1>2, <1>3

LEMMA RemoveApart ==
  ASSUME Apart, NEW w \in Callers, Remove(w), QuietWhenUnheard'
  PROVE  Apart'
<1> DEFINE n == Len(HandlersOf(kind[w]))
           drop == IF Enabled(w) THEN mine[w] \ {3} ELSE mine[w]
<1>0. /\ Typed /\ Standing(w)
      /\ pc \in [Callers -> {"idle", "register", "send", "sent", "wait", "remove",
                             "held", "part"}]
      /\ mine \in [Callers -> SUBSET (1 .. 3)]
      /\ n \in 1 .. 3 /\ mine[w] \subseteq 1 .. n
  BY CallerFacts, HandlersFacts DEF Apart, Typed, TypeOK
<1>1. /\ pc[w] = "remove" /\ UNCHANGED Rest
      /\ handlers' = handlers \ {Handler(w, Max(drop))}
      /\ mine' = [mine EXCEPT ![w] = @ \ {Max(drop)}]
      /\ pc' = [pc EXCEPT ![w] = IF Cardinality(drop) > 1 THEN "remove"
                                 ELSE IF Enabled(w) THEN "held" ELSE "idle"]
  BY DEF Remove, At, Rest
<1>2. PICK k \in 1 .. 3 :
        /\ drop = 1 .. k
        /\ IF Enabled(w) THEN k < 3 /\ mine[w] = (1 .. k) \cup {3}
                         ELSE mine[w] = 1 .. k
  <2>1. CASE Enabled(w)
    <3>1. PICK k \in 1 .. 2 : mine[w] = (1 .. k) \cup {3}
      BY <1>0, <1>1, <2>1 DEF Standing
    <3>2. k \in 1 .. 3 /\ k < 3
      OBVIOUS
    <3> QED
      BY <2>1, <3>1, <3>2, Topmost
  <2>2. CASE ~Enabled(w)
    BY <1>0, <1>1, <2>2 DEF Standing
  <2> QED
    BY <2>1, <2>2
<1>3. Max(drop) = k /\ Cardinality(drop) = k /\ k \in mine[w]
  <2> HIDE DEF drop
  <2>1. Max(drop) = k /\ Cardinality(drop) = k
    BY <1>2, Topmost
  <2>2. k \in 1 .. k
    OBVIOUS
  <2> QED
    BY <1>2, <2>1, <2>2
<1> HIDE DEF drop
<1>4. Registered'
  <2>1. handlers' = handlers \ {Handler(w, i) : i \in {k}}
    BY <1>1, <1>3
  <2>2. mine' = [mine EXCEPT ![w] = @ \ {k}] /\ {k} \in SUBSET mine[w]
    BY <1>1, <1>3
  <2> QED
    BY <1>1, <2>1, <2>2, RemovedAgree
<1>5. PICK s \in {"remove", "held", "idle"} :
        /\ pc' = [pc EXCEPT ![w] = s] /\ pc'[w] = s
        /\ IF k > 1 THEN s = "remove"
           ELSE IF Enabled(w) THEN s = "held" ELSE s = "idle"
  BY <1>0, <1>1, <1>3
<1>6. mine' = [mine EXCEPT ![w] = mine[w] \ {k}] /\ mine'[w] = mine[w] \ {k}
  BY <1>0, <1>1, <1>3
<1>7. Standing(w)'
  <2>1. /\ UNCHANGED <<count, kind, answer, served>>
        /\ Enabled(w)' = Enabled(w) /\ CallsOf(w)' = CallsOf(w)
    BY <1>1, SameProfile DEF Rest, Enabled, done
  <2>2. CASE Enabled(w)
    <3>1. mine'[w] = (1 .. k - 1) \cup {3} /\ (k = 1 \/ k = 2)
      BY <1>2, <1>6, <2>2, Topmost
    <3>2. CASE k = 1
      BY <1>0, <1>1, <1>5, <2>1, <2>2, <3>2 DEF Standing
    <3>3. CASE k = 2
      <4>1. mine'[w] = (1 .. 1) \cup {3} /\ pc'[w] = "remove" /\ 1 \in 1 .. 2
        BY <1>5, <3>1, <3>3
      <4> QED
        BY <1>0, <1>1, <2>1, <2>2, <4>1 DEF Standing
    <3> QED
      BY <3>1, <3>2, <3>3
  <2>3. CASE ~Enabled(w)
    <3>1. mine'[w] = 1 .. k - 1 /\ k <= n
      <4>1. mine[w] = 1 .. k
        BY <1>2, <2>3
      <4>2. k <= n
        BY <1>0, <1>3
      <4> QED
        BY <1>6, <4>1, <4>2, Topmost
    <3>2. CASE k = 1
      <4>1. 1 .. k - 1 = {}
        BY <3>2
      <4> QED
        BY <1>0, <1>1, <1>5, <2>1, <2>3, <3>1, <3>2, <4>1 DEF Standing
    <3>3. CASE k > 1
      <4>1. pc'[w] = "remove" /\ k - 1 \in 1 .. n
        BY <1>0, <1>5, <3>1, <3>3
      <4> QED
        BY <1>0, <1>1, <2>1, <2>3, <3>1, <4>1 DEF Standing
    <3> QED
      BY <3>2, <3>3
  <2> QED
    BY <2>2, <2>3
<1>8. mine[w] \ {k} \in SUBSET (1 .. n)
  BY <1>0
<1> QED
  BY <1>1, <1>4, <1>5, <1>6, <1>7, <1>8, RouterStep

-----------------------------------------------------------------------------
(* The read loop, reconnectLoop and the device.                            *)

\* A step that no caller takes and that leaves the Router as it is: what has
\* come for the calls is looked at by OwnPeer through got alone.
LEMMA OthersApart ==
  ASSUME Apart, QuietWhenUnheard',
         UNCHANGED <<profile, handlers, message, box, shut, got, callers>>,
         pending' \subseteq pending, served \subseteq served', Loops', Typed'
  PROVE  Apart'
<1>0. /\ Typed /\ Loops /\ Registered /\ Copied /\ Fresh /\ OwnPeer
      /\ \A v \in Callers : Standing(v) /\ Own(v)
  BY DEF Apart
<1>1. UNCHANGED <<pc, count, kind, peer, mine, watch, outcome, answer>>
  BY DEF callers
<1>2. /\ \A v : current(v)' = current(v) /\ CallsOf(v)' = CallsOf(v)
      /\ \A v, j : Handler(v, j)' = Handler(v, j)
  BY <1>1, SameProfile DEF Handler, current
<1>3. Registered'
  BY <1>0, <1>1, <1>2 DEF Registered
<1>4. ASSUME NEW v \in Callers PROVE Standing(v)' /\ Own(v)'
  BY <1>0, <1>1, <1>2 DEF Standing, Own, Enabled
<1>5. Copied' /\ Fresh'
  BY <1>0, <1>1, <1>2 DEF Copied, Fresh
<1>6. OwnPeer'
  BY <1>0, <1>1, <1>2 DEF OwnPeer
<1> QED
  BY <1>3, <1>4, <1>5, <1>6 DEF Apart

\* A sequence of one message.
LEMMA OneMessage ==
  ASSUME NEW m \in Messages
  PROVE  /\ <<m>> \in Seq(Messages) /\ Len(<<m>>) = 1 /\ DOMAIN <<m>> = {1}
         /\ <<m>>[1] = m
<1>1. <<m>> \in Seq(Messages)
  OBVIOUS
<1>2. Len(<<m>>) = 1 /\ <<m>>[1] = m
  OBVIOUS
<1>3. DOMAIN <<m>> = 1 .. 1
  BY <1>1, <1>2, LenProperties
<1> QED
  BY <1>1, <1>2, <1>3

\* The replies to one family are not those to the other.
LEMMA Families ==
  ASSUME NEW g \in {Lists, Gatt}
  PROVE  /\ g = Lists => RepliesTo(g) = {"entity", "done"}
         /\ g = Gatt => RepliesTo(g) = {"service", "finished", "error", "data",
                                        "written", "notified"}
         /\ \A t \in RepliesTo(g) : \A p, c, n : Reply(g, Msg(t, p, c, n))
         /\ \A t, p, c, n : Reply(g, Msg(t, p, c, n)) => t \in RepliesTo(g)
         /\ g \subseteq Requests \ {"connect"}
<1>1. "list" \in Lists /\ "list" \notin Gatt
  BY DEF Lists, Gatt
<1> QED
  BY <1>1 DEF RepliesTo, Reply, Msg, Requests, Lists, Gatt

\* The messages of an answer.
LEMMA AnswersFacts ==
  ASSUME NEW c \in Call, NEW k \in Requests, NEW p \in Peers,
         NEW ms \in Answers(c, k, p)
  PROVE  /\ ms \in Seq(Messages) /\ Len(ms) \in 1 .. 3
         /\ k = "list" => ms = <<Msg("entity", p, c, 1), Msg("entity", p, c, 2),
                                 Msg("done", p, c, 3)>>
         /\ \A i \in 1 .. Len(ms) :
              ms[i].n = i /\ ms[i].peer = p /\ ms[i].of = c
         /\ \A g \in {Lists, Gatt}, i \in 1 .. Len(ms) : Reply(g, ms[i]) <=> k \in g
<1>1. \A t \in RepliesTo(Lists) \cup RepliesTo(Gatt) \cup {"connection"}, i \in 1 .. 3 :
        Msg(t, p, c, i) \in Messages
  BY DEF Msg, Messages
<1>2. /\ RepliesTo(Lists) = {"entity", "done"}
      /\ RepliesTo(Gatt) = {"service", "finished", "error", "data", "written", "notified"}
  BY Families
<1>3. /\ \A x : x \in Lists <=> x = "list"
      /\ \A x : x \in Gatt <=> x \in {"services", "read", "write", "notify", "mute"}
  BY DEF Lists, Gatt
<1>4. CASE k = "connect"
  <2> DEFINE a == Msg("connection", p, c, 1)
  <2>1. ms = <<a>> /\ a \in Messages
    BY <1>1, <1>4 DEF Answers
  <2>2. a.n = 1 /\ a.peer = p /\ a.of = c /\ ~Reply(Lists, a) /\ ~Reply(Gatt, a)
    BY <1>2 DEF Msg, Reply
  <2> HIDE DEF a
  <2> QED
    BY <1>3, <1>4, <2>1, <2>2, OneMessage
<1>5. CASE k = "list"
  <2> DEFINE a == Msg("entity", p, c, 1)
             b == Msg("entity", p, c, 2)
             d == Msg("done", p, c, 3)
  <2>1. ms = <<a, b, d>>
    BY <1>5 DEF Answers
  <2>2. a \in Messages /\ b \in Messages /\ d \in Messages
    BY <1>1, <1>2
  <2>3. /\ a.n = 1 /\ a.peer = p /\ a.of = c /\ Reply(Lists, a) /\ ~Reply(Gatt, a)
        /\ b.n = 2 /\ b.peer = p /\ b.of = c /\ Reply(Lists, b) /\ ~Reply(Gatt, b)
        /\ d.n = 3 /\ d.peer = p /\ d.of = c /\ Reply(Lists, d) /\ ~Reply(Gatt, d)
    BY <1>2 DEF Msg, Reply
  <2>4. ms = <<Msg("entity", p, c, 1), Msg("entity", p, c, 2), Msg("done", p, c, 3)>>
    BY <2>1
  <2> HIDE DEF a, b, d
  <2>5. ms \in Seq(Messages) /\ Len(ms) = 3 /\ ms[1] = a /\ ms[2] = b /\ ms[3] = d
    BY <2>1, <2>2
  <2>6. \A i \in 1 .. Len(ms) : /\ ms[i].n = i /\ ms[i].peer = p /\ ms[i].of = c
                              /\ Reply(Lists, ms[i]) /\ ~Reply(Gatt, ms[i])
    <3>1. \A i \in 1 .. Len(ms) : i = 1 \/ i = 2 \/ i = 3
      BY <2>5
    <3> QED
      BY <2>3, <2>5, <3>1
  <2>7. Len(ms) \in 1 .. 3
    BY <2>5
  <2> QED
    BY <1>3, <1>5, <2>4, <2>5, <2>6, <2>7
<1>6. CASE k = "services"
  <2>1. /\ Msg("service", p, c, 1) \in Messages /\ Msg("finished", p, c, 2) \in Messages
        /\ Msg("error", p, c, 1) \in Messages
    BY <1>1, <1>2
  <2> DEFINE a == Msg("service", p, c, 1)
             b == Msg("finished", p, c, 2)
             d == Msg("error", p, c, 1)
  <2>2. ms \in {<<a, b>>, <<d>>}
    BY <1>6 DEF Answers
  <2>3. /\ a.n = 1 /\ a.peer = p /\ a.of = c /\ Reply(Gatt, a) /\ ~Reply(Lists, a)
        /\ b.n = 2 /\ b.peer = p /\ b.of = c /\ Reply(Gatt, b) /\ ~Reply(Lists, b)
        /\ d.n = 1 /\ d.peer = p /\ d.of = c /\ Reply(Gatt, d) /\ ~Reply(Lists, d)
    BY <1>2 DEF Msg, Reply
  <2> HIDE DEF a, b, d
  <2>4. CASE ms = <<a, b>>
    BY <1>3, <1>6, <2>1, <2>3, <2>4 DEF a, b
  <2>5. CASE ms = <<d>>
    BY <1>3, <1>6, <2>1, <2>3, <2>5, OneMessage DEF d
  <2> QED
    BY <2>2, <2>4, <2>5
<1>7. CASE k \in {"read", "write", "notify", "mute"}
  <2>1. PICK t \in {"data", "written", "notified", "error"} : ms = <<Msg(t, p, c, 1)>>
    BY <1>7 DEF Answers
  <2> DEFINE a == Msg(t, p, c, 1)
  <2>2. a \in Messages
    BY <1>1, <1>2, <2>1
  <2>3. a.n = 1 /\ a.peer = p /\ a.of = c /\ Reply(Gatt, a) /\ ~Reply(Lists, a)
    BY <1>2, <2>1 DEF Msg, Reply
  <2>4. ms = <<a>>
    BY <2>1
  <2> HIDE DEF a
  <2> QED
    BY <1>3, <1>7, <2>2, <2>3, <2>4, OneMessage
<1> QED
  BY <1>4, <1>5, <1>6, <1>7 DEF Requests, Lists, Gatt

\* Messages appended to others.
LEMMA MoreMessages ==
  ASSUME NEW q \in Seq(Messages), NEW ms \in Seq(Messages)
  PROVE  q \o ms \in Seq(Messages)
BY ConcatProperties

\* The types when the results of the calls stay what they are.
LEMMA OthersTyped ==
  ASSUME Apart, UNCHANGED <<profile, handlers, box, shut, got, callers>>,
         pending' \subseteq handlers \cup pending,
         inbox' \in Seq(Messages),
         asked' \subseteq asked,
         feeding' \subseteq (Subscriptions \X {"any"}) \cup ({"value"} \X Peers),
         epoch' \in 1 .. profile.redials + 1,
         closed' \subseteq served', served' \subseteq 1 .. epoch',
         {over', panicked', linked'} \subseteq BOOLEAN
  PROVE  Typed'
<1>0. Typed
  BY DEF Apart
<1>1. UNCHANGED <<pc, count, kind, peer, mine, watch, outcome, answer>>
  BY DEF callers
<1>2. \A h \in handlers' \cup pending' :
        h.call \in Call /\ h.kind \in KindsOf(h.call[1])
  BY <1>0 DEF Typed, TypeOK
<1>3. asked' \subseteq Call \X Requests \X Peers
  BY <1>0 DEF Typed, TypeOK
<1>4. TypeOK'
  BY <1>0, <1>1, <1>2, <1>3, SameProfile DEF Typed, TypeOK
<1> QED
  BY <1>0, <1>1, <1>4 DEF Typed

LEMMA AnswerApart ==
  ASSUME Apart, Answer, QuietWhenUnheard'
  PROVE  Apart'
<1>0. /\ Typed /\ Loops /\ inbox \in Seq(Messages) /\ asked \subseteq Call \X Requests \X Peers
      /\ feeding \subseteq (Subscriptions \X {"any"}) \cup ({"value"} \X Peers)
      /\ epoch \in 1 .. profile.redials + 1
      /\ closed \subseteq served /\ served \subseteq 1 .. epoch
      /\ {over, panicked, linked} \subseteq BOOLEAN
  BY DEF Apart, Typed, TypeOK
<1>1. /\ linked
      /\ UNCHANGED <<profile, handlers, message, pending, linked, over, epoch,
                     served, closed, panicked, box, shut, got, callers>>
  BY DEF Answer, Up, router, done, results
<1>2. PICK r \in asked : \E ms \in Answers(r[1], r[2], r[3]) :
        inbox' = inbox \o ms /\ asked' = asked \ {r} /\ feeding' \in Fed(r, ms)
  BY DEF Answer
<1>3. PICK ms \in Answers(r[1], r[2], r[3]) :
        inbox' = inbox \o ms /\ asked' = asked \ {r} /\ feeding' \in Fed(r, ms)
  BY <1>2
<1>4. r[1] \in Call /\ r[2] \in Requests /\ r[3] \in Peers
  BY <1>0
<1>5. ms \in Seq(Messages)
  BY <1>4, AnswersFacts
<1>6. inbox' \in Seq(Messages)
  BY <1>0, <1>3, <1>5, MoreMessages
<1>7. feeding' \subseteq (Subscriptions \X {"any"}) \cup ({"value"} \X Peers)
  <2>1. feeding' \subseteq feeding \cup ({"value"} \X Peers)
    BY <1>0, <1>3, FedFacts
  <2> QED
    BY <1>0, <2>1
<1>8. Typed'
  BY <1>0, <1>1, <1>3, <1>6, <1>7, OthersTyped
<1>9. Loops'
  BY <1>0, <1>1 DEF Loops
<1> QED
  BY <1>1, <1>8, <1>9, OthersApart

LEMMA EmitApart ==
  ASSUME Apart, Emit, QuietWhenUnheard'
  PROVE  Apart'
<1>0. /\ Typed /\ Loops /\ inbox \in Seq(Messages)
      /\ feeding \subseteq (Subscriptions \X {"any"}) \cup ({"value"} \X Peers)
      /\ epoch \in 1 .. profile.redials + 1
      /\ closed \subseteq served /\ served \subseteq 1 .. epoch
      /\ {over, panicked, linked} \subseteq BOOLEAN
  BY DEF Apart, Typed, TypeOK
<1>1. UNCHANGED <<profile, handlers, message, pending, asked, feeding, linked, over,
                  epoch, served, closed, panicked, box, shut, got, callers>>
  BY DEF Emit, router, done, results
<1>2. PICK s \in feeding \cup ({"connection"} \X Peers) :
        inbox' = Append(inbox, Msg(s[1], s[2], <<>>, 1))
  BY DEF Emit
<1>3. /\ s[1] \in Subscriptions \cup {"connection", "value"}
      /\ s[2] \in Peers \cup {"any"}
  BY <1>0
<1>4. Msg(s[1], s[2], <<>>, 1) \in Messages
  BY <1>3 DEF Msg, Messages
<1>5. inbox' \in Seq(Messages)
  BY <1>0, <1>2, <1>4, AppendProperties
<1>6. Typed'
  BY <1>0, <1>1, <1>5, OthersTyped
<1>7. Loops'
  BY <1>0, <1>1 DEF Loops
<1> QED
  BY <1>1, <1>6, <1>7, OthersApart

LEMMA LoopsApart ==
  ASSUME Apart, Exit \/ CloseDone \/ Redial \/ LoseLink, QuietWhenUnheard'
  PROVE  Apart'
<1>0. /\ Typed /\ Loops /\ inbox \in Seq(Messages)
      /\ feeding \subseteq (Subscriptions \X {"any"}) \cup ({"value"} \X Peers)
      /\ epoch \in 1 .. profile.redials + 1
      /\ closed \subseteq served /\ served \subseteq 1 .. epoch
      /\ {over, panicked, linked} \subseteq BOOLEAN
      /\ <<>> \in Seq(Messages)
  BY EmptySeq DEF Apart, Typed, TypeOK
<1>1. UNCHANGED <<profile, handlers, message, pending, panicked, box, shut, got,
                  callers>>
  BY DEF Exit, CloseDone, Redial, LoseLink, router, done, results, device
<1>2. CASE Exit
  <2>1. /\ over' = TRUE /\ ~linked /\ pending = {}
        /\ UNCHANGED <<inbox, asked, feeding, linked, epoch, served, closed>>
    BY <1>2 DEF Exit, Free, device
  <2> QED
    BY <1>0, <1>1, <2>1, OthersTyped, OthersApart DEF Loops
<1>3. CASE CloseDone
  <2>1. PICK e \in served \ closed : (over \/ e # epoch) /\ closed' = closed \cup {e}
    BY <1>3 DEF CloseDone
  <2>2. UNCHANGED <<inbox, asked, feeding, linked, over, epoch, served>>
    BY <1>3 DEF CloseDone, device
  <2> QED
    BY <1>0, <1>1, <2>1, <2>2, OthersTyped, OthersApart DEF Loops
<1>4. CASE Redial
  <2>1. /\ over /\ epoch <= profile.redials /\ epoch' = epoch + 1
        /\ UNCHANGED <<inbox, asked, feeding, linked, over, closed, served>>
    BY <1>4 DEF Redial, device
  <2>2. epoch' \in 1 .. profile.redials + 1 /\ served' \subseteq 1 .. epoch'
    <3>1. profile.redials \in Nat
      BY CallsAssumption DEF Apart, Typed
    <3> QED
      BY <1>0, <2>1, <3>1
  <2>3. Typed'
    BY <1>0, <1>1, <2>1, <2>2, OthersTyped
  <2> QED
    BY <1>0, <1>1, <2>1, <2>3, OthersApart DEF Loops
<1>5. CASE LoseLink
  <2>1. /\ linked /\ linked' = FALSE /\ asked' = {} /\ feeding' = {}
        /\ UNCHANGED <<inbox, over, epoch, served, closed>>
    BY <1>5 DEF LoseLink, Up, done
  <2>2. Typed'
    BY <1>0, <1>1, <2>1, OthersTyped
  <2>3. Loops'
    BY <1>0, <1>1, <2>1 DEF Loops
  <2> QED
    BY <1>1, <2>1, <2>2, <2>3, OthersApart
<1> QED
  BY <1>2, <1>3, <1>4, <1>5

\* The read loop of another connection starts, and reconnectLoop lists.
LEMMA ReconnectApart ==
  ASSUME Apart, Reconnect, QuietWhenUnheard'
  PROVE  Apart'
<1>1. /\ Typed /\ Loops /\ served \subseteq 1 .. epoch /\ epoch \in Nat \ {0}
      /\ closed \subseteq served /\ <<>> \in Seq(Messages)
  BY EmptySeq DEF Apart, Typed, TypeOK
<1>2. /\ over /\ epoch \notin served /\ served' = served \cup {epoch}
      /\ over' = FALSE /\ linked' = TRUE /\ inbox' = <<>>
      /\ Enter(epoch, "list", peer[epoch])
      /\ UNCHANGED <<profile, handlers, message, pending, asked, feeding, epoch, closed,
                     panicked, box, shut, got>>
  BY DEF Reconnect, router, results
<1>3. /\ epoch \in Callers /\ pc[epoch] = "idle" /\ count[epoch] < CallsOf(epoch)
      /\ "list" \in KindsOf(epoch) /\ peer[epoch] \in Peers
  BY NewLister
<1>4. Loops'
  BY <1>1, <1>2 DEF Loops
<1>5. served' \subseteq 1 .. epoch
  BY <1>1, <1>2
<1> QED
  BY <1>1, <1>2, <1>3, <1>4, <1>5, EnterApart

\* The handler that a call has registered under an index, as Dispatch sees it.
LEMMA HandlerFacts ==
  ASSUME Apart, NEW h \in handlers
  PROVE  \E w \in Callers :
           /\ h.call = current(w) /\ count[w] > 0
           /\ h.kind = kind[w] /\ h.peer = peer[w]
           /\ \E i \in mine[w] : i \in DOMAIN HandlersOf(kind[w])
                /\ HandlersOf(kind[w])[i] = <<h.type, h.effect>>
<1>0. Typed /\ Registered /\ \A w \in Callers : Standing(w)
  BY DEF Apart
<1>1. PICK w \in Callers : \E i \in mine[w] : h = Handler(w, i)
  BY <1>0 DEF Registered
<1>2. PICK i \in mine[w] : h = Handler(w, i)
  BY <1>1
<1>3. count[w] > 0
  BY <1>0, <1>2 DEF Standing
<1>4. i \in DOMAIN HandlersOf(kind[w])
  BY <1>0, <1>2 DEF Typed, TypeOK
<1>5. HandlersOf(kind[w])[i] = <<HandlersOf(kind[w])[i][1], HandlersOf(kind[w])[i][2]>>
  <2>1. kind[w] \in Kinds
    BY <1>0, CallerFacts
  <2> QED
    BY <1>4, <2>1, HandlersFacts
<1> QED
  BY <1>2, <1>3, <1>4, <1>5 DEF Handler

LEMMA ReadApart ==
  ASSUME Apart, Read, QuietWhenUnheard'
  PROVE  Apart'
<1>0. /\ Typed /\ Loops /\ Registered /\ Copied /\ Fresh /\ OwnPeer
      /\ inbox \in Seq(Messages)
      /\ feeding \subseteq (Subscriptions \X {"any"}) \cup ({"value"} \X Peers)
      /\ epoch \in 1 .. profile.redials + 1
      /\ closed \subseteq served /\ served \subseteq 1 .. epoch
      /\ {over, panicked, linked} \subseteq BOOLEAN
      /\ \A v \in Callers : Standing(v) /\ Own(v)
  BY DEF Apart, Typed, TypeOK
<1>1. /\ inbox # <<>> /\ ~over
      /\ message' = Head(inbox) /\ inbox' = Tail(inbox)
      /\ pending' = {h \in handlers : h.type = Head(inbox).type}
      /\ UNCHANGED <<profile, handlers, asked, feeding, linked, over, epoch,
                     served, closed, panicked, box, shut, got, callers>>
  BY DEF Read, Free, done, results
<1>2. Head(inbox) \in Messages /\ Tail(inbox) \in Seq(Messages)
  BY <1>0, <1>1, HeadTailProperties
<1>3. Typed'
  BY <1>0, <1>1, <1>2, OthersTyped
<1>4. Loops'
  BY <1>0, <1>1 DEF Loops
<1>5. UNCHANGED <<pc, count, kind, peer, mine, watch, outcome, answer>>
  BY <1>1 DEF callers
<1>6. /\ \A v : current(v)' = current(v) /\ CallsOf(v)' = CallsOf(v)
      /\ \A v, j : Handler(v, j)' = Handler(v, j)
  BY <1>1, <1>5, SameProfile DEF Handler, current
<1>7. Registered'
  BY <1>0, <1>1, <1>5, <1>6 DEF Registered
<1>8. ASSUME NEW v \in Callers PROVE Standing(v)' /\ Own(v)'
  BY <1>0, <1>1, <1>5, <1>6 DEF Standing, Own, Enabled
<1>9. Fresh' /\ OwnPeer'
  BY <1>0, <1>1, <1>5, <1>6 DEF Fresh, OwnPeer
<1>10. Copied'
  <2> SUFFICES ASSUME NEW h \in pending'
               PROVE  /\ message' \in Messages /\ h.type = message'.type
                      /\ \E i \in DOMAIN HandlersOf(h.kind) :
                           HandlersOf(h.kind)[i] = <<h.type, h.effect>>
                      /\ h.call[2] \in 1 .. count[h.call[1]]
                      /\ h.call = current(h.call[1]) =>
                           /\ h.kind = kind[h.call[1]]
                           /\ h.peer = peer[h.call[1]]
    BY <1>5, <1>6 DEF Copied
  <2>1. h \in handlers /\ h.type = message'.type /\ message' \in Messages
    BY <1>1, <1>2
  <2>2. PICK w \in Callers :
           /\ h.call = current(w) /\ count[w] > 0
           /\ h.kind = kind[w] /\ h.peer = peer[w]
           /\ \E i \in mine[w] : i \in DOMAIN HandlersOf(kind[w])
                /\ HandlersOf(kind[w])[i] = <<h.type, h.effect>>
    BY <2>1, HandlerFacts
  <2>3. h.call[1] = w /\ h.call[2] = count[w] /\ count[w] \in Nat
    BY <1>0, <2>2, CallerFacts
  <2>4. h.call[2] \in 1 .. count[h.call[1]]
    BY <2>2, <2>3
  <2> QED
    BY <2>1, <2>2, <2>3, <2>4
<1> QED
  BY <1>3, <1>4, <1>7, <1>8, <1>9, <1>10 DEF Apart

\* What a handler may do with the message.
LEMMA InvokeFacts ==
  ASSUME Apart, NEW h \in pending, Invoke(h)
  PROVE  /\ UNCHANGED <<profile, handlers, message, inbox, asked, feeding, reports,
                        linked, over, epoch, served, closed, callers>>
         /\ ~panicked /\ pending' = pending \ {h}
         /\ box' \in {box, [box EXCEPT ![h.call] = <<message>>]}
         /\ got' \in {got, [got EXCEPT ![h.call] = Append(@, message)],
                      [got EXCEPT ![h.call] = <<message>>]}
         /\ shut' \in {shut, shut \cup {h.call}}
         /\ panicked' \in BOOLEAN
         /\ got' # got \/ box' # box => Takes(h, message)
<1>1. /\ UNCHANGED <<profile, handlers, message, inbox, asked, feeding, reports,
                     linked, over, epoch, served, closed, callers>>
      /\ ~panicked /\ pending' = pending \ {h}
      /\ IF Takes(h, message)
           THEN Offer(h) \/ Put(h) \/ Collect(h) \/ Deliver(h) \/ CloseCall(h)
           ELSE Ignore(h)
  BY DEF Invoke, device, done
<1>2. panicked \in BOOLEAN
  BY DEF Apart, Typed, TypeOK
<1>3. CASE Offer(h) \/ Put(h)
  BY <1>1, <1>2, <1>3 DEF Offer, Put, Ignore
<1>4. CASE Collect(h) \/ Deliver(h)
  BY <1>1, <1>2, <1>4 DEF Collect, Deliver, Ignore
<1>5. CASE CloseCall(h)
  BY <1>1, <1>2, <1>5 DEF CloseCall, Ignore
<1>6. CASE Ignore(h)
  BY <1>1, <1>2, <1>6 DEF Ignore
<1> QED
  BY <1>1, <1>3, <1>4, <1>5, <1>6

\* Where the messages of a sequence come from when another is added to it.
LEMMA OneMore ==
  ASSUME NEW q \in Seq(Messages), NEW m \in Messages,
         NEW r \in {q, Append(q, m), <<m>>}
  PROVE  /\ r \in Seq(Messages)
         /\ \A i \in DOMAIN r : r[i] = m \/ (i \in DOMAIN q /\ r[i] = q[i])
<1>1. CASE r = Append(q, m)
  <2>1. /\ r \in Seq(Messages) /\ Len(r) = Len(q) + 1 /\ r[Len(r)] = m
        /\ \A i \in 1 .. Len(q) : r[i] = q[i]
    BY <1>1, AppendProperties
  <2>2. DOMAIN r = 1 .. Len(q) + 1 /\ DOMAIN q = 1 .. Len(q) /\ Len(q) \in Nat
    BY <2>1, LenProperties
  <2>3. ASSUME NEW i \in DOMAIN r PROVE r[i] = m \/ (i \in DOMAIN q /\ r[i] = q[i])
    <3>1. CASE i = Len(q) + 1
      BY <2>1, <3>1
    <3>2. CASE i # Len(q) + 1
      <4>1. i \in 1 .. Len(q)
        BY <2>2, <2>3, <3>2
      <4> QED
        BY <2>1, <2>2, <4>1
    <3> QED
      BY <3>1, <3>2
  <2> QED
    BY <2>1, <2>3
<1>2. CASE r = <<m>>
  BY <1>2, OneMessage
<1>3. CASE r = q
  BY <1>3
<1> QED
  BY <1>1, <1>2, <1>3

LEMMA InvokeApart ==
  ASSUME Apart, NEW h \in pending, Invoke(h), QuietWhenUnheard'
  PROVE  Apart'
<1> DEFINE c == h.call
<1>0. /\ Typed /\ Loops /\ Registered /\ Copied /\ Fresh /\ OwnPeer
      /\ \A v \in Callers : Standing(v) /\ Own(v)
  BY DEF Apart
<1>1. /\ UNCHANGED <<profile, handlers, message, inbox, asked, feeding, reports,
                     linked, over, epoch, served, closed, callers>>
      /\ pending' = pending \ {h}
      /\ box' \in {box, [box EXCEPT ![c] = <<message>>]}
      /\ got' \in {got, [got EXCEPT ![c] = Append(@, message)],
                   [got EXCEPT ![c] = <<message>>]}
      /\ shut' \in {shut, shut \cup {c}}
      /\ panicked' \in BOOLEAN
      /\ got' # got \/ box' # box => Takes(h, message)
  BY InvokeFacts
<1>2. UNCHANGED <<pc, count, kind, peer, mine, watch, outcome, answer>>
  BY <1>1 DEF callers
<1>3. /\ \A v : /\ current(v)' = current(v)
                /\ KindsOf(v)' = KindsOf(v) /\ CallsOf(v)' = CallsOf(v)
      /\ \A v, j : Handler(v, j)' = Handler(v, j)
  BY <1>1, <1>2, SameProfile DEF Handler, current
<1>4. /\ c \in Call /\ message \in Messages /\ c[1] \in Callers
      /\ h.kind \in Kinds
      /\ c[2] \in 1 .. count[c[1]] /\ count[c[1]] \in Nat
      /\ c = current(c[1]) => h.kind = kind[c[1]] /\ h.peer = peer[c[1]]
  <2>1. c \in Call /\ h.kind \in KindsOf(c[1]) /\ profile \in Profiles
    BY <1>0 DEF Typed, TypeOK
  <2>2. c[1] \in Callers
    BY <2>1 DEF Call
  <2> QED
    BY <1>0, <2>1, <2>2, ProfileFacts, CallerFacts DEF Copied
<1>5. /\ box \in [Call -> Seq(Messages)] /\ got \in [Call -> Seq(Messages)]
      /\ \A d \in Call : Len(box[d]) <= 1
  BY <1>0 DEF Typed, TypeOK
<1>6. \A d \in Call : d # c => box'[d] = box[d] /\ got'[d] = got[d]
  BY <1>1, <1>4, <1>5
<1>7. /\ box'[c] \in {box[c], Append(box[c], message), <<message>>}
      /\ got'[c] \in {got[c], Append(got[c], message), <<message>>}
  BY <1>1, <1>4, <1>5
<1>8. /\ box'[c] \in Seq(Messages) /\ got'[c] \in Seq(Messages)
      /\ \A i \in DOMAIN box'[c] :
           box'[c][i] = message \/ (i \in DOMAIN box[c] /\ box'[c][i] = box[c][i])
      /\ \A i \in DOMAIN got'[c] :
           got'[c][i] = message \/ (i \in DOMAIN got[c] /\ got'[c][i] = got[c][i])
  <2>1. box[c] \in Seq(Messages) /\ got[c] \in Seq(Messages) /\ message \in Messages
    BY <1>4, <1>5
  <2>2. /\ box'[c] \in Seq(Messages)
        /\ \A i \in DOMAIN box'[c] :
             box'[c][i] = message \/ (i \in DOMAIN box[c] /\ box'[c][i] = box[c][i])
    BY <1>7, <2>1, OneMore
  <2>3. /\ got'[c] \in Seq(Messages)
        /\ \A i \in DOMAIN got'[c] :
             got'[c][i] = message \/ (i \in DOMAIN got[c] /\ got'[c][i] = got[c][i])
    BY <1>7, <2>1, OneMore
  <2> QED
    BY <2>2, <2>3
<1>9. Typed'
  <2>1. box' \in [Call -> Seq(Messages)] /\ got' \in [Call -> Seq(Messages)]
    BY <1>1, <1>4, <1>5, <1>8
  <2>2. ASSUME NEW d \in Call PROVE Len(box'[d]) <= 1
    <3>1. box'[d] = box[d] \/ box'[d] = <<message>>
      BY <1>1, <1>4, <1>5
    <3>2. CASE box'[d] = box[d]
      BY <1>5, <3>2
    <3>3. CASE box'[d] = <<message>>
      <4>1. Len(<<message>>) = 1
        BY <1>4, OneMessage
      <4> QED
        BY <3>3, <4>1
    <3> QED
      BY <3>1, <3>2, <3>3
  <2>3. shut' \subseteq Call
    <3>1. shut \subseteq Call
      BY <1>0 DEF Typed, TypeOK
    <3> QED
      BY <1>1, <1>4, <3>1
  <2>4. TypeOK'
    <3>1. /\ \A g \in handlers \cup pending :
               g.call \in Call /\ g.kind \in KindsOf(g.call[1])
          /\ asked \subseteq Call \X Requests \X Peers
          /\ pc \in [Callers -> {"idle", "register", "send", "sent", "wait", "remove",
                                 "held", "part"}]
          /\ count \in [Callers -> 0 .. MaxCalls]
          /\ kind \in [Callers -> Requests \cup Subscriptions]
          /\ \A w \in Callers : kind[w] \in KindsOf(w)
          /\ peer \in [Callers -> Peers]
          /\ \A w \in Callers : mine[w] \subseteq DOMAIN HandlersOf(kind[w])
          /\ closed \subseteq served /\ served \subseteq 1 .. epoch
          /\ {over, panicked, linked} \subseteq BOOLEAN
      BY <1>0 DEF Typed, TypeOK
    <3> QED
      BY <1>1, <1>2, <1>3, <2>2, <2>3, <3>1 DEF TypeOK
  <2> QED
    BY <1>0, <1>1, <1>2, <2>1, <2>4 DEF Typed
<1>10. Loops'
  BY <1>0, <1>1 DEF Loops
<1>11. Registered'
  BY <1>0, <1>1, <1>2, <1>3 DEF Registered
<1>12. ASSUME NEW v \in Callers PROVE Standing(v)'
  BY <1>0, <1>1, <1>2, <1>3 DEF Standing, Enabled
<1>13. ASSUME NEW v \in Callers PROVE Own(v)'
  <2> SUFFICES ASSUME kind[v] \in Gatt, count[v] > 0
               PROVE  /\ \A i \in DOMAIN box'[current(v)] :
                           box'[current(v)][i].peer = peer[v]
                      /\ \A i \in DOMAIN got'[current(v)] :
                           got'[current(v)][i].peer = peer[v]
    BY <1>2, <1>3 DEF Own
  <2>1. current(v) \in Call /\ current(v)[1] = v
    BY <1>0, CallerFacts
  <2>2. /\ \A i \in DOMAIN box[current(v)] : box[current(v)][i].peer = peer[v]
        /\ \A i \in DOMAIN got[current(v)] : got[current(v)][i].peer = peer[v]
    BY <1>0 DEF Own
  <2>3. CASE current(v) # c
    BY <1>6, <2>1, <2>2, <2>3
  <2>4. CASE current(v) = c
    <3>1. h.kind = kind[v] /\ h.peer = peer[v]
      BY <1>4, <2>1, <2>4
    <3>2. Takes(h, message) => message.peer = peer[v]
      BY <3>1 DEF Takes, Subscriptions, Gatt
    <3>3. CASE got' = got /\ box' = box
      BY <2>2, <3>3
    <3>4. CASE got' # got \/ box' # box
      BY <1>1, <1>8, <2>2, <2>4, <3>2, <3>4
    <3> QED
      BY <3>3, <3>4
  <2> QED
    BY <2>3, <2>4
<1>14. Copied'
  BY <1>0, <1>1, <1>2, <1>3 DEF Copied
<1>15. Fresh'
  <2> SUFFICES ASSUME NEW d \in Call, d[2] > count[d[1]]
               PROVE  box'[d] = <<>> /\ got'[d] = <<>> /\ d \notin shut'
    BY <1>2 DEF Fresh
  <2>1. d # c
    BY <1>4
  <2> QED
    BY <1>0, <1>1, <1>6, <2>1 DEF Fresh
<1>16. OwnPeer'
  <2>1. ASSUME NEW v \in Callers, kind[v] = "notify", pc[v] # "idle"
        PROVE  \A i \in DOMAIN got'[current(v)] : got'[current(v)][i].peer = peer[v]
    <3>1. count[v] > 0
      BY <1>0, <2>1 DEF Standing
    <3>2. Own(v)'
      BY <1>13
    <3> QED
      BY <1>2, <1>3, <2>1, <3>1, <3>2 DEF Own, Gatt
  <2> QED
    BY <1>0, <1>2, <1>3, <2>1 DEF OwnPeer
<1> QED
  BY <1>9, <1>10, <1>11, <1>12, <1>13, <1>14, <1>15, <1>16 DEF Apart

\* The invariant holds at the start.
LEMMA InitApart == Init => Apart
<1> SUFFICES ASSUME Init PROVE Apart
  OBVIOUS
<1>0. /\ profile \in Profiles /\ Peers # {} /\ MaxCalls \in Nat
      /\ profile.redials \in Nat
      /\ \A w \in Callers : /\ KindsOf(w) \subseteq Kinds /\ KindsOf(w) # {}
                           /\ CallsOf(w) \in 0 .. MaxCalls
  BY CallsAssumption, ProfileFacts DEF Init
<1>1. /\ handlers = {} /\ pending = {} /\ inbox = <<>> /\ asked = {} /\ feeding = {}
      /\ linked = TRUE /\ over = FALSE /\ panicked = FALSE
      /\ epoch = 1 /\ served = {1} /\ closed = {}
      /\ pc = [w \in Callers |-> "idle"]
      /\ count = [w \in Callers |-> 0]
      /\ mine = [w \in Callers |-> {}]
      /\ watch = [w \in Callers |-> 0]
      /\ box = [c \in Call |-> <<>>]
      /\ shut = {}
      /\ got = [c \in Call |-> <<>>]
      /\ outcome = [w \in Callers |-> "none"]
      /\ answer = [w \in Callers |-> <<>>]
  BY DEF Init
<1>2. /\ kind \in [Callers -> Requests \cup Subscriptions]
      /\ \A w \in Callers : kind[w] \in KindsOf(w)
      /\ peer \in [Callers -> Peers]
  <2>1. \A w \in Callers : (CHOOSE k \in KindsOf(w) : TRUE) \in KindsOf(w)
    BY <1>0
  <2>2. (CHOOSE p \in Peers : TRUE) \in Peers
    BY <1>0
  <2>3. \A w \in Callers : (CHOOSE k \in KindsOf(w) : TRUE) \in Kinds
    BY <1>0, <2>1
  <2> QED
    BY <2>1, <2>2, <2>3 DEF Init, Kinds
<1>3. /\ <<>> \in Seq(Messages) /\ Len(<<>>) = 0 /\ DOMAIN <<>> = {}
  BY EmptySeq, LenProperties
<1>4. Typed
  <2>1. ASSUME NEW c \in Call PROVE Len(box[c]) <= 1
    <3>1. box[c] = <<>>
      BY <1>1
    <3> QED
      BY <1>3, <3>1
  <2>2. /\ count \in [Callers -> 0 .. MaxCalls]
        /\ pc \in [Callers -> {"idle", "register", "send", "sent", "wait", "remove",
                               "held", "part"}]
        /\ \A w \in Callers : mine[w] \subseteq DOMAIN HandlersOf(kind[w])
    BY <1>0, <1>1
  <2>3. served \subseteq 1 .. epoch
    BY <1>1
  <2>4. TypeOK
    BY <1>1, <1>2, <2>1, <2>2, <2>3 DEF TypeOK
  <2> QED
    BY <1>0, <1>1, <1>3, <2>4 DEF Typed
<1>5. Loops /\ Registered /\ Copied
  BY <1>1 DEF Loops, Registered, Copied
<1>6. ASSUME NEW w \in Callers PROVE Standing(w) /\ Own(w)
  <2>1. CallsOf(w) \in 0 .. MaxCalls /\ count[w] = 0
    BY <1>0, <1>1
  <2> QED
    BY <1>0, <1>1, <2>1 DEF Standing, Own
<1>7. Fresh
  BY <1>1 DEF Fresh
<1>8. OwnPeer /\ QuietWhenUnheard
  BY <1>1, <1>3 DEF OwnPeer, QuietWhenUnheard
<1> QED
  BY <1>4, <1>5, <1>6, <1>7, <1>8 DEF Apart

\* The invariant is kept by every step.
LEMMA StepApart == Apart /\ [Next]_vars => Apart'
<1> SUFFICES ASSUME Apart, [Next]_vars PROVE Apart'
  OBVIOUS
<1>1. QuietWhenUnheard'
  BY QuietStep
<1>9. CASE \E w \in Apps : Begin(w)
  BY <1>1, <1>9, BeginApart
<1>2. ASSUME NEW w \in Callers, CallStep(w) \/ Stop(w) PROVE Apart'
  <2>2. CASE Register(w)
    BY <1>1, <2>2, RegisterApart
  <2>3. CASE Waits(w)
    BY <1>1, <2>3, WaitsApart
  <2>4. CASE Remove(w)
    BY <1>1, <2>4, RemoveApart
  <2>5. CASE Stop(w)
    BY <1>1, <2>5, StopApart
  <2> QED
    BY <1>2, <2>2, <2>3, <2>4, <2>5 DEF CallStep, Waits
<1>3. CASE Read
  BY <1>1, <1>3, ReadApart
<1>4. ASSUME NEW h \in pending, Invoke(h) PROVE Apart'
  BY <1>1, <1>4, InvokeApart
<1>10. CASE Reconnect
  BY <1>1, <1>10, ReconnectApart
<1>5. CASE Exit \/ CloseDone \/ Redial \/ LoseLink
  BY <1>1, <1>5, LoopsApart
<1>6. CASE Answer
  BY <1>1, <1>6, AnswerApart
<1>7. CASE Emit
  BY <1>1, <1>7, EmitApart
<1>8. CASE UNCHANGED vars
  <2>1. UNCHANGED <<profile, handlers, message, pending, inbox, asked, feeding,
                    linked, over, epoch, served, closed, panicked, box, shut, got,
                    callers>>
    BY <1>8 DEF vars, router, device, done, results
  <2>2. /\ inbox \in Seq(Messages)
        /\ feeding \subseteq (Subscriptions \X {"any"}) \cup ({"value"} \X Peers)
        /\ epoch \in 1 .. profile.redials + 1
      /\ closed \subseteq served /\ served \subseteq 1 .. epoch
        /\ {over, panicked, linked} \subseteq BOOLEAN
        /\ Loops
    BY DEF Apart, Typed, TypeOK
  <2>3. Typed'
    BY <2>1, <2>2, OthersTyped
  <2>4. Loops'
    BY <2>1, <2>2 DEF Loops
  <2> QED
    BY <1>1, <2>1, <2>3, <2>4, OthersApart
<1> QED
  BY <1>2, <1>3, <1>4, <1>5, <1>6, <1>7, <1>8, <1>9, <1>10 DEF Next, ReaderStep

-----------------------------------------------------------------------------
(* What the single caller of a family is sent.                             *)

\* Where there is no reply, there is none out of place.
LEMMA ContinuesAfterOthers ==
  ASSUME NEW g, NEW q \in Seq(Messages), NEW ms \in Seq(Messages), NEW t \in Nat,
         \A i \in 1 .. Len(q) : ~Reply(g, q[i])
  PROVE  Continues(g, q, ms, t)
BY DEF Continues

\* Other messages may follow.
LEMMA ContinuesWithOthers ==
  ASSUME NEW g, NEW q \in Seq(Messages), NEW ns \in Seq(Messages),
         NEW ms \in Seq(Messages), NEW t \in Nat,
         \A i \in 1 .. Len(ns) : ~Reply(g, ns[i]), Continues(g, q, ms, t)
  PROVE  /\ Continues(g, q \o ns, ms, t)
         /\ \A i \in 1 .. Len(q \o ns) : Reply(g, (q \o ns)[i]) =>
              i \in 1 .. Len(q) /\ Reply(g, q[i])
<1> DEFINE r == q \o ns
           l == Len(q)
<1>1. /\ Len(r) = l + Len(ns) /\ l \in Nat /\ Len(ns) \in Nat
      /\ \A i \in 1 .. l : r[i] = q[i]
      /\ \A i \in l + 1 .. l + Len(ns) : r[i] = ns[i - l]
  BY ConcatProperties, LenProperties
<1> HIDE DEF r, l
<1>2. ASSUME NEW i \in 1 .. Len(r), Reply(g, r[i])
      PROVE  i \in 1 .. l /\ r[i] = q[i] /\ Reply(g, q[i])
  <2>1. CASE i \in 1 .. l
    BY <1>1, <1>2, <2>1
  <2>2. CASE i \notin 1 .. l
    <3>1. i \in l + 1 .. l + Len(ns) /\ i - l \in 1 .. Len(ns)
      BY <1>1, <2>2
    <3> QED
      BY <1>1, <1>2, <3>1
  <2> QED
    BY <2>1, <2>2
<1>3. ASSUME NEW i \in 1 .. Len(r), Reply(g, r[i])
      PROVE  \E v \in t + 1 .. Len(ms) :
               /\ r[i] = ms[v]
               /\ \A u \in t + 1 .. v - 1 : \E j \in 1 .. i - 1 : r[j] = ms[u]
  <2>1. i \in 1 .. l /\ r[i] = q[i] /\ Reply(g, q[i])
    BY <1>2, <1>3
  <2>2. PICK v \in t + 1 .. Len(ms) :
               /\ q[i] = ms[v]
               /\ \A u \in t + 1 .. v - 1 : \E j \in 1 .. i - 1 : q[j] = ms[u]
    BY <2>1 DEF Continues, l
  <2>3. \A j \in 1 .. i - 1 : r[j] = q[j]
    BY <1>1, <2>1
  <2> QED
    BY <2>1, <2>2, <2>3
<1>4. ASSUME NEW i \in 1 .. Len(r), NEW j \in 1 .. Len(r), i < j, Reply(g, r[i])
      PROVE  r[i] # r[j]
  <2>1. i \in 1 .. l /\ r[i] = q[i] /\ Reply(g, q[i])
    BY <1>2, <1>4
  <2>2. ASSUME r[i] = r[j] PROVE FALSE
    <3>1. j \in 1 .. l /\ r[j] = q[j]
      BY <1>2, <1>4, <2>2
    <3> QED
      BY <1>4, <2>1, <2>2, <3>1 DEF Continues, l
  <2> QED
    BY <2>2
<1>5. Continues(g, r, ms, t)
  BY <1>3, <1>4 DEF Continues
<1> QED
  BY <1>2, <1>5 DEF r, l

\* An answer behind other messages.
LEMMA ContinuesFromStart ==
  ASSUME NEW g, NEW q \in Seq(Messages), NEW ms \in Seq(Messages),
         \A i \in 1 .. Len(q) : ~Reply(g, q[i]),
         \A i, j \in 1 .. Len(ms) : ms[i] = ms[j] => i = j
  PROVE  Continues(g, q \o ms, ms, 0)
<1> DEFINE r == q \o ms
           l == Len(q)
<1>1. /\ Len(r) = l + Len(ms) /\ l \in Nat /\ Len(ms) \in Nat
      /\ \A i \in 1 .. l : r[i] = q[i]
      /\ \A i \in l + 1 .. l + Len(ms) : r[i] = ms[i - l]
  BY ConcatProperties, LenProperties
<1>2. \A v \in 1 .. Len(ms) : r[l + v] = ms[v]
  <2>1. ASSUME NEW v \in 1 .. Len(ms) PROVE l + v \in l + 1 .. l + Len(ms) /\ (l + v) - l = v
    BY <1>1
  <2> HIDE DEF r, l
  <2> QED
    BY <1>1, <2>1
<1>3. \A i \in 1 .. l : ~Reply(g, r[i])
  BY <1>1
<1> HIDE DEF r, l
<1>4. ASSUME NEW i \in 1 .. Len(r), Reply(g, r[i])
      PROVE  i - l \in 1 .. Len(ms) /\ r[i] = ms[i - l]
  BY <1>1, <1>3, <1>4
<1>5. ASSUME NEW i \in 1 .. Len(r), Reply(g, r[i])
      PROVE  \E v \in 0 + 1 .. Len(ms) :
               /\ r[i] = ms[v]
               /\ \A u \in 0 + 1 .. v - 1 : \E j \in 1 .. i - 1 : r[j] = ms[u]
  <2>1. i - l \in 1 .. Len(ms) /\ r[i] = ms[i - l]
    BY <1>4, <1>5
  <2>2. ASSUME NEW u \in 0 + 1 .. (i - l) - 1 PROVE \E j \in 1 .. i - 1 : r[j] = ms[u]
    <3>1. l + u \in 1 .. i - 1 /\ u \in 1 .. Len(ms)
      BY <1>1, <2>1
    <3> QED
      BY <1>2, <3>1
  <2>3. i - l \in 0 + 1 .. Len(ms)
    BY <2>1
  <2> QED
    BY <2>1, <2>2, <2>3
<1>6. ASSUME NEW i \in 1 .. Len(r), NEW j \in 1 .. Len(r), i < j, Reply(g, r[i])
      PROVE  r[i] # r[j]
  <2>1. i - l \in 1 .. Len(ms) /\ r[i] = ms[i - l]
    BY <1>4, <1>6
  <2>2. j - l \in 1 .. Len(ms) /\ r[j] = ms[j - l] /\ i - l # j - l
    BY <1>1, <1>6, <2>1
  <2> QED
    BY <2>1, <2>2
<1> QED
  BY <1>5, <1>6 DEF Continues, r

\* The next reply is the next of the answer.
LEMMA ContinuesWithNext ==
  ASSUME NEW g, NEW q \in Seq(Messages), NEW ms \in Seq(Messages), NEW t \in Nat,
         q # <<>>, Reply(g, Head(q)), Continues(g, q, ms, t),
         \A i, j \in 1 .. Len(ms) : ms[i] = ms[j] => i = j
  PROVE  /\ t + 1 <= Len(ms) /\ Head(q) = ms[t + 1]
         /\ Continues(g, Tail(q), ms, t + 1)
<1> DEFINE r == Tail(q)
<1>1. /\ Len(q) \in Nat /\ Len(q) >= 1 /\ Len(r) = Len(q) - 1 /\ Head(q) = q[1]
      /\ \A i \in 1 .. Len(r) : r[i] = q[i + 1]
  BY HeadTailProperties, EmptySeq, LenProperties
<1> HIDE DEF r
<1>2. PICK x \in t + 1 .. Len(ms) :
        /\ q[1] = ms[x]
        /\ \A u \in t + 1 .. x - 1 : \E j \in 1 .. 1 - 1 : q[j] = ms[u]
  <2>1. 1 \in 1 .. Len(q) /\ Reply(g, q[1])
    BY <1>1
  <2> QED
    BY <2>1 DEF Continues
<1>3. x = t + 1 /\ Len(ms) \in Nat
  BY <1>2, LenProperties
<1>4. ASSUME NEW i \in 1 .. Len(r), Reply(g, r[i])
      PROVE  \E v \in (t + 1) + 1 .. Len(ms) :
               /\ r[i] = ms[v]
               /\ \A u \in (t + 1) + 1 .. v - 1 : \E j \in 1 .. i - 1 : r[j] = ms[u]
  <2>1. i + 1 \in 1 .. Len(q) /\ r[i] = q[i + 1] /\ Reply(g, q[i + 1])
    BY <1>1, <1>4
  <2>2. PICK v \in t + 1 .. Len(ms) :
               /\ q[i + 1] = ms[v]
               /\ \A u \in t + 1 .. v - 1 : \E j \in 1 .. (i + 1) - 1 : q[j] = ms[u]
    BY <2>1 DEF Continues
  <2>3. q[1] # q[i + 1]
    <3>1. 1 \in 1 .. Len(q) /\ 1 < i + 1 /\ Reply(g, q[1])
      BY <1>1, <1>4
    <3> QED
      BY <2>1, <3>1 DEF Continues
  <2>4. v \in (t + 1) + 1 .. Len(ms)
    BY <1>2, <1>3, <2>2, <2>3
  <2>5. ASSUME NEW u \in (t + 1) + 1 .. v - 1 PROVE \E j \in 1 .. i - 1 : r[j] = ms[u]
    <3>1. u \in t + 1 .. v - 1 /\ u \in 1 .. Len(ms) /\ u # t + 1 /\ t + 1 \in 1 .. Len(ms)
      BY <1>2, <1>3, <2>2
    <3>2. PICK j \in 1 .. (i + 1) - 1 : q[j] = ms[u]
      BY <2>2, <3>1
    <3>3. j # 1
      BY <1>2, <1>3, <3>1, <3>2
    <3>4. j - 1 \in 1 .. i - 1 /\ j - 1 \in 1 .. Len(r) /\ (j - 1) + 1 = j
      BY <1>1, <1>4, <3>2, <3>3
    <3>5. r[j - 1] = q[j]
      BY <1>1, <3>4
    <3> QED
      BY <3>2, <3>4, <3>5
  <2> QED
    BY <2>1, <2>2, <2>4, <2>5
<1>5. ASSUME NEW i \in 1 .. Len(r), NEW j \in 1 .. Len(r), i < j, Reply(g, r[i])
      PROVE  r[i] # r[j]
  <2>1. /\ i + 1 \in 1 .. Len(q) /\ j + 1 \in 1 .. Len(q) /\ i + 1 < j + 1
        /\ r[i] = q[i + 1] /\ r[j] = q[j + 1]
    BY <1>1, <1>5
  <2> QED
    BY <1>5, <2>1 DEF Continues
<1>6. Continues(g, r, ms, t + 1)
  BY <1>4, <1>5 DEF Continues
<1>7. t + 1 <= Len(ms) /\ Head(q) = ms[t + 1]
  BY <1>1, <1>2, <1>3
<1> QED
  BY <1>6, <1>7 DEF r

\* Another message is taken without them.
LEMMA ContinuesWithoutOther ==
  ASSUME NEW g, NEW q \in Seq(Messages), NEW ms \in Seq(Messages), NEW t \in Nat,
         q # <<>>, ~Reply(g, Head(q)), Continues(g, q, ms, t),
         \A i \in 1 .. Len(ms) : Reply(g, ms[i])
  PROVE  Continues(g, Tail(q), ms, t)
<1> DEFINE r == Tail(q)
<1>1. /\ Len(q) \in Nat /\ Len(q) >= 1 /\ Len(r) = Len(q) - 1 /\ Head(q) = q[1]
      /\ \A i \in 1 .. Len(r) : r[i] = q[i + 1]
  BY HeadTailProperties, EmptySeq, LenProperties
<1> HIDE DEF r
<1>4. ASSUME NEW i \in 1 .. Len(r), Reply(g, r[i])
      PROVE  \E v \in t + 1 .. Len(ms) :
               /\ r[i] = ms[v]
               /\ \A u \in t + 1 .. v - 1 : \E j \in 1 .. i - 1 : r[j] = ms[u]
  <2>1. i + 1 \in 1 .. Len(q) /\ r[i] = q[i + 1] /\ Reply(g, q[i + 1])
    BY <1>1, <1>4
  <2>2. PICK v \in t + 1 .. Len(ms) :
               /\ q[i + 1] = ms[v]
               /\ \A u \in t + 1 .. v - 1 : \E j \in 1 .. (i + 1) - 1 : q[j] = ms[u]
    BY <2>1 DEF Continues
  <2>5. ASSUME NEW u \in t + 1 .. v - 1 PROVE \E j \in 1 .. i - 1 : r[j] = ms[u]
    <3>1. u \in 1 .. Len(ms)
      BY <2>2, LenProperties
    <3>2. PICK j \in 1 .. (i + 1) - 1 : q[j] = ms[u]
      BY <2>2
    <3>3. j # 1
      BY <1>1, <3>1, <3>2
    <3>4. j - 1 \in 1 .. i - 1 /\ j - 1 \in 1 .. Len(r) /\ (j - 1) + 1 = j
      BY <1>1, <1>4, <3>2, <3>3
    <3>5. r[j - 1] = q[j]
      BY <1>1, <3>4
    <3> QED
      BY <3>2, <3>4, <3>5
  <2> QED
    BY <2>1, <2>2, <2>5
<1>5. ASSUME NEW i \in 1 .. Len(r), NEW j \in 1 .. Len(r), i < j, Reply(g, r[i])
      PROVE  r[i] # r[j]
  <2>1. i + 1 \in 1 .. Len(q) /\ j + 1 \in 1 .. Len(q) /\ i + 1 < j + 1
    <3>1. i \in 1 .. Len(q) - 1 /\ j \in 1 .. Len(q) - 1
      BY <1>1
    <3> QED
      BY <1>1, <1>5, <3>1
  <2>2. r[i] = q[i + 1] /\ r[j] = q[j + 1]
    BY <1>1
  <2> QED
    BY <1>5, <2>1, <2>2 DEF Continues
<1> QED
  BY <1>4, <1>5 DEF Continues, r

\* Every message of an answer has one handler of its call, which takes it: all
\* but the last are collected, and the last of a list closes it.
LEMMA RepliesAreHandled ==
  ASSUME NEW c \in Call, NEW k \in Lists \cup Gatt, NEW p \in Peers,
         NEW ms \in Answers(c, k, p), NEW t \in 1 .. Len(ms)
  PROVE  /\ \E i \in DOMAIN HandlersOf(k) : HandlersOf(k)[i][1] = ms[t].type
         /\ \A i \in DOMAIN HandlersOf(k) : HandlersOf(k)[i][1] = ms[t].type =>
              /\ t < Len(ms) => HandlersOf(k)[i][2] = "collect"
              /\ k = "list" =>
                   HandlersOf(k)[i][2] = IF t < 3 THEN "collect" ELSE "close"
<1>1. CASE k = "list"
  <2>1. ms = <<Msg("entity", p, c, 1), Msg("entity", p, c, 2), Msg("done", p, c, 3)>>
    BY <1>1 DEF Answers
  <2>2. HandlersOf(k) = << <<"done", "close">>, <<"entity", "collect">> >>
    BY <1>1 DEF HandlersOf, Subscriptions
  <2>3. Len(ms) = 3 /\ (t = 1 \/ t = 2 \/ t = 3)
    BY <2>1
  <2>4. (t < 3 => ms[t].type = "entity") /\ (t = 3 => ms[t].type = "done")
    BY <2>1, <2>3 DEF Msg
  <2> QED
    BY <1>1, <2>2, <2>3, <2>4
<1>2. CASE k = "services"
  <2>1. ms \in {<<Msg("service", p, c, 1), Msg("finished", p, c, 2)>>,
                <<Msg("error", p, c, 1)>>}
    BY <1>2 DEF Answers
  <2>2. HandlersOf(k) = << <<"service", "collect">>, <<"finished", "close">>,
                           <<"error", "fail">> >>
    BY <1>2 DEF HandlersOf, Subscriptions
  <2>3. CASE ms = <<Msg("service", p, c, 1), Msg("finished", p, c, 2)>>
    <3>1. Len(ms) = 2 /\ (t = 1 \/ t = 2)
      BY <2>3
    <3>2. (t < 2 => ms[t].type = "service") /\ (t = 2 => ms[t].type = "finished")
      BY <2>3, <3>1 DEF Msg
    <3> QED
      BY <1>2, <2>2, <3>1, <3>2
  <2>4. CASE ms = <<Msg("error", p, c, 1)>>
    <3>1. Len(ms) = 1 /\ t = 1
      BY <2>4
    <3>2. ms[t].type = "error"
      BY <2>4, <3>1 DEF Msg
    <3> QED
      BY <1>2, <2>2, <3>1, <3>2
  <2> QED
    BY <2>1, <2>3, <2>4
<1>3. CASE k \in {"read", "write", "notify", "mute"}
  <2>1. \E y \in {IF k = "read" THEN "data" ELSE IF k = "write" THEN "written" ELSE "notified",
                  "error"} : ms = <<Msg(y, p, c, 1)>>
    BY <1>3 DEF Answers
  <2>2. Len(ms) = 1 /\ t = 1
    BY <2>1
  <2>3. ms[t].type \in {IF k = "read" THEN "data" ELSE IF k = "write" THEN "written" ELSE "notified",
                        "error"}
    BY <2>1, <2>2 DEF Msg
  <2>4. /\ HandlersOf("read") = << <<"data", "put">>, <<"error", "put">> >>
        /\ HandlersOf("write") = << <<"written", "put">>, <<"error", "put">> >>
        /\ HandlersOf("notify") = << <<"notified", "put">>, <<"error", "put">>,
                                     <<"value", "deliver">> >>
        /\ HandlersOf("mute") = << <<"notified", "put">>, <<"error", "put">> >>
    BY DEF HandlersOf, Subscriptions
  <2> QED
    BY <1>3, <2>2, <2>3, <2>4
<1> QED
  BY <1>1, <1>2, <1>3 DEF Lists, Gatt

\* The handlers of a call are for the replies to it, but for the values of a
\* notification.
LEMMA HandledTypes ==
  ASSUME NEW g \in {Lists, Gatt}, NEW k \in Kinds, NEW i \in DOMAIN HandlersOf(k)
  PROVE  /\ HandlersOf(k)[i][1] \in RepliesTo(g) => k \in g
         /\ k \in g /\ HandlersOf(k)[i][1] \notin RepliesTo(g) =>
              k = "notify" /\ HandlersOf(k)[i][2] = "deliver"
<1>1. /\ RepliesTo(Lists) = {"entity", "done"}
      /\ RepliesTo(Gatt) = {"service", "finished", "error", "data", "written", "notified"}
      /\ \A x : x \in Lists <=> x = "list"
      /\ \A x : x \in Gatt <=> x \in {"services", "read", "write", "notify", "mute"}
  BY Families DEF Lists, Gatt
<1>2. CASE k \in {"connect"} \cup Subscriptions
  <2>1. HandlersOf(k)[i][1] \in {"connection"} \cup Subscriptions
    <3>1. CASE k = "connect"
      BY <3>1 DEF HandlersOf, Subscriptions
    <3>2. CASE k \in Subscriptions
      <4>1. HandlersOf(k) = << <<k, "deliver">> >>
        BY <3>2 DEF HandlersOf, Subscriptions
      <4> QED
        BY <3>2, <4>1
    <3> QED
      BY <1>2, <3>1, <3>2
  <2>2. k \notin Lists /\ k \notin Gatt
    BY <1>1, <1>2 DEF Subscriptions
  <2> QED
    BY <1>1, <2>1, <2>2 DEF Subscriptions
<1>3. CASE k = "list"
  <2>1. HandlersOf(k)[i][1] \in RepliesTo(Lists)
    BY <1>1, <1>3 DEF HandlersOf, Subscriptions
  <2> QED
    BY <1>1, <1>3, <2>1
<1>4. CASE k \in {"services", "read", "write", "mute"}
  <2>1. HandlersOf(k)[i][1] \in RepliesTo(Gatt)
    BY <1>1, <1>4 DEF HandlersOf, Subscriptions
  <2> QED
    BY <1>1, <1>4, <2>1
<1>5. CASE k = "notify"
  <2>1. HandlersOf(k) = << <<"notified", "put">>, <<"error", "put">>,
                           <<"value", "deliver">> >>
    BY <1>5 DEF HandlersOf, Subscriptions
  <2>2. \/ HandlersOf(k)[i][1] \in RepliesTo(Gatt)
        \/ HandlersOf(k)[i][1] = "value" /\ HandlersOf(k)[i][2] = "deliver"
    BY <1>1, <2>1
  <2> QED
    BY <1>1, <1>5, <2>2
<1> QED
  BY <1>2, <1>3, <1>4, <1>5 DEF Kinds, Requests, Lists, Gatt

\* The device has an answer to each request.
LEMMA SomeAnswer ==
  ASSUME NEW c \in Call, NEW k \in Requests, NEW p \in Peers
  PROVE  Answers(c, k, p) # {}
BY DEF Answers, Requests, Lists, Gatt

-----------------------------------------------------------------------------
(* The caller that is alone in its family, step by step.                   *)

Sound == Apart /\ ~panicked /\ ListComplete /\ \A g \in {Lists, Gatt} : Alone(g)

\* The places of a call before it returns.
Asking == {"register", "send", "sent", "wait"}

LEMMA SoloStays ==
  ASSUME UNCHANGED profile
  PROVE  Solo' = Solo
BY SameProfile DEF Solo, Uses

\* Who makes a call of a family may make one.
LEMMA InUse ==
  ASSUME Apart, NEW g, NEW w \in Callers, pc[w] # "idle", kind[w] \in g
  PROVE  Uses(w, g)
<1>1. Typed /\ Standing(w)
  BY DEF Apart
<1>2. count[w] \in Nat /\ kind[w] \in KindsOf(w) /\ CallsOf(w) \in 0 .. MaxCalls
      /\ MaxCalls \in Nat
  BY <1>1, CallerFacts, ProfileFacts DEF Typed
<1>3. count[w] > 0 /\ count[w] <= CallsOf(w)
  BY <1>1 DEF Standing
<1> QED
  BY <1>2, <1>3 DEF Uses

\* Only one caller makes calls of a family.
LEMMA Lone ==
  ASSUME Apart, Solo, NEW g \in {Lists, Gatt}, NEW v \in Callers, NEW w \in Callers,
         pc[v] # "idle" /\ kind[v] \in g,
         Uses(w, g) \/ (pc[w] # "idle" /\ kind[w] \in g)
  PROVE  v = w
BY InUse DEF Solo

\* While the only caller waits for no answer, the program is owed none.
LEMMA NothingOwed ==
  ASSUME Sound, Solo, NEW g \in {Lists, Gatt}, NEW w \in Callers,
         Uses(w, g) \/ (pc[w] # "idle" /\ kind[w] \in g), pc[w] \notin {"sent", "wait"}
  PROVE  /\ ~over => ~Outstanding(g)
         /\ ~Requested(g) /\ ~Delivering(g)
<1>1. ~over => ~Outstanding(g)
  <2> SUFFICES ASSUME ~over, Outstanding(g) PROVE FALSE
    OBVIOUS
  <2>1. PICK v \in Callers : Awaits(g, v)
    BY DEF Sound, Alone
  <2>2. pc[v] \in {"sent", "wait"} /\ kind[v] \in g
    BY <2>1 DEF Awaits
  <2>3. v = w
    BY <2>2, Lone DEF Sound
  <2> QED
    BY <2>2, <2>3
<1>2. over => asked = {} /\ pending = {}
  BY DEF Sound, Apart, Loops
<1> QED
  BY <1>1, <1>2 DEF Outstanding, Requested, Delivering

\* What the exchange for a call says while it lasts.
LEMMA TheExchange ==
  ASSUME Sound, NEW g \in {Lists, Gatt}, NEW w \in Callers,
         pc[w] \in Asking, kind[w] \in g
  PROVE  /\ current(w) \in Call /\ peer[w] \in Peers
         /\ \E ms \in Answers(current(w), kind[w], peer[w]) :
              /\ ms \in Seq(Messages) /\ Len(ms) \in 1 .. 3
              /\ \A i \in 1 .. Len(ms) : Reply(g, ms[i])
              /\ \A i, j \in 1 .. Len(ms) : ms[i] = ms[j] => i = j
              /\ \E t \in 0 .. Len(ms) : Exchange(g, w, ms, t)
<1>1. Typed /\ Standing(w)
  BY DEF Sound, Apart
<1>2. current(w) \in Call /\ peer[w] \in Peers /\ kind[w] \in Requests
  BY <1>1, CallerFacts, Families DEF Standing, Asking
<1>3. PICK ms \in Answers(current(w), kind[w], peer[w]) :
        \E t \in 0 .. Len(ms) : Exchange(g, w, ms, t)
  BY DEF Sound, Alone, Asking
<1>4. /\ ms \in Seq(Messages) /\ Len(ms) \in 1 .. 3
      /\ \A i \in 1 .. Len(ms) : Reply(g, ms[i]) /\ ms[i].n = i
  BY <1>2, AnswersFacts
<1> QED
  BY <1>2, <1>3, <1>4

\* What a caller has returned stays.
LEMMA ListedStays ==
  ASSUME ListComplete, UNCHANGED <<profile, kind, peer, count, outcome, answer>>
  PROVE  ListComplete'
<1>1. \A v : current(v)' = current(v)
  BY DEF current
<1> QED
  BY <1>1, SoloStays DEF ListComplete

\* An attempt to connect, and the end of a read loop, change nothing here.
LEMMA LoopsAlone ==
  ASSUME Sound, NEW g \in {Lists, Gatt},
         UNCHANGED <<asked, pending, message, inbox, pc, kind, peer, count, box, got,
                     shut, watch>>,
         over' \/ (~over /\ epoch' = epoch)
  PROVE  Alone(g)'
<1>1. \A v : current(v)' = current(v)
  BY DEF current
<1>2. /\ Outstanding(g)' = Outstanding(g) /\ Requested(g)' = Requested(g)
      /\ Delivering(g)' = Delivering(g)
  BY DEF Outstanding, Requested, Delivering
<1>3. ASSUME ~over', Outstanding(g)' PROVE \E w \in Callers : Awaits(g, w)'
  BY <1>1, <1>2, <1>3 DEF Sound, Alone, Awaits
<1>4. ASSUME NEW w, NEW ms, NEW t, Exchange(g, w, ms, t) PROVE Exchange(g, w, ms, t)'
  BY <1>1, <1>2, <1>4 DEF Exchange, Handed
<1>5. Alone(g)
  BY DEF Sound
<1> QED
  BY <1>1, <1>3, <1>4, <1>5 DEF Alone

\* A step of a caller that makes no call of the family, before or after.
LEMMA ElsewhereAlone ==
  ASSUME Sound, NEW g \in {Lists, Gatt}, NEW w \in Callers,
         pc[w] \in Asking => kind[w] \notin g,
         pc'[w] \in Asking => kind'[w] \notin g,
         UNCHANGED <<over, epoch, pending, message, inbox, got, shut>>,
         \A r \in asked' \cup asked : r[2] \in g => r \in asked' /\ r \in asked,
         \A v \in Callers : v # w =>
           /\ pc'[v] = pc[v] /\ kind'[v] = kind[v] /\ peer'[v] = peer[v]
           /\ count'[v] = count[v] /\ watch'[v] = watch[v],
         \A c \in Call : c[1] # w => box'[c] = box[c]
  PROVE  Alone(g)'
<1>1. /\ Requested(g)' = Requested(g) /\ Delivering(g)' = Delivering(g)
      /\ Outstanding(g)' = Outstanding(g)
  BY DEF Requested, Delivering, Outstanding
<1>2. ASSUME NEW v \in Callers, v # w PROVE current(v)' = current(v)
  BY <1>2 DEF current
<1>3. ASSUME ~over', Outstanding(g)' PROVE \E v \in Callers : Awaits(g, v)'
  <2>1. PICK v \in Callers : Awaits(g, v)
    BY <1>1, <1>3 DEF Sound, Alone
  <2>2. v # w
    BY <2>1 DEF Awaits, Asking
  <2> QED
    BY <1>2, <2>1, <2>2 DEF Awaits
<1>4. ASSUME NEW v \in Callers, pc'[v] \in Asking, kind'[v] \in g
      PROVE  \E ms \in Answers(current(v)', kind'[v], peer'[v]) :
               \E t \in 0 .. Len(ms) : Exchange(g, v, ms, t)'
  <2>1. v # w
    BY <1>4
  <2>2. /\ pc'[v] = pc[v] /\ kind'[v] = kind[v] /\ peer'[v] = peer[v]
        /\ current(v)' = current(v) /\ pc[v] \in Asking /\ kind[v] \in g
    BY <1>2, <1>4, <2>1
  <2>3. current(v) \in Call
    BY <2>2, TheExchange
  <2>4. box'[current(v)] = box[current(v)]
    BY <2>1, <2>3 DEF current
  <2>5. PICK ms \in Answers(current(v), kind[v], peer[v]) :
          \E t \in 0 .. Len(ms) : Exchange(g, v, ms, t)
    BY <2>2, TheExchange
  <2>6. ASSUME NEW t, Exchange(g, v, ms, t) PROVE Exchange(g, v, ms, t)'
    <3>1. \A n : Handed(v, ms, n) => Handed(v, ms, n)'
      BY <2>2, <2>4 DEF Handed
    <3> QED
      BY <1>1, <2>2, <2>6, <3>1 DEF Exchange
  <2> QED
    BY <2>2, <2>5, <2>6
<1> QED
  BY <1>3, <1>4 DEF Alone, Asking

\* The only caller returns, and the program is owed nothing.
LEMMA OutsideAlone ==
  ASSUME Sound, Solo, NEW g \in {Lists, Gatt}, NEW w \in Callers,
         pc[w] # "idle", kind[w] \in g, pc' = [pc EXCEPT ![w] = "remove"],
         UNCHANGED <<over, asked, pending, message, inbox, kind, peer, count>>,
         ~over => ~Outstanding(g)
  PROVE  Alone(g)'
<1>1. Outstanding(g)' = Outstanding(g)
  BY DEF Outstanding, Requested, Delivering
<1>2. ASSUME NEW v \in Callers, pc'[v] \in Asking PROVE kind[v] \notin g
  <2>1. pc \in [Callers -> {"idle", "register", "send", "sent", "wait", "remove",
                            "held", "part"}]
    BY DEF Sound, Apart, Typed, TypeOK
  <2>2. v # w /\ pc'[v] = pc[v] /\ pc[v] # "idle"
    BY <1>2, <2>1 DEF Asking
  <2> QED
    BY <2>2, Lone DEF Sound
<1> QED
  BY <1>1, <1>2 DEF Alone, Asking

\* What a call that begins finds of its own: nothing.
LEMMA EnterFacts ==
  ASSUME Apart, NEW w \in Callers, count[w] < CallsOf(w),
         NEW k \in KindsOf(w), NEW p \in Peers, Enter(w, k, p), UNCHANGED <<box, got, shut>>
  PROVE  /\ kind'[w] = k /\ peer'[w] = p /\ pc'[w] = "register" /\ outcome'[w] = "none"
         /\ current(w)' \in Call
         /\ box'[current(w)'] = <<>> /\ got'[current(w)'] = <<>>
         /\ current(w)' \notin shut'
         /\ \A v \in Callers : v # w =>
              /\ pc'[v] = pc[v] /\ kind'[v] = kind[v] /\ peer'[v] = peer[v]
              /\ count'[v] = count[v] /\ watch'[v] = watch[v]
              /\ outcome'[v] = outcome[v] /\ answer'[v] = answer[v]
              /\ current(v)' = current(v)
<1>0. /\ Typed /\ Fresh
      /\ pc \in [Callers -> {"idle", "register", "send", "sent", "wait", "remove",
                             "held", "part"}]
      /\ kind \in [Callers -> Requests \cup Subscriptions] /\ peer \in [Callers -> Peers]
      /\ count \in [Callers -> 0 .. MaxCalls] /\ MaxCalls \in Nat
      /\ CallsOf(w) \in 0 .. MaxCalls
      /\ outcome \in [Callers -> {"none", "unsent", "answered", "timeout", "closed"}]
      /\ answer \in [Callers -> Seq(Messages)]
  BY ProfileFacts DEF Apart, Typed, TypeOK
<1>1. /\ count' = [count EXCEPT ![w] = @ + 1]
      /\ pc' = [pc EXCEPT ![w] = "register"]
      /\ kind' = [kind EXCEPT ![w] = k] /\ peer' = [peer EXCEPT ![w] = p]
      /\ outcome' = [outcome EXCEPT ![w] = "none"]
      /\ answer' = [answer EXCEPT ![w] = <<>>]
      /\ watch' = watch
  BY DEF Enter
<1>2. /\ kind'[w] = k /\ peer'[w] = p /\ pc'[w] = "register" /\ outcome'[w] = "none"
      /\ count'[w] = count[w] + 1 /\ count'[w] \in 1 .. MaxCalls
  BY <1>0, <1>1
<1>3. \A v \in Callers : v # w =>
        /\ pc'[v] = pc[v] /\ kind'[v] = kind[v] /\ peer'[v] = peer[v]
        /\ count'[v] = count[v] /\ watch'[v] = watch[v]
        /\ outcome'[v] = outcome[v] /\ answer'[v] = answer[v]
        /\ current(v)' = current(v)
  BY <1>0, <1>1 DEF current
<1>4. /\ current(w)' \in Call
      /\ box[current(w)'] = <<>> /\ got[current(w)'] = <<>> /\ current(w)' \notin shut
  <2>1. current(w)' = <<w, count[w] + 1>>
    BY <1>2 DEF current
  <2>2. current(w)' \in Call /\ current(w)'[1] = w /\ current(w)'[2] = count[w] + 1
    BY <1>2, <2>1 DEF Call
  <2>3. count[w] + 1 > count[w]
    BY <1>0
  <2> QED
    BY <1>0, <2>2, <2>3 DEF Fresh
<1> QED
  BY <1>2, <1>3, <1>4

\* Its exchange starts with no reply on its way.
LEMMA EnterExchange ==
  ASSUME Apart, NEW g \in {Lists, Gatt}, NEW w \in Callers, count[w] < CallsOf(w),
         NEW k \in KindsOf(w), NEW p \in Peers, Enter(w, k, p), UNCHANGED <<box, got, shut>>,
         k \in g, inbox' \in Seq(Messages), ~Requested(g)', ~Delivering(g)',
         ~over' => \A i \in 1 .. Len(inbox') : ~Reply(g, inbox'[i])
  PROVE  \E ms \in Answers(current(w)', kind'[w], peer'[w]) :
           \E t \in 0 .. Len(ms) : Exchange(g, w, ms, t)'
<1>1. /\ kind'[w] = k /\ peer'[w] = p /\ pc'[w] = "register"
      /\ current(w)' \in Call
      /\ box'[current(w)'] = <<>> /\ got'[current(w)'] = <<>>
      /\ current(w)' \notin shut'
  BY EnterFacts
<1>2. k \in Requests
  BY Families
<1>3. PICK ms : ms \in Answers(current(w)', k, p)
  BY <1>1, <1>2, SomeAnswer
<1>4. ms \in Seq(Messages) /\ Len(ms) \in 1 .. 3
  BY <1>1, <1>2, <1>3, AnswersFacts
<1>5. ~over' => Continues(g, inbox', ms, 0)
  BY <1>4, ContinuesAfterOthers
<1>6. Len(<<>>) = 0
  BY EmptySeq
<1>7. Handed(w, ms, 0)'
  BY <1>1, <1>6 DEF Handed
<1>8. Exchange(g, w, ms, 0)'
  BY <1>5, <1>7 DEF Exchange
<1>9. 0 \in 0 .. Len(ms)
  BY <1>4
<1> QED
  BY <1>1, <1>3, <1>8, <1>9

\* A call that begins has not been answered.
LEMMA EnterListed ==
  ASSUME Sound, NEW w \in Callers, count[w] < CallsOf(w), UNCHANGED profile,
         NEW k \in KindsOf(w), NEW p \in Peers, Enter(w, k, p), UNCHANGED <<box, got, shut>>
  PROVE  ListComplete'
<1>1. /\ outcome'[w] = "none"
      /\ \A v \in Callers : v # w =>
           /\ kind'[v] = kind[v] /\ peer'[v] = peer[v] /\ outcome'[v] = outcome[v]
           /\ answer'[v] = answer[v] /\ current(v)' = current(v)
  BY EnterFacts DEF Sound
<1> QED
  BY <1>1, SoloStays DEF Sound, ListComplete

LEMMA BeginAlone ==
  ASSUME Sound, Solo, NEW g \in {Lists, Gatt}, NEW w \in Callers, Begin(w)
  PROVE  ListComplete' /\ Alone(g)'
<1>1. /\ pc[w] = "idle" /\ count[w] < CallsOf(w)
      /\ UNCHANGED <<profile, message, pending, inbox, asked, over, epoch, box,
                     shut, got>>
  BY DEF Begin, At, router, device, done, results
<1>2. PICK k \in KindsOf(w), p \in Peers : Enter(w, k, p)
  BY DEF Begin
<1>3. ListComplete'
  BY <1>1, <1>2, EnterListed
<1>4. /\ kind'[w] = k /\ peer'[w] = p /\ pc'[w] = "register"
      /\ \A v \in Callers : v # w =>
           /\ pc'[v] = pc[v] /\ kind'[v] = kind[v] /\ peer'[v] = peer[v]
           /\ count'[v] = count[v] /\ watch'[v] = watch[v]
           /\ current(v)' = current(v)
  BY <1>1, <1>2, EnterFacts DEF Sound
<1>5. CASE k \notin g
  BY <1>1, <1>3, <1>4, <1>5, ElsewhereAlone DEF Asking
<1>6. CASE k \in g
  <2>1. Uses(w, g)
    <3>1. count[w] \in Nat /\ CallsOf(w) \in Nat
      BY CallerFacts, ProfileFacts DEF Sound, Apart, Typed
    <3> QED
      BY <1>1, <1>6, <3>1 DEF Uses
  <2>2. (~over => ~Outstanding(g)) /\ ~Requested(g) /\ ~Delivering(g)
    BY <1>1, <2>1, NothingOwed
  <2>3. Outstanding(g)' = Outstanding(g) /\ ~Requested(g)' /\ ~Delivering(g)'
    BY <1>1, <2>2 DEF Outstanding, Requested, Delivering
  <2>4. ASSUME NEW v \in Callers, pc'[v] \in Asking, kind'[v] \in g PROVE v = w
    <3>1. ASSUME v # w PROVE pc[v] # "idle" /\ kind[v] \in g
      BY <1>4, <2>4, <3>1 DEF Asking
    <3> QED
      BY <2>1, <3>1, Lone DEF Sound
  <2>5. \E ms \in Answers(current(w)', kind'[w], peer'[w]) :
           \E t \in 0 .. Len(ms) : Exchange(g, w, ms, t)'
    <3>1. inbox \in Seq(Messages)
      BY DEF Sound, Apart, Typed
    <3>2. ~over => \A i \in 1 .. Len(inbox) : ~Reply(g, inbox[i])
      BY <2>2 DEF Outstanding
    <3> QED
      BY <1>1, <1>2, <1>6, <2>3, <3>1, <3>2, EnterExchange DEF Sound
  <2>6. Alone(g)'
    BY <1>1, <2>2, <2>3, <2>4, <2>5 DEF Alone, Asking
  <2> QED
    BY <1>3, <2>6
<1> QED
  BY <1>5, <1>6

\* The caller goes on within its exchange.
LEMMA RegisterAwaitAlone ==
  ASSUME Sound, Solo, NEW g \in {Lists, Gatt}, NEW w \in Callers, Register(w) \/ Await(w)
  PROVE  ListComplete' /\ Alone(g)'
<1>0. pc \in [Callers -> {"idle", "register", "send", "sent", "wait", "remove",
                          "held", "part"}]
      /\ watch \in [Callers -> Nat]
  BY DEF Sound, Apart, Typed, TypeOK
<1>1. UNCHANGED <<profile, message, pending, inbox, asked, over, epoch, box, shut,
                  got, kind, peer, count, outcome, answer>>
  BY DEF Register, Await, router, device, done, results
<1>2. \/ pc[w] = "register" /\ watch' = watch
           /\ \E s \in {"register", "send"} : pc' = [pc EXCEPT ![w] = s] /\ pc'[w] = s
      \/ /\ pc[w] = "sent" /\ pc' = [pc EXCEPT ![w] = "wait"] /\ pc'[w] = "wait"
         /\ watch' = [watch EXCEPT ![w] = epoch] /\ watch'[w] = epoch
  <2>1. CASE Register(w)
    BY <1>0, <2>1 DEF Register, At
  <2>2. CASE Await(w)
    BY <1>0, <2>2 DEF Await, At
  <2> QED
    BY <2>1, <2>2
<1>3. \A v : current(v)' = current(v)
  BY <1>1 DEF current
<1>4. /\ Outstanding(g)' = Outstanding(g) /\ Requested(g)' = Requested(g)
      /\ Delivering(g)' = Delivering(g)
  BY <1>1 DEF Outstanding, Requested, Delivering
<1>5. \A v \in Callers : v # w => pc'[v] = pc[v] /\ watch'[v] = watch[v]
  BY <1>0, <1>2
<1>6. ASSUME ~over', Outstanding(g)' PROVE \E v \in Callers : Awaits(g, v)'
  <2>1. PICK v \in Callers : Awaits(g, v)
    BY <1>1, <1>4, <1>6 DEF Sound, Alone
  <2>2. CASE v # w
    BY <1>1, <1>3, <1>5, <2>1, <2>2 DEF Awaits
  <2>3. CASE v = w
    <3>1. pc[w] = "sent" /\ pc'[w] = "wait" /\ watch'[w] = epoch
      BY <1>2, <2>1, <2>3 DEF Awaits
    <3> QED
      BY <1>1, <1>3, <2>1, <2>3, <3>1 DEF Awaits
  <2> QED
    BY <2>2, <2>3
<1>7. ASSUME NEW v \in Callers, pc'[v] \in Asking, kind[v] \in g
      PROVE  \E ms \in Answers(current(v), kind[v], peer[v]) :
               \E t \in 0 .. Len(ms) : Exchange(g, v, ms, t)'
  <2>1. /\ pc[v] \in Asking
        /\ pc'[v] \in {"register", "send"} => pc[v] \in {"register", "send"}
    BY <1>2, <1>5, <1>7 DEF Asking
  <2>2. PICK ms \in Answers(current(v), kind[v], peer[v]) :
               \E t \in 0 .. Len(ms) : Exchange(g, v, ms, t)
    BY <1>7, <2>1, TheExchange
  <2>3. ASSUME NEW t, Exchange(g, v, ms, t) PROVE Exchange(g, v, ms, t)'
    BY <1>1, <1>3, <1>4, <2>1, <2>3 DEF Exchange, Handed
  <2> QED
    BY <2>2, <2>3
<1>8. Alone(g)'
  BY <1>1, <1>3, <1>6, <1>7 DEF Alone, Asking
<1> QED
  BY <1>1, <1>8, ListedStays DEF Sound

\* The request is on its way: nothing else of the family is.
LEMMA SendAlone ==
  ASSUME Sound, Solo, NEW g \in {Lists, Gatt}, NEW w \in Callers, Send(w)
  PROVE  ListComplete' /\ Alone(g)'
<1>0. /\ Typed /\ Loops
      /\ pc \in [Callers -> {"idle", "register", "send", "sent", "wait", "remove",
                             "held", "part"}]
  BY DEF Sound, Apart, Typed, TypeOK
<1>1. /\ pc[w] = "send" /\ pc' = [pc EXCEPT ![w] = "sent"]
      /\ asked' = IF linked THEN asked \cup {<<current(w), kind[w], peer[w]>>}
                            ELSE asked
      /\ UNCHANGED <<profile, message, pending, inbox, over, epoch, box, shut, got,
                     watch, kind, peer, count, outcome, answer>>
  BY DEF Send, At, router, done, results
<1>2. \A v : current(v)' = current(v)
  BY <1>1 DEF current
<1>3. pc'[w] = "sent" /\ \A v \in Callers : v # w => pc'[v] = pc[v]
  BY <1>0, <1>1
<1>4. ListComplete'
  BY <1>1, ListedStays DEF Sound
<1>5. CASE kind[w] \notin g
  <2>1. \A r \in asked' \cup asked : r[2] \in g => r \in asked' /\ r \in asked
    BY <1>1, <1>5
  <2>2. Alone(g)'
    BY <1>1, <1>3, <1>5, <2>1, ElsewhereAlone
  <2> QED
    BY <1>4, <2>2
<1>6. CASE kind[w] \in g
  <2>1. (~over => ~Outstanding(g)) /\ ~Requested(g) /\ ~Delivering(g)
    BY <1>1, <1>6, NothingOwed
  <2>2. linked => ~over
    BY <1>0 DEF Loops
  <2>3. ~Delivering(g)'
    BY <1>1, <2>1 DEF Delivering
  <2>4. \A r \in asked' : r[2] \in g => linked /\ r = <<current(w), kind[w], peer[w]>>
    BY <1>1, <2>1 DEF Requested
  <2>5. ASSUME ~over', Outstanding(g)' PROVE \E v \in Callers : Awaits(g, v)'
    BY <1>1, <1>2, <1>3, <1>6, <2>4 DEF Awaits
  <2>6. ASSUME NEW v \in Callers, pc'[v] \in Asking, kind[v] \in g
        PROVE  \E ms \in Answers(current(v), kind[v], peer[v]) :
                 \E t \in 0 .. Len(ms) : Exchange(g, v, ms, t)'
    <3>1. v = w
      <4>1. ASSUME v # w PROVE pc[v] # "idle"
        BY <1>3, <2>6, <4>1 DEF Asking
      <4> QED
        BY <1>1, <1>6, <2>6, <4>1, Lone DEF Sound
    <3>2. PICK ms \in Answers(current(w), kind[w], peer[w]) :
            \E t \in 0 .. Len(ms) : Exchange(g, w, ms, t)
      BY <1>1, <1>6, TheExchange DEF Asking
    <3>3. PICK t \in 0 .. Len(ms) : Exchange(g, w, ms, t)
      BY <3>2
    <3>4. t = 0
      BY <1>1, <3>3 DEF Exchange
    <3>5. Requested(g)' => \A i \in 1 .. Len(inbox) : ~Reply(g, inbox[i])
      <4>1. Requested(g)' => ~over
        BY <2>2, <2>4 DEF Requested
      <4> QED
        BY <2>1, <4>1 DEF Outstanding
    <3>6. Exchange(g, w, ms, t)'
      BY <1>1, <1>2, <1>3, <2>1, <2>3, <3>3, <3>4, <3>5 DEF Exchange, Handed
    <3> QED
      BY <3>1, <3>2, <3>6
  <2>7. Alone(g)'
    BY <1>1, <1>2, <2>5, <2>6 DEF Alone, Asking
  <2> QED
    BY <1>4, <2>7
<1> QED
  BY <1>5, <1>6

\* A call that has been handed something to return has been answered.
LEMMA Answered ==
  ASSUME Sound, Solo, NEW g \in {Lists, Gatt}, NEW w \in Callers, pc[w] = "wait",
         kind[w] \in g, current(w) \in shut \/ box[current(w)] # <<>>
  PROVE  /\ ~over => ~Outstanding(g)
         /\ kind[w] = "list" =>
              /\ box[current(w)] = <<>>
              /\ got[current(w)] = <<Msg("entity", peer[w], current(w), 1),
                                     Msg("entity", peer[w], current(w), 2)>>
<1>0. got \in [Call -> Seq(Messages)] /\ current(w) \in Call
  BY TheExchange DEF Sound, Apart, Typed, Asking
<1>1. PICK ms \in Answers(current(w), kind[w], peer[w]) :
        /\ ms \in Seq(Messages) /\ Len(ms) \in 1 .. 3
        /\ \A i \in 1 .. Len(ms) : Reply(g, ms[i])
        /\ \A i, j \in 1 .. Len(ms) : ms[i] = ms[j] => i = j
        /\ \E t \in 0 .. Len(ms) : Exchange(g, w, ms, t)
  BY TheExchange DEF Asking
<1>2. PICK t \in 0 .. Len(ms) : Exchange(g, w, ms, t)
  BY <1>1
<1>3. (IF Delivering(g) THEN t - 1 ELSE t) = Len(ms)
  BY <1>2 DEF Exchange, Handed
<1>4. ~Delivering(g) /\ t = Len(ms)
  BY <1>1, <1>3
<1>5. ~Requested(g)
  BY <1>1, <1>2, <1>4 DEF Exchange
<1>6. ASSUME ~over, NEW i \in 1 .. Len(inbox), Reply(g, inbox[i]) PROVE FALSE
  <2>1. \E v \in t + 1 .. Len(ms) : inbox[i] = ms[v]
    BY <1>2, <1>6 DEF Exchange, Continues
  <2> QED
    BY <1>1, <1>4, <2>1
<1>7. ~over => ~Outstanding(g)
  BY <1>4, <1>5, <1>6 DEF Outstanding
<1>8. ASSUME kind[w] = "list"
      PROVE  /\ box[current(w)] = <<>>
             /\ got[current(w)] = <<Msg("entity", peer[w], current(w), 1),
                                    Msg("entity", peer[w], current(w), 2)>>
  <2>1. /\ box[current(w)] = <<>>
        /\ Len(got[current(w)]) = IF Len(ms) < 2 THEN Len(ms) ELSE 2
        /\ \A i \in 1 .. Len(got[current(w)]) : got[current(w)][i] = ms[i]
    BY <1>2, <1>3, <1>8 DEF Exchange, Handed
  <2>2. ms = <<Msg("entity", peer[w], current(w), 1),
               Msg("entity", peer[w], current(w), 2),
               Msg("done", peer[w], current(w), 3)>>
    BY <1>8 DEF Answers
  <2> DEFINE a == Msg("entity", peer[w], current(w), 1)
             b == Msg("entity", peer[w], current(w), 2)
             d == Msg("done", peer[w], current(w), 3)
             l == got[current(w)]
  <2>3. ms = <<a, b, d>> /\ l \in Seq(Messages)
    BY <1>0, <2>2
  <2> HIDE DEF a, b, d
  <2>4. Len(ms) = 3 /\ ms[1] = a /\ ms[2] = b
    BY <2>3
  <2>5. Len(l) = 2 /\ l[1] = a /\ l[2] = b
    BY <2>1, <2>4
  <2> HIDE DEF l
  <2>6. l = <<a, b>>
    BY <2>3, <2>5
  <2> QED
    BY <2>1, <2>6 DEF a, b, l
<1> QED
  BY <1>7, <1>8

\* Nobody else's answer is touched by a return.
LEMMA ReturnListed ==
  ASSUME Sound, NEW w \in Callers, NEW how, NEW ms, Return(w, how, ms),
         profile' = profile,
         Solo /\ kind[w] = "list" /\ how = "answered" =>
           ms = <<Msg("entity", peer[w], current(w), 1),
                  Msg("entity", peer[w], current(w), 2)>>
  PROVE  ListComplete'
<1>1. /\ UNCHANGED <<profile, kind, peer, count>>
      /\ outcome' = [outcome EXCEPT ![w] = how]
      /\ answer' = [answer EXCEPT ![w] = ms]
      /\ outcome \in [Callers -> {"none", "unsent", "answered", "timeout", "closed"}]
      /\ answer \in [Callers -> Seq(Messages)]
  BY DEF Return, Sound, Apart, Typed
<1>2. \A v : current(v)' = current(v)
  BY <1>1 DEF current
<1>3. /\ outcome'[w] = how /\ answer'[w] = ms
      /\ \A v \in Callers : v # w => outcome'[v] = outcome[v] /\ answer'[v] = answer[v]
  BY <1>1
<1> QED
  BY <1>1, <1>2, <1>3, SoloStays DEF Sound, ListComplete

LEMMA ReturnsAlone ==
  ASSUME Sound, Solo, NEW g \in {Lists, Gatt}, NEW w \in Callers,
         SendFails(w) \/ TakeResponse(w) \/ TakeDone(w) \/ TimeOut(w) \/ SeeClosed(w)
  PROVE  ListComplete' /\ Alone(g)'
<1>0. /\ pc \in [Callers -> {"idle", "register", "send", "sent", "wait", "remove",
                             "held", "part"}]
      /\ watch \in [Callers -> Nat] /\ box \in [Call -> Seq(Messages)]
  BY DEF Sound, Apart, Typed, TypeOK
<1>1. /\ UNCHANGED <<profile, over, epoch, asked, pending, message, inbox, kind, peer,
                     count, watch, got, shut>>
      /\ pc' = [pc EXCEPT ![w] = "remove"] /\ pc[w] \in {"send", "wait"}
      /\ box' \in {box, [box EXCEPT ![current(w)] = <<>>]}
  BY DEF SendFails, TakeResponse, TakeDone, TimeOut, SeeClosed, Return, At, router,
         device, done, results
<1>2. Alone(g)'
  <2>1. CASE kind[w] \notin g
    <3>1. pc'[w] = "remove" /\ \A v \in Callers : v # w => pc'[v] = pc[v]
      BY <1>0, <1>1
    <3>2. \A c \in Call : c[1] # w => box'[c] = box[c]
      BY <1>0, <1>1 DEF current
    <3> QED
      BY <1>1, <2>1, <3>1, <3>2, ElsewhereAlone
  <2>2. CASE kind[w] \in g
    <3>1. ~over => ~Outstanding(g)
      <4>1. CASE SendFails(w)
        <5>1. pc[w] = "send"
          BY <4>1 DEF SendFails, At
        <5> QED
          BY <2>2, <5>1, NothingOwed
      <4>2. CASE TakeResponse(w) \/ TakeDone(w)
        BY <2>2, <4>2, Answered DEF TakeResponse, TakeDone, At
      <4>3. CASE TimeOut(w)
        BY <4>3 DEF TimeOut, Solo
      <4>4. CASE SeeClosed(w)
        <5> SUFFICES ASSUME ~over, Outstanding(g) PROVE FALSE
          OBVIOUS
        <5>1. PICK v \in Callers : Awaits(g, v)
          BY DEF Sound, Alone
        <5>2. v = w
          BY <1>1, <2>2, <5>1, Lone DEF Awaits, Sound
        <5>3. watch[w] = epoch /\ watch[w] \in closed
          BY <4>4, <5>1, <5>2 DEF SeeClosed, At, Awaits
        <5> QED
          BY <5>3 DEF Sound, Apart, Loops
      <4> QED
        BY <4>1, <4>2, <4>3, <4>4
    <3> QED
      BY <1>1, <2>2, <3>1, OutsideAlone
  <2> QED
    BY <2>1, <2>2
<1>3. ListComplete'
  <2>0. Lists \in {Lists, Gatt} /\ (kind[w] = "list" => kind[w] \in Lists)
    BY DEF Lists
  <2>1. CASE SendFails(w) \/ TimeOut(w) \/ SeeClosed(w)
    <3>1. PICK how \in {"unsent", "timeout", "closed"} : Return(w, how, <<>>)
      BY <2>1 DEF SendFails, TimeOut, SeeClosed
    <3> QED
      BY <1>1, <3>1, ReturnListed
  <2>2. CASE TakeResponse(w)
    <3>1. Return(w, "answered", box[current(w)]) /\ pc[w] = "wait" /\ box[current(w)] # <<>>
      BY <2>2 DEF TakeResponse, At
    <3>2. kind[w] # "list"
      BY <2>0, <3>1, Answered
    <3> QED
      BY <1>1, <3>1, <3>2, ReturnListed
  <2>3. CASE TakeDone(w)
    <3>1. Return(w, "answered", got[current(w)]) /\ pc[w] = "wait" /\ current(w) \in shut
      BY <2>3 DEF TakeDone, At
    <3>2. kind[w] = "list" =>
            got[current(w)] = <<Msg("entity", peer[w], current(w), 1),
                                Msg("entity", peer[w], current(w), 2)>>
      BY <2>0, <3>1, Answered
    <3> QED
      BY <1>1, <3>1, <3>2, ReturnListed
  <2> QED
    BY <2>1, <2>2, <2>3
<1> QED
  BY <1>2, <1>3

LEMMA HoldsAlone ==
  ASSUME Sound, Solo, NEW g \in {Lists, Gatt}, NEW w \in Callers,
         Subscribe(w) \/ Remove(w) \/ Stop(w) \/ Part(w)
  PROVE  ListComplete' /\ Alone(g)'
<1>0. /\ pc \in [Callers -> {"idle", "register", "send", "sent", "wait", "remove",
                             "held", "part"}]
      /\ outcome \in [Callers -> {"none", "unsent", "answered", "timeout", "closed"}]
  BY DEF Sound, Apart, Typed, TypeOK
<1>1. /\ UNCHANGED <<profile, over, epoch, asked, pending, message, inbox, kind, peer,
                     count, watch, box, got, shut, answer>>
      /\ (pc[w] \in {"remove", "held", "part"}) \/ kind[w] \in Subscriptions
      /\ \E s \in {"remove", "held", "part", "idle"} : pc' = [pc EXCEPT ![w] = s]
  <2>1. CASE Subscribe(w)
    BY <2>1 DEF Subscribe, At, router, done, results
  <2>2. CASE Remove(w)
    BY <2>2 DEF Remove, At, device, done, results
  <2>3. CASE Stop(w)
    BY <2>3 DEF Stop, At, device, done, results
  <2>4. CASE Part(w)
    BY <2>4 DEF Part, At, router, done, results
  <2> QED
    BY <2>1, <2>2, <2>3, <2>4
<1>2. Alone(g)'
  <2>1. pc[w] \in Asking => kind[w] \notin g
    BY <1>1 DEF Asking, Subscriptions, Lists, Gatt
  <2>2. pc'[w] \notin Asking /\ \A v \in Callers : v # w => pc'[v] = pc[v]
    BY <1>0, <1>1 DEF Asking
  <2> QED
    BY <1>1, <2>1, <2>2, ElsewhereAlone
<1>3. CASE Subscribe(w)
  <2>1. /\ kind[w] \in Subscriptions
        /\ outcome' = [outcome EXCEPT ![w] = "answered"]
    BY <1>3 DEF Subscribe
  <2>2. kind[w] # "list" /\ \A v \in Callers : v # w => outcome'[v] = outcome[v]
    BY <1>0, <2>1 DEF Subscriptions
  <2>3. \A v : current(v)' = current(v)
    BY <1>1 DEF current
  <2>4. ListComplete'
    BY <1>1, <2>2, <2>3, SoloStays DEF Sound, ListComplete
  <2> QED
    BY <1>2, <2>4
<1>4. CASE Remove(w) \/ Stop(w) \/ Part(w)
  <2>1. outcome' = outcome
    BY <1>4 DEF Remove, Stop, Part
  <2> QED
    BY <1>1, <1>2, <2>1, ListedStays DEF Sound
<1> QED
  BY <1>3, <1>4

\* What the callers know of themselves and what they have been handed stays.
Handing == <<profile, pc, kind, peer, count, watch, epoch, box, got, shut, outcome,
             answer>>

LEMMA HandingStays ==
  ASSUME UNCHANGED Handing
  PROVE  /\ UNCHANGED <<profile, pc, kind, peer, count, watch, epoch, box, got, shut,
                        outcome, answer>>
         /\ \A v : current(v)' = current(v)
         /\ \A v, ms, n : Handed(v, ms, n) => Handed(v, ms, n)'
         /\ ListComplete => ListComplete'
         /\ \A g, v : asked' \subseteq asked /\ Awaits(g, v) => Awaits(g, v)'
<1>1. UNCHANGED <<profile, pc, kind, peer, count, watch, epoch, box, got, shut,
                  outcome, answer>>
  BY DEF Handing
<1>2. \A v : current(v)' = current(v)
  BY <1>1 DEF current
<1>3. \A v, ms, n : Handed(v, ms, n) => Handed(v, ms, n)'
  BY <1>1, <1>2 DEF Handed
<1>4. ListComplete => ListComplete'
  BY <1>1, ListedStays
<1>5. \A g, v : asked' \subseteq asked /\ Awaits(g, v) => Awaits(g, v)'
  BY <1>1, <1>2 DEF Awaits
<1> QED
  BY <1>1, <1>2, <1>3, <1>4, <1>5

\* The connection is lost: what has come may still be read.
LEMMA LoseLinkAlone ==
  ASSUME Sound, NEW g \in {Lists, Gatt}, LoseLink
  PROVE  ListComplete' /\ Alone(g)'
<1>1. UNCHANGED Handing /\ UNCHANGED <<message, pending, inbox, over>> /\ asked' = {}
  BY DEF LoseLink, Handing, router, done, results, callers
<1>2. Delivering(g)' = Delivering(g) /\ ~Requested(g)'
  BY <1>1 DEF Delivering, Requested
<1>3. ASSUME ~over', Outstanding(g)' PROVE \E w \in Callers : Awaits(g, w)'
  <2>1. Outstanding(g)
    BY <1>1, <1>2, <1>3 DEF Outstanding
  <2> QED
    BY <1>1, <1>3, <2>1, HandingStays DEF Sound, Alone
<1>4. ASSUME NEW w \in Callers, NEW ms, NEW t, Exchange(g, w, ms, t)
      PROVE  Exchange(g, w, ms, t)'
  <2>1. Handed(w, ms, IF Delivering(g) THEN t - 1 ELSE t)'
    BY <1>1, <1>2, <1>4, HandingStays DEF Exchange
  <2> QED
    BY <1>1, <1>2, <1>4, <2>1, HandingStays DEF Exchange
<1>5. Alone(g)'
  BY <1>1, <1>3, <1>4, HandingStays DEF Sound, Alone
<1> QED
  BY <1>1, <1>5, HandingStays DEF Sound

\* There is another connection, and nothing comes from the one before; its
\* reconnectLoop is a new caller.
LEMMA ReconnectAlone ==
  ASSUME Sound, NEW g \in {Lists, Gatt}, Reconnect
  PROVE  ListComplete' /\ Alone(g)'
<1>0. /\ epoch \in Callers /\ "list" \in KindsOf(epoch) /\ count[epoch] < CallsOf(epoch)
      /\ peer[epoch] \in Peers
  BY NewLister DEF Sound
<1>1. /\ asked' = {} /\ pending' = {} /\ pending = {} /\ inbox' = <<>>
      /\ Enter(epoch, "list", peer[epoch])
      /\ UNCHANGED <<profile, message, box, got, shut, epoch>>
  BY DEF Reconnect, router, results, Sound, Apart, Loops
<1>2. Len(inbox') = 0 /\ inbox' \in Seq(Messages)
  BY <1>1, EmptySeq
<1>3. ListComplete'
  BY <1>0, <1>1, EnterListed
<1>4. /\ \A i \in 1 .. Len(inbox') : ~Reply(g, inbox'[i])
      /\ ~Requested(g)' /\ ~Delivering(g)' /\ ~Delivering(g)
  BY <1>1, <1>2 DEF Requested, Delivering
<1>5. ~Outstanding(g)'
  BY <1>4 DEF Outstanding
<1>6. ASSUME NEW v \in Callers, pc'[v] \in Asking, kind'[v] \in g
      PROVE  \E ms \in Answers(current(v)', kind'[v], peer'[v]) :
               \E t \in 0 .. Len(ms) : Exchange(g, v, ms, t)'
  <2>1. CASE v = epoch
    <3>1. kind'[epoch] = "list"
      BY <1>0, <1>1, EnterFacts DEF Sound
    <3> QED
      BY <1>0, <1>1, <1>2, <1>4, <1>6, <2>1, <3>1, EnterExchange DEF Sound
  <2>2. CASE v # epoch
    <3>1. /\ pc'[v] = pc[v] /\ kind'[v] = kind[v] /\ peer'[v] = peer[v]
          /\ current(v)' = current(v)
      BY <1>0, <1>1, <2>2, EnterFacts DEF Sound
    <3>2. PICK ms \in Answers(current(v), kind[v], peer[v]) :
            /\ ms \in Seq(Messages) /\ Len(ms) \in 1 .. 3
            /\ \E t \in 0 .. Len(ms) : Exchange(g, v, ms, t)
      BY <1>6, <3>1, TheExchange
    <3>3. PICK t \in 0 .. Len(ms) : Exchange(g, v, ms, t)
      BY <3>2
    <3>4. t \in Nat
      BY <3>2, <3>3
    <3>5. Continues(g, inbox', ms, t)
      BY <1>2, <1>4, <3>2, <3>4, ContinuesAfterOthers
    <3>6. Handed(v, ms, IF Delivering(g) THEN t - 1 ELSE t)'
      BY <1>1, <1>4, <3>1, <3>3 DEF Exchange, Handed
    <3>7. Exchange(g, v, ms, t)'
      BY <1>4, <3>1, <3>3, <3>5, <3>6 DEF Exchange
    <3> QED
      BY <3>1, <3>2, <3>7
  <2> QED
    BY <2>1, <2>2
<1>7. Alone(g)'
  BY <1>5, <1>6 DEF Alone, Asking
<1> QED
  BY <1>3, <1>7

\* Messages that are no replies of the family come behind the others.
LEMMA UnaskedAlone ==
  ASSUME Sound, NEW g \in {Lists, Gatt},
         UNCHANGED Handing, UNCHANGED <<message, pending, over>>,
         asked' \subseteq asked, Requested(g)' = Requested(g),
         NEW ns \in Seq(Messages), \A i \in 1 .. Len(ns) : ~Reply(g, ns[i]),
         inbox' = inbox \o ns
  PROVE  ListComplete' /\ Alone(g)'
<1>0. inbox \in Seq(Messages)
  BY DEF Sound, Apart, Typed
<1>1. \A i \in 1 .. Len(inbox') : Reply(g, inbox'[i]) =>
        i \in 1 .. Len(inbox) /\ Reply(g, inbox[i])
  <2>1. /\ Len(inbox') = Len(inbox) + Len(ns) /\ Len(inbox) \in Nat /\ Len(ns) \in Nat
        /\ \A i \in 1 .. Len(inbox) : inbox'[i] = inbox[i]
        /\ \A i \in Len(inbox) + 1 .. Len(inbox) + Len(ns) : inbox'[i] = ns[i - Len(inbox)]
    BY <1>0, ConcatProperties, LenProperties
  <2>2. ASSUME NEW i \in Len(inbox) + 1 .. Len(inbox) + Len(ns) PROVE ~Reply(g, inbox'[i])
    <3>1. i - Len(inbox) \in 1 .. Len(ns)
      BY <2>1
    <3> QED
      BY <2>1, <3>1
  <2>3. ASSUME NEW i \in 1 .. Len(inbox'), i \notin 1 .. Len(inbox)
        PROVE  i \in Len(inbox) + 1 .. Len(inbox) + Len(ns)
    BY <2>1, <2>3
  <2> QED
    BY <2>1, <2>2, <2>3
<1>2. Delivering(g)' = Delivering(g)
  BY DEF Delivering
<1>3. Outstanding(g)' => Outstanding(g)
  BY <1>1, <1>2 DEF Outstanding
<1>4. ASSUME ~over', Outstanding(g)' PROVE \E w \in Callers : Awaits(g, w)'
  BY <1>3, <1>4, HandingStays DEF Sound, Alone
<1>5. ASSUME NEW w \in Callers, pc[w] \in Asking, kind[w] \in g
      PROVE  \E ms \in Answers(current(w), kind[w], peer[w]) :
               \E t \in 0 .. Len(ms) : Exchange(g, w, ms, t)'
  <2>1. PICK ms \in Answers(current(w), kind[w], peer[w]) :
          /\ ms \in Seq(Messages) /\ Len(ms) \in 1 .. 3
          /\ \E t \in 0 .. Len(ms) : Exchange(g, w, ms, t)
    BY <1>5, TheExchange
  <2>2. PICK t \in 0 .. Len(ms) : Exchange(g, w, ms, t)
    BY <2>1
  <2>3. t \in Nat
    BY <2>1, <2>2
  <2>4. ~over' => Continues(g, inbox', ms, t)
    BY <1>0, <2>1, <2>2, <2>3, ContinuesWithOthers DEF Exchange
  <2>5. Requested(g)' => \A i \in 1 .. Len(inbox') : ~Reply(g, inbox'[i])
    BY <1>1, <2>2 DEF Exchange
  <2>6. Handed(w, ms, IF Delivering(g) THEN t - 1 ELSE t)'
    BY <1>2, <2>2, HandingStays DEF Exchange
  <2>7. Exchange(g, w, ms, t)'
    BY <1>2, <2>2, <2>4, <2>5, <2>6, HandingStays DEF Exchange
  <2> QED
    BY <2>1, <2>7
<1>6. Alone(g)'
  BY <1>4, <1>5, HandingStays DEF Alone, Asking
<1> QED
  BY <1>6, HandingStays DEF Sound

LEMMA EmitAlone ==
  ASSUME Sound, NEW g \in {Lists, Gatt}, Emit
  PROVE  ListComplete' /\ Alone(g)'
<1>0. /\ feeding \subseteq (Subscriptions \X {"any"}) \cup ({"value"} \X Peers)
      /\ inbox \in Seq(Messages)
  BY DEF Sound, Apart, Typed
<1>1. UNCHANGED Handing /\ UNCHANGED <<message, pending, over, asked>>
  BY DEF Emit, Handing, router, done, results, callers
<1>2. PICK s \in feeding \cup ({"connection"} \X Peers) :
        inbox' = Append(inbox, Msg(s[1], s[2], <<>>, 1))
  BY DEF Emit
<1> DEFINE m == Msg(s[1], s[2], <<>>, 1)
<1>3. /\ s[1] \in Subscriptions \cup {"connection", "value"}
      /\ s[2] \in Peers \cup {"any"}
  BY <1>0
<1>4. m \in Messages /\ ~Reply(g, m)
  <2>1. s[1] \notin RepliesTo(g)
    BY <1>3, Families DEF Subscriptions
  <2> QED
    BY <1>3, <2>1 DEF Msg, Messages, Reply
<1>5. inbox' = Append(inbox, m)
  BY <1>2
<1> HIDE DEF m
<1>6. inbox' = inbox \o <<m>> /\ <<m>> \in Seq(Messages)
      /\ \A i \in 1 .. Len(<<m>>) : ~Reply(g, <<m>>[i])
  <2>1. <<m>> \in Seq(Messages) /\ Len(<<m>>) = 1 /\ <<m>>[1] = m
    BY <1>4, OneMessage
  <2>2. Append(inbox, m) = inbox \o <<m>>
    BY <1>0, <1>4
  <2> QED
    BY <1>4, <1>5, <2>1, <2>2
<1>7. Requested(g)' = Requested(g)
  BY <1>1 DEF Requested
<1> QED
  BY <1>1, <1>6, <1>7, UnaskedAlone

LEMMA AnswerAlone ==
  ASSUME Sound, Solo, NEW g \in {Lists, Gatt}, Answer
  PROVE  ListComplete' /\ Alone(g)'
<1>0. /\ Loops /\ inbox \in Seq(Messages) /\ asked \subseteq Call \X Requests \X Peers
  BY DEF Sound, Apart, Typed, TypeOK
<1>1. UNCHANGED Handing /\ UNCHANGED <<message, pending, over>> /\ linked
  BY DEF Answer, Handing, router, done, results, callers, Up
<1>2. PICK r \in asked : \E ms \in Answers(r[1], r[2], r[3]) :
        inbox' = inbox \o ms /\ asked' = asked \ {r}
  BY DEF Answer
<1>3. PICK ms \in Answers(r[1], r[2], r[3]) : inbox' = inbox \o ms /\ asked' = asked \ {r}
  BY <1>2
<1>4. r[1] \in Call /\ r[2] \in Requests /\ r[3] \in Peers /\ ~over
  BY <1>0, <1>1 DEF Loops
<1>5. /\ ms \in Seq(Messages) /\ Len(ms) \in 1 .. 3
      /\ \A i, j \in 1 .. Len(ms) : ms[i] = ms[j] => i = j
      /\ \A i \in 1 .. Len(ms) : Reply(g, ms[i]) <=> r[2] \in g
  <2>1. \A i \in 1 .. Len(ms) : ms[i].n = i /\ (Reply(g, ms[i]) <=> r[2] \in g)
    BY <1>4, AnswersFacts
  <2>2. ms \in Seq(Messages) /\ Len(ms) \in 1 .. 3
    BY <1>4, AnswersFacts
  <2> QED
    BY <2>1, <2>2
<1>6. CASE r[2] \notin g
  <2>1. Requested(g)' = Requested(g) /\ asked' \subseteq asked
    BY <1>3, <1>6 DEF Requested
  <2> QED
    BY <1>1, <1>3, <1>5, <1>6, <2>1, UnaskedAlone
<1>7. CASE r[2] \in g
  <2>1. Requested(g)
    BY <1>7 DEF Requested
  <2>2. PICK w \in Callers : Awaits(g, w)
    BY <1>4, <2>1 DEF Sound, Alone, Outstanding
  <2>3. /\ pc[w] \in {"sent", "wait"} /\ kind[w] \in g
        /\ r = <<current(w), kind[w], peer[w]>>
        /\ \A x \in asked : x[2] \in g => x = r
    BY <1>7, <2>2 DEF Awaits
  <2>4. ~Requested(g)'
    BY <1>3, <2>3 DEF Requested
  <2>5. PICK ns \in Answers(current(w), kind[w], peer[w]) :
          /\ Len(ns) \in 1 .. 3
          /\ \E t \in 0 .. Len(ns) : Exchange(g, w, ns, t)
    BY <2>3, TheExchange DEF Asking
  <2>6. Exchange(g, w, ns, 0)
    BY <2>1, <2>5 DEF Exchange
  <2>7. ~Delivering(g) /\ \A i \in 1 .. Len(inbox) : ~Reply(g, inbox[i])
    BY <2>1, <2>6 DEF Exchange
  <2>8. ~Delivering(g)'
    BY <1>1, <2>7 DEF Delivering
  <2>9. ms \in Answers(current(w), kind[w], peer[w])
    <3>1. r[1] = current(w) /\ r[2] = kind[w] /\ r[3] = peer[w]
      BY <2>3
    <3> QED
      BY <3>1
  <2>10. Continues(g, inbox', ms, 0)
    BY <1>0, <1>3, <1>5, <2>7, ContinuesFromStart
  <2>11. Handed(w, ms, 0)'
    <3>1. Handed(w, ns, 0)
      BY <2>6, <2>7 DEF Exchange
    <3>2. Handed(w, ms, 0)
      <4>1. current(w) \notin shut /\ box[current(w)] = <<>>
        <5> DEFINE n == Len(ns)
        <5>1. n \in 1 .. 3
          BY <2>5
        <5> HIDE DEF n
        <5>2. n # 0
          BY <5>1
        <5> QED
          BY <3>1, <5>2 DEF Handed, n
      <4>2. kind[w] = "list" => Len(got[current(w)]) = 0
        BY <3>1 DEF Handed
      <4> QED
        BY <4>1, <4>2 DEF Handed
    <3> QED
      BY <1>1, <3>2, HandingStays
  <2>12. Exchange(g, w, ms, 0)'
    BY <2>4, <2>8, <2>10, <2>11 DEF Exchange
  <2>13. Awaits(g, w)'
    BY <1>1, <1>3, <2>2, HandingStays
  <2>14. ASSUME NEW v \in Callers, pc[v] \in Asking, kind[v] \in g PROVE v = w
    BY <2>3, <2>14, Lone DEF Sound, Asking
  <2>15. 0 \in 0 .. Len(ms)
    BY <1>5
  <2>16. Alone(g)'
    BY <1>1, <2>9, <2>12, <2>13, <2>14, <2>15, HandingStays DEF Alone, Asking
  <2> QED
    BY <1>1, <2>16, HandingStays DEF Sound
<1> QED
  BY <1>6, <1>7

\* A reply read for the only caller has one handler.
LEMMA OneHandler ==
  ASSUME Sound, Solo, NEW g \in {Lists, Gatt}, NEW w \in Callers,
         pc[w] \in {"sent", "wait"}, kind[w] \in g,
         NEW ms \in Answers(current(w), kind[w], peer[w]), NEW t \in 1 .. Len(ms)
  PROVE  \E h \in handlers :
           /\ {f \in handlers : f.type = ms[t].type} = {h}
           /\ h.call = current(w)
<1>0. /\ Typed /\ Registered /\ \A v \in Callers : Standing(v) /\ kind[v] \in Kinds
      /\ kind[w] \in Kinds /\ peer[w] \in Peers /\ kind[w] \in Lists \cup Gatt
      /\ \A v \in Callers : DOMAIN HandlersOf(kind[v]) = 1 .. Len(HandlersOf(kind[v]))
      /\ \A i, j \in 1 .. Len(HandlersOf(kind[w])) :
           HandlersOf(kind[w])[i][1] = HandlersOf(kind[w])[j][1] => i = j
  <2>1. Typed /\ Registered /\ \A v \in Callers : Standing(v)
    BY DEF Sound, Apart
  <2>2. peer[w] \in Peers /\ \A v \in Callers : kind[v] \in Kinds
    BY <2>1, CallerFacts
  <2> QED
    BY <2>1, <2>2, HandlersFacts
<1>1. current(w) \in Call /\ mine[w] = 1 .. Len(HandlersOf(kind[w]))
  <2>1. count[w] > 0 /\ mine[w] = 1 .. Len(HandlersOf(kind[w]))
    BY <1>0 DEF Standing
  <2> QED
    BY <1>0, <2>1, CallerFacts
<1>2. PICK i \in 1 .. Len(HandlersOf(kind[w])) : HandlersOf(kind[w])[i][1] = ms[t].type
  BY <1>0, <1>1, RepliesAreHandled
<1>3. Handler(w, i) \in handlers
  BY <1>0, <1>1 DEF Registered
<1>4. Handler(w, i).type = ms[t].type /\ Handler(w, i).call = current(w)
  BY <1>2 DEF Handler
<1>5. ms[t].type \in RepliesTo(g)
  <2>1. current(w) \in Call /\ peer[w] \in Peers /\ kind[w] \in Requests
    BY <1>0, <1>1, Families
  <2> QED
    BY <2>1, AnswersFacts DEF Reply
<1>6. ASSUME NEW f \in handlers, f.type = ms[t].type PROVE f = Handler(w, i)
  <2>1. PICK v \in Callers : \E j \in mine[v] : f = Handler(v, j)
    BY <1>0 DEF Registered
  <2>2. PICK j \in mine[v] : f = Handler(v, j)
    BY <2>1
  <2>3. HandlersOf(kind[v])[j][1] = ms[t].type
    BY <1>6, <2>2 DEF Handler
  <2>4. j \in DOMAIN HandlersOf(kind[v])
    BY <1>0, <2>2 DEF Typed, TypeOK
  <2>5. kind[v] \in g /\ pc[v] # "idle"
    BY <1>0, <1>5, <2>2, <2>3, <2>4, HandledTypes DEF Standing
  <2>6. v = w
    BY <2>5, Lone DEF Sound
  <2>7. j \in 1 .. Len(HandlersOf(kind[w]))
    BY <1>1, <2>2, <2>6
  <2>8. j = i
    BY <1>0, <1>2, <2>3, <2>6, <2>7
  <2> QED
    BY <2>2, <2>6, <2>8
<1> QED
  BY <1>3, <1>4, <1>6

LEMMA ReadAlone ==
  ASSUME Sound, Solo, NEW g \in {Lists, Gatt}, Read
  PROVE  ListComplete' /\ Alone(g)'
<1>0. /\ Loops /\ inbox \in Seq(Messages) /\ \A w \in Callers : Standing(w)
  BY DEF Sound, Apart, Typed
<1>1. /\ UNCHANGED Handing /\ UNCHANGED <<asked, over>>
      /\ inbox # <<>> /\ ~over /\ pending = {}
      /\ message' = Head(inbox) /\ inbox' = Tail(inbox)
      /\ pending' = {h \in handlers : h.type = Head(inbox).type}
  BY DEF Read, Free, Handing, done, results, callers
<1>2. Requested(g)' = Requested(g) /\ ~Delivering(g)
  BY <1>1 DEF Requested, Delivering
<1>3. /\ Len(inbox) \in Nat /\ Len(inbox) >= 1 /\ Len(inbox') = Len(inbox) - 1
      /\ Head(inbox) = inbox[1]
      /\ \A i \in 1 .. Len(inbox') : inbox'[i] = inbox[i + 1]
  BY <1>0, <1>1, HeadTailProperties, EmptySeq, LenProperties
<1>4. /\ \A i \in 1 .. Len(inbox') : Reply(g, inbox'[i]) =>
           i + 1 \in 1 .. Len(inbox) /\ Reply(g, inbox[i + 1])
      /\ Reply(g, message') => 1 \in 1 .. Len(inbox) /\ Reply(g, inbox[1])
  BY <1>1, <1>3
<1>5. Outstanding(g)' => Outstanding(g)
  <2> SUFFICES ASSUME Outstanding(g)' PROVE Outstanding(g)
    OBVIOUS
  <2>1. CASE Requested(g)'
    BY <1>2, <2>1 DEF Outstanding
  <2>2. CASE Delivering(g)'
    BY <1>4, <2>2 DEF Outstanding, Delivering
  <2>3. CASE \E i \in 1 .. Len(inbox') : Reply(g, inbox'[i])
    BY <1>4, <2>3 DEF Outstanding
  <2> QED
    BY <2>1, <2>2, <2>3 DEF Outstanding
<1>6. ASSUME Outstanding(g)' PROVE \E w \in Callers : Awaits(g, w)'
  BY <1>1, <1>5, <1>6, HandingStays DEF Sound, Alone
<1>7. ASSUME NEW w \in Callers, pc[w] \in Asking, kind[w] \in g
      PROVE  \E ms \in Answers(current(w), kind[w], peer[w]) :
               \E t \in 0 .. Len(ms) : Exchange(g, w, ms, t)'
  <2>1. PICK ms \in Answers(current(w), kind[w], peer[w]) :
          /\ ms \in Seq(Messages) /\ Len(ms) \in 1 .. 3
          /\ \A i \in 1 .. Len(ms) : Reply(g, ms[i])
          /\ \A i, j \in 1 .. Len(ms) : ms[i] = ms[j] => i = j
          /\ \E t \in 0 .. Len(ms) : Exchange(g, w, ms, t)
    BY <1>7, TheExchange
  <2>2. PICK t \in 0 .. Len(ms) : Exchange(g, w, ms, t)
    BY <2>1
  <2>3. t \in Nat /\ Continues(g, inbox, ms, t) /\ Handed(w, ms, t)
    BY <1>1, <1>2, <2>1, <2>2 DEF Exchange
  <2>4. Requested(g)' => \A i \in 1 .. Len(inbox') : ~Reply(g, inbox'[i])
    BY <1>2, <1>4, <2>2 DEF Exchange
  <2>5. CASE ~Reply(g, Head(inbox))
    <3>1. ~Delivering(g)'
      BY <1>1, <2>5 DEF Delivering
    <3>2. Continues(g, inbox', ms, t)
      BY <1>0, <1>1, <2>1, <2>3, <2>5, ContinuesWithoutOther
    <3>3. Handed(w, ms, t)'
      BY <1>1, <2>3, HandingStays
    <3>4. Exchange(g, w, ms, t)'
      BY <1>1, <1>2, <2>2, <2>4, <3>1, <3>2, <3>3, HandingStays DEF Exchange
    <3> QED
      BY <2>1, <3>4
  <2>6. CASE Reply(g, Head(inbox))
    <3>1. /\ t + 1 <= Len(ms) /\ Head(inbox) = ms[t + 1]
          /\ Continues(g, inbox', ms, t + 1)
      <4>1. /\ ms \in Seq(Messages)
            /\ \A i, j \in 1 .. Len(ms) : ms[i] = ms[j] => i = j
        BY <2>1
      <4>2. /\ t + 1 <= Len(ms) /\ Head(inbox) = ms[t + 1]
            /\ Continues(g, Tail(inbox), ms, t + 1)
        BY <1>0, <1>1, <2>3, <2>6, <4>1, ContinuesWithNext
      <4> QED
        BY <1>1, <4>2
    <3>2. Outstanding(g)
      BY <1>3, <2>6 DEF Outstanding
    <3>3. PICK v \in Callers : Awaits(g, v)
      BY <1>1, <3>2 DEF Sound, Alone
    <3>4. pc[w] \in {"sent", "wait"}
      <4>1. pc[v] \in {"sent", "wait"} /\ kind[v] \in g
        BY <3>3 DEF Awaits
      <4>2. v = w
        BY <1>7, <4>1, Lone DEF Sound, Asking
      <4> QED
        BY <4>1, <4>2
    <3>5. t + 1 \in 1 .. Len(ms) /\ t + 1 \in 0 .. Len(ms) /\ (t + 1) - 1 = t
      BY <2>1, <2>3, <3>1
    <3>6. PICK h \in handlers :
            {f \in handlers : f.type = ms[t + 1].type} = {h} /\ h.call = current(w)
      BY <1>7, <2>1, <3>4, <3>5, OneHandler
    <3>7. pending' = {h} /\ message' = ms[t + 1]
      BY <1>1, <3>1, <3>6
    <3>8. Delivering(g)'
      BY <1>1, <2>6, <3>7 DEF Delivering
    <3>9. ~Requested(g)'
      BY <1>2, <1>3, <2>2, <2>6 DEF Exchange
    <3>10. Handed(w, ms, t)'
      BY <1>1, <2>3, HandingStays
    <3>11. Exchange(g, w, ms, t + 1)'
      <4>1. pc'[w] \in {"sent", "wait"} /\ current(w)' = current(w)
        BY <1>1, <3>4, HandingStays
      <4>2. Handed(w, ms, IF Delivering(g) THEN (t + 1) - 1 ELSE t + 1)'
        BY <3>5, <3>8, <3>10
      <4>3. \A f \in pending' : pending' = {f} /\ f.call = current(w)'
        BY <3>6, <3>7, <4>1
      <4>4. t + 1 > 0
        BY <2>3
      <4> QED
        BY <3>1, <3>7, <3>8, <3>9, <4>1, <4>2, <4>3, <4>4 DEF Exchange
    <3> QED
      BY <2>1, <3>5, <3>11
  <2> QED
    BY <2>5, <2>6
<1>8. Alone(g)'
  BY <1>1, <1>6, <1>7, HandingStays DEF Alone, Asking
<1> QED
  BY <1>1, <1>8, HandingStays DEF Sound

\* A handler of Dispatch's copy is one of its call, for the message.
LEMMA CopiedHandler ==
  ASSUME Sound, NEW h \in pending
  PROVE  /\ h.kind \in Kinds /\ h.call \in Call /\ h.type = message.type
         /\ \E i \in DOMAIN HandlersOf(h.kind) :
              HandlersOf(h.kind)[i] = <<h.type, h.effect>>
<1>1. h.call \in Call /\ h.kind \in KindsOf(h.call[1]) /\ profile \in Profiles
  BY DEF Sound, Apart, Typed, TypeOK
<1>2. h.call[1] \in Callers
  BY <1>1 DEF Call
<1>3. h.kind \in Kinds
  BY <1>1, <1>2, ProfileFacts
<1> QED
  BY <1>1, <1>3 DEF Sound, Apart, Copied

\* Which handler of its call runs, and for what.
LEMMA CopiedFacts ==
  ASSUME Sound, NEW h \in pending, NEW w \in Callers, h.call = current(w)
  PROVE  /\ h.kind = kind[w] /\ h.peer = peer[w]
         /\ \E i \in DOMAIN HandlersOf(kind[w]) :
              HandlersOf(kind[w])[i] = <<h.type, h.effect>>
         /\ h.type = message.type
<1>1. h.call[1] = w
  BY DEF current
<1> QED
  BY <1>1 DEF Sound, Apart, Copied

\* A message that is no reply of the family: at most a value for the application.
LEMMA InvokeUnasked ==
  ASSUME Sound, NEW g \in {Lists, Gatt}, NEW h \in pending, Invoke(h), ~Reply(g, message)
  PROVE  Alone(g)'
<1>0. /\ h.call \in Call /\ h.type = message.type
      /\ box \in [Call -> Seq(Messages)] /\ got \in [Call -> Seq(Messages)]
  BY CopiedHandler DEF Sound, Apart, Typed
<1>1. /\ UNCHANGED <<message, inbox, asked, over, epoch, profile, callers>>
      /\ ~panicked /\ pending' = pending \ {h}
      /\ box' \in {box, [box EXCEPT ![h.call] = <<message>>]}
      /\ got' \in {got, [got EXCEPT ![h.call] = Append(@, message)],
                   [got EXCEPT ![h.call] = <<message>>]}
      /\ shut' \in {shut, shut \cup {h.call}}
  BY InvokeFacts DEF Sound
<1>2. UNCHANGED <<pc, count, kind, peer, mine, watch, outcome, answer>>
      /\ \A v : current(v)' = current(v)
  BY <1>1 DEF callers, current
<1>3. ~Delivering(g) /\ ~Delivering(g)' /\ Requested(g)' = Requested(g) /\ Outstanding(g)' = Outstanding(g)
  BY <1>1 DEF Delivering, Requested, Outstanding
<1>4. ASSUME ~over', Outstanding(g)' PROVE \E w \in Callers : Awaits(g, w)'
  BY <1>1, <1>2, <1>3, <1>4 DEF Sound, Alone, Awaits
<1>5. ASSUME NEW w \in Callers, pc[w] \in Asking, kind[w] \in g
      PROVE  \E ms \in Answers(current(w), kind[w], peer[w]) :
               \E t \in 0 .. Len(ms) : Exchange(g, w, ms, t)'
  <2>1. PICK ms \in Answers(current(w), kind[w], peer[w]) :
          \E t \in 0 .. Len(ms) : Exchange(g, w, ms, t)
    BY <1>5, TheExchange
  <2>2. PICK t \in 0 .. Len(ms) : Exchange(g, w, ms, t)
    BY <2>1
  <2>3. current(w) \in Call
    BY <1>5, TheExchange
  <2>4. /\ box'[current(w)] = box[current(w)]
        /\ current(w) \in shut' <=> current(w) \in shut
        /\ kind[w] = "list" => got'[current(w)] = got[current(w)]
    <3>1. CASE h.call # current(w)
      BY <1>0, <1>1, <2>3, <3>1
    <3>2. CASE h.call = current(w)
      <4>1. PICK i \in DOMAIN HandlersOf(kind[w]) :
              HandlersOf(kind[w])[i] = <<h.type, h.effect>>
        BY <3>2, CopiedFacts
      <4>2. HandlersOf(kind[w])[i][1] = message.type /\ HandlersOf(kind[w])[i][2] = h.effect
        BY <1>0, <4>1
      <4>3. kind[w] = "notify" /\ h.effect = "deliver"
        <5>1. kind[w] \in Kinds
          BY <3>2, CopiedFacts, CopiedHandler
        <5>2. message.type \notin RepliesTo(g)
          BY DEF Reply
        <5> QED
          BY <1>5, <4>2, <5>1, <5>2, HandledTypes
      <4>4. box' = box /\ shut' = shut
        BY <4>3 DEF Invoke, Offer, Put, Collect, Deliver, CloseCall, Ignore
      <4> QED
        BY <4>3, <4>4
    <3> QED
      BY <3>1, <3>2
  <2>5. Handed(w, ms, t)'
    BY <1>2, <1>3, <2>2, <2>4 DEF Exchange, Handed
  <2>6. Exchange(g, w, ms, t)'
    BY <1>1, <1>2, <1>3, <2>2, <2>5 DEF Exchange
  <2> QED
    BY <2>2, <2>6
<1> QED
  BY <1>1, <1>2, <1>4, <1>5 DEF Alone, Asking

\* A reply: the one handler for it hands it to the call.
LEMMA InvokeReply ==
  ASSUME Sound, Solo, NEW g \in {Lists, Gatt}, NEW h \in pending, Invoke(h), Reply(g, message)
  PROVE  ~panicked' /\ Alone(g)'
<1>0. /\ Typed /\ Loops /\ \A w \in Callers : Standing(w)
      /\ box \in [Call -> Seq(Messages)] /\ got \in [Call -> Seq(Messages)]
  BY DEF Sound, Apart, Typed
<1>1. /\ UNCHANGED <<message, inbox, asked, over, epoch, profile, callers>>
      /\ ~panicked /\ pending' = pending \ {h}
      /\ box' \in {box, [box EXCEPT ![h.call] = <<message>>]}
      /\ got' \in {got, [got EXCEPT ![h.call] = Append(@, message)],
                   [got EXCEPT ![h.call] = <<message>>]}
      /\ shut' \in {shut, shut \cup {h.call}}
  BY InvokeFacts DEF Sound
<1>2. UNCHANGED <<pc, count, kind, peer, mine, watch, outcome, answer>>
      /\ \A v : current(v)' = current(v)
  BY <1>1 DEF callers, current
<1>3. Delivering(g) /\ Outstanding(g) /\ ~over
  BY <1>0 DEF Delivering, Outstanding, Loops
<1>4. PICK w \in Callers : Awaits(g, w)
  BY <1>3 DEF Sound, Alone
<1>5. pc[w] \in {"sent", "wait"} /\ kind[w] \in g
  BY <1>4 DEF Awaits
<1>6. /\ current(w) \in Call /\ peer[w] \in Peers
      /\ \E ms \in Answers(current(w), kind[w], peer[w]) :
              /\ ms \in Seq(Messages) /\ Len(ms) \in 1 .. 3
              /\ \E t \in 0 .. Len(ms) : Exchange(g, w, ms, t)
  BY <1>5, TheExchange DEF Asking
<1>7. PICK ms \in Answers(current(w), kind[w], peer[w]) :
              /\ ms \in Seq(Messages) /\ Len(ms) \in 1 .. 3
              /\ \E t \in 0 .. Len(ms) : Exchange(g, w, ms, t)
  BY <1>6
<1>8. PICK t \in 0 .. Len(ms) : Exchange(g, w, ms, t)
  BY <1>7
<1>9. /\ t \in 1 .. Len(ms) /\ t - 1 < Len(ms) /\ message = ms[t]
      /\ pending = {h} /\ h.call = current(w) /\ Handed(w, ms, t - 1)
  BY <1>3, <1>7, <1>8 DEF Exchange
<1>10. current(w) \notin shut /\ box[current(w)] = <<>>
  BY <1>7, <1>9 DEF Handed
<1>11. pending' = {} /\ ~Delivering(g)'
  BY <1>1, <1>9 DEF Delivering
<1>12. ~panicked'
  BY <1>9, <1>10 DEF Invoke, Offer, Put, Collect, Deliver, CloseCall, Ignore
<1>13. Takes(h, message)
  <2>1. h.kind = kind[w] /\ h.peer = peer[w]
    BY <1>9, CopiedFacts
  <2>2. message.peer = peer[w]
    BY <1>5, <1>6, <1>9, AnswersFacts, Families
  <2> QED
    BY <2>1, <2>2 DEF Takes
<1>14. PICK i \in DOMAIN HandlersOf(kind[w]) :
         /\ HandlersOf(kind[w])[i][1] = ms[t].type
         /\ HandlersOf(kind[w])[i][2] = h.effect
  BY <1>9, CopiedFacts
<1>15. /\ t < Len(ms) => h.effect = "collect"
       /\ kind[w] = "list" => h.effect = IF t < 3 THEN "collect" ELSE "close"
  BY <1>5, <1>6, <1>9, <1>14, RepliesAreHandled
<1>16. /\ h.effect = "collect" =>
            box' = box /\ shut' = shut /\ got' = [got EXCEPT ![h.call] = Append(@, message)]
       /\ h.effect = "close" => box' = box /\ got' = got
  BY <1>13 DEF Invoke, Offer, Put, Collect, Deliver, CloseCall
<1>17. Handed(w, ms, t)'
  <2>1. current(w) \in shut' \/ box'[current(w)] # <<>> => t = Len(ms)
    BY <1>7, <1>9, <1>10, <1>15, <1>16
  <2>2. ASSUME kind[w] = "list"
        PROVE  /\ box'[current(w)] = <<>>
               /\ Len(got'[current(w)]) = IF t < 2 THEN t ELSE 2
               /\ \A j \in 1 .. Len(got'[current(w)]) : got'[current(w)][j] = ms[j]
    <3> DEFINE l == got[current(w)]
               n == t - 1
    <3>1. /\ Len(l) = IF n < 2 THEN n ELSE 2
          /\ \A j \in 1 .. Len(l) : l[j] = ms[j]
      BY <1>9, <2>2 DEF Handed
    <3>2. CASE t < 3
      <4>1. got'[current(w)] = Append(l, message) /\ box' = box
        BY <1>0, <1>6, <1>9, <1>15, <1>16, <2>2, <3>2
      <4>2. l \in Seq(Messages) /\ message \in Messages
        BY <1>0, <1>6, <1>7, <1>9
      <4>3. Len(l) = t - 1 /\ t \in Nat /\ t >= 1
        BY <1>9, <3>1, <3>2
      <4> HIDE DEF l
      <4>4. /\ Len(Append(l, message)) = Len(l) + 1
            /\ Append(l, message)[Len(l) + 1] = message
            /\ \A j \in 1 .. Len(l) : Append(l, message)[j] = l[j]
        BY <4>2, AppendProperties
      <4>5. Len(Append(l, message)) = t /\ \A j \in 1 .. t : Append(l, message)[j] = ms[j]
        BY <1>9, <3>1, <4>3, <4>4
      <4> QED
        BY <1>10, <3>2, <4>1, <4>3, <4>5
    <3>3. CASE ~(t < 3)
      <4>1. got' = got /\ box' = box
        BY <1>15, <1>16, <2>2, <3>3
      <4>2. t \in Nat
        BY <1>9
      <4> QED
        BY <1>10, <3>1, <3>3, <4>1, <4>2
    <3> QED
      BY <3>2, <3>3
  <2> QED
    BY <1>2, <2>1, <2>2 DEF Handed
<1>18. Requested(g)' = Requested(g)
  BY <1>1 DEF Requested
<1>19. Exchange(g, w, ms, t)'
  BY <1>1, <1>2, <1>8, <1>11, <1>17, <1>18 DEF Exchange
<1>20. Awaits(g, w)'
  BY <1>1, <1>2, <1>4 DEF Awaits
<1>21. ASSUME NEW v \in Callers, pc[v] \in Asking, kind[v] \in g PROVE v = w
  BY <1>5, <1>21, Lone DEF Sound, Asking
<1>22. Alone(g)'
  BY <1>2, <1>7, <1>8, <1>19, <1>20, <1>21 DEF Alone, Asking
<1> QED
  BY <1>12, <1>22

\* A message that answers no request closes no call.
LEMMA InvokeNoPanic ==
  ASSUME Sound, NEW h \in pending, Invoke(h), \A g \in {Lists, Gatt} : ~Reply(g, message)
  PROVE  ~panicked'
<1>0. /\ h.kind \in Kinds /\ h.type = message.type /\ ~panicked
      /\ \E i \in DOMAIN HandlersOf(h.kind) :
           HandlersOf(h.kind)[i] = <<h.type, h.effect>>
  BY CopiedHandler DEF Invoke
<1>1. PICK i \in DOMAIN HandlersOf(h.kind) : HandlersOf(h.kind)[i] = <<h.type, h.effect>>
  BY <1>0
<1>2. HandlersOf(h.kind)[i][1] = message.type /\ HandlersOf(h.kind)[i][2] = h.effect
  BY <1>0, <1>1
<1>3. h.effect \notin {"close", "fail"}
  BY <1>0, <1>2, ClosersAreForReplies DEF Reply
<1> QED
  BY <1>0, <1>3 DEF Invoke, Offer, Put, Collect, Deliver, CloseCall, Ignore

\* The application is what it is, and only a handler brings it down.
LEMMA OnlyHandlersPanic ==
  ASSUME [Next]_vars
  PROVE  /\ profile' = profile
         /\ ~(\E h \in pending : Invoke(h)) => panicked' = panicked
<1>1. CASE (\E w \in Apps : Begin(w)) \/ (\E w \in Callers : Stop(w))
  BY <1>1 DEF Begin, Stop
<1>2. CASE \E w \in Callers : CallStep(w)
  BY <1>2 DEF CallStep, Register, SendFails, Send, Subscribe, Await, TakeResponse,
              TakeDone, TimeOut, SeeClosed, Remove, Part
<1>3. CASE Read \/ Exit \/ CloseDone
  BY <1>3 DEF Read, Exit, CloseDone
<1>4. CASE \E h \in pending : Invoke(h)
  BY <1>4 DEF Invoke
<1>5. CASE Redial \/ Reconnect \/ Answer \/ Emit \/ LoseLink \/ UNCHANGED vars
  BY <1>5 DEF Redial, Reconnect, Answer, Emit, LoseLink, vars
<1> QED
  BY <1>1, <1>2, <1>3, <1>4, <1>5 DEF Next, ReaderStep

\* A handler of Dispatch's copy runs.
LEMMA InvokeSound ==
  ASSUME Sound, Solo, NEW h \in pending, Invoke(h)
  PROVE  ~panicked' /\ ListComplete' /\ \A g \in {Lists, Gatt} : Alone(g)'
<1>1. ASSUME NEW g \in {Lists, Gatt} PROVE Alone(g)'
  BY <1>1, InvokeUnasked, InvokeReply
<1>2. ~panicked'
  BY InvokeReply, InvokeNoPanic
<1>3. UNCHANGED <<profile, kind, peer, count, outcome, answer>>
  BY InvokeFacts DEF Sound, callers
<1>4. ListComplete'
  BY <1>3, ListedStays DEF Sound
<1> QED
  BY <1>1, <1>2, <1>4

\* The other steps, one family at a time.
LEMMA OthersSound ==
  ASSUME Sound, Solo, NEW g \in {Lists, Gatt}, [Next]_vars,
         ~(\E h \in pending : Invoke(h))
  PROVE  ListComplete' /\ Alone(g)'
<1>1. ASSUME NEW w \in Apps, Begin(w) PROVE ListComplete' /\ Alone(g)'
  <2>1. w \in Callers
    BY DEF Callers
  <2> QED
    BY <1>1, <2>1, BeginAlone
<1>2. ASSUME NEW w \in Callers, CallStep(w) \/ Stop(w)
      PROVE  ListComplete' /\ Alone(g)'
  <2>1. CASE Register(w) \/ Await(w)
    BY <2>1, RegisterAwaitAlone
  <2>2. CASE Send(w)
    BY <2>2, SendAlone
  <2>3. CASE SendFails(w) \/ TakeResponse(w) \/ TakeDone(w) \/ TimeOut(w) \/ SeeClosed(w)
    BY <2>3, ReturnsAlone
  <2>4. CASE Subscribe(w) \/ Remove(w) \/ Stop(w) \/ Part(w)
    BY <2>4, HoldsAlone
  <2> QED
    BY <1>2, <2>1, <2>2, <2>3, <2>4 DEF CallStep
<1>3. CASE Read
  BY <1>3, ReadAlone
<1>4. CASE Exit \/ CloseDone \/ Redial \/ UNCHANGED vars
  <2>1. UNCHANGED <<profile, asked, pending, message, inbox, box, got, shut, callers>>
    BY <1>4 DEF Exit, CloseDone, Redial, vars, router, device, results
  <2>2. UNCHANGED <<pc, kind, peer, count, watch, outcome, answer>>
    BY <2>1 DEF callers
  <2>3. over' \/ (~over /\ epoch' = epoch)
    <3>1. CASE Exit \/ Redial
      <4>1. over' = TRUE \/ (over' = over /\ over)
        BY <3>1 DEF Exit, Redial
      <4> QED
        BY <4>1
    <3>2. CASE CloseDone \/ UNCHANGED vars
      <4>1. over' = over /\ epoch' = epoch /\ over \in BOOLEAN
        BY <3>2 DEF CloseDone, vars, done, Sound, Apart, Typed, TypeOK
      <4> QED
        BY <4>1
    <3> QED
      BY <1>4, <3>1, <3>2
  <2> QED
    BY <2>1, <2>2, <2>3, LoopsAlone, ListedStays DEF Sound
<1>5. CASE LoseLink
  BY <1>5, LoseLinkAlone
<1>6. CASE Reconnect
  BY <1>6, ReconnectAlone
<1>7. CASE Emit
  BY <1>7, EmitAlone
<1>8. CASE Answer
  BY <1>8, AnswerAlone
<1> QED
  BY <1>1, <1>2, <1>3, <1>4, <1>5, <1>6, <1>7, <1>8 DEF Next, ReaderStep

LEMMA StepSound == Sound /\ Solo /\ [Next]_vars => Sound'
<1> SUFFICES ASSUME Sound, Solo, [Next]_vars PROVE Sound'
  OBVIOUS
<1>1. Apart'
  BY StepApart DEF Sound
<1>2. ASSUME NEW h \in pending, Invoke(h) PROVE Sound'
  BY <1>1, <1>2, InvokeSound DEF Sound
<1>3. CASE ~(\E h \in pending : Invoke(h))
  <2>1. ~panicked'
    BY <1>3, OnlyHandlersPanic DEF Sound
  <2>2. \A g \in {Lists, Gatt} : ListComplete' /\ Alone(g)'
    BY <1>3, OthersSound
  <2> QED
    BY <1>1, <2>1, <2>2 DEF Sound
<1> QED
  BY <1>2, <1>3

-----------------------------------------------------------------------------
(* The theorems.                                                           *)

\* The inductive invariant of the calls, the Router and the read loop.
THEOREM CallsInvariant == Spec => []IInv
<1>1. Init => IInv
  <2> SUFFICES ASSUME Init PROVE IInv
    OBVIOUS
  <2>1. Apart
    BY InitApart
  <2>2. /\ panicked = FALSE /\ asked = {} /\ pending = {} /\ inbox = <<>>
        /\ pc = [w \in Callers |-> "idle"]
        /\ outcome = [w \in Callers |-> "none"]
    BY DEF Init
  <2>3. Len(<<>>) = 0
    BY EmptySeq
  <2>4. SoloNoPanic /\ ListComplete
    BY <2>2 DEF SoloNoPanic, NoPanic, ListComplete
  <2>5. \A g : Alone(g)
    BY <2>2, <2>3 DEF Alone, Outstanding, Requested, Delivering
  <2> QED
    BY <2>1, <2>4, <2>5 DEF IInv
<1>2. IInv /\ [Next]_vars => IInv'
  <2> SUFFICES ASSUME IInv, [Next]_vars PROVE IInv'
    OBVIOUS
  <2>1. Apart'
    BY StepApart DEF IInv
  <2>2. Solo' = Solo
    BY OnlyHandlersPanic, SoloStays
  <2>3. CASE Solo
    <3>1. Sound
      BY <2>3 DEF IInv, Sound, SoloNoPanic, NoPanic
    <3>2. Sound'
      BY <2>3, <3>1, StepSound
    <3> QED
      BY <2>1, <3>2 DEF IInv, Sound, SoloNoPanic, NoPanic
  <2>4. CASE ~Solo
    BY <2>1, <2>2, <2>4 DEF IInv, SoloNoPanic, ListComplete
  <2> QED
    BY <2>3, <2>4
<1> QED
  BY <1>1, <1>2, PTL DEF Spec

\* The variables keep their types; no box holds two messages, and no channel is
\* closed that a read loop was not to close.
THEOREM CallsTypeCorrect == Spec => []TypeOK
<1>1. IInv => TypeOK
  BY DEF IInv, Apart, Typed
<1> QED
  BY <1>1, CallsInvariant, PTL

\* However a call returns, whatever else is registered, delivered or lost
\* meanwhile, none of its handlers is left in the Router (requestResponse,
\* ListEntities and the GATT calls defer their removals).
THEOREM Released == Spec => []HandlersReleased
<1>1. IInv => HandlersReleased
  <2> SUFFICES ASSUME IInv, NEW w \in Callers, pc[w] = "idle",
                      NEW h \in handlers, h.call[1] = w
               PROVE  FALSE
    BY DEF HandlersReleased
  <2>1. Registered /\ Standing(w)
    BY DEF IInv, Apart
  <2>2. PICK v \in Callers : \E i \in mine[v] : h = Handler(v, i)
    BY <2>1 DEF Registered
  <2>3. v = w
    BY <2>2 DEF Handler, current
  <2> QED
    BY <2>1, <2>2, <2>3 DEF Standing
<1> QED
  BY <1>1, CallsInvariant, PTL

\* The GATT calls take no message about another peer, though Dispatch may run
\* their handlers after they have been removed, and for several calls at once.
THEOREM AnswersAreOwn == Spec => []OwnPeer
<1>1. IInv => OwnPeer
  BY DEF IInv, Apart
<1> QED
  BY <1>1, CallsInvariant, PTL

\* The device sends advertisements only while there is somebody who subscribed
\* to them and has not yet told it otherwise.
THEOREM Quiet == Spec => []QuietWhenUnheard
<1>1. IInv => QuietWhenUnheard
  BY DEF IInv, Apart
<1> QED
  BY <1>1, CallsInvariant, PTL

\* While one goroutine lists, an application's or a reconnectLoop, and one makes
\* GATT calls, each waiting for its answers, no handler closes a call's channel
\* twice, whatever else is called, sent or lost.
THEOREM SoloIsSafe == Spec => []SoloNoPanic
<1>1. IInv => SoloNoPanic
  BY DEF IInv
<1> QED
  BY <1>1, CallsInvariant, PTL

\* ListEntities, when no other goroutine lists, returns all that the device answers
\* it, in order, and nothing else, be it called by the application or by the
\* reconnectLoop of a new connection, and whatever other calls there are.
THEOREM ListIsComplete == Spec => []ListComplete
<1>1. IInv => ListComplete
  BY DEF IInv
<1> QED
  BY <1>1, CallsInvariant, PTL

=============================================================================

------------------------------ MODULE Handshake ------------------------------
(***************************************************************************)
(* One connect() after another: resolving, dialling, the Noise handshake   *)
(* of an encrypted connection and the Hello exchange, with a device that   *)
(* may speak the other protocol, have another key, name or version, fall   *)
(* silent or hang up.  What the device answers comes all at once; the      *)
(* cryptography is reduced to whether the two keys are the same.           *)
(***************************************************************************)
EXTENDS Integers, Sequences

CONSTANTS
  DeviceNames,   \* names that devices report
  Minors,        \* minor versions of their API
  MaxAttempts    \* bound on the number of connections that are tried

OwnMajor == 1
OwnMinor == 10

VARIABLES
  options,   \* of the client: encrypted, keyed, expected, local, timed
  minor,     \* c.apiVersionMinor
  attempt,   \* number of connect() calls
  stage,     \* how far the latest one is
  device,    \* the device it reaches
  socket,    \* "none", "open", "cut" by the device or the network, "closed"
  deadline,  \* a deadline is set on the socket
  asked,     \* the device has something to answer
  inbox,     \* what it has answered
  silent     \* it does not answer any more

conn == <<socket, deadline, asked, inbox>>
vars == <<options, minor, attempt, stage, device, conn, silent>>

Names == DeviceNames \cup {"unset"}

\* A timeout of zero is "not timed", a key that does not decode to 32 bytes
\* "not keyed".
Options == [encrypted : BOOLEAN, keyed : BOOLEAN, expected : Names,
            local : BOOLEAN, timed : BOOLEAN]

\* Old devices do not say their name.
Devices == [noise : BOOLEAN, sameKey : BOOLEAN, name : Names,
            major : {OwnMajor, OwnMajor + 1}, minor : Minors]

Init ==
  /\ options \in Options
  /\ minor = OwnMinor
  /\ attempt = 0 /\ stage = "off"
  /\ device = CHOOSE d \in Devices : TRUE
  /\ socket = "none" /\ deadline = FALSE /\ asked = FALSE /\ inbox = <<>>
  /\ silent = FALSE

-----------------------------------------------------------------------------
(* Connecting.                                                             *)

\* The key is looked at before anything else.
Begin ==
  /\ stage \in {"off", "failed"}
  /\ attempt < MaxAttempts
  /\ attempt' = attempt + 1
  /\ device' \in Devices
  /\ stage' = IF options.encrypted /\ ~options.keyed THEN "failed"
              ELSE IF options.local THEN "resolve" ELSE "dial"
  /\ socket' = "none" /\ deadline' = FALSE /\ asked' = FALSE /\ inbox' = <<>>
  /\ silent' = FALSE
  /\ UNCHANGED <<options, minor>>

Resolve ==
  /\ stage = "resolve" /\ ~silent
  /\ stage' = "dial"
  /\ UNCHANGED <<options, minor, attempt, device, conn, silent>>

\* Mutant: only the dialling is bounded by the timeout.
ConnectNoDeadline ==
  /\ stage = "dial" /\ ~silent
  /\ socket' = "open"
  /\ stage' = IF options.encrypted THEN "noise" ELSE "hello"
  /\ UNCHANGED <<options, minor, attempt, device, deadline, asked, inbox, silent>>

Connect ==
  /\ stage = "dial" /\ ~silent
  /\ socket' = "open"
  /\ stage' = IF options.encrypted THEN "noise" ELSE "hello"
  /\ deadline' = (options.encrypted /\ options.timed)
  /\ UNCHANGED <<options, minor, attempt, device, asked, inbox, silent>>

\* The mDNS query has a deadline in any case, net.DialTimeout if it is timed.
GiveUp ==
  /\ \/ stage = "resolve"
     \/ stage = "dial" /\ (options.timed \/ ~silent)
  /\ stage' = "failed"
  /\ UNCHANGED <<options, minor, attempt, device, conn, silent>>

\* Mutant: only connect() closes what it gives up.
FailUnclosed ==
  /\ stage' = "failed"
  /\ deadline' = FALSE
  /\ socket' = IF stage \in {"hello", "hello response"} THEN "closed" ELSE socket
  /\ UNCHANGED <<options, minor, attempt, device, asked, inbox, silent>>

\* DialNoise and connect() close the connection whose handshake failed.
Fail ==
  /\ stage' = "failed"
  /\ deadline' = FALSE
  /\ socket' = "closed"
  /\ UNCHANGED <<options, minor, attempt, device, asked, inbox, silent>>

-----------------------------------------------------------------------------
(* performHandshake.                                                       *)

\* The client's hello and its handshake message are written in one go.
SendNoise ==
  /\ stage = "noise" /\ socket = "open"
  /\ stage' = "server hello"
  /\ asked' = TRUE
  /\ UNCHANGED <<options, minor, attempt, device, socket, deadline, inbox, silent>>

Answer == Head(inbox)
Next1(to) ==
  /\ stage' = to
  /\ inbox' = Tail(inbox)
  /\ UNCHANGED <<options, attempt, device, socket, asked, silent>>

\* Mutant: the name is not compared.
NameAcceptedAny == TRUE

\* A hello without a name is accepted, whatever name is expected.
NameAccepted ==
  \/ Answer.name = "unset"
  \/ options.expected \in {"unset", Answer.name}

ReadServerHello ==
  /\ stage = "server hello" /\ inbox # <<>>
  /\ IF Answer.noise /\ NameAccepted
       THEN Next1("response") /\ UNCHANGED <<minor, deadline>>
       ELSE Fail

\* Mutant: the deadline stays.
ReadResponseTimed ==
  /\ stage = "response" /\ inbox # <<>>
  /\ IF Answer.sameKey
       THEN Next1("hello") /\ UNCHANGED <<minor, deadline>>
       ELSE Fail

\* performHandshake takes its deadline back when it returns.
ReadResponse ==
  /\ stage = "response" /\ inbox # <<>>
  /\ IF Answer.sameKey
       THEN Next1("hello") /\ deadline' = FALSE /\ UNCHANGED minor
       ELSE Fail

-----------------------------------------------------------------------------
(* handshake().                                                            *)

SendHello ==
  /\ stage = "hello" /\ socket = "open"
  /\ stage' = "hello response"
  /\ asked' = TRUE
  /\ UNCHANGED <<options, minor, attempt, device, socket, deadline, inbox, silent>>

\* The minor version of the device is what the next HelloRequest will say.
ReadHelloResponse ==
  /\ stage = "hello response" /\ inbox # <<>>
  /\ IF Answer.noise = options.encrypted /\ Answer.major = OwnMajor
       THEN Next1("up") /\ minor' = Answer.minor /\ UNCHANGED deadline
       ELSE Fail

-----------------------------------------------------------------------------
(* A write or a read fails: the deadline has passed, or the connection is  *)
(* gone.  What has arrived before the end is read first.                   *)

Waiting == {"noise", "server hello", "response", "hello", "hello response"}

Expire == stage \in Waiting /\ deadline /\ inbox = <<>> /\ Fail

Cut == stage \in Waiting /\ socket = "cut" /\ inbox = <<>> /\ Fail

\* An idle connection times out only if a deadline was left behind.
End ==
  /\ stage = "up"
  /\ socket = "cut" \/ deadline
  /\ stage' = "off"
  /\ socket' = "closed"
  /\ UNCHANGED <<options, minor, attempt, device, deadline, asked, inbox, silent>>

Client ==
  \/ Resolve \/ Connect \/ GiveUp
  \/ SendNoise \/ ReadServerHello \/ ReadResponse
  \/ SendHello \/ ReadHelloResponse
  \/ Expire \/ Cut \/ End

-----------------------------------------------------------------------------
(* The device and the network.                                             *)

\* Asked for Noise, the device sends its hello and what it makes of the key;
\* asked for the version, it says it.  A device that hears the other protocol
\* answers in its own, or hangs up.
Reply ==
  /\ asked /\ ~silent /\ socket = "open"
  /\ asked' = FALSE
  /\ inbox' = IF stage = "server hello" /\ device.noise
              THEN <<device, device>> ELSE <<device>>
  /\ UNCHANGED <<options, minor, attempt, stage, device, socket, deadline, silent>>

Hang ==
  /\ socket = "open"
  /\ socket' = "cut"
  /\ UNCHANGED <<options, minor, attempt, stage, device, deadline, asked, inbox, silent>>

FallSilent ==
  /\ ~silent
  /\ stage \notin {"off", "failed"}
  /\ silent' = TRUE
  /\ UNCHANGED <<options, minor, attempt, stage, device, conn>>

Next == Begin \/ Client \/ Reply \/ Hang \/ FallSilent

Spec == Init /\ [][Next]_vars

\* Only the client's own goroutine and its timers: a device may take its time.
Fairness == WF_vars(Client)

-----------------------------------------------------------------------------

TypeOK ==
  /\ options \in Options /\ device \in Devices
  /\ minor \in Minors \cup {OwnMinor}
  /\ attempt \in 0 .. MaxAttempts
  /\ stage \in Waiting \cup {"off", "resolve", "dial", "up", "failed"}
  /\ socket \in {"none", "open", "cut", "closed"}
  /\ deadline \in BOOLEAN /\ asked \in BOOLEAN /\ silent \in BOOLEAN
  /\ Len(inbox) \in 0 .. 2

\* A connection that connect() has accepted (client.go:199-224) is to a device
\* of the same protocol, key and major version, whose name, if it said one, is
\* the expected one, and whose version the client has stored.
UpIsAgreed ==
  stage = "up" =>
    /\ device.noise = options.encrypted
    /\ device.major = OwnMajor /\ minor = device.minor
    /\ options.encrypted =>
         /\ options.keyed /\ device.sameKey
         /\ device.name = "unset" \/ options.expected \in {"unset", device.name}

\* Whichever way connect() ends, nothing of it is left behind (noise.go:68-97,
\* client.go:218-221): no deadline, which would end the Hello exchange or an
\* idle connection later on, and no open socket that nothing refers to.
NothingLeftBehind ==
  /\ stage \in {"hello", "hello response", "up"} => ~deadline
  /\ stage = "failed" => ~deadline /\ socket \in {"none", "closed"}

\* With a timeout, resolving, dialling and the Noise handshake end, though the
\* device falls silent at any moment.
TimeoutBoundsDial ==
  options.timed /\ stage \in {"resolve", "dial", "noise", "server hello", "response"}
    ~> stage \in {"hello", "failed"}

\* False of the code, and checked by no run: the Hello exchange has no deadline.
HelloEnds == stage = "hello response" ~> stage # "hello response"

\* False of the code, and checked by no run: from the second connection on, the
\* client says the version of the device it had before.
OwnVersionSent == stage = "hello response" => minor = OwnMinor

-----------------------------------------------------------------------------
(* The inductive invariant.                                                *)

\* What the device says is about itself.
Heard == inbox \in {<<>>, <<device>>, <<device, device>>}

\* What is known of the device grows with the stage: the key of the client
\* before it dials, protocol and name from the server hello, the device's key
\* from the handshake response, its version from the HelloResponse.
Known ==
  /\ stage \in {"noise", "server hello", "response"} => options.encrypted
  /\ options.encrypted =>
       /\ stage \notin {"off", "failed"} => options.keyed
       /\ stage \in {"response", "hello", "hello response", "up"} =>
            /\ device.noise
            /\ device.name = "unset" \/ options.expected \in {"unset", device.name}
       /\ stage \in {"hello", "hello response", "up"} => device.sameKey
  /\ UpIsAgreed

\* There is no socket before the dial has succeeded, and a deadline only while
\* performHandshake runs.
Held ==
  /\ stage \in {"resolve", "dial"} => socket = "none"
  /\ deadline => stage \in {"noise", "server hello", "response"}
  /\ NothingLeftBehind

IInv == Heard /\ Known /\ Held

==============================================================================

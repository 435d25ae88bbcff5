----------------------------- MODULE MCTransport -----------------------------
(* The two halves of the transport for TLC, one at a time: Framing, on a     *)
(* connection that stands, and Handshake, on the way to one.                 *)
EXTENDS Framing

CONSTANTS DeviceNames, Minors, MaxAttempts

VARIABLES half, options, minor, attempt, stage, device, socket, deadline,
          asked, inbox, silent

H == INSTANCE Handshake

connecting == <<options, minor, attempt, stage, device, socket, deadline, asked,
                inbox, silent>>

\* A client that has not tried to connect.
Unused ==
  /\ H!Init
  /\ options = [encrypted |-> FALSE, keyed |-> TRUE, expected |-> "unset",
                local |-> FALSE, timed |-> TRUE]

HalfInit ==
  \/ half = "framing" /\ Init /\ Unused
  \/ half = "handshake" /\ Init /\ mode = "plain" /\ H!Init

HalfNext ==
  /\ UNCHANGED half
  /\ \/ half = "framing" /\ Next /\ UNCHANGED connecting
     \/ half = "handshake" /\ H!Next /\ UNCHANGED vars

HalfSpec ==
  HalfInit /\ [][HalfNext]_<<half, vars, connecting>> /\ Fairness /\ H!Fairness

\* The type invariants of both halves.
BothTypeOK == TypeOK /\ H!TypeOK

\* connect() accepts only devices that agree with the client's options.
UpIsAgreed == H!UpIsAgreed

\* No connection lives on with the deadline of its handshake, and a failed
\* connect() closes its own.
NothingLeftBehind == H!NothingLeftBehind

\* A silent device holds no dial and no Noise handshake for ever.
TimeoutBoundsDial == H!TimeoutBoundsDial

==============================================================================

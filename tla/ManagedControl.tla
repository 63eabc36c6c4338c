--------------------------- MODULE ManagedControl ---------------------------
(***************************************************************************)
(* Managed control of a stream: a ControlSession of crates/eevideo-control *)
(* over a CoapRegisterConnection, whose register accesses RegisterClient   *)
(* sends as CoAP messages over UDP, and the registers of the device.       *)
(*                                                                         *)
(* A requested configuration is a destination (port, address) and a packet *)
(* size; all name the same stream and leave its format to the device, as   *)
(* eevideosrc does.  The packet delay, written first, and the values of    *)
(* the format, read last, are left out.  Reading the device's description  *)
(* on connect is external: it succeeds or fails.                           *)
(***************************************************************************)
EXTENDS Naturals, Sequences, FiniteSets

CONSTANTS
  Configs,     \* requested configurations: [port, ip, size]
  MaxAttempts, \* MAX_RESPONSE_ATTEMPTS (3 in the code)
  Channels,    \* what the network may be and how long it is used, see channel
  CanConnectFail, \* whether reading the description may fail
  None

ASSUME MaxAttemptsAssumption == MaxAttempts \in Nat \ {0}
ASSUME ChannelAssumption ==
  /\ CanConnectFail \in BOOLEAN
  /\ Channels \subseteq
       [fixedPort: BOOLEAN, lifetime: Nat, losses: Nat, calls: Nat]

(* A register is a number, apart from the enable bit that MaxPacketSize    *)
(* has next to the packet size.                                            *)
Values == [enable: BOOLEAN, n: Nat]
Flagged(enable, n) == [enable |-> enable, n |-> n]
Word(n) == Flagged(FALSE, n)

Registers == {"port", "ip", "max", "format"}

Operations == {"configure", "configure and start", "start", "stop"}
CallRecords == [op: Operations, config: Configs]
Connections == [configured: Configs \cup {None}, running: BOOLEAN]

ASSUME ConfigsAssumption == Configs \subseteq [port: Nat, ip: Nat, size: Nat]
ASSUME ControlNoneAssumption ==
  None \notin Configs \cup CallRecords \cup Connections \cup Values

VARIABLES
  channel,   \* fixed: fixedPort, whether all exchanges use one local port
             \* (local_port # 0), and bounds: lifetime, the exchanges a
             \* message may outlive its own by (0 is a prompt network),
             \* losses, the messages lost, and calls, those of the session
  registers, \* device: DeviceState.registers
  requests,  \* network: requests on their way to the device
  responses, \* network: responses on their way to the client
  session,   \* ControlSession: requested, applied, running, described
  conn,      \* its connection: configured and running, or None
  call,      \* the session's call in progress, or None
  script,    \* the register accesses the call has still to do
  exchange,  \* RegisterClient::execute: message id and attempts, 0 if none
  lastId,    \* NEXT_MESSAGE_ID
  result,    \* what the last call returned
  calls, losses, \* bounds
  seen,      \* history: values each register has had during the call
  writes,    \* history: what the call has been told was written
  tainted,   \* history: a call has failed since the last full configure
  abandoned  \* history: the session was disconnected while running

device == registers
network == <<channel, requests, responses>>
client == <<session, conn, call, script, exchange, lastId, result>>
history == <<seen, writes, tainted, abandoned>>
vars == <<registers, network, client, calls, losses, history>>

NewConnection == [configured |-> None, running |-> FALSE]

NewSession(c) ==
  [requested |-> c, applied |-> None, running |-> FALSE, described |-> FALSE]

Init ==
  /\ channel \in Channels
  /\ registers = [r \in Registers |-> Word(0)]
  /\ requests = {} /\ responses = {}
  /\ \E c \in Configs : session = NewSession(c)
  /\ conn = None
  /\ call = None /\ script = <<>> /\ exchange = [id |-> 0, attempts |-> 0]
  /\ lastId = 0 /\ result = "none"
  /\ calls = 0 /\ losses = 0
  /\ seen = [r \in Registers |-> {}] /\ writes = {}
  /\ tainted = FALSE /\ abandoned = FALSE

---------------------------------------------------------------------------
(* Register accesses                                                       *)

Put(r, v) == [kind |-> "put", register |-> r, value |-> v]
Get(r, v) == [kind |-> "get", register |-> r, value |-> v]

Read(r) == [kind |-> "read", register |-> r, value |-> None]

(* write_register_u32, write_register_fields: write, read back, compare.   *)
WriteBack(r, v) == <<Put(r, v), Get(r, v)>>

(* write_stream_configuration, then read_stream_format.                    *)
ConfigureScript(c) ==
  WriteBack("port", Word(c.port)) \o WriteBack("ip", Word(c.ip))
    \o WriteBack("max", Word(c.size)) \o <<Read("format")>>

StartScript(c) == WriteBack("max", Flagged(TRUE, c.size))

(* Mutant: the enable bit is cleared by writing the whole register.        *)
ClearScript == WriteBack("max", Word(0))

(* Only `enable' is written: the register is read first.                   *)
Fetch == [kind |-> "fetch", register |-> "max", value |-> None]
StopScript == <<Fetch>>

---------------------------------------------------------------------------
(* The calls of ControlSession                                             *)

CallStarts ==
  /\ call = None
  /\ calls' = calls + 1
  /\ seen' = [r \in Registers |-> {registers[r]}]
  /\ writes' = {}
  /\ UNCHANGED <<registers, network, exchange, lastId, losses>>

ReturnAtOnce(r) == result' = r /\ UNCHANGED <<call, script>>

Perform(op, c, accesses) ==
  /\ call' = [op |-> op, config |-> c]
  /\ script' = accesses
  /\ result' = "pending"

(* ensure_connection                                                       *)
Connected == conn' = IF conn = None THEN NewConnection ELSE conn

ConnectFails ==
  /\ conn = None /\ CanConnectFail
  /\ ReturnAtOnce("error")
  /\ UNCHANGED <<session, conn, tainted, abandoned>>

(* The capabilities are asked for once.                                    *)
Describe ==
  /\ CallStarts
  /\ \/ session.described /\ UNCHANGED <<session, conn, tainted>>
        /\ ReturnAtOnce("ok") /\ UNCHANGED abandoned
     \/ /\ ~session.described
        /\ \/ ConnectFails
           \/ /\ Connected
              /\ session' = [session EXCEPT !.described = TRUE]
              /\ ReturnAtOnce("ok")
              /\ UNCHANGED <<tainted, abandoned>>

(* Nothing is written: the device has no such stream, the packet delay     *)
(* exceeds its field, or the destination has no IPv4 address.              *)
RequestRefused ==
  /\ CanConnectFail
  /\ Connected
  /\ ReturnAtOnce("error")
  /\ UNCHANGED <<session, tainted, abandoned>>

Matches(c) == session.applied # None /\ session.requested = c

Configure(c) ==
  /\ CallStarts
  /\ \/ /\ Matches(c)
        /\ ReturnAtOnce("ok")
        /\ UNCHANGED <<session, conn, tainted, abandoned>>
     \/ /\ ~Matches(c)
        /\ \/ ConnectFails
           \/ RequestRefused
           \/ /\ Connected
              /\ Perform("configure", c, ConfigureScript(c))
              /\ UNCHANGED <<session, tainted, abandoned>>

(* CoapRegisterConnection::start: the connection may have no configuration *)
(* or nothing to do.                                                       *)
StartConnection ==
  /\ Connected
  /\ IF conn'.configured = None
     THEN /\ ReturnAtOnce("not configured")
          /\ tainted' = TRUE /\ UNCHANGED session
     ELSE IF conn'.running
     THEN /\ ReturnAtOnce("ok") /\ UNCHANGED tainted
          /\ session' = [session EXCEPT !.running = TRUE]
     ELSE /\ Perform("start", conn'.configured, StartScript(conn'.configured))
          /\ UNCHANGED <<session, tainted>>

(* Mutant: stop only forgets that the stream runs.                         *)
ForgetStream ==
  /\ Connected
  /\ ReturnAtOnce("ok")
  /\ session' = [session EXCEPT !.running = FALSE]

(* CoapRegisterConnection::stop, likewise.                                 *)
StopConnection ==
  /\ Connected
  /\ IF conn'.configured # None /\ conn'.running
     THEN Perform("stop", session.applied, StopScript) /\ UNCHANGED session
     ELSE /\ ReturnAtOnce("ok")
          /\ session' = [session EXCEPT !.running = FALSE]

Start ==
  /\ CallStarts
  /\ UNCHANGED abandoned
  /\ \/ /\ session.running
        /\ ReturnAtOnce("ok") /\ UNCHANGED <<session, conn, tainted>>
     \/ ~session.running /\ ConnectFails
     \/ ~session.running /\ session.applied # None /\ StartConnection
     \/ session.applied = None /\ RequestRefused
     \/ /\ session.applied = None
        /\ Connected
        /\ Perform("configure and start", session.requested,
                   ConfigureScript(session.requested))
        /\ UNCHANGED <<session, tainted>>

Stop ==
  /\ CallStarts
  /\ \/ ~session.running /\ ReturnAtOnce("ok") /\ UNCHANGED <<session, conn>>
     \/ session.running /\ StopConnection
  /\ UNCHANGED <<tainted, abandoned>>

Disconnect ==
  /\ CallStarts
  /\ conn' = None
  /\ session' = [session EXCEPT !.running = FALSE]
  /\ abandoned' = (abandoned \/ session.running)
  /\ ReturnAtOnce("ok")
  /\ UNCHANGED tainted

---------------------------------------------------------------------------
(* RegisterClient::execute                                                 *)

(* What is left when an exchange ends: messages older than the bound are   *)
(* lost, and so are responses to a port that is closed again.              *)
Leftovers(messages) == {m \in messages : m.id + channel.lifetime > exchange.id}
Unread(messages) == IF channel.fixedPort THEN Leftovers(messages) ELSE {}

EndExchange ==
  /\ exchange' = [id |-> 0, attempts |-> 0]
  /\ requests' = Leftovers(requests)
  /\ responses' = Unread(responses)
  /\ UNCHANGED channel

Request(id, attempt) ==
  [id |-> id, attempt |-> attempt, access |-> Head(script)]

Send ==
  /\ call # None /\ exchange.id = 0
  /\ lastId' = lastId + 1
  /\ exchange' = [id |-> lastId + 1, attempts |-> 1]
  /\ requests' = requests \cup {Request(lastId + 1, 1)}
  /\ UNCHANGED <<registers, channel, responses, session, conn, call, script, result,
                 calls, losses, history>>

(* Mutant: the attempts are not counted.                                   *)
SameAttempt(n) == n

NextAttempt(n) == n + 1

AttemptsLeft == exchange.attempts < MaxAttempts

(* The read timeout elapses before a response arrives.                     *)
Resend ==
  /\ exchange.id # 0 /\ AttemptsLeft
  /\ exchange' = [exchange EXCEPT !.attempts = NextAttempt(@)]
  /\ requests' = requests \cup {Request(exchange.id, exchange.attempts + 1)}
  /\ UNCHANGED <<registers, channel, responses, session, conn, call, script, result,
                 lastId, calls, losses, history>>

(* The call returns the error; session and connection stay as they are.    *)
Fail ==
  /\ call' = None /\ script' = <<>> /\ result' = "error"
  /\ tainted' = TRUE
  /\ UNCHANGED <<session, conn, seen, writes, abandoned>>

GiveUp ==
  /\ exchange.id # 0 /\ ~AttemptsLeft
  /\ Fail /\ EndExchange
  /\ UNCHANGED <<registers, lastId, calls, losses>>

Succeed ==
  /\ call' = None /\ script' = <<>> /\ result' = "ok"
  /\ UNCHANGED seen

ConfigureDone(c) ==
  /\ conn' = [configured |-> c, running |-> FALSE]
  /\ session' = [session EXCEPT !.requested = c, !.applied = c,
                                !.running = FALSE]
  /\ tainted' = FALSE /\ abandoned' = FALSE

(* Mutant: the connection does not note that its stream runs.              *)
SetSessionOnly(running) ==
  /\ session' = [session EXCEPT !.running = running]
  /\ UNCHANGED <<conn, tainted, abandoned>>

SetRunning(running) ==
  /\ conn' = [conn EXCEPT !.running = running]
  /\ session' = [session EXCEPT !.running = running]
  /\ UNCHANGED <<tainted, abandoned>>

(* All accesses of the call have succeeded.                                *)
CallDone ==
  \/ call.op = "configure" /\ ConfigureDone(call.config) /\ Succeed
  \/ /\ call.op = "configure and start"
     /\ ConfigureDone(call.config)
     /\ Perform("start", call.config, StartScript(call.config))
     /\ UNCHANGED seen
  \/ call.op = "start" /\ SetRunning(TRUE) /\ Succeed
  \/ call.op = "stop" /\ SetRunning(FALSE) /\ Succeed

(* Mutant: the message id of a response is not compared.                   *)
AnyAnswer(m) == TRUE

(* The response belongs to this exchange (type, message id and token).     *)
IsAnswer(m) == m.id = exchange.id

(* A read must return a value; of a value read back, the fields that were  *)
(* set are compared.                                                       *)
Mismatch(m) ==
  /\ Head(script).kind # "put"
  /\ \/ m.value = None
     \/ /\ Head(script).kind = "get"
        /\ IF call.op = "stop" THEN m.value.enable
           ELSE m.value # Head(script).value

Rest(m) ==
  IF Head(script).kind = "fetch"
  THEN WriteBack("max", Word(m.value.n))
  ELSE Tail(script)

Accepted(m) ==
  /\ writes' = IF Head(script).kind = "put"
               THEN writes \cup {<<Head(script).register, Head(script).value>>}
               ELSE writes
  /\ \/ /\ Rest(m) # <<>>
        /\ script' = Rest(m)
        /\ UNCHANGED <<session, conn, call, result, seen, tainted, abandoned>>
     \/ Rest(m) = <<>> /\ CallDone

Receive(m) ==
  /\ exchange.id # 0
  /\ IF IsAnswer(m) /\ ~Mismatch(m) THEN Accepted(m) ELSE Fail
  /\ exchange' = [id |-> 0, attempts |-> 0]
  /\ requests' = Leftovers(requests)
  /\ responses' = Unread(responses \ {m})
  /\ UNCHANGED <<channel, registers, lastId, calls, losses>>

---------------------------------------------------------------------------
(* The device (handle_register_request) and the network                    *)

Serve(m) ==
  /\ requests' = requests \ {m}
  /\ registers' = IF m.access.kind = "put"
                  THEN [registers EXCEPT ![m.access.register] = m.access.value]
                  ELSE registers
  /\ responses' = responses \cup
       IF m.id = exchange.id \/ channel.fixedPort
       THEN {[id |-> m.id, attempt |-> m.attempt,
              value |-> IF m.access.kind = "put" THEN None
                        ELSE registers[m.access.register]]}
       ELSE {}
  /\ seen' = [r \in Registers |-> seen[r] \cup {registers'[r]}]
  /\ UNCHANGED <<channel, client, calls, losses, writes, tainted, abandoned>>

Lose ==
  /\ losses < channel.losses
  /\ losses' = losses + 1
  /\ \/ \E m \in requests : requests' = requests \ {m} /\ UNCHANGED responses
     \/ \E m \in responses : responses' = responses \ {m} /\ UNCHANGED requests
  /\ UNCHANGED <<channel, registers, client, calls, history>>

Calls ==
  /\ calls < channel.calls
  /\ \/ \E c \in Configs : Configure(c)
     \/ Describe \/ Start \/ Stop \/ Disconnect

Client == Send \/ Resend \/ GiveUp \/ (\E m \in responses : Receive(m))

Delivery == (\E m \in requests : Serve(m)) \/ Lose

Next == Calls \/ Client \/ Delivery

Spec == Init /\ [][Next]_vars

---------------------------------------------------------------------------
(* Properties                                                              *)

(* No message outlives its exchange.                                       *)
Prompt == channel.lifetime = 0

(* Every variable keeps its type.                                          *)
TypeOK ==
  /\ session.requested \in Configs
  /\ session.applied \in Configs \cup {None} /\ session.running \in BOOLEAN
  /\ session.described \in BOOLEAN
  /\ conn \in Connections \cup {None} /\ call \in CallRecords \cup {None}
  /\ registers \in [Registers -> Values]
  /\ exchange.attempts \in 0 .. MaxAttempts /\ exchange.id \in 0 .. lastId
  /\ call = None => script = <<>> /\ exchange.id = 0
  /\ result \in {"none", "pending", "ok", "error", "not configured"}

(* A write is taken as done only when it was: each value the call has been *)
(* told it wrote was in the device's register at some time during the      *)
(* call, whichever messages were lost, late or repeated, and before the    *)
(* value is read back (execute's comparison of message ids).               *)
WritesHappened == \A w \in writes : w[2] \in seen[w[1]]

(* The session and its connection agree on whether the stream runs, over   *)
(* failures and reconnects: the connection's early returns are never       *)
(* taken for a stream the session still has to start or stop.              *)
SessionMatchesConnection ==
  /\ session.running => conn # None /\ conn.running
  /\ conn # None /\ conn.running => session.running
  /\ conn # None /\ conn.configured # None => conn.configured = session.applied

(* Until a call fails, what the session believes between calls is what the *)
(* device's registers say: the applied configuration, and enabled exactly  *)
(* if running, unless the caller disconnected without stopping.  Needs a   *)
(* prompt network: a delayed retransmission is applied when it arrives.    *)
ViewIsCurrent ==
  Prompt /\ call = None /\ session.applied # None /\ ~tainted =>
    /\ registers.port.n = session.applied.port
    /\ registers.ip.n = session.applied.ip
    /\ registers.max.n = session.applied.size
    /\ ~abandoned => registers.max.enable = session.running

(* Every call returns: a silent device costs a bounded number of attempts. *)
CallsReturn == call # None ~> call = None

(* What backend.rs:340 says of the error of start: "stream must be         *)
(* configured before start".  After a disconnect the session keeps what it *)
(* applied, configure returns early, and start fails with that error.      *)
StartAfterConfigure == result = "not configured" => session.applied = None
=============================================================================
